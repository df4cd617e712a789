---------------------------- MODULE CharonProofs ----------------------------
(***************************************************************************)
(* Proofs about CharonTunnel, for every number of children, every set of   *)
(* credentials and every number of failures.                               *)
(***************************************************************************)
EXTENDS CharonTunnel, FiniteSetTheorems, TLAPS

-----------------------------------------------------------------------------
(* The inductive invariant.                                                *)

Conns == {"cmd", "evt"}
Packets == Events \cup [kind : {"answer"}, of : Commands, ok : BOOLEAN, matches : BOOLEAN]

\* What is on the wire: events only, or events and one answer.
AllEvents(s) == \A i \in DOMAIN s : IsEvent(s[i])

OneAnswer(s, command) ==
  \E j \in DOMAIN s :
    /\ ~IsEvent(s[j]) /\ s[j].of = command
    /\ \A i \in DOMAIN s : i # j => IsEvent(s[i])

\* A connection on which no command is under way.  One that stays poisoned can
\* deliver nothing any more.
Quiet(c) ==
  /\ c.request = NoCommand /\ ~c.refused /\ AllEvents(c.wire)
  /\ c.poisoned => c.broken /\ c.wire = <<>>

\* A connection with a command under way: it was refused, charon has not taken
\* it or works on it, or its answer is there.
Busy(c, command) ==
  /\ c.open /\ c.poisoned
  /\ c.broken => c.request = NoCommand
  /\ \/ c.refused /\ c.broken /\ c.wire = <<>>
     \/ ~c.refused /\ AllEvents(c.wire) /\ c.request \in {command, NoCommand}
     \/ ~c.refused /\ OneAnswer(c.wire, command) /\ c.request = NoCommand

WireInv ==
  /\ \A k \in Conns :
       IF todo # <<>> /\ k = InUse THEN Busy(conn[k], Head(todo)) ELSE Quiet(conn[k])
  /\ charon.job # 0 /\ charon.heard /\ conn["cmd"].open /\ ~conn["cmd"].broken =>
       at = "initiate" /\ conn["cmd"].request = NoCommand /\ AllEvents(conn["cmd"].wire)

\* Where run is, and what it has left to do there.
SetupKinds == {"version", "stats", "register", "terminate", "load"}

PlaceInv ==
  /\ sup = "running" <=> at # "none"
  /\ at \notin {"none", "connect"} => conn["evt"].open
  /\ at \in {"setup", "initiate", "wait", "subscribe", "watch"} => conn["cmd"].open
  /\ at \in {"none", "connect", "wait", "watch", "grace"} => todo = <<>>
  /\ at = "setup" => /\ todo # <<>> /\ todo[Len(todo)] = Load("conn")
                     /\ \A i \in DOMAIN todo : todo[i][1] \in SetupKinds
  /\ at = "initiate" => todo = <<Initiate>>
  /\ at = "subscribe" => todo = <<Register("log")>>
  /\ at = "close" =>
       todo \in {<<Terminate>>, <<Unregister("child"), Terminate>>,
                 <<Unregister("ike"), Unregister("child"), Terminate>>,
                 <<Unregister("log"), Unregister("ike"), Unregister("child"), Terminate>>}
  /\ at = "again" => todo = <<Terminate>>
  /\ at = "unload" => /\ todo # <<>>
                      /\ \A i \in DOMAIN todo : todo[i][1] = "unload"

\* What charon was made to load is known, or about to be.
JustLoaded(x) ==
  /\ Head(todo) = Load(x)
  /\ \E i \in DOMAIN conn["cmd"].wire :
       ~IsEvent(conn["cmd"].wire[i]) /\ conn["cmd"].wire[i].ok

StillToUnload(x) ==
  \/ \E i \in 2..Len(todo) : todo[i] = Unload(x)
  \/ Head(todo) = Unload(x) /\ AllEvents(conn[InUse].wire)

LoadedInv ==
  sup # "killed" =>
    \A x \in charon.loaded \ excused :
      /\ at \notin {"none", "connect"}
      /\ at = "setup" => x \in mine \/ JustLoaded(x)
      /\ at \in {"initiate", "wait", "subscribe", "watch", "close", "grace", "again"} => x \in mine
      /\ at = "unload" => StillToUnload(x)

\* No SA is left, nor one to come that is not excused.
NoneLeft == "sa" \notin excused => charon.job = 0 /\ charon.sa = "none"

\* An answer on the wire says that there was nothing to terminate.
Unmatched(s) == \A i \in DOMAIN s : IsEvent(s[i]) \/ (s[i].ok /\ ~s[i].matches)

\* charon works on an initiate whose SA teardown has to remove.
OwnJob == charon.job # 0 /\ "sa" \notin excused

\* Where that can be.
JobKnown ==
  OwnJob /\ sup # "killed" =>
    /\ "conn" \in charon.loaded \ excused
    /\ \/ at = "initiate" /\ AllEvents(conn["cmd"].wire)
       \/ at = "close" /\ (conn["cmd"].broken \/ ~conn["cmd"].open)
       \/ at = "grace"
       \/ at = "again" /\ charon.sa # "none"

\* What the answer to a terminate of teardown means: only an abandoned initiate,
\* on a connection that was dropped, goes on after a first look that found
\* nothing, and then there is a second one.
LookedFor ==
  at \in {"close", "again"} /\ Head(todo) = Terminate /\ ~AllEvents(conn[InUse].wire)
    => NoneLeft \/ (at = "close" /\ ~conn["cmd"].open /\ Unmatched(conn[InUse].wire))

SaInv ==
  /\ at \in {"none", "connect", "unload"} /\ sup # "killed" => NoneLeft
  /\ LookedFor /\ JobKnown
  /\ at \in {"initiate", "wait", "subscribe", "watch"} /\ ~conn["cmd"].broken
       => "conn" \in charon.loaded \ excused
  /\ at = "setup" /\ JustLoaded("conn") /\ ~conn["cmd"].broken
       => "conn" \in charon.loaded \ excused

Inv == TypeOK /\ PlaceInv /\ WireInv /\ LoadedInv /\ SaInv

-----------------------------------------------------------------------------
(* Sequences of packets.                                                   *)

Clients == ClientType(Events, Commands)

\* What is left when the first of a sequence of packets is taken.
LEMMA TailPackets ==
  ASSUME NEW s \in Seq(Packets), s # <<>>
  PROVE  /\ Tail(s) \in Seq(Packets) /\ Head(s) \in Packets
         /\ Len(s) > 0 /\ Len(Tail(s)) = Len(s) - 1
         /\ DOMAIN Tail(s) = 1..(Len(s) - 1) /\ DOMAIN s = 1..Len(s)
         /\ Head(s) = s[1] /\ 1 \in DOMAIN s
         /\ \A i \in DOMAIN Tail(s) : Tail(s)[i] = s[i + 1] /\ i + 1 \in DOMAIN s
         /\ \A i \in DOMAIN s : i # 1 => i - 1 \in DOMAIN Tail(s) /\ Tail(s)[i - 1] = s[i]
  OBVIOUS

\* What there is when packets are written after others.
LEMMA MorePackets ==
  ASSUME NEW s \in Seq(Packets), NEW t \in Seq(Packets)
  PROVE  /\ s \o t \in Seq(Packets)
         /\ Len(s \o t) = Len(s) + Len(t)
         /\ DOMAIN s = 1..Len(s) /\ DOMAIN t = 1..Len(t)
         /\ DOMAIN (s \o t) = 1..(Len(s) + Len(t))
         /\ \A i \in DOMAIN s : i \in DOMAIN (s \o t) /\ (s \o t)[i] = s[i]
         /\ \A i \in DOMAIN t : i + Len(s) \in DOMAIN (s \o t) /\ (s \o t)[i + Len(s)] = t[i]
         /\ \A i \in DOMAIN (s \o t) :
              \/ i \in DOMAIN s
              \/ i - Len(s) \in DOMAIN t /\ (s \o t)[i] = t[i - Len(s)]
  OBVIOUS

\* Reading an event leaves the answer, if there is one, and nothing else.
LEMMA EventRead ==
  ASSUME NEW s \in Seq(Packets), s # <<>>, IsEvent(Head(s)), NEW command
  PROVE  /\ AllEvents(Tail(s)) <=> AllEvents(s)
         /\ OneAnswer(s, command) => OneAnswer(Tail(s), command)
<1>1. AllEvents(Tail(s)) <=> AllEvents(s)
  <2>1. ASSUME AllEvents(Tail(s)) PROVE AllEvents(s)
    BY <2>1, TailPackets DEF AllEvents
  <2>2. ASSUME AllEvents(s) PROVE AllEvents(Tail(s))
    BY <2>2, TailPackets DEF AllEvents
  <2> QED
    BY <2>1, <2>2
<1>2. ASSUME OneAnswer(s, command) PROVE OneAnswer(Tail(s), command)
  <2>1. PICK j \in DOMAIN s : /\ ~IsEvent(s[j]) /\ s[j].of = command
                             /\ \A i \in DOMAIN s : i # j => IsEvent(s[i])
    BY <1>2 DEF OneAnswer
  <2>2. j # 1 /\ j \in Nat
    BY <2>1, TailPackets
  <2>3. /\ j - 1 \in DOMAIN Tail(s) /\ ~IsEvent(Tail(s)[j - 1]) /\ Tail(s)[j - 1].of = command
    BY <2>1, <2>2, TailPackets
  <2>4. \A i \in DOMAIN Tail(s) : i # j - 1 => IsEvent(Tail(s)[i])
    BY <2>1, <2>2, TailPackets
  <2> QED
    BY <2>3, <2>4 DEF OneAnswer
<1> QED
  BY <1>1, <1>2

\* Reading the answer leaves events only.
LEMMA AnswerRead ==
  ASSUME NEW s \in Seq(Packets), s # <<>>, ~IsEvent(Head(s)), NEW command, OneAnswer(s, command)
  PROVE  AllEvents(Tail(s)) /\ Head(s).of = command
<1>1. PICK j \in DOMAIN s : /\ ~IsEvent(s[j]) /\ s[j].of = command
                           /\ \A i \in DOMAIN s : i # j => IsEvent(s[i])
  BY DEF OneAnswer
<1>2. j = 1
  BY <1>1, TailPackets
<1> QED
  BY <1>1, <1>2, TailPackets DEF AllEvents

\* Events written after others change nothing about the answer.
LEMMA EventsWritten ==
  ASSUME NEW s \in Seq(Packets), NEW t \in Seq(Packets), AllEvents(t), NEW command
  PROVE  /\ AllEvents(s \o t) <=> AllEvents(s)
         /\ OneAnswer(s, command) => OneAnswer(s \o t, command)
<1>1. AllEvents(s \o t) <=> AllEvents(s)
  <2>1. ASSUME AllEvents(s) PROVE AllEvents(s \o t)
    BY <2>1, MorePackets DEF AllEvents
  <2>2. ASSUME AllEvents(s \o t) PROVE AllEvents(s)
    BY <2>2, MorePackets DEF AllEvents
  <2> QED
    BY <2>1, <2>2
<1>2. ASSUME OneAnswer(s, command) PROVE OneAnswer(s \o t, command)
  <2>1. PICK j \in DOMAIN s : /\ ~IsEvent(s[j]) /\ s[j].of = command
                             /\ \A i \in DOMAIN s : i # j => IsEvent(s[i])
    BY <1>2 DEF OneAnswer
  <2>2. j \in DOMAIN (s \o t) /\ (s \o t)[j] = s[j]
    BY MorePackets
  <2>3. \A i \in DOMAIN (s \o t) : i # j => IsEvent((s \o t)[i])
    BY <2>1, MorePackets DEF AllEvents
  <2> QED
    BY <2>1, <2>2, <2>3 DEF OneAnswer
<1> QED
  BY <1>1, <1>2

\* Nor about what an answer says.
LEMMA UnmatchedKept ==
  ASSUME NEW s \in Seq(Packets), Unmatched(s)
  PROVE  /\ \A t \in Seq(Packets) : AllEvents(t) => Unmatched(s \o t)
         /\ s # <<>> => Unmatched(Tail(s))
         /\ s # <<>> /\ ~IsEvent(Head(s)) => Head(s).ok /\ ~Head(s).matches
<1>1. ASSUME NEW t \in Seq(Packets), AllEvents(t) PROVE Unmatched(s \o t)
  BY <1>1, MorePackets DEF Unmatched, AllEvents
<1>2. ASSUME s # <<>> PROVE Unmatched(Tail(s))
  BY <1>2, TailPackets DEF Unmatched
<1>3. ASSUME s # <<>>, ~IsEvent(Head(s)) PROVE Head(s).ok /\ ~Head(s).matches
  BY <1>3, TailPackets DEF Unmatched
<1> QED
  BY <1>1, <1>2, <1>3

\* An answer written after events is the only one.
LEMMA AnswerWritten ==
  ASSUME NEW s \in Seq(Packets), AllEvents(s),
         NEW command \in Commands, NEW ok \in BOOLEAN, NEW matches \in BOOLEAN
  PROVE  LET t == s \o <<Answer(command, ok, matches)>>
         IN  /\ t \in Seq(Packets) /\ OneAnswer(t, command)
             /\ \A i \in DOMAIN t : ~IsEvent(t[i]) => t[i] = Answer(command, ok, matches)
             /\ ~AllEvents(t)
<1> DEFINE a == Answer(command, ok, matches)
<1>1. a \in Packets /\ ~IsEvent(a) /\ a.of = command
  BY DEF Packets, Answer, IsEvent
<1> HIDE DEF a
<1>2. /\ <<a>> \in Seq(Packets) /\ DOMAIN <<a>> = {1} /\ <<a>>[1] = a
  BY <1>1
<1>3. /\ s \o <<a>> \in Seq(Packets)
      /\ DOMAIN (s \o <<a>>) = 1..(Len(s) + 1) /\ DOMAIN s = 1..Len(s) /\ Len(s) \in Nat
      /\ \A i \in DOMAIN s : (s \o <<a>>)[i] = s[i]
      /\ (s \o <<a>>)[Len(s) + 1] = a
  BY <1>1
<1>4. \A i \in DOMAIN (s \o <<a>>) : i # Len(s) + 1 => IsEvent((s \o <<a>>)[i])
  BY <1>3 DEF AllEvents
<1>5. OneAnswer(s \o <<a>>, command) /\ ~AllEvents(s \o <<a>>)
  BY <1>1, <1>3, <1>4 DEF OneAnswer, AllEvents
<1>6. \A i \in DOMAIN (s \o <<a>>) : ~IsEvent((s \o <<a>>)[i]) => (s \o <<a>>)[i] = a
  BY <1>3, <1>4
<1> QED
  BY <1>3, <1>5, <1>6 DEF a

-----------------------------------------------------------------------------
(* One connection.                                                         *)

LEMMA ClientSet ==
  Clients = [open : BOOLEAN, poisoned : BOOLEAN, refused : BOOLEAN, pending : Seq(Events),
             request : Commands \cup {NoCommand}, wire : Seq(Packets), broken : BOOLEAN]
  BY DEF Clients, ClientType, Packets

LEMMA FreshClients ==
  /\ NewClient \in Clients /\ Dropped \in Clients /\ Quiet(NewClient) /\ Quiet(Dropped)
  /\ NewClient.open /\ ~Dropped.open /\ ~NewClient.broken
<1>1. <<>> \in Seq(Events) /\ <<>> \in Seq(Packets) /\ DOMAIN <<>> = {}
  OBVIOUS
<1>2. NewClient \in Clients /\ Dropped \in Clients
  BY <1>1, ClientSet DEF NewClient, Dropped
<1> QED
  BY <1>1, <1>2 DEF NewClient, Dropped, Quiet, AllEvents

\* A command on a connection that is free makes it busy with that command.
LEMMA SendStarts ==
  ASSUME NEW c \in Clients, Quiet(c), c.open, NEW command \in Commands
  PROVE  LET d == Send(c, command)
         IN  /\ d \in Clients /\ Busy(d, command)
             /\ d.open /\ d.broken = c.broken /\ d.wire = c.wire /\ AllEvents(d.wire)
  BY ClientSet DEF Quiet, Busy, Send

\* An event read while the command is under way.
LEMMA EventKeepsBusy ==
  ASSUME NEW c \in Clients, NEW command \in Commands, Busy(c, command),
         HasPacket(c), IsEvent(Head(c.wire)), NEW d \in {KeepEvent(c), RelayEvent(c)}
  PROVE  /\ d \in Clients /\ Busy(d, command)
         /\ d.open = c.open /\ d.broken = c.broken /\ d.request = c.request
         /\ d.wire = Tail(c.wire)
         /\ AllEvents(d.wire) <=> AllEvents(c.wire)
<1>1. c.wire \in Seq(Packets) /\ c.wire # <<>> /\ ~c.refused
  BY ClientSet DEF HasPacket
<1>2. Head(c.wire) \in Events /\ Tail(c.wire) \in Seq(Packets)
  BY <1>1 DEF Packets, IsEvent
<1>3. /\ AllEvents(Tail(c.wire)) <=> AllEvents(c.wire)
      /\ OneAnswer(c.wire, command) => OneAnswer(Tail(c.wire), command)
  BY <1>1, EventRead
<1>4. Append(c.pending, Head(c.wire)) \in Seq(Events)
  BY <1>2, ClientSet
<1>5. /\ d \in Clients /\ d.wire = Tail(c.wire) /\ d.open = c.open /\ d.broken = c.broken
      /\ d.request = c.request /\ d.poisoned = c.poisoned /\ d.refused = c.refused
  BY <1>2, <1>4, ClientSet DEF KeepEvent, RelayEvent
<1> QED
  BY <1>1, <1>3, <1>5 DEF Busy

\* The answer frees the connection, and is the command's own.
LEMMA AnswerFrees ==
  ASSUME NEW c \in Clients, NEW command \in Commands, Busy(c, command),
         HasPacket(c), ~IsEvent(Head(c.wire))
  PROVE  /\ TakeAnswer(c) \in Clients /\ Quiet(TakeAnswer(c))
         /\ TakeAnswer(c).open = c.open /\ TakeAnswer(c).broken = c.broken
         /\ OneAnswer(c.wire, command) /\ ~AllEvents(c.wire)
         /\ Head(c.wire) \in Packets \ Events
<1>1. c.wire \in Seq(Packets) /\ c.wire # <<>> /\ ~c.refused
  BY ClientSet DEF HasPacket
<1>2. /\ 1 \in DOMAIN c.wire /\ Head(c.wire) = c.wire[1] /\ Head(c.wire) \in Packets
      /\ Tail(c.wire) \in Seq(Packets)
  BY <1>1, TailPackets
<1>3. ~AllEvents(c.wire) /\ Head(c.wire) \notin Events
  BY <1>2 DEF AllEvents, Events, IkeEvent, ChildEvent, IsEvent
<1>4. OneAnswer(c.wire, command) /\ c.request = NoCommand
  BY <1>1, <1>3 DEF Busy
<1>5. AllEvents(Tail(c.wire))
  BY <1>1, <1>4, AnswerRead
<1>6. /\ TakeAnswer(c) \in Clients /\ TakeAnswer(c).wire = Tail(c.wire)
      /\ ~TakeAnswer(c).poisoned /\ TakeAnswer(c).open = c.open
      /\ TakeAnswer(c).broken = c.broken /\ TakeAnswer(c).request = c.request
      /\ TakeAnswer(c).refused = c.refused
  BY <1>2, ClientSet DEF TakeAnswer
<1> QED
  BY <1>1, <1>2, <1>3, <1>4, <1>5, <1>6 DEF Quiet

\* A failure frees it too: what may still be poisoned delivers nothing.
LEMMA FailureFrees ==
  ASSUME NEW c \in Clients, NEW command \in Commands, Busy(c, command),
         Fails(c), NEW d \in AfterFailure(c)
  PROVE  /\ d \in Clients /\ Quiet(d) /\ d.open = c.open /\ d.broken = c.broken /\ d.broken
         /\ c.wire = <<>> /\ AllEvents(c.wire)
<1>1. c.broken /\ c.wire = <<>> /\ c.request = NoCommand
  BY DEF Busy, Fails
<1>2. /\ d \in Clients /\ d.open = c.open /\ d.broken = c.broken /\ d.wire = c.wire
      /\ d.request = c.request /\ ~d.refused
  <2>1. CASE c.refused
    BY <2>1, ClientSet DEF AfterFailure
  <2>2. CASE ~c.refused
    BY <2>2, ClientSet DEF AfterFailure
  <2> QED
    BY <2>1, <2>2
<1> QED
  BY <1>1, <1>2 DEF Quiet, AllEvents

\* Events from charon, on a free or on a busy connection.
LEMMA EventsArrive ==
  ASSUME NEW c \in Clients, NEW t \in Seq(Events)
  PROVE  LET d == Write(c, t)
         IN  /\ d \in Clients /\ d.open = c.open /\ d.broken = c.broken
             /\ d.request = c.request /\ d.refused = c.refused
             /\ Quiet(c) => Quiet(d)
             /\ \A command \in Commands : Busy(c, command) => Busy(d, command)
             /\ AllEvents(d.wire) <=> AllEvents(c.wire)
             /\ Unmatched(c.wire) => Unmatched(d.wire)
<1>1. t \in Seq(Packets) /\ AllEvents(t)
  BY DEF Packets, AllEvents, IsEvent, Events, IkeEvent, ChildEvent
<1>2. c.wire \in Seq(Packets)
  BY ClientSet
<1>3. /\ c.wire \o t \in Seq(Packets)
      /\ AllEvents(c.wire \o t) <=> AllEvents(c.wire)
      /\ \A command \in Commands : OneAnswer(c.wire, command) => OneAnswer(c.wire \o t, command)
      /\ Unmatched(c.wire) => Unmatched(c.wire \o t)
  BY <1>1, <1>2, EventsWritten, MorePackets, UnmatchedKept
<1>4. CASE ~(c.open /\ ~c.broken)
  BY <1>4 DEF Write
<1>5. CASE c.open /\ ~c.broken
  <2>1. /\ Write(c, t) \in Clients /\ Write(c, t).wire = c.wire \o t
        /\ Write(c, t).open = c.open /\ Write(c, t).broken = c.broken
        /\ Write(c, t).request = c.request /\ Write(c, t).refused = c.refused
        /\ Write(c, t).poisoned = c.poisoned
    BY <1>3, <1>5, ClientSet DEF Write
  <2> QED
    BY <1>3, <1>5, <2>1 DEF Quiet, Busy
<1> QED
  BY <1>4, <1>5

\* charon takes the request or has taken it, and answers.
LEMMA AnswerArrives ==
  ASSUME NEW c \in Clients, NEW command \in Commands, Busy(c, command), ~c.refused,
         AllEvents(c.wire), ~c.broken,
         NEW ok \in BOOLEAN, NEW matches \in BOOLEAN
  PROVE  LET d == Write(Take(c), <<Answer(command, ok, matches)>>)
         IN  /\ d \in Clients /\ Busy(d, command) /\ d.open = c.open /\ d.broken = c.broken
             /\ d.request = NoCommand /\ ~AllEvents(d.wire)
             /\ \A i \in DOMAIN d.wire :
                  ~IsEvent(d.wire[i]) => d.wire[i].ok = ok /\ d.wire[i].matches = matches
<1> DEFINE t == c.wire \o <<Answer(command, ok, matches)>>
           d == Write(Take(c), <<Answer(command, ok, matches)>>)
<1>1. c.wire \in Seq(Packets)
  BY ClientSet
<1>2. /\ t \in Seq(Packets) /\ OneAnswer(t, command) /\ ~AllEvents(t)
      /\ \A i \in DOMAIN t : ~IsEvent(t[i]) => t[i].ok = ok /\ t[i].matches = matches
  <2>1. /\ t \in Seq(Packets) /\ OneAnswer(t, command) /\ ~AllEvents(t)
        /\ \A i \in DOMAIN t : ~IsEvent(t[i]) => t[i] = Answer(command, ok, matches)
    BY <1>1, AnswerWritten
  <2>2. Answer(command, ok, matches).ok = ok /\ Answer(command, ok, matches).matches = matches
    BY DEF Answer
  <2> QED
    BY <2>1, <2>2
<1>3. c.open /\ c.poisoned
  BY DEF Busy
<1> HIDE DEF t
<1>4. /\ d \in Clients /\ d.wire = t /\ d.open = c.open /\ d.broken = c.broken
      /\ d.request = NoCommand /\ d.refused = c.refused /\ d.poisoned = c.poisoned
  BY <1>2, <1>3, ClientSet DEF Write, Take, t
<1> HIDE DEF d
<1>5. Busy(d, command)
  BY <1>2, <1>3, <1>4 DEF Busy
<1> QED
  BY <1>2, <1>4, <1>5 DEF d

LEMMA BreakKeeps ==
  ASSUME NEW c \in Clients
  PROVE  /\ Break(c) \in Clients /\ Break(c).open = c.open /\ Break(c).broken
         /\ Break(c).wire = c.wire
         /\ Quiet(c) => Quiet(Break(c))
         /\ \A command \in Commands : Busy(c, command) => Busy(Break(c), command)
<1>1. /\ Break(c) \in Clients /\ Break(c).open = c.open /\ Break(c).broken
      /\ Break(c).wire = c.wire /\ Break(c).request = NoCommand
      /\ Break(c).poisoned = c.poisoned /\ Break(c).refused = c.refused
  BY ClientSet DEF Break
<1> QED
  BY <1>1 DEF Quiet, Busy

-----------------------------------------------------------------------------
(* The start of a list of commands.                                        *)

Places == {"none", "connect", "setup", "initiate", "wait", "subscribe", "watch",
           "close", "grace", "again", "unload"}
Results == {"none", "stopped", "down", "error"}

\* No command is under way on any connection, and no answer is to come.
Free(cs) == cs \in [Conns -> Clients] /\ \A k \in Conns : Quiet(cs[k])

Settled(cs) ==
  Free(cs) /\ (cs["cmd"].open /\ ~cs["cmd"].broken => ~(charon.job # 0 /\ charon.heard))

\* Where a step of run comes to stand.
Landed ==
  /\ conn' \in [Conns -> Clients] /\ todo' \in Seq(Commands)
  /\ at' \in Places /\ outcome' \in Results
  /\ PlaceInv' /\ WireInv'

LEMMA CommandFacts ==
  ASSUME NEW command \in Commands
  PROVE  /\ command[1] \in {"version", "stats", "initiate", "terminate", "load", "unload",
                            "register", "unregister"}
         /\ command # NoCommand
         /\ command[1] = "load" => command[2] \in Loads /\ command = Load(command[2])
         /\ command[1] = "unload" => command[2] \in Loads /\ command = Unload(command[2])
         /\ command[1] = "terminate" => command = Terminate
         /\ command[1] = "initiate" => command = Initiate
         /\ command[1] = "register" =>
              command[2] \in {"control-log", "ike", "child", "log"}
<1> DEFINE Said == {"control-log", "ike", "child", "log"}
<1>1. \/ command = <<"version", "">> \/ command = <<"stats", "">>
      \/ command = <<"initiate", "">> \/ command = <<"terminate", "">>
      \/ \E x \in Loads : command = <<"load", x>>
      \/ \E x \in Loads : command = <<"unload", x>>
      \/ \E e \in Said : command = <<"register", e>>
      \/ \E e \in Said : command = <<"unregister", e>>
  BY DEF Commands, Version, Stats, Initiate, Terminate, Load, Unload, Register, Unregister
<1>2. \A a, b : <<a, b>>[1] = a /\ <<a, b>>[2] = b
  OBVIOUS
<1>3. NoCommand[1] = "none"
  BY DEF NoCommand
<1>4. \/ command[1] = "version" /\ command = <<"version", "">>
      \/ command[1] = "stats" /\ command = <<"stats", "">>
      \/ command[1] = "initiate" /\ command = <<"initiate", "">>
      \/ command[1] = "terminate" /\ command = <<"terminate", "">>
      \/ command[1] = "load" /\ command[2] \in Loads /\ command = <<"load", command[2]>>
      \/ command[1] = "unload" /\ command[2] \in Loads /\ command = <<"unload", command[2]>>
      \/ command[1] = "register" /\ command[2] \in Said
      \/ command[1] = "unregister" /\ command[2] \in Said
  <2> HIDE DEF Said
  <2> QED
    BY <1>1, <1>2
<1> QED
  BY <1>3, <1>4 DEF Initiate, Terminate, Load, Unload

LEMMA OnFacts ==
  ASSUME NEW cs, NEW command \in Commands
  PROVE  /\ On(cs, command) \in Conns
         /\ \A ds : ds["cmd"].open = cs["cmd"].open => On(ds, command) = On(cs, command)
         /\ /\ cs["evt"].open
            /\ cs["cmd"].open \/ command[1] \in {"terminate", "unload", "unregister"}
            => cs[On(cs, command)].open
  BY DEF On, Control, Conns, Register

LEMMA BeginStarts ==
  ASSUME NEW cs, Free(cs), NEW phase, NEW commands \in Seq(Commands), commands # <<>>,
         cs["evt"].open,
         cs["cmd"].open \/ Head(commands)[1] \in {"terminate", "unload", "unregister"},
         Begin(cs, phase, commands)
  PROVE  /\ conn' \in [Conns -> Clients] /\ at' = phase /\ todo' = commands
         /\ \A k \in Conns : /\ conn'[k].open = cs[k].open /\ conn'[k].broken = cs[k].broken
                             /\ conn'[k].wire = cs[k].wire /\ AllEvents(conn'[k].wire)
                             /\ IF todo' # <<>> /\ k = InUse' THEN Busy(conn'[k], Head(todo'))
                                ELSE Quiet(conn'[k])
         /\ InUse' \in Conns /\ InUse' = On(cs, Head(commands))
<1> DEFINE c == Head(commands)
           k == On(cs, c)
<1>1. c \in Commands
  OBVIOUS
<1>2. k \in Conns /\ cs[k].open
  BY <1>1, OnFacts
<1>3. cs \in [Conns -> Clients] /\ \A j \in Conns : Quiet(cs[j])
  BY DEF Free
<1>4. conn' = [cs EXCEPT ![k] = Send(cs[k], c)] /\ at' = phase /\ todo' = commands
  BY DEF Begin
<1>5. /\ Send(cs[k], c) \in Clients /\ Busy(Send(cs[k], c), c)
      /\ Send(cs[k], c).open /\ Send(cs[k], c).broken = cs[k].broken
      /\ Send(cs[k], c).wire = cs[k].wire /\ AllEvents(Send(cs[k], c).wire)
  BY <1>1, <1>2, <1>3, SendStarts
<1> HIDE DEF k, c
<1>6. /\ conn' \in [Conns -> Clients] /\ conn'[k] = Send(cs[k], c)
      /\ \A j \in Conns : j # k => conn'[j] = cs[j]
  BY <1>2, <1>3, <1>4, <1>5
<1>7. \A j \in Conns : /\ conn'[j].open = cs[j].open /\ conn'[j].broken = cs[j].broken
                       /\ conn'[j].wire = cs[j].wire
  <2>1. cs[k].open = TRUE /\ Send(cs[k], c).open = TRUE
    BY <1>2, <1>3, <1>5, ClientSet
  <2> QED
    BY <2>1, <1>5, <1>6
<1>8. "cmd" \in Conns
  BY DEF Conns
<1>9. On(conn', c) = k
  <2>1. conn'["cmd"].open = cs["cmd"].open
    BY <1>7, <1>8
  <2>2. \A ds : ds["cmd"].open = cs["cmd"].open => On(ds, c) = On(cs, c)
    BY <1>1, OnFacts
  <2> QED
    BY <2>1, <2>2 DEF k
<1>10. InUse' = On(conn', Head(todo'))
  BY DEF InUse
<1>11. Head(todo') = c /\ InUse' = k
  BY <1>4, <1>9, <1>10 DEF c
<1>12. \A j \in Conns : /\ AllEvents(conn'[j].wire)
                        /\ IF todo' # <<>> /\ j = InUse' THEN Busy(conn'[j], Head(todo'))
                           ELSE Quiet(conn'[j])
  <2> TAKE j \in Conns
  <2>1. CASE j = k
    BY <2>1, <1>4, <1>5, <1>6, <1>11
  <2>2. CASE j # k
    BY <2>2, <1>3, <1>6, <1>11 DEF Quiet
  <2> QED
    BY <2>1, <2>2
<1> QED
  BY <1>2, <1>4, <1>6, <1>7, <1>11, <1>12 DEF k, c

\* Without an initiate of the client's under way, nothing is owed on cmd.
LEMMA BeginWire ==
  ASSUME NEW cs, Settled(cs), NEW phase, NEW commands \in Seq(Commands), commands # <<>>,
         cs["evt"].open,
         cs["cmd"].open \/ Head(commands)[1] \in {"terminate", "unload", "unregister"},
         Begin(cs, phase, commands), charon' = charon
  PROVE  WireInv'
<1>1. /\ \A k \in Conns : /\ conn'[k].open = cs[k].open /\ conn'[k].broken = cs[k].broken
                          /\ IF todo' # <<>> /\ k = InUse' THEN Busy(conn'[k], Head(todo'))
                             ELSE Quiet(conn'[k])
  BY BeginStarts DEF Settled
<1>2. "cmd" \in Conns
  BY DEF Conns
<1>3. ~(conn'["cmd"].open /\ ~conn'["cmd"].broken /\ charon'.job # 0 /\ charon'.heard)
  BY <1>1, <1>2 DEF Settled
<1> QED
  BY <1>1, <1>3 DEF WireInv

LEMMA CloseLands ==
  ASSUME NEW cs, Settled(cs), cs["evt"].open, NEW result \in Results, Close(cs, result),
         sup = "running", sup' = sup, charon' = charon
  PROVE  Landed /\ at' = "close"
<1> DEFINE commands ==
             IF cs["cmd"].open THEN <<Terminate>>
             ELSE <<Unregister("log"), Unregister("ike"), Unregister("child"), Terminate>>
<1>1. /\ Begin(cs, "close", commands) /\ outcome' = result
  BY DEF Close
<1>2. /\ Terminate \in Commands /\ Unregister("log") \in Commands
      /\ Unregister("ike") \in Commands /\ Unregister("child") \in Commands
  BY DEF Commands
<1>3. commands \in {<<Terminate>>,
         <<Unregister("log"), Unregister("ike"), Unregister("child"), Terminate>>}
  OBVIOUS
<1> HIDE DEF commands
<1>4. /\ commands \in Seq(Commands) /\ commands # <<>>
      /\ Head(commands) \in {Terminate, Unregister("log")}
  <2>1. \A a \in Commands : <<a>> \in Seq(Commands) /\ <<a>> # <<>> /\ Head(<<a>>) = a
    OBVIOUS
  <2>2. \A a, b, c, d \in Commands : /\ <<a, b, c, d>> \in Seq(Commands)
                                    /\ <<a, b, c, d>> # <<>> /\ Head(<<a, b, c, d>>) = a
    OBVIOUS
  <2>3. CASE commands = <<Terminate>>
    BY <2>1, <2>3, <1>2
  <2>4. CASE commands = <<Unregister("log"), Unregister("ike"), Unregister("child"), Terminate>>
    <3> DEFINE a == Unregister("log")
               b == Unregister("ike")
               c == Unregister("child")
               d == Terminate
    <3> HIDE DEF a, b, c, d
    <3>1. /\ <<a, b, c, d>> \in Seq(Commands) /\ <<a, b, c, d>> # <<>>
          /\ Head(<<a, b, c, d>>) = a
      BY <2>2, <1>2 DEF a, b, c, d
    <3> QED
      BY <2>4, <3>1 DEF a, b, c, d
  <2> QED
    BY <2>3, <2>4, <1>3
<1>5. Head(commands)[1] \in {"terminate", "unload", "unregister"}
  <2>1. Terminate[1] = "terminate" /\ Unregister("log")[1] = "unregister"
    BY DEF Terminate, Unregister
  <2> QED
    BY <1>4, <2>1
<1>6. /\ conn' \in [Conns -> Clients] /\ at' = "close" /\ todo' = commands
      /\ \A k \in Conns : conn'[k].open = cs[k].open
  BY <1>1, <1>4, <1>5, BeginStarts DEF Settled
<1>7. WireInv'
  BY <1>1, <1>4, <1>5, BeginWire
<1>8. conn'["evt"].open
  BY <1>6 DEF Conns
<1>9. PlaceInv'
  BY <1>3, <1>6, <1>8 DEF PlaceInv
<1> QED
  BY <1>1, <1>4, <1>6, <1>7, <1>9 DEF Landed, Places

LEMMA InitiateLands ==
  ASSUME NEW cs, Settled(cs), cs["evt"].open, cs["cmd"].open, StartInitiate(cs),
         sup = "running", sup' = sup, charon' = charon, outcome \in Results
  PROVE  Landed /\ at' \in {"initiate", "close"}
<1>1. CASE cancelled
  BY <1>1, CloseLands DEF StartInitiate, Results
<1>2. CASE ~cancelled
  <2>1. Begin(cs, "initiate", <<Initiate>>) /\ outcome' = outcome
    BY <1>2 DEF StartInitiate
  <2>2. <<Initiate>> \in Seq(Commands) /\ <<Initiate>> # <<>>
    BY DEF Commands
  <2>3. /\ conn' \in [Conns -> Clients] /\ at' = "initiate" /\ todo' = <<Initiate>>
        /\ \A k \in Conns : conn'[k].open = cs[k].open
    BY <2>1, <2>2, BeginStarts DEF Settled
  <2>4. WireInv'
    BY <2>1, <2>2, BeginWire
  <2>5. conn'["evt"].open /\ conn'["cmd"].open
    BY <2>3 DEF Conns
  <2>6. PlaceInv'
    BY <2>3, <2>5 DEF PlaceInv
  <2> QED
    BY <2>1, <2>2, <2>3, <2>4, <2>6 DEF Landed, Places
<1> QED
  BY <1>1, <1>2

LEMMA ReturnLands ==
  ASSUME Return
  PROVE  Landed /\ at' = "none" /\ sup' \in {"sleeping", "done"}
<1>1. /\ at' = "none" /\ todo' = <<>> /\ outcome' = "none" /\ sup' \in {"sleeping", "done"}
      /\ conn' = [c \in {"cmd", "evt"} |-> Dropped]
  BY DEF Return, Ends
<1>2. /\ conn' \in [Conns -> Clients] /\ \A k \in Conns : Quiet(conn'[k]) /\ ~conn'[k].open
  BY <1>1, FreshClients DEF Conns
<1>3. ~conn'["cmd"].open
  BY <1>2 DEF Conns
<1>4. WireInv'
  BY <1>1, <1>2, <1>3 DEF WireInv
<1>5. PlaceInv'
  BY <1>1 DEF PlaceInv
<1> QED
  BY <1>1, <1>2, <1>4, <1>5 DEF Landed, Places, Results

\* What unload has to do: an unload for each of what is loaded, and no other.
LEMMA UnloadCommands ==
  ASSUME NEW s \in Seq(Commands), \A i \in DOMAIN s : s[i][1] = "unload",
         NEW x \in Loads, NEW loaded
  PROVE  LET t == s \o (IF x \in loaded THEN <<Unload(x)>> ELSE <<>>)
         IN  /\ t \in Seq(Commands) /\ \A i \in DOMAIN t : t[i][1] = "unload"
             /\ x \in loaded => \E i \in DOMAIN t : t[i] = Unload(x)
             /\ \A y : (\E i \in DOMAIN s : s[i] = Unload(y))
                         => \E i \in DOMAIN t : t[i] = Unload(y)
<1>1. Unload(x) \in Commands /\ Unload(x)[1] = "unload"
  BY DEF Commands, Unload
<1>2. CASE x \notin loaded
  <2>1. s \o <<>> = s
    OBVIOUS
  <2> QED
    BY <1>2, <2>1
<1>3. CASE x \in loaded
  <2> DEFINE u == Unload(x)
             t == s \o <<u>>
  <2>1. u \in Commands /\ u[1] = "unload"
    BY <1>1
  <2> HIDE DEF u
  <2>2. /\ t \in Seq(Commands) /\ DOMAIN t = 1..(Len(s) + 1) /\ DOMAIN s = 1..Len(s)
        /\ Len(s) \in Nat
        /\ \A i \in DOMAIN s : t[i] = s[i]
        /\ t[Len(s) + 1] = u
    BY <2>1
  <2> HIDE DEF t
  <2>3. \A i \in DOMAIN t : t[i][1] = "unload"
    BY <2>1, <2>2
  <2>4. \E i \in DOMAIN t : t[i] = u
    BY <2>2
  <2>5. \A i \in DOMAIN s : i \in DOMAIN t /\ t[i] = s[i]
    BY <2>2
  <2>6. \A y : (\E i \in DOMAIN s : s[i] = Unload(y)) => \E i \in DOMAIN t : t[i] = Unload(y)
    BY <2>5
  <2> QED
    BY <1>3, <2>2, <2>3, <2>4, <2>6 DEF t, u
<1> QED
  BY <1>2, <1>3

LEMMA UnloadLands ==
  ASSUME NEW cs, Settled(cs), cs["evt"].open, StartUnload(cs), mine \in SUBSET Loads,
         sup = "running", charon' = charon, outcome \in Results
  PROVE  /\ Landed
         /\ \/ at' = "none" /\ mine = {} /\ Return
            \/ /\ at' = "unload" /\ sup' = sup /\ UNCHANGED <<supVars, mine, view>>
               /\ \A x \in mine : \E i \in DOMAIN todo' : todo'[i] = Unload(x)
               /\ \A k \in Conns : AllEvents(conn'[k].wire)
<1> DEFINE Part(x) == IF x \in mine THEN <<Unload(x)>> ELSE <<>>
           s1 == Part("conn")
           s2 == s1 \o Part("psk")
           s3 == s2 \o Part("eap")
           s4 == s3 \o Part("key")
           Good(s) == s \in Seq(Commands) /\ \A i \in DOMAIN s : s[i][1] = "unload"
           Has(s, x) == \E i \in DOMAIN s : s[i] = Unload(x)
<1>1. "conn" \in Loads /\ "psk" \in Loads /\ "eap" \in Loads /\ "key" \in Loads
  BY DEF Loads, Secrets
<1>2. Good(<<>>)
  OBVIOUS
<1>3. <<>> \o s1 = s1
  BY <1>1 DEF Unload
<1> HIDE DEF s1
<1>4. Good(s1) /\ ("conn" \in mine => Has(s1, "conn"))
  <2>1. LET t == <<>> \o (IF "conn" \in mine THEN <<Unload("conn")>> ELSE <<>>)
        IN  Good(t) /\ ("conn" \in mine => Has(t, "conn"))
    BY <1>1, <1>2, UnloadCommands
  <2> QED
    BY <2>1, <1>3 DEF s1
<1>5. Good(s2) /\ ("psk" \in mine => Has(s2, "psk")) /\ (\A y : Has(s1, y) => Has(s2, y))
  BY <1>1, <1>4, UnloadCommands
<1> HIDE DEF s2
<1>6. Good(s3) /\ ("eap" \in mine => Has(s3, "eap")) /\ (\A y : Has(s2, y) => Has(s3, y))
  BY <1>1, <1>5, UnloadCommands
<1> HIDE DEF s3
<1>7. Good(s4) /\ ("key" \in mine => Has(s4, "key")) /\ (\A y : Has(s3, y) => Has(s4, y))
  BY <1>1, <1>6, UnloadCommands
<1> HIDE DEF s4
<1>8. \A x \in mine : Has(s4, x)
  <2> HIDE DEF Has, Good
  <2>1. mine \subseteq {"conn", "psk", "eap", "key"}
    BY DEF Loads, Secrets
  <2> QED
    BY <2>1, <1>4, <1>5, <1>6, <1>7
<1>9. IF s4 = <<>> THEN Return
      ELSE Begin(cs, "unload", s4) /\ UNCHANGED <<supVars, outcome, mine, view>>
  BY DEF StartUnload, s1, s2, s3, s4
<1>10. CASE s4 = <<>>
  <2>1. mine = {}
    BY <1>8, <1>10
  <2> QED
    BY <1>9, <1>10, <2>1, ReturnLands
<1>11. CASE s4 # <<>>
  <2>1. Begin(cs, "unload", s4) /\ UNCHANGED <<supVars, outcome, mine, view>>
    BY <1>9, <1>11
  <2>2. Head(s4)[1] = "unload"
    <3>1. 1 \in DOMAIN s4 /\ Head(s4) = s4[1]
      BY <1>7, <1>11
    <3> QED
      BY <3>1, <1>7
  <2>3. /\ conn' \in [Conns -> Clients] /\ at' = "unload" /\ todo' = s4
        /\ \A k \in Conns : conn'[k].open = cs[k].open /\ AllEvents(conn'[k].wire)
    BY <1>7, <1>11, <2>1, <2>2, BeginStarts DEF Settled
  <2>4. WireInv'
    BY <1>7, <1>11, <2>1, <2>2, BeginWire
  <2>5. conn'["evt"].open
    BY <2>3 DEF Conns
  <2>6. PlaceInv'
    BY <1>7, <1>11, <2>1, <2>3, <2>5 DEF PlaceInv, supVars
  <2> QED
    BY <1>7, <1>8, <2>1, <2>3, <2>4, <2>6 DEF Landed, Places, supVars
<1> QED
  BY <1>10, <1>11

-----------------------------------------------------------------------------
(* The end of a command.                                                   *)

LEMMA TailCommands ==
  ASSUME NEW s \in Seq(Commands), s # <<>>
  PROVE  /\ Tail(s) \in Seq(Commands) /\ Head(s) \in Commands
         /\ Len(s) \in Nat \ {0} /\ Len(Tail(s)) = Len(s) - 1
         /\ DOMAIN Tail(s) = 1..(Len(s) - 1) /\ DOMAIN s = 1..Len(s)
         /\ Head(s) = s[1] /\ 1 \in DOMAIN s
         /\ Tail(s) # <<>> <=> Len(s) > 1
         /\ Tail(s) # <<>> => /\ Head(Tail(s)) = s[2] /\ 2 \in DOMAIN s
                              /\ Tail(s)[Len(Tail(s))] = s[Len(s)]
         /\ \A i \in DOMAIN Tail(s) : Tail(s)[i] = s[i + 1] /\ i + 1 \in DOMAIN s
         /\ \A i \in DOMAIN s : i # 1 => i - 1 \in DOMAIN Tail(s) /\ Tail(s)[i - 1] = s[i]
<1>1. /\ Tail(s) \in Seq(Commands) /\ Head(s) \in Commands
      /\ Len(s) \in Nat \ {0} /\ Len(Tail(s)) = Len(s) - 1
      /\ DOMAIN Tail(s) = 1..(Len(s) - 1) /\ DOMAIN s = 1..Len(s)
      /\ Head(s) = s[1] /\ 1 \in DOMAIN s
  OBVIOUS
<1>2. \A i \in DOMAIN Tail(s) : Tail(s)[i] = s[i + 1] /\ i + 1 \in DOMAIN s
  BY <1>1
<1>3. Tail(s) # <<>> <=> Len(s) > 1
  <2>1. \A t \in Seq(Commands) : t = <<>> <=> Len(t) = 0
    OBVIOUS
  <2>2. Tail(s) = <<>> <=> Len(Tail(s)) = 0
    BY <1>1, <2>1
  <2> QED
    BY <1>1, <2>2
<1> QED
  BY <1>1, <1>2, <1>3

LEMMA LastCommand ==
  ASSUME NEW s \in Seq(Commands), s # <<>>, Tail(s) = <<>>
  PROVE  Len(s) = 1 /\ Head(s) = s[1]
<1>1. Len(Tail(s)) = Len(s) - 1 /\ Len(s) \in Nat \ {0} /\ Head(s) = s[1]
  OBVIOUS
<1> DEFINE t == Tail(s)
<1>2. t = <<>> /\ Len(t) = Len(s) - 1
  BY <1>1
<1> HIDE DEF t
<1>3. Len(t) = 0
  BY <1>2
<1> QED
  BY <1>1, <1>2, <1>3

LEMMA ShortLists ==
  ASSUME NEW a \in Commands, NEW b \in Commands, NEW c \in Commands, NEW d \in Commands
  PROVE  /\ Head(<<a>>) = a /\ Head(<<a, b>>) = a /\ Head(<<a, b, c>>) = a
         /\ Head(<<a, b, c, d>>) = a
         /\ Tail(<<a>>) = <<>> /\ Tail(<<a, b>>) = <<b>>
         /\ Tail(<<a, b, c>>) = <<b, c>> /\ Tail(<<a, b, c, d>>) = <<b, c, d>>
         /\ <<a>> # <<>> /\ <<a, b>> # <<>> /\ <<a, b, c>> # <<>>
  OBVIOUS

\* The lists of teardown, one command at a time.
LEMMA CloseLists ==
  ASSUME at = "close", PlaceInv
  PROVE  \/ todo = <<Terminate>> /\ Head(todo) = Terminate /\ Tail(todo) = <<>>
         \/ /\ Head(todo) \in {Unregister("child"), Unregister("ike"), Unregister("log")}
            /\ Head(todo)[1] = "unregister"
            /\ Tail(todo) \in {<<Terminate>>, <<Unregister("child"), Terminate>>,
                               <<Unregister("ike"), Unregister("child"), Terminate>>}
            /\ Head(Tail(todo)) \in {Terminate, Unregister("child"), Unregister("ike")}
            /\ Tail(todo) # <<>>
<1> DEFINE a == Terminate
           b == Unregister("child")
           c == Unregister("ike")
           d == Unregister("log")
<1>1. a \in Commands /\ b \in Commands /\ c \in Commands /\ d \in Commands
  BY DEF Commands
<1>2. b[1] = "unregister" /\ c[1] = "unregister" /\ d[1] = "unregister"
  BY DEF Unregister
<1>3. todo \in {<<a>>, <<b, a>>, <<c, b, a>>, <<d, c, b, a>>}
  BY DEF PlaceInv
<1> HIDE DEF a, b, c, d
<1>4. CASE todo = <<a>>
  <2>1. Head(todo) = a /\ Tail(todo) = <<>>
    BY <1>1, <1>4, ShortLists
  <2> QED
    BY <1>4, <2>1 DEF a
<1>5. CASE todo = <<b, a>>
  <2>1. Head(todo) = b /\ Tail(todo) = <<a>> /\ Head(Tail(todo)) = a /\ <<a>> # <<>>
    BY <1>1, <1>5, ShortLists
  <2> QED
    BY <1>2, <2>1 DEF a, b
<1>6. CASE todo = <<c, b, a>>
  <2>1. /\ Head(todo) = c /\ Tail(todo) = <<b, a>> /\ Head(Tail(todo)) = b
        /\ <<b, a>> # <<>>
    BY <1>1, <1>6, ShortLists
  <2> QED
    BY <1>2, <2>1 DEF a, b, c
<1>7. CASE todo = <<d, c, b, a>>
  <2>1. /\ Head(todo) = d /\ Tail(todo) = <<c, b, a>> /\ Head(Tail(todo)) = c
        /\ <<c, b, a>> # <<>>
    BY <1>1, <1>7, ShortLists
  <2> QED
    BY <1>2, <2>1 DEF a, b, c, d
<1> QED
  BY <1>3, <1>4, <1>5, <1>6, <1>7

\* The commands of the set-up.
LEMMA SetupEndsLands ==
  ASSUME NEW cs, Settled(cs), cs["evt"].open, cs["cmd"].open, NEW ok, SetupEnds(cs, ok),
         PlaceInv, todo \in Seq(Commands), charon' = charon, outcome \in Results
  PROVE  Landed /\ at' \in {"setup", "initiate", "close"}
<1>1. /\ todo # <<>> /\ todo[Len(todo)] = Load("conn") /\ sup = "running"
      /\ \A i \in DOMAIN todo : todo[i][1] \in SetupKinds
      /\ sup' = sup
  BY DEF SetupEnds, PlaceInv, supVars
<1>2. CASE Close(cs, "error") \/ Close(cs, "stopped")
  BY <1>1, <1>2, CloseLands DEF Results
<1>3. CASE StartInitiate(cs)
  BY <1>1, <1>3, InitiateLands
<1>4. CASE Tail(todo) # <<>> /\ Begin(cs, "setup", Tail(todo)) /\ UNCHANGED outcome
  <2>1. Tail(todo) \in Seq(Commands)
    BY <1>1, TailCommands
  <2>2. /\ conn' \in [Conns -> Clients] /\ at' = "setup" /\ todo' = Tail(todo)
        /\ \A k \in Conns : conn'[k].open = cs[k].open
    BY <1>4, <2>1, BeginStarts DEF Settled
  <2>3. WireInv'
    BY <1>4, <2>1, BeginWire
  <2>4. conn'["evt"].open /\ conn'["cmd"].open
    BY <2>2 DEF Conns
  <2>5. /\ Tail(todo)[Len(Tail(todo))] = Load("conn")
        /\ \A i \in DOMAIN Tail(todo) : Tail(todo)[i][1] \in SetupKinds
    BY <1>1, <1>4, TailCommands
  <2>6. PlaceInv'
    BY <1>1, <1>4, <2>2, <2>4, <2>5 DEF PlaceInv
  <2> QED
    BY <1>4, <2>1, <2>2, <2>3, <2>6 DEF Landed, Places
<1> QED
  BY <1>2, <1>3, <1>4 DEF SetupEnds

\* initiate, and the subscription to the log.
LEMMA InitiateEndsLands ==
  ASSUME NEW cs, Settled(cs), cs["evt"].open, cs["cmd"].open, NEW ok,
         InitiateEnds(cs, ok) \/ SubscribeEnds(cs),
         PlaceInv, charon' = charon, outcome \in Results
  PROVE  Landed /\ at' \in {"wait", "watch", "close"}
<1>1. sup = "running" /\ sup' = sup
  BY DEF InitiateEnds, SubscribeEnds, PlaceInv, supVars
<1>2. CASE Close(cs, "error")
  BY <1>1, <1>2, CloseLands DEF Results
<1>3. CASE at' \in {"wait", "watch"} /\ todo' = <<>> /\ conn' = cs /\ UNCHANGED outcome
  <2>1. PlaceInv'
    BY <1>1, <1>3 DEF PlaceInv
  <2>2. WireInv'
    BY <1>3 DEF WireInv, Settled, Free
  <2> QED
    BY <1>3, <2>1, <2>2 DEF Landed, Places, Settled, Free
<1> QED
  BY <1>2, <1>3 DEF InitiateEnds, SubscribeEnds

\* The commands of teardown.
LEMMA CloseEndsLands ==
  ASSUME NEW cs, Settled(cs), cs["evt"].open, NEW ok, NEW matches, CloseEnds(cs, ok, matches),
         PlaceInv, todo \in Seq(Commands), charon' = charon, outcome \in Results,
         mine \in SUBSET Loads
  PROVE  Landed /\ at' \in {"close", "grace", "unload", "none"}
<1>1. sup = "running" /\ at \in {"close", "again", "unload"} /\ todo # <<>>
  BY DEF CloseEnds, PlaceInv
<1>2. CASE StartUnload(cs)
  BY <1>1, <1>2, UnloadLands
<1>3. CASE Return
  BY <1>3, ReturnLands
<1>4. CASE /\ at' = "grace" /\ todo' = <<>> /\ conn' = cs
           /\ UNCHANGED <<supVars, outcome, mine, view>>
  <2>1. PlaceInv'
    BY <1>1, <1>4 DEF PlaceInv, supVars
  <2>2. WireInv'
    BY <1>4 DEF WireInv, Settled, Free
  <2> QED
    BY <1>4, <2>1, <2>2 DEF Landed, Places, Settled, Free
<1>5. CASE /\ Head(todo)[1] = "unregister" /\ Begin(cs, "close", Tail(todo))
           /\ UNCHANGED <<supVars, outcome, mine, view>>
  <2>1. at = "close"
    <3>1. Head(todo) = todo[1] /\ 1 \in DOMAIN todo
      BY <1>1, TailCommands
    <3>2. at = "unload" => Head(todo)[1] = "unload"
      BY <3>1 DEF PlaceInv
    <3>3. at = "again" => Head(todo) = Terminate
      BY DEF PlaceInv
    <3>4. Terminate[1] = "terminate"
      BY DEF Terminate
    <3> QED
      BY <1>1, <1>5, <3>2, <3>3, <3>4
  <2>2. Terminate[1] = "terminate" /\ \A e : Unregister(e)[1] = "unregister"
    BY DEF Terminate, Unregister
  <2>3. /\ Tail(todo) \in {<<Terminate>>, <<Unregister("child"), Terminate>>,
                           <<Unregister("ike"), Unregister("child"), Terminate>>}
        /\ Head(Tail(todo)) \in {Terminate, Unregister("child"), Unregister("ike")}
        /\ Tail(todo) # <<>>
    BY <1>5, <2>1, <2>2, CloseLists
  <2>4. Head(Tail(todo))[1] \in {"terminate", "unload", "unregister"}
    BY <2>2, <2>3
  <2>5. Tail(todo) \in Seq(Commands)
    BY <1>1, TailCommands
  <2>6. /\ conn' \in [Conns -> Clients] /\ at' = "close" /\ todo' = Tail(todo)
        /\ \A k \in Conns : conn'[k].open = cs[k].open
    BY <1>5, <2>3, <2>4, <2>5, BeginStarts DEF Settled
  <2>7. WireInv'
    BY <1>5, <2>3, <2>4, <2>5, BeginWire
  <2>8. conn'["evt"].open
    BY <2>6 DEF Conns
  <2>9. PlaceInv'
    BY <1>1, <1>5, <2>3, <2>6, <2>8 DEF PlaceInv, supVars
  <2> QED
    BY <1>5, <2>5, <2>6, <2>7, <2>9 DEF Landed, Places
<1>6. CASE /\ Head(todo)[1] # "unregister" /\ Head(todo) # Terminate /\ Tail(todo) # <<>>
           /\ Begin(cs, "unload", Tail(todo)) /\ UNCHANGED <<supVars, outcome, mine, view>>
  <2>1. at = "unload"
    <3>1. at = "again" => Head(todo) = Terminate
      BY DEF PlaceInv
    <3>2. \A e : Unregister(e)[1] = "unregister"
      BY DEF Unregister
    <3>3. at = "close" => Head(todo) \in {Terminate, Unregister("child"), Unregister("ike"),
                                          Unregister("log")}
      BY CloseLists
    <3> QED
      BY <1>1, <1>6, <3>1, <3>2, <3>3
  <2>2. \A i \in DOMAIN todo : todo[i][1] = "unload"
    BY <2>1 DEF PlaceInv
  <2>3. /\ Tail(todo) \in Seq(Commands) /\ Head(Tail(todo))[1] = "unload"
        /\ \A i \in DOMAIN Tail(todo) : Tail(todo)[i][1] = "unload"
    BY <1>1, <1>6, <2>2, TailCommands
  <2>4. /\ conn' \in [Conns -> Clients] /\ at' = "unload" /\ todo' = Tail(todo)
        /\ \A k \in Conns : conn'[k].open = cs[k].open
    BY <1>6, <2>3, BeginStarts DEF Settled
  <2>5. WireInv'
    BY <1>6, <2>3, BeginWire
  <2>6. conn'["evt"].open
    BY <2>4 DEF Conns
  <2>7. PlaceInv'
    BY <1>1, <1>6, <2>3, <2>4, <2>6 DEF PlaceInv, supVars
  <2> QED
    BY <1>6, <2>3, <2>4, <2>5, <2>7 DEF Landed, Places
<1> QED
  BY <1>2, <1>3, <1>4, <1>5, <1>6 DEF CloseEnds

-----------------------------------------------------------------------------
(* Types, places and wires: every step.                                    *)

Base == TypeOK /\ PlaceInv /\ WireInv

Views == [ikeUp : BOOLEAN, ikeDown : BOOLEAN, tunnelUp : BOOLEAN, up : SUBSET Kids]
Charons == [loaded : SUBSET Loads, sa : {"none", "connecting", "up"}, kids : SUBSET Kids,
            job : 0..Children, heard : BOOLEAN, subs : SUBSET {"ike", "child", "log"}]

LEMMA Types ==
  TypeOK <=> /\ SupTypeOK /\ needs \in Credentials /\ at \in Places
             /\ conn \in [Conns -> Clients] /\ todo \in Seq(Commands) /\ index \in Kids
             /\ view \in Views /\ mine \in SUBSET Loads /\ outcome \in Results
             /\ charon \in Charons
             /\ drops \in 0..MaxDrops /\ breaks \in 0..MaxBreaks
             /\ trusted \subseteq Kids /\ excused \subseteq Loads \cup {"sa"}
  BY DEF TypeOK, Places, Conns, Clients, Views, Results, Charons

LEMMA TypesNext ==
  TypeOK' <=> /\ SupTypeOK' /\ needs' \in Credentials /\ at' \in Places
              /\ conn' \in [Conns -> Clients] /\ todo' \in Seq(Commands) /\ index' \in Kids
              /\ view' \in Views /\ mine' \in SUBSET Loads /\ outcome' \in Results
              /\ charon' \in Charons
              /\ drops' \in 0..MaxDrops /\ breaks' \in 0..MaxBreaks
              /\ trusted' \subseteq Kids /\ excused' \subseteq Loads \cup {"sa"}
  BY DEF TypeOK, Places, Conns, Clients, Views, Results, Charons

LEMMA NewViewType == NewView \in Views
  BY DEF NewView, Views

LEMMA NewCharonType ==
  ASSUME NEW stale \in BOOLEAN
  PROVE  NewCharon(stale) \in Charons
  BY ChildrenAssumption DEF NewCharon, Charons

LEMMA DroppedPair ==
  ASSUME NEW cs, cs = [c \in {"cmd", "evt"} |-> Dropped]
  PROVE  /\ cs \in [Conns -> Clients] /\ \A k \in Conns : Quiet(cs[k]) /\ ~cs[k].open
         /\ ~cs["cmd"].open
  BY FreshClients DEF Conns

LEMMA BaseInit == Init => Base
<1> SUFFICES ASSUME Init PROVE Base
  OBVIOUS
<1>1. SupTypeOK
  BY DEF Init, SupInit, SupTypeOK
<1>2. charon \in Charons /\ excused \subseteq Loads \cup {"sa"}
  BY NewCharonType DEF Init
<1>3. /\ conn \in [Conns -> Clients] /\ \A k \in Conns : Quiet(conn[k])
      /\ ~conn["cmd"].open
  BY DroppedPair DEF Init
<1>4. TypeOK
  BY <1>1, <1>2, <1>3, Types, NewViewType, ChildrenAssumption, BoundsAssumption
     DEF Init, Places, Results, Kids
<1>5. PlaceInv
  BY DEF Init, SupInit, PlaceInv
<1>6. WireInv
  BY <1>3 DEF Init, WireInv
<1> QED
  BY <1>4, <1>5, <1>6 DEF Base

\* The connection in use is busy with the command under way, the other is not.
LEMMA UnderWay ==
  ASSUME Base, todo # <<>>
  PROVE  /\ Head(todo) \in Commands /\ InUse \in Conns /\ conn[InUse] \in Clients
         /\ Busy(conn[InUse], Head(todo))
         /\ \A k \in Conns : k # InUse => Quiet(conn[k])
         /\ at \in {"setup", "initiate", "subscribe", "close", "again", "unload"}
         /\ sup = "running" /\ conn["evt"].open
         /\ at \in {"setup", "initiate", "subscribe"} => conn["cmd"].open
<1>1. Head(todo) \in Commands
  BY Types, TailCommands DEF Base
<1>2. InUse \in Conns
  BY <1>1, OnFacts DEF InUse
<1>3. Busy(conn[InUse], Head(todo)) /\ \A k \in Conns : k # InUse => Quiet(conn[k])
  BY <1>2 DEF Base, WireInv
<1>4. /\ at \in {"setup", "initiate", "subscribe", "close", "again", "unload"}
  BY Types DEF Base, PlaceInv, Places
<1>5. /\ sup = "running" /\ conn["evt"].open
      /\ at \in {"setup", "initiate", "subscribe"} => conn["cmd"].open
  BY <1>4 DEF Base, PlaceInv
<1>6. conn[InUse] \in Clients
  BY <1>2, Types DEF Base
<1> QED
  BY <1>1, <1>2, <1>3, <1>4, <1>5, <1>6

\* At initiate, the command connection is in use.
LEMMA InitiateInUse ==
  ASSUME Base, at = "initiate"
  PROVE  todo = <<Initiate>> /\ todo # <<>> /\ Head(todo) = Initiate /\ InUse = "cmd"
<1>1. todo = <<Initiate>>
  BY DEF Base, PlaceInv
<1>2. todo # <<>> /\ Head(todo) = Initiate
  <2>1. Initiate \in Commands
    BY DEF Commands
  <2> QED
    BY <1>1, <2>1, ShortLists
<1>3. On(conn, Initiate) = "cmd"
  BY DEF On, Initiate, Register
<1> QED
  BY <1>1, <1>2, <1>3 DEF InUse

\* Once the command under way has its answer or failed, none is under way.
LEMMA Freed ==
  ASSUME Base, todo # <<>>, NEW d \in Clients, Quiet(d),
         d.open = conn[InUse].open, d.broken = conn[InUse].broken,
         ~AllEvents(conn[InUse].wire) \/ d.broken
  PROVE  LET cs == [conn EXCEPT ![InUse] = d]
         IN  /\ Settled(cs)
             /\ \A k \in Conns : cs[k].open = conn[k].open /\ cs[k].broken = conn[k].broken
             /\ cs["evt"].open /\ cs["cmd"].open = conn["cmd"].open
             /\ cs["cmd"].broken = conn["cmd"].broken
<1> DEFINE cs == [conn EXCEPT ![InUse] = d]
<1>1. /\ InUse \in Conns /\ \A k \in Conns : k # InUse => Quiet(conn[k])
      /\ conn["evt"].open /\ conn \in [Conns -> Clients]
  BY UnderWay, Types DEF Base
<1>2. /\ cs \in [Conns -> Clients] /\ cs[InUse] = d
      /\ \A k \in Conns : k # InUse => cs[k] = conn[k]
  BY <1>1
<1> HIDE DEF cs
<1>3. Free(cs)
  BY <1>1, <1>2 DEF Free
<1>4. \A k \in Conns : cs[k].open = conn[k].open /\ cs[k].broken = conn[k].broken
  BY <1>1, <1>2
<1>5. /\ cs["evt"].open /\ cs["cmd"].open = conn["cmd"].open
      /\ cs["cmd"].broken = conn["cmd"].broken
  BY <1>1, <1>4 DEF Conns
<1>6. ASSUME cs["cmd"].open, ~cs["cmd"].broken, charon.job # 0, charon.heard
      PROVE  FALSE
  <2>1. at = "initiate" /\ AllEvents(conn["cmd"].wire)
    BY <1>5, <1>6 DEF Base, WireInv
  <2>2. InUse = "cmd"
    BY <2>1, InitiateInUse
  <2>3. d.broken = cs["cmd"].broken
    BY <1>2, <2>2
  <2> QED
    BY <1>6, <2>1, <2>2, <2>3
<1> QED
  BY <1>3, <1>4, <1>5, <1>6 DEF Settled, cs

LEMMA EndedLands ==
  ASSUME Base, todo # <<>>, NEW cs, Settled(cs), cs["evt"].open,
         cs["cmd"].open = conn["cmd"].open, NEW ok, NEW matches, Ended(cs, ok, matches),
         charon' = charon
  PROVE  Landed
<1>1. /\ at \in {"setup", "initiate", "subscribe"} => cs["cmd"].open
      /\ todo \in Seq(Commands) /\ outcome \in Results /\ mine \in SUBSET Loads /\ PlaceInv
  BY UnderWay, Types DEF Base
<1>2. CASE SetupEnds(cs, ok)
  <2>1. at = "setup"
    BY <1>2 DEF SetupEnds
  <2> QED
    BY <1>1, <1>2, <2>1, SetupEndsLands
<1>3. CASE InitiateEnds(cs, ok) \/ SubscribeEnds(cs)
  <2>1. at \in {"initiate", "subscribe"}
    BY <1>3 DEF InitiateEnds, SubscribeEnds
  <2> QED
    BY <1>1, <1>3, <2>1, InitiateEndsLands
<1>4. CASE CloseEnds(cs, ok, matches)
  BY <1>1, <1>4, CloseEndsLands
<1> QED
  BY <1>2, <1>3, <1>4 DEF Ended

\* What a command's end changes besides.
LEMMA EndedTypes ==
  ASSUME Base, todo # <<>>, NEW cs, NEW ok, NEW matches, Ended(cs, ok, matches)
  PROVE  SupTypeOK' /\ view' \in Views /\ mine' \in SUBSET Loads
<1>1. view \in Views /\ mine \in SUBSET Loads /\ SupTypeOK /\ Head(todo) \in Commands
  BY UnderWay, Types DEF Base
<1>2. ASSUME Return PROVE SupTypeOK' /\ view' \in Views /\ mine' \in SUBSET Loads
  BY <1>1, <1>2, NewViewType DEF Return, Ends, SupTypeOK
<1>3. ASSUME UNCHANGED supVars PROVE SupTypeOK'
  BY <1>1, <1>3 DEF supVars, SupTypeOK
<1>4. CASE SetupEnds(cs, ok)
  <2>1. Head(todo)[1] = "load" => Head(todo)[2] \in Loads
    BY <1>1, CommandFacts
  <2> QED
    BY <1>1, <1>3, <1>4, <2>1 DEF SetupEnds
<1>5. CASE InitiateEnds(cs, ok) \/ SubscribeEnds(cs)
  BY <1>1, <1>3, <1>5 DEF InitiateEnds, SubscribeEnds
<1>6. CASE CloseEnds(cs, ok, matches)
  <2>1. Return \/ UNCHANGED <<supVars, mine, view>>
    BY <1>6 DEF CloseEnds, StartUnload
  <2> QED
    BY <2>1, <1>1, <1>2, <1>3
<1> QED
  BY <1>4, <1>5, <1>6 DEF Ended

LEMMA ReadAnswerBase ==
  ASSUME Base, ReadAnswer
  PROVE  Base'
<1> DEFINE c == conn[InUse]
           d == TakeAnswer(c)
           cs == [conn EXCEPT ![InUse] = d]
<1>1. /\ todo # <<>> /\ HasPacket(c) /\ ~IsEvent(Head(c.wire))
      /\ Ended(cs, Head(c.wire).ok, Head(c.wire).matches)
      /\ UNCHANGED <<needs, index, worldVars, trusted, excused>>
  BY DEF ReadAnswer
<1>2. c \in Clients /\ Head(todo) \in Commands /\ Busy(c, Head(todo))
  BY <1>1, UnderWay
<1>3. d \in Clients /\ Quiet(d) /\ d.open = c.open /\ d.broken = c.broken /\ ~AllEvents(c.wire)
  BY <1>1, <1>2, AnswerFrees
<1>4. Settled(cs) /\ cs["evt"].open /\ cs["cmd"].open = conn["cmd"].open
  BY <1>1, <1>3, Freed
<1> HIDE DEF c, d, cs
<1>5. Landed
  BY <1>1, <1>4, EndedLands DEF worldVars
<1>6. SupTypeOK' /\ view' \in Views /\ mine' \in SUBSET Loads
  BY <1>1, EndedTypes
<1>7. TypeOK'
  BY <1>1, <1>5, <1>6, Types, TypesNext DEF Base, Landed, worldVars
<1> QED
  BY <1>5, <1>7 DEF Base, Landed

\* What a command of teardown leaves behind.
LEMMA LeavesType ==
  ASSUME NEW command \in Commands
  PROVE  /\ Leaves(command) \subseteq Loads \cup {"sa"}
         /\ command = Terminate => Leaves(command) = {"sa"}
         /\ command[1] = "unload" => Leaves(command) = {command[2]}
         /\ command[1] \notin {"terminate", "unload"} => Leaves(command) = {}
<1>1. Terminate[1] = "terminate"
  BY DEF Terminate
<1> QED
  BY <1>1, CommandFacts DEF Leaves

LEMMA CommandFailsBase ==
  ASSUME Base, CommandFails
  PROVE  Base'
<1> DEFINE c == conn[InUse]
<1>1. PICK d \in AfterFailure(c) :
        /\ todo # <<>> /\ Fails(c)
        /\ Ended([conn EXCEPT ![InUse] = d], FALSE, FALSE)
        /\ excused' = excused \cup (IF at = "setup" THEN {} ELSE Leaves(Head(todo)))
        /\ UNCHANGED <<needs, index, worldVars, trusted>>
  BY DEF CommandFails
<1> DEFINE cs == [conn EXCEPT ![InUse] = d]
<1>2. c \in Clients /\ Head(todo) \in Commands /\ Busy(c, Head(todo))
  BY <1>1, UnderWay
<1>3. d \in Clients /\ Quiet(d) /\ d.open = c.open /\ d.broken = c.broken /\ d.broken
  BY <1>1, <1>2, FailureFrees
<1>4. Settled(cs) /\ cs["evt"].open /\ cs["cmd"].open = conn["cmd"].open
  BY <1>1, <1>3, Freed
<1> HIDE DEF c, cs
<1>5. Ended(cs, FALSE, FALSE)
  BY <1>1 DEF cs
<1>6. Landed
  BY <1>1, <1>4, <1>5, EndedLands DEF worldVars
<1>7. SupTypeOK' /\ view' \in Views /\ mine' \in SUBSET Loads
  BY <1>1, <1>5, EndedTypes
<1>8. excused' \subseteq Loads \cup {"sa"}
  BY <1>1, <1>2, LeavesType, Types DEF Base
<1>9. TypeOK'
  BY <1>1, <1>6, <1>7, <1>8, Types, TypesNext DEF Base, Landed, worldVars
<1> QED
  BY <1>6, <1>9 DEF Base, Landed

\* A step that leaves run where it is, each connection as busy as it was.
Kept(k) ==
  IF todo # <<>> /\ k = InUse THEN Busy(conn'[k], Head(todo)) ELSE Quiet(conn'[k])

LEMMA StaysInPlace ==
  ASSUME Base, UNCHANGED <<sup, at, todo>>, conn' \in [Conns -> Clients],
         \A k \in Conns : conn'[k].open = conn[k].open /\ Kept(k),
         charon'.job # 0 /\ charon'.heard /\ conn'["cmd"].open /\ ~conn'["cmd"].broken =>
           at = "initiate" /\ conn'["cmd"].request = NoCommand /\ AllEvents(conn'["cmd"].wire)
  PROVE  /\ PlaceInv' /\ WireInv' /\ (todo # <<>> => InUse' = InUse)
<1>1. conn'["cmd"].open = conn["cmd"].open /\ conn'["evt"].open = conn["evt"].open
  BY DEF Conns
<1>2. PlaceInv'
  BY <1>1 DEF Base, PlaceInv
<1>3. ASSUME todo # <<>> PROVE InUse' = InUse /\ Head(todo') = Head(todo)
  <2>1. Head(todo) \in Commands
    BY <1>3, UnderWay
  <2>2. On(conn', Head(todo)) = On(conn, Head(todo))
    BY <1>1, <2>1, OnFacts
  <2> QED
    BY <2>2 DEF InUse
<1>4. \A k \in Conns : IF todo' # <<>> /\ k = InUse' THEN Busy(conn'[k], Head(todo'))
                       ELSE Quiet(conn'[k])
  BY <1>3 DEF Kept
<1>5. WireInv'
  BY <1>4 DEF WireInv
<1> QED
  BY <1>2, <1>3, <1>5

LEMMA ReadEventBase ==
  ASSUME Base, ReadEvent
  PROVE  Base'
<1> DEFINE c == conn[InUse]
           d == IF Head(todo) \in {Terminate, Initiate} THEN RelayEvent(c) ELSE KeepEvent(c)
<1>1. /\ todo # <<>> /\ HasPacket(c) /\ IsEvent(Head(c.wire))
      /\ conn' = [conn EXCEPT ![InUse] = d]
      /\ UNCHANGED <<supVars, needs, at, todo, index, view, mine, outcome, worldVars, trusted,
                     excused>>
  BY DEF ReadEvent
<1>2. /\ c \in Clients /\ Head(todo) \in Commands /\ Busy(c, Head(todo)) /\ InUse \in Conns
      /\ \A k \in Conns : k # InUse => Quiet(conn[k])
  BY <1>1, UnderWay
<1>3. d \in {KeepEvent(c), RelayEvent(c)}
  OBVIOUS
<1> HIDE DEF d
<1>4. /\ d \in Clients /\ Busy(d, Head(todo)) /\ d.open = c.open /\ d.broken = c.broken
      /\ d.request = c.request /\ (AllEvents(d.wire) <=> AllEvents(c.wire))
  BY <1>1, <1>2, <1>3, EventKeepsBusy
<1>5. conn \in [Conns -> Clients]
  BY Types DEF Base
<1>6. /\ conn' \in [Conns -> Clients] /\ conn'[InUse] = d
      /\ \A k \in Conns : k # InUse => conn'[k] = conn[k]
  BY <1>1, <1>2, <1>4, <1>5
<1> HIDE DEF c
<1>7. \A k \in Conns : /\ conn'[k].open = conn[k].open /\ conn'[k].broken = conn[k].broken
                       /\ conn'[k].request = conn[k].request
                       /\ AllEvents(conn'[k].wire) <=> AllEvents(conn[k].wire)
  BY <1>4, <1>6 DEF c
<1>8. \A k \in Conns : Kept(k)
  BY <1>1, <1>2, <1>4, <1>6 DEF Kept
<1>9. "cmd" \in Conns
  BY DEF Conns
<1>10. charon'.job # 0 /\ charon'.heard /\ conn'["cmd"].open /\ ~conn'["cmd"].broken =>
         at = "initiate" /\ conn'["cmd"].request = NoCommand /\ AllEvents(conn'["cmd"].wire)
  BY <1>1, <1>7, <1>9 DEF Base, WireInv, worldVars
<1>11. PlaceInv' /\ WireInv'
  BY <1>1, <1>6, <1>7, <1>8, <1>10, StaysInPlace DEF supVars
<1>12. TypeOK'
  BY <1>1, <1>6, Types, TypesNext DEF Base, worldVars, SupTypeOK, supVars
<1> QED
  BY <1>11, <1>12 DEF Base

-----------------------------------------------------------------------------
(* What charon says.                                                       *)

\* cs but for events on evt.
EvtGets(cs, ds) ==
  /\ ds \in [Conns -> Clients] /\ ds["cmd"] = cs["cmd"]
  /\ ds["evt"].open = cs["evt"].open /\ ds["evt"].broken = cs["evt"].broken
  /\ ds["evt"].request = cs["evt"].request /\ ds["evt"].refused = cs["evt"].refused
  /\ Quiet(cs["evt"]) => Quiet(ds["evt"])
  /\ \A command \in Commands : Busy(cs["evt"], command) => Busy(ds["evt"], command)
  /\ AllEvents(ds["evt"].wire) <=> AllEvents(cs["evt"].wire)
  /\ Unmatched(cs["evt"].wire) => Unmatched(ds["evt"].wire)

LEMMA EmitGets ==
  ASSUME NEW cs \in [Conns -> Clients], NEW name, NEW events \in Seq(Events)
  PROVE  EvtGets(cs, Emit(cs, name, events))
<1> DEFINE t == IF name \in charon.subs THEN events ELSE <<>>
           d == Write(cs["evt"], t)
<1>1. t \in Seq(Events)
  OBVIOUS
<1> HIDE DEF t
<1>2. cs["evt"] \in Clients
  BY DEF Conns
<1>3. /\ d \in Clients /\ d.open = cs["evt"].open /\ d.broken = cs["evt"].broken
      /\ d.request = cs["evt"].request /\ d.refused = cs["evt"].refused
      /\ Quiet(cs["evt"]) => Quiet(d)
      /\ \A command \in Commands : Busy(cs["evt"], command) => Busy(d, command)
      /\ AllEvents(d.wire) <=> AllEvents(cs["evt"].wire)
      /\ Unmatched(cs["evt"].wire) => Unmatched(d.wire)
  BY <1>1, <1>2, EventsArrive
<1>4. Emit(cs, name, events) = [cs EXCEPT !["evt"] = d]
  BY DEF Emit, t
<1> HIDE DEF d
<1>5. /\ Emit(cs, name, events) \in [Conns -> Clients]
      /\ Emit(cs, name, events)["evt"] = d /\ Emit(cs, name, events)["cmd"] = cs["cmd"]
  BY <1>3, <1>4 DEF Conns
<1> QED
  BY <1>3, <1>5 DEF EvtGets

LEMMA EvtGetsMore ==
  ASSUME NEW a, NEW b, NEW c, EvtGets(a, b), EvtGets(b, c)
  PROVE  EvtGets(a, c)
  BY DEF EvtGets

LEMMA EventTypes ==
  /\ \A isUp \in BOOLEAN : IkeEvent(isUp) \in Events
  /\ \A i \in Kids : \A isUp \in BOOLEAN : ChildEvent(i, isUp) \in Events
  BY DEF Events

LEMMA EndingGets ==
  ASSUME NEW cs \in [Conns -> Clients], NEW ds \in EmitEnding(cs), charon \in Charons
  PROVE  EvtGets(cs, ds)
<1>1. PICK order \in SetToSeqs(charon.kids) :
        ds = Emit(Emit(cs, "child", [i \in DOMAIN order |-> ChildEvent(order[i], FALSE)]),
                  "ike", IF charon.sa = "up" THEN <<IkeEvent(FALSE)>> ELSE <<>>)
  BY DEF EmitEnding
<1>2. charon.kids \subseteq Kids /\ IsFiniteSet(Kids)
  BY FS_Interval, ChildrenAssumption DEF Charons, Kids
<1>3. Cardinality(charon.kids) \in Nat
  BY <1>2, FS_Subset, FS_CardinalityType
<1>4. order \in [1..Cardinality(charon.kids) -> charon.kids]
  BY DEF SetToSeqs
<1> DEFINE e1 == [i \in DOMAIN order |-> ChildEvent(order[i], FALSE)]
           e2 == IF charon.sa = "up" THEN <<IkeEvent(FALSE)>> ELSE <<>>
<1>5. e1 \in Seq(Events)
  <2>1. DOMAIN order = 1..Cardinality(charon.kids)
    BY <1>4
  <2>2. \A i \in DOMAIN order : order[i] \in Kids
    BY <1>2, <1>4
  <2>3. \A i \in DOMAIN order : ChildEvent(order[i], FALSE) \in Events
    BY <2>2, EventTypes
  <2>4. \A n \in Nat : \A f \in [1..n -> Events] : f \in Seq(Events)
    OBVIOUS
  <2>5. e1 \in [1..Cardinality(charon.kids) -> Events]
    BY <2>1, <2>3
  <2> QED
    BY <1>3, <2>4, <2>5
<1>6. e2 \in Seq(Events)
  <2> DEFINE down == IkeEvent(FALSE)
  <2>1. down \in Events
    BY EventTypes
  <2> HIDE DEF down
  <2>2. <<down>> \in Seq(Events) /\ <<>> \in Seq(Events)
    BY <2>1
  <2>3. e2 = IF charon.sa = "up" THEN <<down>> ELSE <<>>
    BY DEF down
  <2> HIDE DEF e2
  <2> QED
    BY <2>2, <2>3
<1>7. EvtGets(cs, Emit(cs, "child", e1))
  BY <1>5, EmitGets
<1>8. Emit(cs, "child", e1) \in [Conns -> Clients]
  BY <1>7 DEF EvtGets
<1>9. EvtGets(Emit(cs, "child", e1), Emit(Emit(cs, "child", e1), "ike", e2))
  BY <1>6, <1>8, EmitGets
<1> QED
  BY <1>1, <1>7, <1>9, EvtGetsMore

\* charon's answer to initiate, if anyone waits for it, is to the command
\* under way.
LEMMA InitiateAnswered ==
  ASSUME Base, NEW cs, EvtGets(conn, cs), NEW ok \in BOOLEAN, conn' = RespondInitiate(cs, ok),
         charon'.job = 0, UNCHANGED <<sup, at, todo>>
  PROVE  /\ conn' \in [Conns -> Clients] /\ PlaceInv' /\ WireInv'
         /\ (todo # <<>> => InUse' = InUse)
         /\ conn'["cmd"].broken = conn["cmd"].broken
         /\ conn'["cmd"].open = conn["cmd"].open
         /\ conn'["cmd"].wire # conn["cmd"].wire => at = "initiate"
         /\ AllEvents(conn'["evt"].wire) <=> AllEvents(conn["evt"].wire)
         /\ Unmatched(conn["evt"].wire) => Unmatched(conn'["evt"].wire)
<1> DEFINE c == conn["cmd"]
           answers == charon.job # 0 /\ charon.heard /\ c.open /\ ~c.broken
           d == IF answers THEN Write(c, <<Answer(Initiate, ok, FALSE)>>) ELSE c
<1>1. conn \in [Conns -> Clients] /\ cs \in [Conns -> Clients] /\ cs["cmd"] = c
  BY Types DEF Base, EvtGets
<1>2. c \in Clients
  BY <1>1 DEF Conns
<1>3. conn' = [cs EXCEPT !["cmd"] = d]
  <2>1. CASE answers
    BY <1>1, <2>1 DEF RespondInitiate, Respond
  <2>2. CASE ~answers
    <3>1. [cs EXCEPT !["cmd"] = cs["cmd"]] = cs
      BY <1>1
    <3>2. ~(c.open /\ ~c.broken) => Write(c, <<Answer(Initiate, ok, FALSE)>>) = c
      BY DEF Write
    <3> QED
      BY <1>1, <2>2, <3>1, <3>2 DEF RespondInitiate, Respond
  <2> QED
    BY <2>1, <2>2
<1>4. /\ d \in Clients /\ d.open = c.open /\ d.broken = c.broken
      /\ IF todo # <<>> /\ "cmd" = InUse THEN Busy(d, Head(todo)) ELSE Quiet(d)
      /\ d.wire # c.wire => at = "initiate"
  <2>1. CASE ~answers
    BY <1>2, <2>1 DEF Base, WireInv, Conns
  <2>2. CASE answers
    <3>1. at = "initiate" /\ c.request = NoCommand /\ AllEvents(c.wire) /\ ~c.broken
      BY <2>2 DEF Base, WireInv
    <3>2. todo # <<>> /\ Head(todo) = Initiate /\ InUse = "cmd"
      BY <3>1, InitiateInUse
    <3>3. Busy(c, Initiate) /\ Initiate \in Commands
      BY <3>2, UnderWay
    <3>4. ~c.refused
      BY <3>1, <3>3 DEF Busy
    <3>5. Take(c) = c
      BY <1>2, <3>1, ClientSet DEF Take
    <3>6. LET e == Write(Take(c), <<Answer(Initiate, ok, FALSE)>>)
          IN  e \in Clients /\ Busy(e, Initiate) /\ e.open = c.open /\ e.broken = c.broken
      <4> DEFINE no == FALSE
      <4>1. no \in BOOLEAN
        OBVIOUS
      <4> HIDE DEF no
      <4>2. LET e == Write(Take(c), <<Answer(Initiate, ok, no)>>)
            IN  e \in Clients /\ Busy(e, Initiate) /\ e.open = c.open /\ e.broken = c.broken
        BY <1>2, <3>1, <3>3, <3>4, <4>1, AnswerArrives
      <4> QED
        BY <4>2 DEF no
    <3>7. d = Write(Take(c), <<Answer(Initiate, ok, FALSE)>>)
      BY <2>2, <3>5
    <3> QED
      BY <3>1, <3>2, <3>6, <3>7
  <2> QED
    BY <2>1, <2>2
<1> HIDE DEF d
<1>5. conn' \in [Conns -> Clients] /\ conn'["cmd"] = d /\ conn'["evt"] = cs["evt"]
  BY <1>1, <1>3, <1>4 DEF Conns
<1>6. Kept("cmd") /\ conn'["cmd"].open = conn["cmd"].open
  BY <1>4, <1>5 DEF Kept
<1>7. Kept("evt") /\ conn'["evt"].open = conn["evt"].open
  <2>1. /\ Quiet(conn["evt"]) => Quiet(conn'["evt"])
        /\ \A command \in Commands : Busy(conn["evt"], command) => Busy(conn'["evt"], command)
        /\ conn'["evt"].open = conn["evt"].open
    BY <1>5 DEF EvtGets
  <2>2. IF todo # <<>> /\ "evt" = InUse THEN Busy(conn["evt"], Head(todo))
        ELSE Quiet(conn["evt"])
    BY DEF Base, WireInv, Conns
  <2>3. todo # <<>> => Head(todo) \in Commands
    BY UnderWay
  <2> QED
    BY <2>1, <2>2, <2>3 DEF Kept
<1>8. \A k \in Conns : conn'[k].open = conn[k].open /\ Kept(k)
  BY <1>6, <1>7 DEF Conns
<1>9. PlaceInv' /\ WireInv' /\ (todo # <<>> => InUse' = InUse)
  BY <1>5, <1>8, StaysInPlace
<1> QED
  BY <1>4, <1>5, <1>9 DEF EvtGets

\* Events alone change nothing about the commands.
LEMMA EventsOnly ==
  ASSUME Base, EvtGets(conn, conn'), UNCHANGED <<sup, at, todo>>,
         charon'.job # 0 /\ charon'.heard => charon.job # 0 /\ charon.heard
  PROVE  /\ conn' \in [Conns -> Clients] /\ PlaceInv' /\ WireInv'
         /\ (todo # <<>> => InUse' = InUse)
         /\ conn'["cmd"] = conn["cmd"]
         /\ AllEvents(conn'["evt"].wire) <=> AllEvents(conn["evt"].wire)
         /\ Unmatched(conn["evt"].wire) => Unmatched(conn'["evt"].wire)
<1>1. conn' \in [Conns -> Clients] /\ conn'["cmd"] = conn["cmd"]
  BY DEF EvtGets
<1>2. \A k \in Conns :
        /\ Quiet(conn[k]) => Quiet(conn'[k])
        /\ \A command \in Commands : Busy(conn[k], command) => Busy(conn'[k], command)
        /\ conn'[k].open = conn[k].open
  BY DEF EvtGets, Conns
<1>3. todo # <<>> => Head(todo) \in Commands
  BY UnderWay
<1>4. \A k \in Conns : conn'[k].open = conn[k].open /\ Kept(k)
  BY <1>2, <1>3 DEF Base, WireInv, Kept
<1>5. charon'.job # 0 /\ charon'.heard /\ conn'["cmd"].open /\ ~conn'["cmd"].broken =>
        at = "initiate" /\ conn'["cmd"].request = NoCommand /\ AllEvents(conn'["cmd"].wire)
  BY <1>1 DEF Base, WireInv
<1>6. PlaceInv' /\ WireInv' /\ (todo # <<>> => InUse' = InUse)
  BY <1>1, <1>4, <1>5, StaysInPlace
<1> QED
  BY <1>1, <1>6 DEF EvtGets

LEMMA WithoutSaType ==
  ASSUME charon \in Charons
  PROVE  /\ WithoutSa(charon) \in Charons /\ WithoutSa(charon).sa = "none"
         /\ WithoutSa(charon).job = IF charon.sa = "none" THEN charon.job ELSE 0
         /\ WithoutSa(charon).heard = charon.heard
         /\ WithoutSa(charon).loaded = charon.loaded /\ WithoutSa(charon).subs = charon.subs
<1>1. (IF charon.sa = "none" THEN charon.job ELSE 0) \in 0..Children
  BY ChildrenAssumption DEF Charons
<1>2. WithoutSa(charon) =
        [charon EXCEPT !.sa = "none", !.kids = {},
                       !.job = IF charon.sa = "none" THEN charon.job ELSE 0]
  BY DEF WithoutSa
<1> DEFINE n == IF charon.sa = "none" THEN charon.job ELSE 0
<1> HIDE DEF n
<1>3. LET ch == [charon EXCEPT !.sa = "none", !.kids = {}, !.job = n]
      IN  /\ ch \in Charons /\ ch.sa = "none" /\ ch.job = n /\ ch.heard = charon.heard
          /\ ch.loaded = charon.loaded /\ ch.subs = charon.subs
  BY <1>1 DEF Charons, n
<1> QED
  BY <1>2, <1>3 DEF n

LEMMA ByClientPlace ==
  ASSUME ByClient
  PROVE  /\ UNCHANGED <<sup, at, todo>> /\ UNCHANGED supVars
         /\ UNCHANGED <<needs, index, view, mine, outcome, trusted>>
  BY DEF ByClient, supVars

\* A step of charon's keeps the types if it keeps those of what it changes.
LEMMA ByClientTypes ==
  ASSUME TypeOK, ByClient, conn' \in [Conns -> Clients], charon' \in Charons,
         drops' \in 0..MaxDrops, breaks' \in 0..MaxBreaks,
         excused' \subseteq Loads \cup {"sa"}
  PROVE  TypeOK'
<1>1. SupTypeOK'
  BY Types, ByClientPlace DEF SupTypeOK, supVars
<1> QED
  BY <1>1, Types, TypesNext, ByClientPlace

\* The request charon takes is the command under way.
LEMMA RequestIsCommand ==
  ASSUME Base, NEW c \in Conns, conn[c].request # NoCommand
  PROVE  /\ todo # <<>> /\ c = InUse /\ conn[c].request = Head(todo)
         /\ conn[c] \in Clients /\ Head(todo) \in Commands /\ Busy(conn[c], Head(todo))
         /\ conn[c].open /\ ~conn[c].broken /\ ~conn[c].refused /\ AllEvents(conn[c].wire)
         /\ \A k \in Conns : k # c => Quiet(conn[k])
<1>1. todo # <<>> /\ c = InUse
  BY DEF Base, WireInv, Quiet
<1>2. /\ Busy(conn[c], Head(todo)) /\ Head(todo) \in Commands /\ conn[c] \in Clients
      /\ \A k \in Conns : k # c => Quiet(conn[k])
  BY <1>1, UnderWay
<1>3. /\ conn[c].request = Head(todo) /\ ~conn[c].broken /\ ~conn[c].refused
      /\ AllEvents(conn[c].wire) /\ conn[c].open
  BY <1>2 DEF Busy
<1> QED
  BY <1>1, <1>2, <1>3

\* charon takes it, says what there is to say, and answers.
LEMMA CommandAnswered ==
  ASSUME Base, NEW c \in Conns, conn[c].request \notin {NoCommand, Initiate},
         NEW cs, EvtGets([conn EXCEPT ![c] = Take(@)], cs),
         NEW ok \in BOOLEAN, NEW matches \in BOOLEAN,
         conn' = Respond(cs, c, Answer(conn[c].request, ok, matches)),
         charon'.job # 0 /\ charon'.heard => charon.job # 0 /\ charon.heard,
         UNCHANGED <<sup, at, todo>>
  PROVE  /\ conn' \in [Conns -> Clients] /\ PlaceInv' /\ WireInv' /\ InUse' = InUse
         /\ conn'[c].broken = conn[c].broken /\ ~AllEvents(conn'[c].wire)
         /\ \A i \in DOMAIN conn'[c].wire :
              ~IsEvent(conn'[c].wire[i]) =>
                conn'[c].wire[i].ok = ok /\ conn'[c].wire[i].matches = matches
         /\ conn'["cmd"].broken = conn["cmd"].broken /\ conn'["cmd"].open = conn["cmd"].open
         /\ c # "cmd" => conn'["cmd"] = conn["cmd"]
<1> DEFINE r == Head(todo)
           taken == [conn EXCEPT ![c] = Take(@)]
<1>1. /\ todo # <<>> /\ c = InUse /\ conn[c].request = r
      /\ conn[c] \in Clients /\ r \in Commands /\ Busy(conn[c], r)
      /\ conn[c].open /\ ~conn[c].broken /\ ~conn[c].refused /\ AllEvents(conn[c].wire)
      /\ \A k \in Conns : k # c => Quiet(conn[k])
  BY RequestIsCommand
<1>2. conn \in [Conns -> Clients]
  BY Types DEF Base
<1> DEFINE d == Take(conn[c])
<1>3. /\ d \in Clients /\ d.request = NoCommand /\ d.open = conn[c].open
      /\ d.broken = conn[c].broken /\ d.refused = conn[c].refused /\ d.wire = conn[c].wire
      /\ d.poisoned = conn[c].poisoned
  BY <1>1, ClientSet DEF Take
<1>4. Busy(d, r)
  <2> HIDE DEF d, r
  <2> QED
    BY <1>1, <1>3 DEF Busy
<1>5. /\ taken \in [Conns -> Clients] /\ taken[c] = d
      /\ \A k \in Conns : k # c => taken[k] = conn[k]
  BY <1>2, <1>3
<1> HIDE DEF r, d, taken
<1>6. /\ cs \in [Conns -> Clients]
      /\ cs[c].open = d.open /\ cs[c].broken = d.broken /\ cs[c].request = d.request
      /\ cs[c].refused = d.refused /\ Busy(cs[c], r)
      /\ AllEvents(cs[c].wire) <=> AllEvents(d.wire)
      /\ \A k \in Conns : k # c => Quiet(cs[k]) /\ cs[k].open = conn[k].open
                                    /\ cs[k].broken = conn[k].broken
      /\ c # "cmd" => cs["cmd"] = conn["cmd"]
  <2>1. EvtGets(taken, cs)
    BY DEF taken
  <2>2. CASE c = "cmd"
    BY <2>1, <2>2, <1>1, <1>3, <1>4, <1>5 DEF EvtGets, Conns
  <2>3. CASE c = "evt"
    BY <2>1, <2>3, <1>1, <1>3, <1>4, <1>5 DEF EvtGets, Conns
  <2> QED
    BY <2>2, <2>3 DEF Conns
<1>7. cs[c] \in Clients /\ Take(cs[c]) = cs[c]
  BY <1>3, <1>6, ClientSet DEF Take
<1> DEFINE e == Write(cs[c], <<Answer(r, ok, matches)>>)
<1>8. /\ e \in Clients /\ Busy(e, r) /\ e.open = cs[c].open /\ e.broken = cs[c].broken
      /\ e.request = NoCommand /\ ~AllEvents(e.wire)
      /\ \A i \in DOMAIN e.wire :
           ~IsEvent(e.wire[i]) => e.wire[i].ok = ok /\ e.wire[i].matches = matches
  <2>1. /\ cs[c] \in Clients /\ r \in Commands /\ Busy(cs[c], r) /\ ~cs[c].refused
        /\ AllEvents(cs[c].wire) /\ ~cs[c].broken
    BY <1>1, <1>3, <1>6, <1>7
  <2>2. LET f == Write(Take(cs[c]), <<Answer(r, ok, matches)>>)
        IN  /\ f \in Clients /\ Busy(f, r) /\ f.open = cs[c].open /\ f.broken = cs[c].broken
            /\ f.request = NoCommand /\ ~AllEvents(f.wire)
            /\ \A i \in DOMAIN f.wire :
                 ~IsEvent(f.wire[i]) => f.wire[i].ok = ok /\ f.wire[i].matches = matches
    BY <2>1, AnswerArrives
  <2> QED
    BY <1>7, <2>2
<1>9. conn' = [cs EXCEPT ![c] = e]
  BY <1>1 DEF Respond
<1> HIDE DEF e
<1>10. /\ conn' \in [Conns -> Clients] /\ conn'[c] = e
       /\ \A k \in Conns : k # c => conn'[k] = cs[k]
  BY <1>6, <1>8, <1>9
<1>11. \A k \in Conns : /\ conn'[k].open = conn[k].open /\ conn'[k].broken = conn[k].broken
                        /\ Kept(k)
  <2> TAKE k \in Conns
  <2>1. CASE k = c
    BY <2>1, <1>1, <1>3, <1>6, <1>8, <1>10 DEF Kept, r
  <2>2. CASE k # c
    BY <2>2, <1>1, <1>6, <1>10 DEF Kept
  <2> QED
    BY <2>1, <2>2
<1>12. "cmd" \in Conns
  BY DEF Conns
<1>13. ~(charon'.job # 0 /\ charon'.heard /\ conn'["cmd"].open /\ ~conn'["cmd"].broken)
  <2> SUFFICES ASSUME charon.job # 0, charon.heard, conn["cmd"].open, ~conn["cmd"].broken
               PROVE  FALSE
    BY <1>11, <1>12
  <2>1. at = "initiate"
    BY DEF Base, WireInv
  <2>2. r = Initiate
    BY <2>1, InitiateInUse DEF r
  <2> QED
    BY <1>1, <2>2
<1>14. PlaceInv' /\ WireInv' /\ (todo # <<>> => InUse' = InUse)
  BY <1>10, <1>11, <1>13, StaysInPlace
<1> QED
  BY <1>1, <1>3, <1>6, <1>8, <1>10, <1>11, <1>12, <1>14

\* What a command other than initiate may do to charon.
Taken(r, c) ==
  [charon EXCEPT
     !.loaded = CASE r[1] = "load" -> @ \cup {r[2]}
                  [] r[1] = "unload" -> @ \ {r[2]}
                  [] OTHER -> @,
     !.subs = CASE r[1] = "register" /\ c = "evt" -> @ \cup {r[2]}
                [] r[1] = "unregister" -> @ \ {r[2]}
                [] OTHER -> @]

LEMMA TakenFields ==
  ASSUME charon \in Charons, NEW r \in Commands, NEW c \in Conns,
         r[1] = "register" /\ c = "evt" => r[2] \in {"ike", "child", "log"}
  PROVE  /\ Taken(r, c) \in Charons
         /\ Taken(r, c).job = charon.job /\ Taken(r, c).heard = charon.heard
         /\ Taken(r, c).sa = charon.sa
         /\ Taken(r, c).loaded = IF r[1] = "load" THEN charon.loaded \cup {r[2]}
                                 ELSE IF r[1] = "unload" THEN charon.loaded \ {r[2]}
                                 ELSE charon.loaded
<1> DEFINE l == IF r[1] = "load" THEN charon.loaded \cup {r[2]}
                ELSE IF r[1] = "unload" THEN charon.loaded \ {r[2]}
                ELSE charon.loaded
           b == IF r[1] = "register" /\ c = "evt" THEN charon.subs \cup {r[2]}
                ELSE IF r[1] = "unregister" THEN charon.subs \ {r[2]}
                ELSE charon.subs
<1>1. r[1] = "load" => r[2] \in Loads
  BY CommandFacts
<1>2. charon.loaded \in SUBSET Loads /\ charon.subs \in SUBSET {"ike", "child", "log"}
  BY DEF Charons
<1>3. l \in SUBSET Loads
  BY <1>1, <1>2
<1>4. b \in SUBSET {"ike", "child", "log"}
  BY <1>2
<1>5. Taken(r, c) = [charon EXCEPT !.loaded = l, !.subs = b]
  BY DEF Taken
<1> HIDE DEF l, b
<1>6. /\ [charon EXCEPT !.loaded = l, !.subs = b] \in Charons
      /\ [charon EXCEPT !.loaded = l, !.subs = b].job = charon.job
      /\ [charon EXCEPT !.loaded = l, !.subs = b].heard = charon.heard
      /\ [charon EXCEPT !.loaded = l, !.subs = b].sa = charon.sa
      /\ [charon EXCEPT !.loaded = l, !.subs = b].loaded = l
  BY <1>3, <1>4 DEF Charons
<1> QED
  BY <1>5, <1>6 DEF l

\* The three ways a command other than initiate goes.
LEMMA TakesCommandCases ==
  ASSUME Base, NEW c \in Conns, TakesCommand(c)
  PROVE  LET r == conn[c].request
         IN  /\ r = Head(todo) /\ r \in Commands /\ r \notin {NoCommand, Initiate}
             /\ \E cs : \E ok, matches \in BOOLEAN :
                  /\ EvtGets([conn EXCEPT ![c] = Take(@)], cs)
                  /\ conn' = Respond(cs, c, Answer(conn[c].request, ok, matches))
                  /\ \/ ~ok /\ r[1] \notin {"terminate", "unload"} /\ charon' = charon /\ excused' = excused
                     \/ /\ ok /\ r # Terminate /\ charon' = Taken(r, c)
                        /\ excused' = IF r[1] = "load" THEN excused \ {r[2]} ELSE excused
                     \/ /\ ok /\ r = Terminate /\ charon' = WithoutSa(charon)
                        /\ matches <=> charon.sa # "none"
                        /\ excused' = IF charon'.job = 0 THEN excused \ {"sa"} ELSE excused
<1> DEFINE r == conn[c].request
           taken == [conn EXCEPT ![c] = Take(@)]
<1>1. r = Head(todo) /\ r \in Commands /\ r \notin {NoCommand, Initiate}
  BY RequestIsCommand DEF TakesCommand
<1>2. conn \in [Conns -> Clients] /\ conn[c] \in Clients
  BY Types DEF Base
<1>3. Take(conn[c]) \in Clients
  BY <1>2, ClientSet DEF Take
<1>4. taken \in [Conns -> Clients]
  BY <1>2, <1>3
<1> HIDE DEF taken
<1>5. EvtGets(taken, taken)
  BY <1>4 DEF EvtGets
<1> DEFINE no == FALSE
           yes == TRUE
<1>6. no \in BOOLEAN /\ yes \in BOOLEAN /\ ~no /\ yes
  OBVIOUS
<1> HIDE DEF no, yes
<1> DEFINE Case(cs, ok, matches) ==
             /\ EvtGets(taken, cs)
             /\ conn' = Respond(cs, c, Answer(r, ok, matches))
             /\ \/ ~ok /\ r[1] \notin {"terminate", "unload"} /\ charon' = charon /\ excused' = excused
                \/ /\ ok /\ r # Terminate /\ charon' = Taken(r, c)
                   /\ excused' = IF r[1] = "load" THEN excused \ {r[2]} ELSE excused
                \/ /\ ok /\ r = Terminate /\ charon' = WithoutSa(charon)
                   /\ matches <=> charon.sa # "none"
                   /\ excused' = IF charon'.job = 0 THEN excused \ {"sa"} ELSE excused
<1>7. CASE /\ r[1] \in {"version", "stats", "register", "load"}
           /\ conn' = Respond(taken, c, Answer(r, FALSE, FALSE))
           /\ UNCHANGED <<charon, excused>>
  <2>1. Case(taken, no, no)
    <3>1. conn' = Respond(taken, c, Answer(r, no, no))
      BY <1>7 DEF no
    <3> QED
      BY <1>5, <1>6, <1>7, <3>1
  <2> HIDE DEF Case
  <2>2. \E cs : \E ok, matches \in BOOLEAN : Case(cs, ok, matches)
    BY <1>6, <2>1
  <2> QED
    BY <1>1, <2>2 DEF Case, taken
<1>8. CASE /\ r # Terminate /\ charon' = Taken(r, c)
           /\ conn' = Respond(taken, c, Answer(r, TRUE, FALSE))
           /\ excused' = IF r[1] = "load" THEN excused \ {r[2]} ELSE excused
  <2>1. Case(taken, yes, no)
    <3>1. conn' = Respond(taken, c, Answer(r, yes, no))
      BY <1>8 DEF yes, no
    <3> QED
      BY <1>5, <1>6, <1>8, <3>1
  <2> HIDE DEF Case
  <2>2. \E cs : \E ok, matches \in BOOLEAN : Case(cs, ok, matches)
    BY <1>6, <2>1
  <2> QED
    BY <1>1, <2>2 DEF Case, taken
<1>9. CASE /\ r = Terminate /\ charon' = WithoutSa(charon)
           /\ \E cs \in EmitEnding(taken) :
                conn' = Respond(cs, c, Answer(r, TRUE, charon.sa # "none"))
           /\ excused' = IF charon'.job = 0 THEN excused \ {"sa"} ELSE excused
  <2> DEFINE m == charon.sa # "none"
  <2>0. m \in BOOLEAN /\ (m <=> charon.sa # "none")
    OBVIOUS
  <2>1. PICK cs \in EmitEnding(taken) : conn' = Respond(cs, c, Answer(r, yes, m))
    BY <1>9 DEF yes
  <2> HIDE DEF m
  <2>2. EvtGets(taken, cs)
    BY <1>4, EndingGets, Types DEF Base
  <2>3. Case(cs, yes, m)
    BY <1>6, <1>9, <2>0, <2>1, <2>2
  <2> HIDE DEF Case
  <2>4. \E ds : \E ok, matches \in BOOLEAN : Case(ds, ok, matches)
    BY <1>6, <2>0, <2>3
  <2> QED
    BY <1>1, <2>4 DEF Case, taken
<1> QED
  BY <1>7, <1>8, <1>9 DEF TakesCommand, Taken, taken

LEMMA TakesCommandBase ==
  ASSUME Base, NEW c \in Conns, TakesCommand(c)
  PROVE  Base'
<1> DEFINE r == conn[c].request
<1>1. r = Head(todo) /\ r \in Commands /\ r \notin {NoCommand, Initiate}
  BY TakesCommandCases
<1>2. PICK cs : \E ok, matches \in BOOLEAN :
                  /\ EvtGets([conn EXCEPT ![c] = Take(@)], cs)
                  /\ conn' = Respond(cs, c, Answer(r, ok, matches))
                  /\ charon' \in {charon, Taken(r, c), WithoutSa(charon)}
                  /\ excused' \subseteq excused
  BY TakesCommandCases
<1>3. PICK ok \in BOOLEAN, matches \in BOOLEAN :
                  /\ EvtGets([conn EXCEPT ![c] = Take(@)], cs)
                  /\ conn' = Respond(cs, c, Answer(r, ok, matches))
                  /\ charon' \in {charon, Taken(r, c), WithoutSa(charon)}
                  /\ excused' \subseteq excused
  BY <1>2
<1>4. charon \in Charons /\ excused \subseteq Loads \cup {"sa"}
  BY Types DEF Base
<1>5. r[1] = "register" /\ c = "evt" => r[2] \in {"ike", "child", "log"}
  <2> SUFFICES ASSUME r[1] = "register", c = "evt" PROVE r[2] # "control-log"
    BY <1>1, CommandFacts
  <2>1. On(conn, r) = "evt"
    BY <1>1, RequestIsCommand DEF InUse
  <2>2. r \in {Register("ike"), Register("child"), Register("log")}
    BY <2>1 DEF On
  <2> QED
    BY <2>2 DEF Register
<1>6. /\ charon' \in Charons
      /\ charon'.job # 0 /\ charon'.heard => charon.job # 0 /\ charon.heard
      /\ excused' \subseteq Loads \cup {"sa"}
  <2>1. CASE charon' = charon
    BY <1>3, <1>4, <2>1
  <2>2. CASE charon' = Taken(r, c)
    BY <1>1, <1>3, <1>4, <1>5, <2>2, TakenFields
  <2>3. CASE charon' = WithoutSa(charon)
    <3>1. /\ charon' \in Charons /\ charon'.heard = charon.heard
          /\ charon'.job = IF charon.sa = "none" THEN charon.job ELSE 0
      BY <1>4, <2>3, WithoutSaType
    <3> QED
      BY <1>3, <1>4, <3>1
  <2> QED
    BY <1>3, <2>1, <2>2, <2>3
<1>7. ByClient /\ UNCHANGED <<drops, breaks>>
  BY DEF TakesCommand
<1>8. UNCHANGED <<sup, at, todo>>
  BY <1>7, ByClientPlace
<1>9. conn' \in [Conns -> Clients] /\ PlaceInv' /\ WireInv'
  BY <1>1, <1>3, <1>6, <1>8, CommandAnswered
<1>10. TypeOK'
  BY <1>6, <1>7, <1>9, ByClientTypes, Types DEF Base
<1> QED
  BY <1>9, <1>10 DEF Base

\* Only at initiate is initiate under way.
LEMMA InitiateAtInitiate ==
  ASSUME Base, todo # <<>>, Head(todo) = Initiate
  PROVE  at = "initiate"
<1>1. Initiate[1] = "initiate" /\ Terminate[1] = "terminate" /\ Register("log")[1] = "register"
  BY DEF Initiate, Terminate, Register
<1>2. 1 \in DOMAIN todo /\ Head(todo) = todo[1]
  BY TailCommands, Types DEF Base
<1>3. at # "setup" /\ at # "unload"
  BY <1>1, <1>2 DEF Base, PlaceInv, SetupKinds
<1>4. at # "close"
  <2>1. Head(todo) # Terminate /\ Head(todo)[1] # "unregister"
    BY <1>1
  <2> QED
    BY <2>1, CloseLists DEF Base
<1>5. at # "again" /\ at # "subscribe"
  <2>1. Terminate \in Commands /\ Register("log") \in Commands
    BY DEF Commands
  <2>2. Head(<<Terminate>>) = Terminate /\ Head(<<Register("log")>>) = Register("log")
    BY <2>1, ShortLists
  <2> QED
    BY <1>1, <2>2 DEF Base, PlaceInv
<1> QED
  BY <1>3, <1>4, <1>5, UnderWay

LEMMA TakesInitiateBase ==
  ASSUME Base, TakesInitiate
  PROVE  /\ Base' /\ at = "initiate" /\ ~conn["cmd"].broken
         /\ conn'["cmd"].wire = conn["cmd"].wire /\ AllEvents(conn["cmd"].wire)
<1> DEFINE d == Take(conn["cmd"])
<1>1. /\ conn["cmd"].request = Initiate /\ conn' = [conn EXCEPT !["cmd"] = d]
      /\ charon' = [charon EXCEPT !.job = index, !.heard = TRUE]
      /\ ByClient /\ UNCHANGED <<drops, breaks>> /\ excused' = excused \ {"sa"}
  BY DEF TakesInitiate
<1>2. "cmd" \in Conns /\ Initiate # NoCommand
  BY DEF Conns, Initiate, NoCommand
<1>3. /\ todo # <<>> /\ "cmd" = InUse /\ Initiate = Head(todo)
      /\ conn["cmd"] \in Clients /\ Busy(conn["cmd"], Initiate)
      /\ ~conn["cmd"].broken /\ AllEvents(conn["cmd"].wire)
      /\ \A k \in Conns : k # "cmd" => Quiet(conn[k])
  BY <1>1, <1>2, RequestIsCommand
<1>4. at = "initiate"
  BY <1>3, InitiateAtInitiate
<1>5. /\ d \in Clients /\ d.request = NoCommand /\ d.open = conn["cmd"].open
      /\ d.broken = conn["cmd"].broken /\ d.refused = conn["cmd"].refused
      /\ d.wire = conn["cmd"].wire /\ d.poisoned = conn["cmd"].poisoned
  BY <1>3, ClientSet DEF Take
<1> HIDE DEF d
<1>6. Busy(d, Initiate)
  BY <1>3, <1>5 DEF Busy
<1>7. conn \in [Conns -> Clients] /\ charon \in Charons /\ index \in Kids
  BY Types DEF Base
<1>8. /\ conn' \in [Conns -> Clients] /\ conn'["cmd"] = d
      /\ \A k \in Conns : k # "cmd" => conn'[k] = conn[k]
  BY <1>1, <1>2, <1>5, <1>7
<1>9. \A k \in Conns : conn'[k].open = conn[k].open /\ Kept(k)
  BY <1>3, <1>5, <1>6, <1>8 DEF Kept
<1>10. UNCHANGED <<sup, at, todo>>
  BY <1>1, ByClientPlace
<1>11. conn'["cmd"].request = NoCommand /\ AllEvents(conn'["cmd"].wire)
  BY <1>3, <1>5, <1>8
<1>12. PlaceInv' /\ WireInv'
  BY <1>4, <1>8, <1>9, <1>10, <1>11, StaysInPlace
<1>13. charon' \in Charons
  <2> DEFINE yes == TRUE
  <2>1. yes \in BOOLEAN /\ charon' = [charon EXCEPT !.job = index, !.heard = yes]
    BY <1>1
  <2>2. index \in 0..Children
    BY <1>7, ChildrenAssumption DEF Kids
  <2> HIDE DEF yes
  <2> QED
    BY <1>7, <2>1, <2>2 DEF Charons
<1>14. TypeOK'
  BY <1>1, <1>8, <1>13, ByClientTypes, Types DEF Base
<1> QED
  BY <1>3, <1>4, <1>5, <1>8, <1>12, <1>14 DEF Base

\* charon works on an initiate, or loses what it made.
LEMMA CharonWorksBase ==
  ASSUME Base,
         SaAppears \/ SaEstablished \/ ChildEstablished \/ InitiateFails
           \/ (\E i \in 0..Children : GatewayDrops(i))
  PROVE  /\ Base' /\ (todo # <<>> => InUse' = InUse)
         /\ conn'["cmd"].broken = conn["cmd"].broken
         /\ conn'["cmd"].open = conn["cmd"].open
         /\ conn'["cmd"].wire # conn["cmd"].wire => at = "initiate" /\ charon'.job = 0
         /\ AllEvents(conn'["evt"].wire) <=> AllEvents(conn["evt"].wire)
         /\ Unmatched(conn["evt"].wire) => Unmatched(conn'["evt"].wire)
         /\ charon'.loaded = charon.loaded /\ excused' = excused
         /\ charon'.job \in {charon.job, 0}
         /\ charon'.sa \in {charon.sa, "none"} \/ charon.job # 0
         /\ charon'.job # 0 /\ charon.sa # "none" => charon'.sa # "none"
<1>1. /\ conn \in [Conns -> Clients] /\ charon \in Charons /\ TypeOK
      /\ excused \subseteq Loads \cup {"sa"}
      /\ drops \in 0..MaxDrops /\ breaks \in 0..MaxBreaks
  BY Types DEF Base
<1>2. EvtGets(conn, conn)
  BY <1>1 DEF EvtGets
<1> DEFINE yes == TRUE
           no == FALSE
<1>3. yes \in BOOLEAN /\ no \in BOOLEAN
  OBVIOUS
<1>4. CASE SaAppears
  <2>1. /\ charon.job # 0 /\ charon' = [charon EXCEPT !.sa = "connecting"]
        /\ ByClient /\ UNCHANGED <<conn, drops, breaks, excused>>
    BY <1>4 DEF SaAppears
  <2>2. /\ charon' \in Charons /\ charon'.job = charon.job /\ charon'.heard = charon.heard
        /\ charon'.loaded = charon.loaded /\ charon'.sa # "none"
    BY <1>1, <2>1 DEF Charons
  <2>3. EvtGets(conn, conn')
    BY <1>2, <2>1
  <2>4. UNCHANGED <<sup, at, todo>>
    BY <2>1, ByClientPlace
  <2>5. /\ conn' \in [Conns -> Clients] /\ PlaceInv' /\ WireInv'
        /\ (todo # <<>> => InUse' = InUse) /\ conn'["cmd"] = conn["cmd"]
        /\ (AllEvents(conn'["evt"].wire) <=> AllEvents(conn["evt"].wire))
        /\ (Unmatched(conn["evt"].wire) => Unmatched(conn'["evt"].wire))
    BY <2>2, <2>3, <2>4, EventsOnly
  <2>6. TypeOK'
    BY <1>1, <2>1, <2>2, <2>5, ByClientTypes
  <2> QED
    BY <2>1, <2>2, <2>5, <2>6 DEF Base
<1>5. CASE SaEstablished
  <2>1. /\ charon.job # 0 /\ charon' = [charon EXCEPT !.sa = "up"]
        /\ conn' = Emit(conn, "ike", <<IkeEvent(TRUE)>>)
        /\ ByClient /\ UNCHANGED <<drops, breaks, excused>>
    BY <1>5 DEF SaEstablished
  <2>2. /\ charon' \in Charons /\ charon'.job = charon.job /\ charon'.heard = charon.heard
        /\ charon'.loaded = charon.loaded /\ charon'.sa # "none"
    BY <1>1, <2>1 DEF Charons
  <2>3. EvtGets(conn, conn')
    <3> DEFINE e == IkeEvent(yes)
    <3>1. e \in Events
      BY EventTypes
    <3> HIDE DEF e
    <3>2. EvtGets(conn, Emit(conn, "ike", <<e>>))
      <4>1. <<e>> \in Seq(Events)
        BY <3>1
      <4> QED
        BY <1>1, <4>1, EmitGets
    <3> QED
      BY <2>1, <3>2 DEF e
  <2>4. UNCHANGED <<sup, at, todo>>
    BY <2>1, ByClientPlace
  <2>5. /\ conn' \in [Conns -> Clients] /\ PlaceInv' /\ WireInv'
        /\ (todo # <<>> => InUse' = InUse) /\ conn'["cmd"] = conn["cmd"]
        /\ (AllEvents(conn'["evt"].wire) <=> AllEvents(conn["evt"].wire))
        /\ (Unmatched(conn["evt"].wire) => Unmatched(conn'["evt"].wire))
    BY <2>2, <2>3, <2>4, EventsOnly
  <2>6. TypeOK'
    BY <1>1, <2>1, <2>2, <2>5, ByClientTypes
  <2> QED
    BY <2>1, <2>2, <2>5, <2>6 DEF Base
<1>6. CASE ChildEstablished
  <2>1. /\ charon.job # 0
        /\ charon' = [charon EXCEPT !.kids = charon.kids \cup {charon.job}, !.job = 0]
        /\ conn' = RespondInitiate(Emit(conn, "child", <<ChildEvent(charon.job, TRUE)>>), yes)
        /\ ByClient /\ UNCHANGED <<drops, breaks, excused>>
    BY <1>6 DEF ChildEstablished
  <2>2. charon.job \in Kids
    BY <1>1, <2>1, ChildrenAssumption DEF Charons, Kids
  <2>3. /\ charon' \in Charons /\ charon'.job = 0 /\ charon'.loaded = charon.loaded
        /\ charon'.sa = charon.sa
    <3>1. charon.kids \cup {charon.job} \in SUBSET Kids
      BY <1>1, <2>2 DEF Charons
    <3>2. 0 \in 0..Children
      BY ChildrenAssumption
    <3> QED
      BY <1>1, <2>1, <3>1, <3>2 DEF Charons
  <2> DEFINE e == ChildEvent(charon.job, yes)
             cs == Emit(conn, "child", <<e>>)
  <2>4. e \in Events
    BY <2>2, EventTypes
  <2> HIDE DEF e
  <2>5. EvtGets(conn, cs)
    <3>1. <<e>> \in Seq(Events)
      BY <2>4
    <3> QED
      BY <1>1, <3>1, EmitGets
  <2>6. UNCHANGED <<sup, at, todo>>
    BY <2>1, ByClientPlace
  <2>7. conn' = RespondInitiate(cs, yes)
    BY <2>1 DEF e
  <2> HIDE DEF cs, yes
  <2>8. /\ conn' \in [Conns -> Clients] /\ PlaceInv' /\ WireInv'
        /\ (todo # <<>> => InUse' = InUse)
        /\ conn'["cmd"].broken = conn["cmd"].broken
        /\ conn'["cmd"].open = conn["cmd"].open
        /\ (conn'["cmd"].wire # conn["cmd"].wire => at = "initiate")
        /\ (AllEvents(conn'["evt"].wire) <=> AllEvents(conn["evt"].wire))
        /\ (Unmatched(conn["evt"].wire) => Unmatched(conn'["evt"].wire))
    BY <1>3, <2>3, <2>5, <2>6, <2>7, InitiateAnswered
  <2>9. TypeOK'
    BY <1>1, <2>1, <2>3, <2>8, ByClientTypes
  <2> QED
    BY <2>1, <2>3, <2>8, <2>9 DEF Base
<1>7. CASE InitiateFails
  <2>1. /\ charon.job # 0 /\ conn' = RespondInitiate(conn, no)
        /\ charon' = [charon EXCEPT !.job = 0,
                                    !.sa = IF charon.sa = "connecting" THEN "none" ELSE charon.sa]
        /\ ByClient /\ UNCHANGED <<drops, breaks, excused>>
    BY <1>7 DEF InitiateFails
  <2> DEFINE s == IF charon.sa = "connecting" THEN "none" ELSE charon.sa
  <2>2. s \in {"none", "connecting", "up"}
    BY <1>1 DEF Charons
  <2>3. charon' = [charon EXCEPT !.job = 0, !.sa = s]
    BY <2>1
  <2> HIDE DEF s
  <2>4. charon' \in Charons /\ charon'.job = 0 /\ charon'.loaded = charon.loaded
    <3>1. 0 \in 0..Children
      BY ChildrenAssumption
    <3> QED
      BY <1>1, <2>2, <2>3, <3>1 DEF Charons
  <2>5. UNCHANGED <<sup, at, todo>>
    BY <2>1, ByClientPlace
  <2> HIDE DEF no
  <2>6. /\ conn' \in [Conns -> Clients] /\ PlaceInv' /\ WireInv'
        /\ (todo # <<>> => InUse' = InUse)
        /\ conn'["cmd"].broken = conn["cmd"].broken
        /\ conn'["cmd"].open = conn["cmd"].open
        /\ (conn'["cmd"].wire # conn["cmd"].wire => at = "initiate")
        /\ (AllEvents(conn'["evt"].wire) <=> AllEvents(conn["evt"].wire))
        /\ (Unmatched(conn["evt"].wire) => Unmatched(conn'["evt"].wire))
    BY <1>2, <1>3, <2>1, <2>4, <2>5, InitiateAnswered
  <2>7. TypeOK'
    BY <1>1, <2>1, <2>4, <2>6, ByClientTypes
  <2> QED
    BY <2>1, <2>4, <2>6, <2>7 DEF Base
<1>8. CASE \E i \in 0..Children : GatewayDrops(i)
  <2>1. PICK i \in 0..Children : GatewayDrops(i)
    BY <1>8
  <2>2. /\ drops' \in 0..MaxDrops /\ ByClient /\ UNCHANGED <<breaks, excused>>
    BY <1>1, <2>1, BoundsAssumption DEF GatewayDrops
  <2>3. UNCHANGED <<sup, at, todo>>
    BY <2>2, ByClientPlace
  <2>4. CASE i \in Kids
    <3>1. /\ charon' = [charon EXCEPT !.kids = charon.kids \ {i}]
          /\ conn' = Emit(conn, "child", <<ChildEvent(i, no)>>)
      BY <2>1, <2>4 DEF GatewayDrops
    <3>2. /\ charon' \in Charons /\ charon'.job = charon.job /\ charon'.heard = charon.heard
          /\ charon'.loaded = charon.loaded /\ charon'.sa = charon.sa
      BY <1>1, <3>1 DEF Charons
    <3> DEFINE e == ChildEvent(i, no)
    <3>3. e \in Events
      BY <2>4, EventTypes
    <3> HIDE DEF e
    <3>4. EvtGets(conn, Emit(conn, "child", <<e>>))
      <4>1. <<e>> \in Seq(Events)
        BY <3>3
      <4> QED
        BY <1>1, <4>1, EmitGets
    <3>5. EvtGets(conn, conn')
      BY <3>1, <3>4 DEF e
    <3>6. /\ conn' \in [Conns -> Clients] /\ PlaceInv' /\ WireInv'
          /\ (todo # <<>> => InUse' = InUse) /\ conn'["cmd"] = conn["cmd"]
          /\ (AllEvents(conn'["evt"].wire) <=> AllEvents(conn["evt"].wire))
          /\ (Unmatched(conn["evt"].wire) => Unmatched(conn'["evt"].wire))
      BY <2>3, <3>2, <3>5, EventsOnly
    <3>7. TypeOK'
      BY <1>1, <2>2, <3>2, <3>6, ByClientTypes
    <3> QED
      BY <2>2, <3>2, <3>6, <3>7 DEF Base
  <2>5. CASE i \notin Kids
    <3>1. /\ charon.sa = "up" /\ charon' = WithoutSa(charon)
          /\ \E cs \in EmitEnding(conn) : conn' = RespondInitiate(cs, no)
      BY <2>1, <2>5 DEF GatewayDrops
    <3> HIDE DEF no
    <3>2. PICK cs \in EmitEnding(conn) : conn' = RespondInitiate(cs, no)
      BY <3>1
    <3>3. EvtGets(conn, cs)
      BY <1>1, EndingGets
    <3>4. charon' \in Charons /\ charon'.job = 0 /\ charon'.loaded = charon.loaded
          /\ charon'.sa = "none"
      BY <1>1, <3>1, WithoutSaType
    <3>5. /\ conn' \in [Conns -> Clients] /\ PlaceInv' /\ WireInv'
          /\ (todo # <<>> => InUse' = InUse)
          /\ conn'["cmd"].broken = conn["cmd"].broken
          /\ conn'["cmd"].open = conn["cmd"].open
          /\ (conn'["cmd"].wire # conn["cmd"].wire => at = "initiate")
          /\ (AllEvents(conn'["evt"].wire) <=> AllEvents(conn["evt"].wire))
          /\ (Unmatched(conn["evt"].wire) => Unmatched(conn'["evt"].wire))
      BY <1>3, <2>3, <3>2, <3>3, <3>4, InitiateAnswered
    <3>6. TypeOK'
      BY <1>1, <2>2, <3>4, <3>5, ByClientTypes
    <3> QED
      BY <2>2, <3>4, <3>5, <3>6 DEF Base
  <2> QED
    BY <2>4, <2>5
<1> QED
  BY <1>4, <1>5, <1>6, <1>7, <1>8

LEMMA ConnectionBreaksBase ==
  ASSUME Base, NEW c \in Conns, ConnectionBreaks(c)
  PROVE  /\ Base' /\ (todo # <<>> => InUse' = InUse)
         /\ \A k \in Conns : /\ conn'[k].wire = conn[k].wire /\ conn'[k].open = conn[k].open
                             /\ ~conn'[k].broken => ~conn[k].broken
<1> DEFINE d == Break(conn[c])
<1>1. /\ conn' = [conn EXCEPT ![c] = d] /\ breaks < MaxBreaks /\ breaks' = breaks + 1
      /\ ByClient /\ UNCHANGED <<charon, drops, excused>>
  BY DEF ConnectionBreaks
<1>2. /\ conn \in [Conns -> Clients] /\ charon \in Charons /\ TypeOK
      /\ excused \subseteq Loads \cup {"sa"}
      /\ drops \in 0..MaxDrops /\ breaks \in 0..MaxBreaks
  BY Types DEF Base
<1>3. /\ d \in Clients /\ d.open = conn[c].open /\ d.broken /\ d.wire = conn[c].wire
      /\ Quiet(conn[c]) => Quiet(d)
      /\ \A command \in Commands : Busy(conn[c], command) => Busy(d, command)
  BY <1>2, BreakKeeps
<1> HIDE DEF d
<1>4. /\ conn' \in [Conns -> Clients] /\ conn'[c] = d
      /\ \A k \in Conns : k # c => conn'[k] = conn[k]
  BY <1>1, <1>2, <1>3
<1>5. todo # <<>> => Head(todo) \in Commands
  BY UnderWay
<1>6. \A k \in Conns : /\ conn'[k].open = conn[k].open /\ conn'[k].wire = conn[k].wire
                       /\ (~conn'[k].broken => conn'[k] = conn[k]) /\ Kept(k)
  <2> TAKE k \in Conns
  <2>1. IF todo # <<>> /\ k = InUse THEN Busy(conn[k], Head(todo)) ELSE Quiet(conn[k])
    BY DEF Base, WireInv
  <2> QED
    BY <1>3, <1>4, <1>5, <2>1 DEF Kept
<1>7. UNCHANGED <<sup, at, todo>>
  BY <1>1, ByClientPlace
<1>8. charon'.job # 0 /\ charon'.heard /\ conn'["cmd"].open /\ ~conn'["cmd"].broken =>
        at = "initiate" /\ conn'["cmd"].request = NoCommand /\ AllEvents(conn'["cmd"].wire)
  BY <1>1, <1>6 DEF Base, WireInv, Conns
<1>9. PlaceInv' /\ WireInv' /\ (todo # <<>> => InUse' = InUse)
  BY <1>4, <1>6, <1>7, <1>8, StaysInPlace
<1>10. breaks' \in 0..MaxBreaks
  BY <1>1, <1>2, BoundsAssumption
<1>11. TypeOK'
  BY <1>1, <1>2, <1>4, <1>10, ByClientTypes
<1> QED
  BY <1>6, <1>9, <1>11 DEF Base

LEMMA CharonRestartsBase ==
  ASSUME Base, CharonRestarts
  PROVE  /\ Base' /\ (todo # <<>> => InUse' = InUse)
         /\ \A k \in Conns : conn'[k].wire = conn[k].wire /\ (conn'[k].open => conn'[k].broken)
         /\ charon'.loaded = {} /\ charon'.sa = "none" /\ charon'.job = 0
<1>1. /\ conn' = [c \in {"cmd", "evt"} |-> IF conn[c].open THEN Break(conn[c]) ELSE conn[c]]
      /\ breaks < MaxBreaks /\ breaks' = breaks + 1
      /\ charon' = NewCharon(FALSE) /\ excused' = {}
      /\ ByClient /\ UNCHANGED drops
  BY DEF CharonRestarts
<1>2. /\ conn \in [Conns -> Clients] /\ TypeOK
      /\ drops \in 0..MaxDrops /\ breaks \in 0..MaxBreaks
  BY Types DEF Base
<1>3. charon' \in Charons
  <2> DEFINE no == FALSE
  <2>1. no \in BOOLEAN /\ charon' = NewCharon(no)
    BY <1>1
  <2> HIDE DEF no
  <2> QED
    BY <2>1, NewCharonType
<1>4. charon'.loaded = {} /\ charon'.sa = "none" /\ charon'.job = 0
  BY <1>1 DEF NewCharon
<1>5. todo # <<>> => Head(todo) \in Commands
  BY UnderWay
<1>6. \A k \in Conns : conn'[k] \in {conn[k], Break(conn[k])} /\ (conn[k].open => conn'[k] = Break(conn[k]))
  BY <1>1 DEF Conns
<1>7. \A k \in Conns : /\ conn'[k] \in Clients /\ conn'[k].open = conn[k].open
                       /\ conn'[k].wire = conn[k].wire /\ (conn'[k].open => conn'[k].broken)
                       /\ Kept(k)
  <2> TAKE k \in Conns
  <2>1. IF todo # <<>> /\ k = InUse THEN Busy(conn[k], Head(todo)) ELSE Quiet(conn[k])
    BY DEF Base, WireInv
  <2>2. conn[k] \in Clients
    BY <1>2
  <2>3. /\ Break(conn[k]) \in Clients /\ Break(conn[k]).open = conn[k].open
        /\ Break(conn[k]).broken /\ Break(conn[k]).wire = conn[k].wire
        /\ Quiet(conn[k]) => Quiet(Break(conn[k]))
        /\ \A command \in Commands : Busy(conn[k], command) => Busy(Break(conn[k]), command)
    BY <2>2, BreakKeeps
  <2>4. CASE conn'[k] = conn[k]
    BY <1>6, <2>1, <2>2, <2>3, <2>4 DEF Kept
  <2>5. CASE conn'[k] = Break(conn[k])
    BY <1>5, <2>1, <2>3, <2>5 DEF Kept
  <2> QED
    BY <1>6, <2>4, <2>5
<1>8. conn' \in [Conns -> Clients]
  <2>1. conn' = [k \in Conns |-> conn'[k]]
    BY <1>1 DEF Conns
  <2> QED
    BY <1>7, <2>1
<1>9. UNCHANGED <<sup, at, todo>>
  BY <1>1, ByClientPlace
<1>10. PlaceInv' /\ WireInv' /\ (todo # <<>> => InUse' = InUse)
  BY <1>4, <1>7, <1>8, <1>9, StaysInPlace
<1>11. breaks' \in 0..MaxBreaks
  BY <1>1, <1>2, BoundsAssumption
<1>12. TypeOK'
  BY <1>1, <1>2, <1>3, <1>8, <1>11, ByClientTypes
<1> QED
  BY <1>4, <1>7, <1>10, <1>12 DEF Base

-----------------------------------------------------------------------------
(* The rest of run, and the command line.                                  *)

LEMMA ViewsKept ==
  ASSUME NEW v \in Views, NEW e \in Events
  PROVE  HandleEvent(v, e) \in Views
<1>1. PICK isUp \in BOOLEAN : e = IkeEvent(isUp) \/ \E i \in Kids : e = ChildEvent(i, isUp)
  BY DEF Events
<1>2. CASE e = IkeEvent(isUp)
  <2>1. e.name = "ike" /\ e.up = isUp
    BY <1>2 DEF IkeEvent
  <2>2. OnIkeUpdown(v, isUp) \in Views
    BY DEF OnIkeUpdown, Views
  <2> QED
    BY <2>1, <2>2 DEF HandleEvent
<1>3. CASE \E i \in Kids : e = ChildEvent(i, isUp)
  <2>1. PICK i \in Kids : e = ChildEvent(i, isUp)
    BY <1>3
  <2>2. e.name = "child" /\ e.up = isUp /\ e.child = i
    BY <2>1 DEF ChildEvent
  <2> DEFINE up == IF isUp THEN v.up \cup {i} ELSE v.up \ {i}
             t == IF isUp THEN v.tunnelUp \/ up = Kids ELSE v.tunnelUp /\ up # {}
  <2>3. up \in SUBSET Kids /\ t \in BOOLEAN
    BY DEF Views
  <2>4. OnChildUpdown(v, i, isUp) = [v EXCEPT !.up = up, !.tunnelUp = t]
    BY DEF OnChildUpdown
  <2> HIDE DEF up, t
  <2>5. [v EXCEPT !.up = up, !.tunnelUp = t] \in Views
    BY <2>3 DEF Views
  <2> QED
    BY <2>2, <2>4, <2>5 DEF HandleEvent
<1> QED
  BY <1>1, <1>2, <1>3

\* The next event of a connection that is free is one, and leaves it free.
LEMMA NextIsEvent ==
  ASSUME NEW c \in Clients, Quiet(c), HasEvent(c)
  PROVE  /\ NextEvent(c) \in Events /\ TakeEvent(c) \in Clients /\ Quiet(TakeEvent(c))
         /\ TakeEvent(c).open = c.open /\ TakeEvent(c).broken = c.broken
<1> DEFINE e == NextEvent(c)
           d == TakeEvent(c)
<1>1. CASE c.pending # <<>>
  <2>1. e = Head(c.pending) /\ d = [c EXCEPT !.pending = Tail(@)]
    BY <1>1 DEF NextEvent, TakeEvent
  <2>2. c.pending \in Seq(Events)
    BY ClientSet
  <2>3. e \in Events /\ Tail(c.pending) \in Seq(Events)
    BY <1>1, <2>1, <2>2
  <2>4. /\ d \in Clients /\ d.open = c.open /\ d.wire = c.wire /\ d.request = c.request
        /\ d.refused = c.refused /\ d.poisoned = c.poisoned /\ d.broken = c.broken
    BY <2>1, <2>3, ClientSet
  <2> QED
    BY <2>3, <2>4 DEF Quiet
<1>2. CASE c.pending = <<>>
  <2>1. e = Head(c.wire) /\ d = [c EXCEPT !.wire = Tail(@)] /\ c.wire # <<>> /\ ~c.poisoned
    BY <1>2 DEF NextEvent, TakeEvent, HasEvent
  <2>2. c.wire \in Seq(Packets)
    BY ClientSet
  <2>3. /\ Tail(c.wire) \in Seq(Packets) /\ Head(c.wire) = c.wire[1] /\ 1 \in DOMAIN c.wire
        /\ Head(c.wire) \in Packets
    BY <2>1, <2>2, TailPackets
  <2>4. IsEvent(e)
    BY <2>1, <2>3 DEF Quiet, AllEvents
  <2>5. e \in Events
    BY <2>1, <2>3, <2>4 DEF Packets, IsEvent
  <2>6. AllEvents(Tail(c.wire))
    BY <2>1, <2>2, <2>4, EventRead DEF Quiet
  <2>7. /\ d \in Clients /\ d.open = c.open /\ d.wire = Tail(c.wire) /\ d.request = c.request
        /\ d.refused = c.refused /\ d.poisoned = c.poisoned /\ d.broken = c.broken
    BY <2>1, <2>3, ClientSet
  <2> QED
    BY <2>1, <2>5, <2>6, <2>7 DEF Quiet
<1> QED
  BY <1>1, <1>2

LEMMA OnEventBase ==
  ASSUME Base, OnEvent
  PROVE  Base' /\ todo = <<>> /\ at \in {"wait", "watch"} /\ conn'["cmd"] = conn["cmd"]
<1> DEFINE c == conn["evt"]
           e == NextEvent(c)
           d == TakeEvent(c)
<1>1. /\ Listening /\ HasEvent(c) /\ view' = HandleEvent(view, e)
      /\ trusted' = IF e.name = "child" THEN trusted \ {e.child} ELSE trusted
      /\ conn' = [conn EXCEPT !["evt"] = d]
      /\ UNCHANGED <<supVars, needs, at, todo, index, mine, outcome, worldVars, excused>>
  BY DEF OnEvent
<1>2. at \in {"wait", "watch"}
  BY <1>1 DEF Listening
<1>3. todo = <<>>
  BY <1>2 DEF Base, PlaceInv
<1>4. /\ conn \in [Conns -> Clients] /\ c \in Clients /\ \A k \in Conns : Quiet(conn[k])
      /\ Quiet(c) /\ view \in Views /\ trusted \subseteq Kids
  BY <1>3, Types DEF Base, WireInv, Conns
<1>5. e \in Events /\ d \in Clients /\ Quiet(d) /\ d.open = c.open
  BY <1>1, <1>4, NextIsEvent
<1> HIDE DEF d, e
<1>6. /\ conn' \in [Conns -> Clients] /\ conn'["evt"] = d /\ conn'["cmd"] = conn["cmd"]
  BY <1>1, <1>4, <1>5 DEF Conns
<1>7. \A k \in Conns : conn'[k].open = conn[k].open /\ Kept(k)
  BY <1>3, <1>4, <1>5, <1>6 DEF Kept, Conns
<1>8. charon'.job # 0 /\ charon'.heard /\ conn'["cmd"].open /\ ~conn'["cmd"].broken =>
        at = "initiate" /\ conn'["cmd"].request = NoCommand /\ AllEvents(conn'["cmd"].wire)
  BY <1>1, <1>6 DEF Base, WireInv, worldVars
<1>9. PlaceInv' /\ WireInv'
  BY <1>1, <1>6, <1>7, <1>8, StaysInPlace DEF supVars
<1>10. view' \in Views /\ trusted' \subseteq Kids
  BY <1>1, <1>4, <1>5, ViewsKept
<1>11. TypeOK'
  BY <1>1, <1>6, <1>10, Types, TypesNext DEF Base, worldVars, SupTypeOK, supVars
<1> QED
  BY <1>2, <1>3, <1>6, <1>9, <1>11 DEF Base

\* Where run waits for events, no command is under way.
LEMMA WaitingSettled ==
  ASSUME Base, at \in {"wait", "watch", "grace"}
  PROVE  /\ Settled(conn) /\ conn["evt"].open /\ sup = "running" /\ todo = <<>>
         /\ at # "grace" => conn["cmd"].open
<1>1. todo = <<>> /\ conn["evt"].open /\ sup = "running" /\ (at # "grace" => conn["cmd"].open)
  BY DEF Base, PlaceInv
<1>2. Free(conn)
  BY <1>1, Types DEF Base, WireInv, Free
<1>3. ~(charon.job # 0 /\ charon.heard /\ conn["cmd"].open /\ ~conn["cmd"].broken)
  BY DEF Base, WireInv
<1> QED
  BY <1>1, <1>2, <1>3 DEF Settled

LEMMA CancelBase ==
  ASSUME Base, CancelInitiate \/ CancelListening \/ WatchEnds
  PROVE  Base' /\ at' = "close"
<1>1. UNCHANGED <<supVars, needs, index, view, mine, worldVars, trusted, excused>>
  BY DEF CancelInitiate, CancelListening, WatchEnds
<1>2. \E cs : \E result \in Results :
        /\ Settled(cs) /\ cs["evt"].open /\ sup = "running" /\ Close(cs, result)
  <2>1. CASE CancelInitiate
    <3>1. at = "initiate" /\ Close([conn EXCEPT !["cmd"] = Dropped], "stopped")
      BY <2>1 DEF CancelInitiate
    <3> DEFINE cs == [conn EXCEPT !["cmd"] = Dropped]
    <3>2. todo # <<>> /\ InUse = "cmd"
      BY <3>1, InitiateInUse
    <3>3. Quiet(conn["evt"]) /\ conn["evt"].open /\ sup = "running"
      BY <3>2, UnderWay DEF Conns
    <3>4. conn \in [Conns -> Clients] /\ Dropped \in Clients /\ Quiet(Dropped) /\ ~Dropped.open
      BY Types, FreshClients DEF Base
    <3>5. cs \in [Conns -> Clients] /\ cs["cmd"] = Dropped /\ cs["evt"] = conn["evt"]
      BY <3>4 DEF Conns
    <3> HIDE DEF cs
    <3>6. Settled(cs) /\ cs["evt"].open
      BY <3>3, <3>4, <3>5 DEF Settled, Free, Conns
    <3>7. Close(cs, "stopped")
      BY <3>1 DEF cs
    <3> QED
      BY <3>3, <3>6, <3>7 DEF Results
  <2>2. CASE CancelListening \/ WatchEnds
    <3>1. /\ at \in {"wait", "watch"}
          /\ Close(conn, "stopped") \/ Close(conn, "down") \/ Close(conn, "error")
      BY <2>2 DEF CancelListening, WatchEnds, Listening
    <3>2. Settled(conn) /\ conn["evt"].open /\ sup = "running"
      BY <3>1, WaitingSettled
    <3> QED
      BY <3>1, <3>2 DEF Results
  <2> QED
    BY <2>1, <2>2
<1>3. Landed /\ at' = "close"
  BY <1>1, <1>2, CloseLands DEF supVars, worldVars
<1>4. TypeOK'
  BY <1>1, <1>3, Types, TypesNext DEF Base, Landed, worldVars, SupTypeOK, supVars
<1> QED
  BY <1>3, <1>4 DEF Base, Landed

LEMMA WaitEndsBase ==
  ASSUME Base, WaitEnds
  PROVE  Base' /\ at' \in {"initiate", "close", "subscribe"}
<1>1. at = "wait" /\ UNCHANGED <<supVars, needs, mine, worldVars, excused>>
  BY DEF WaitEnds
<1>2. /\ Settled(conn) /\ conn["evt"].open /\ conn["cmd"].open /\ sup = "running"
      /\ sup' = sup /\ charon' = charon
  BY <1>1, WaitingSettled DEF supVars, worldVars
<1>3. outcome \in Results /\ view \in Views /\ index \in Kids /\ trusted \subseteq Kids
  BY Types DEF Base
<1>4. CASE index < Children
  <2>1. index' = index + 1 /\ StartInitiate(conn) /\ UNCHANGED <<view, trusted>>
    BY <1>4 DEF WaitEnds
  <2>2. Landed /\ at' \in {"initiate", "close"}
    BY <1>2, <1>3, <2>1, InitiateLands
  <2>3. index' \in Kids
    BY <1>3, <1>4, <2>1, ChildrenAssumption DEF Kids
  <2>4. TypeOK'
    BY <1>1, <2>1, <2>2, <2>3, Types, TypesNext DEF Base, Landed, worldVars, SupTypeOK, supVars
  <2> QED
    BY <2>2, <2>4 DEF Base, Landed
<1>5. CASE ~(index < Children)
  <2>1. /\ Begin(conn, "subscribe", <<Register("log")>>) /\ UNCHANGED <<index, outcome>>
        /\ \/ UNCHANGED <<view, trusted>>
           \/ view' = [view EXCEPT !.up = Kids, !.tunnelUp = TRUE] /\ trusted' = Kids \ view.up
    BY <1>5 DEF WaitEnds
  <2>2. view' \in Views /\ trusted' \subseteq Kids
    BY <1>3, <2>1 DEF Views
  <2>3. <<Register("log")>> \in Seq(Commands) /\ <<Register("log")>> # <<>>
    <3>1. Register("log") \in Commands
      BY DEF Commands
    <3> QED
      BY <3>1
  <2>4. /\ conn' \in [Conns -> Clients] /\ at' = "subscribe" /\ todo' = <<Register("log")>>
        /\ \A k \in Conns : conn'[k].open = conn[k].open
    BY <1>2, <2>1, <2>3, BeginStarts DEF Settled
  <2>5. WireInv'
    BY <1>2, <2>1, <2>3, BeginWire
  <2>6. conn'["evt"].open /\ conn'["cmd"].open
    BY <1>2, <2>4 DEF Conns
  <2>7. PlaceInv'
    BY <1>2, <2>4, <2>6 DEF PlaceInv
  <2>8. TypeOK'
    BY <1>1, <2>1, <2>2, <2>3, <2>4, Types, TypesNext
       DEF Base, Places, worldVars, SupTypeOK, supVars
  <2> QED
    BY <2>4, <2>5, <2>7, <2>8 DEF Base
<1> QED
  BY <1>4, <1>5

LEMMA GraceEndsBase ==
  ASSUME Base, GraceEnds
  PROVE  Base' /\ at' = "again" /\ todo' = <<Terminate>> /\ \A k \in Conns : AllEvents(conn'[k].wire)
<1>1. /\ at = "grace" /\ Begin(conn, "again", <<Terminate>>)
      /\ excused' = IF charon.job # 0 /\ charon.sa = "none" THEN excused \cup {"sa"} ELSE excused
      /\ UNCHANGED <<supVars, needs, index, view, mine, outcome, worldVars, trusted>>
  BY DEF GraceEnds
<1>2. /\ Settled(conn) /\ conn["evt"].open /\ sup = "running" /\ sup' = sup /\ charon' = charon
  BY <1>1, WaitingSettled DEF supVars, worldVars
<1>3. /\ <<Terminate>> \in Seq(Commands) /\ <<Terminate>> # <<>>
      /\ Head(<<Terminate>>) = Terminate
  <2>1. Terminate \in Commands
    BY DEF Commands
  <2> QED
    BY <2>1
<1>4. Head(<<Terminate>>)[1] \in {"terminate", "unload", "unregister"}
  <2>1. Terminate[1] = "terminate"
    BY DEF Terminate
  <2> QED
    BY <1>3, <2>1
<1>5. /\ conn' \in [Conns -> Clients] /\ at' = "again" /\ todo' = <<Terminate>>
      /\ \A k \in Conns : conn'[k].open = conn[k].open /\ AllEvents(conn'[k].wire)
  BY <1>1, <1>2, <1>3, <1>4, BeginStarts DEF Settled
<1>6. WireInv'
  BY <1>1, <1>2, <1>3, <1>4, BeginWire
<1>7. conn'["evt"].open
  BY <1>2, <1>5 DEF Conns
<1>8. PlaceInv'
  BY <1>2, <1>5, <1>7 DEF PlaceInv
<1>9. excused' \subseteq Loads \cup {"sa"}
  BY <1>1, Types DEF Base
<1>10. TypeOK'
  BY <1>1, <1>3, <1>5, <1>9, Types, TypesNext DEF Base, Places, worldVars, SupTypeOK, supVars
<1> QED
  BY <1>5, <1>6, <1>8, <1>10 DEF Base

\* The list of the set-up: what it begins and ends with, and of what kind.
LEMMA SetupPart ==
  ASSUME NEW s \in Seq(Commands), s # <<>>, Head(s) = Version,
         \A i \in DOMAIN s : s[i][1] \in SetupKinds,
         NEW x \in Loads, NEW wanted \in BOOLEAN
  PROVE  LET t == s \o (IF wanted THEN <<Load(x)>> ELSE <<>>)
         IN  /\ t \in Seq(Commands) /\ t # <<>> /\ Head(t) = Version
             /\ \A i \in DOMAIN t : t[i][1] \in SetupKinds
             /\ wanted => t[Len(t)] = Load(x)
<1>1. Load(x) \in Commands /\ Load(x)[1] \in SetupKinds
  BY DEF Commands, Load, SetupKinds
<1>2. CASE ~wanted
  <2>1. s \o <<>> = s
    OBVIOUS
  <2> QED
    BY <1>2, <2>1
<1>3. CASE wanted
  <2> DEFINE u == Load(x)
             t == s \o <<u>>
  <2>1. u \in Commands /\ u[1] \in SetupKinds
    BY <1>1
  <2> HIDE DEF u
  <2>2. /\ t \in Seq(Commands) /\ DOMAIN t = 1..(Len(s) + 1) /\ DOMAIN s = 1..Len(s)
        /\ Len(s) \in Nat /\ Len(s) # 0 /\ Len(t) = Len(s) + 1
        /\ \A i \in DOMAIN s : t[i] = s[i]
        /\ t[Len(s) + 1] = u
        /\ t # <<>> /\ Head(t) = t[1] /\ Head(s) = s[1]
    BY <2>1
  <2> HIDE DEF t
  <2>3. \A i \in DOMAIN t : t[i][1] \in SetupKinds
    BY <2>1, <2>2
  <2>4. Head(t) = Version
    BY <2>2
  <2> QED
    BY <1>3, <2>2, <2>3, <2>4 DEF t, u
<1> QED
  BY <1>2, <1>3

LEMMA SetupList ==
  /\ SetupCommands \in Seq(Commands) /\ SetupCommands # <<>> /\ Head(SetupCommands) = Version
  /\ \A i \in DOMAIN SetupCommands : SetupCommands[i][1] \in SetupKinds
  /\ SetupCommands[Len(SetupCommands)] = Load("conn")
<1> DEFINE s0 == <<Version, Stats, Register("control-log"), Register("ike"), Register("child"),
                   Terminate>>
           s1 == s0 \o (IF "psk" \in needs THEN <<Load("psk")>> ELSE <<>>)
           s2 == s1 \o (IF "eap" \in needs THEN <<Load("eap")>> ELSE <<>>)
           s3 == s2 \o (IF "key" \in needs THEN <<Load("key")>> ELSE <<>>)
           s4 == s3 \o <<Load("conn")>>
           Good(s) == /\ s \in Seq(Commands) /\ s # <<>> /\ Head(s) = Version
                      /\ \A i \in DOMAIN s : s[i][1] \in SetupKinds
<1>1. "conn" \in Loads /\ "psk" \in Loads /\ "eap" \in Loads /\ "key" \in Loads
  BY DEF Loads, Secrets
<1>2. Good(s0)
  <2> DEFINE a == Version
             b == Stats
             c == Register("control-log")
             d == Register("ike")
             e == Register("child")
             f == Terminate
  <2>1. /\ a \in Commands /\ b \in Commands /\ c \in Commands /\ d \in Commands
        /\ e \in Commands /\ f \in Commands
    BY DEF Commands
  <2>2. /\ a[1] \in SetupKinds /\ b[1] \in SetupKinds /\ c[1] \in SetupKinds
        /\ d[1] \in SetupKinds /\ e[1] \in SetupKinds /\ f[1] \in SetupKinds
    BY DEF SetupKinds, Version, Stats, Register, Terminate
  <2>3. s0 = <<a, b, c, d, e, f>>
    OBVIOUS
  <2> HIDE DEF a, b, c, d, e, f
  <2>4. /\ <<a, b, c, d, e, f>> \in Seq(Commands) /\ <<a, b, c, d, e, f>> # <<>>
        /\ Head(<<a, b, c, d, e, f>>) = a
        /\ \A i \in DOMAIN <<a, b, c, d, e, f>> : <<a, b, c, d, e, f>>[i][1] \in SetupKinds
    BY <2>1, <2>2
  <2> HIDE DEF s0
  <2> QED
    BY <2>3, <2>4 DEF a
<1> HIDE DEF s0
<1>3. Good(s1)
  BY <1>1, <1>2, SetupPart
<1> HIDE DEF s1
<1>4. Good(s2)
  BY <1>1, <1>3, SetupPart
<1> HIDE DEF s2
<1>5. Good(s3)
  BY <1>1, <1>4, SetupPart
<1> HIDE DEF s3
<1>6. Good(s4) /\ s4[Len(s4)] = Load("conn")
  <2> DEFINE yes == TRUE
  <2>1. yes \in BOOLEAN /\ s4 = s3 \o (IF yes THEN <<Load("conn")>> ELSE <<>>) /\ yes
    OBVIOUS
  <2> HIDE DEF yes, s4
  <2> QED
    BY <1>1, <1>5, <2>1, SetupPart
<1>7. SetupCommands = s4
  BY DEF SetupCommands, s0, s1, s2, s3
<1> QED
  BY <1>6, <1>7

LEMMA ConnectBase ==
  ASSUME Base, NEW ok \in BOOLEAN, Connect(ok)
  PROVE  /\ Base' /\ at = "connect"
         /\ \/ at' = "none" /\ Return
            \/ /\ at' = "setup" /\ UNCHANGED supVars
               /\ \A k \in Conns : conn'[k].wire = <<>>
<1>1. /\ at = "connect" /\ charon' = [charon EXCEPT !.subs = {}, !.heard = FALSE]
      /\ UNCHANGED <<needs, index, drops, breaks, trusted, excused>>
  BY DEF Connect
<1>2. charon \in Charons /\ sup = "running"
  BY <1>1, Types DEF Base, PlaceInv
<1>3. charon' \in Charons /\ ~charon'.heard
  <2> DEFINE no == FALSE
  <2>1. no \in BOOLEAN /\ ~no /\ charon' = [charon EXCEPT !.subs = {}, !.heard = no]
    BY <1>1
  <2> HIDE DEF no
  <2> QED
    BY <1>2, <2>1 DEF Charons
<1>4. CASE ~ok
  <2>1. Return
    BY <1>4 DEF Connect
  <2>2. Landed /\ at' = "none"
    BY <2>1, ReturnLands
  <2>3. SupTypeOK' /\ view' \in Views /\ mine' \in SUBSET Loads
    BY <2>1, NewViewType, Types DEF Base, Return, Ends, SupTypeOK
  <2>4. TypeOK'
    BY <1>1, <1>3, <2>2, <2>3, Types, TypesNext DEF Base, Landed
  <2> QED
    BY <1>1, <2>1, <2>2, <2>4 DEF Base, Landed
<1>5. CASE ok
  <2> DEFINE cs == [c \in {"cmd", "evt"} |-> NewClient]
  <2>1. Begin(cs, "setup", SetupCommands) /\ UNCHANGED <<supVars, outcome, mine, view>>
    BY <1>5 DEF Connect
  <2>2. /\ cs \in [Conns -> Clients] /\ \A k \in Conns : cs[k] = NewClient
        /\ cs["evt"] = NewClient /\ cs["cmd"] = NewClient
    BY FreshClients DEF Conns
  <2> HIDE DEF cs
  <2>3. Free(cs) /\ cs["evt"].open /\ cs["cmd"].open
    BY <2>2, FreshClients DEF Free
  <2>4. /\ conn' \in [Conns -> Clients] /\ at' = "setup" /\ todo' = SetupCommands
        /\ \A k \in Conns : /\ conn'[k].open = cs[k].open /\ conn'[k].wire = cs[k].wire
                            /\ IF todo' # <<>> /\ k = InUse' THEN Busy(conn'[k], Head(todo'))
                               ELSE Quiet(conn'[k])
    BY <2>1, <2>3, SetupList, BeginStarts
  <2>5. \A k \in Conns : conn'[k].wire = <<>>
    BY <2>2, <2>4 DEF NewClient
  <2>6. conn'["evt"].open /\ conn'["cmd"].open
    BY <2>3, <2>4 DEF Conns
  <2>7. WireInv'
    BY <1>3, <2>4 DEF WireInv
  <2>8. PlaceInv'
    BY <1>2, <2>1, <2>4, <2>6, SetupList DEF PlaceInv, supVars
  <2>9. TypeOK'
    BY <1>1, <1>3, <2>1, <2>4, SetupList, Types, TypesNext
       DEF Base, Places, SupTypeOK, supVars
  <2> QED
    BY <1>1, <2>1, <2>4, <2>5, <2>7, <2>8, <2>9 DEF Base
<1> QED
  BY <1>4, <1>5

LEMMA CommandLineBase ==
  ASSUME Base, StartAttempt \/ SignalArrives \/ GivesUp \/ ProcessExits
  PROVE  Base'
<1>1. CASE StartAttempt
  <2>1. /\ sup \in {"asking", "sleeping"} /\ sup' = "running"
        /\ UNCHANGED <<first, cancelled, persistent>>
        /\ at' = "connect" /\ index' = 1 /\ trusted' = {} /\ outcome' = "error"
        /\ UNCHANGED <<needs, conn, todo, view, mine, worldVars, excused>>
    BY <1>1 DEF StartAttempt, Answered, WakeUp, Running
  <2>2. at = "none" /\ todo = <<>>
    BY <2>1 DEF Base, PlaceInv
  <2>3. PlaceInv'
    BY <2>1, <2>2 DEF PlaceInv
  <2>4. WireInv'
    BY <2>1, <2>2 DEF Base, WireInv, worldVars
  <2>5. TypeOK'
    BY <2>1, Types, TypesNext, ChildrenAssumption
       DEF Base, Places, Results, SupTypeOK, Kids, worldVars
  <2> QED
    BY <2>3, <2>4, <2>5 DEF Base
<1>2. CASE SignalArrives \/ GivesUp
  <2>1. /\ \/ sup' = sup /\ cancelled' = TRUE
           \/ sup \in {"asking", "sleeping"} /\ sup' = "done" /\ cancelled' = cancelled
        /\ UNCHANGED <<first, persistent>>
        /\ UNCHANGED <<needs, tunnelVars, worldVars, trusted, excused>>
    BY <1>2 DEF SignalArrives, GivesUp, Signal, PromptFails, StopSleeping
  <2>2. PlaceInv'
    BY <2>1 DEF Base, PlaceInv, tunnelVars
  <2>3. WireInv'
    BY <2>1 DEF Base, WireInv, InUse, tunnelVars, worldVars
  <2>4. TypeOK'
    BY <2>1, Types, TypesNext DEF Base, SupTypeOK, tunnelVars, worldVars
  <2> QED
    BY <2>2, <2>3, <2>4 DEF Base
<1>3. CASE ProcessExits
  <2>1. /\ sup' = "killed" /\ UNCHANGED <<first, cancelled, persistent>>
        /\ at' = "none" /\ todo' = <<>> /\ conn' = [c \in {"cmd", "evt"} |-> Dropped]
        /\ UNCHANGED <<needs, index, view, mine, outcome, worldVars, trusted, excused>>
    BY <1>3 DEF ProcessExits, SecondSignal
  <2>2. /\ conn' \in [Conns -> Clients] /\ \A k \in Conns : Quiet(conn'[k])
        /\ ~conn'["cmd"].open
    BY <2>1, DroppedPair
  <2>3. PlaceInv'
    BY <2>1 DEF PlaceInv
  <2>4. WireInv'
    BY <2>1, <2>2 DEF WireInv
  <2>5. TypeOK'
    BY <2>1, <2>2, Types, TypesNext DEF Base, Places, SupTypeOK, worldVars
  <2> QED
    BY <2>3, <2>4, <2>5 DEF Base
<1> QED
  BY <1>1, <1>2, <1>3

LEMMA BaseStep == Base /\ [Next]_vars => Base'
<1> SUFFICES ASSUME Base, [Next]_vars PROVE Base'
  OBVIOUS
<1>1. CASE StartAttempt \/ SignalArrives \/ GivesUp \/ ProcessExits
  BY <1>1, CommandLineBase
<1>2. CASE Inner
  BY <1>2, ConnectBase, ReadEventBase, ReadAnswerBase, CommandFailsBase, WaitEndsBase,
     CancelBase, GraceEndsBase DEF Inner
<1>3. CASE OnEvent \/ CancelInitiate \/ CancelListening
  BY <1>3, OnEventBase, CancelBase
<1>4. CASE Charon
  BY <1>4, TakesCommandBase, ConnectionBreaksBase, TakesInitiateBase, CharonWorksBase,
     CharonRestartsBase DEF Charon, Conns
<1>5. CASE UNCHANGED vars
  BY <1>5 DEF vars, Base, TypeOK, SupTypeOK, PlaceInv, WireInv, InUse, supVars, tunnelVars,
     worldVars
<1> QED
  BY <1>1, <1>2, <1>3, <1>4, <1>5 DEF Next

LEMMA BaseHolds == Spec => []Base
  BY BaseInit, BaseStep, PTL DEF Spec

\* Every variable keeps its type, index names a child that was planned, and
\* what is on a connection is an event or an answer.
THEOREM TypesAreKept == Spec => []TypeOK
<1>1. Base => TypeOK
  BY DEF Base
<1> QED
  BY <1>1, BaseHolds, PTL

\* The answer read on a connection is the one to the command under way: what
\* is dropped half-way (initiate, when the token is cancelled) takes its
\* connection with it, and a connection left poisoned by a failure delivers
\* nothing (Client::poisoned, Tunnel::control).
THEOREM AnswersAreOwn == Spec => []OwnAnswers
<1>1. Base => OwnAnswers
  <2> SUFFICES ASSUME Base, todo # <<>>, NEW i \in DOMAIN conn[InUse].wire,
                      ~IsEvent(conn[InUse].wire[i]), ~conn[InUse].refused
               PROVE  conn[InUse].wire[i].of = Head(todo)
    BY DEF OwnAnswers
  <2>1. Busy(conn[InUse], Head(todo))
    BY UnderWay
  <2>2. OneAnswer(conn[InUse].wire, Head(todo))
    BY <2>1 DEF Busy, AllEvents
  <2> QED
    BY <2>2 DEF OneAnswer
<1> QED
  BY <1>1, BaseHolds, PTL

-----------------------------------------------------------------------------
(* What charon keeps of the client: LoadedInv and SaInv.                   *)

\* The connections are those of cs, but for a command that was sent.
Moves(cs) ==
  \A k \in Conns : /\ conn'[k].wire = cs[k].wire /\ conn'[k].broken = cs[k].broken
                  /\ conn'[k].open = cs[k].open

LEMMA BeginMoves ==
  ASSUME NEW cs \in [Conns -> Clients], NEW phase, NEW commands, Begin(cs, phase, commands)
  PROVE  Moves(cs) /\ at' = phase /\ todo' = commands
<1> DEFINE c == Head(commands)
           k == On(cs, c)
<1>1. conn' = [cs EXCEPT ![k] = Send(cs[k], c)] /\ at' = phase /\ todo' = commands
  BY DEF Begin
<1>2. k \in Conns
  BY DEF On, Control, Conns
<1> HIDE DEF k, c
<1>3. cs[k] \in Clients
  BY <1>2
<1>4. /\ Send(cs[k], c).wire = cs[k].wire /\ Send(cs[k], c).broken = cs[k].broken
      /\ Send(cs[k], c).open = cs[k].open
  BY <1>3, ClientSet DEF Send
<1>5. conn'[k] = Send(cs[k], c) /\ \A j \in Conns : j # k => conn'[j] = cs[j]
  BY <1>1, <1>2
<1>6. Moves(cs)
  BY <1>4, <1>5 DEF Moves
<1> QED
  BY <1>1, <1>6

LEMMA EndedMoves ==
  ASSUME NEW cs \in [Conns -> Clients], NEW ok, NEW matches, Ended(cs, ok, matches)
  PROVE  Return \/ Moves(cs)
<1>1. \A phase, commands : Begin(cs, phase, commands) => Moves(cs)
  BY BeginMoves
<1>2. conn' = cs => Moves(cs)
  BY DEF Moves
<1>3. \A result : Close(cs, result) => Moves(cs)
  BY <1>1 DEF Close
<1>4. StartInitiate(cs) => Moves(cs)
  BY <1>1, <1>3 DEF StartInitiate
<1>5. StartUnload(cs) => Return \/ Moves(cs)
  BY <1>1 DEF StartUnload
<1>6. SetupEnds(cs, ok) => Moves(cs)
  BY <1>1, <1>3, <1>4 DEF SetupEnds
<1>7. InitiateEnds(cs, ok) \/ SubscribeEnds(cs) => Moves(cs)
  BY <1>2, <1>3 DEF InitiateEnds, SubscribeEnds
<1>8. CloseEnds(cs, ok, matches) => Return \/ Moves(cs)
  BY <1>1, <1>2, <1>5 DEF CloseEnds
<1> QED
  BY <1>6, <1>7, <1>8 DEF Ended

\* Where a command of each kind is under way.
LEMMA CommandPlaces ==
  ASSUME Base, todo # <<>>
  PROVE  /\ Head(todo)[1] = "load" => at = "setup"
         /\ Head(todo)[1] = "unload" <=> at = "unload"
         /\ Head(todo)[1] = "unregister" => at = "close"
         /\ Head(todo) = Terminate => at \in {"setup", "close", "again"}
         /\ at = "again" => Head(todo) = Terminate
         /\ at = "close" => Head(todo) = Terminate \/ Head(todo)[1] = "unregister"
         /\ at \in {"initiate", "subscribe"} =>
              Head(todo)[1] \in {"initiate", "register"} /\ Head(todo) # Terminate
         /\ at = "setup" => Head(todo)[1] \in SetupKinds
<1>1. /\ Initiate[1] = "initiate" /\ Terminate[1] = "terminate"
      /\ Register("log")[1] = "register"
  BY DEF Initiate, Terminate, Register
<1>2. 1 \in DOMAIN todo /\ Head(todo) = todo[1]
  BY TailCommands, Types DEF Base
<1>3. at = "setup" => Head(todo)[1] \in SetupKinds
  BY <1>2 DEF Base, PlaceInv
<1>4. at = "unload" => Head(todo)[1] = "unload"
  BY <1>2 DEF Base, PlaceInv
<1>5. at = "close" => Head(todo) = Terminate \/ Head(todo)[1] = "unregister"
  BY CloseLists DEF Base
<1>6. /\ at = "again" => Head(todo) = Terminate
      /\ at = "subscribe" => Head(todo) = Register("log")
  <2>1. Terminate \in Commands /\ Register("log") \in Commands
    BY DEF Commands
  <2>2. Head(<<Terminate>>) = Terminate /\ Head(<<Register("log")>>) = Register("log")
    BY <2>1, ShortLists
  <2> QED
    BY <2>2 DEF Base, PlaceInv
<1>7. at = "initiate" => Head(todo) = Initiate
  BY InitiateInUse
<1>8. at \in {"setup", "initiate", "subscribe", "close", "again", "unload"}
  BY UnderWay
<1> QED
  BY <1>1, <1>3, <1>4, <1>5, <1>6, <1>7, <1>8 DEF SetupKinds

LEMMA LoadUses ==
  ASSUME NEW x
  PROVE  /\ On(conn, Load(x)) = "cmd" /\ Load(x)[1] = "load" /\ Load(x)[2] = x
         /\ Load(x) # Terminate /\ Unload(x) # Terminate
         /\ Unload(x)[1] = "unload" /\ Unload(x)[2] = x
<1>1. Load(x)[1] = "load" /\ Load(x)[2] = x /\ Unload(x)[1] = "unload" /\ Unload(x)[2] = x
  BY DEF Load, Unload
<1>2. Terminate[1] = "terminate" /\ \A e : Register(e)[1] = "register"
  BY DEF Terminate, Register
<1>3. On(conn, Load(x)) = "cmd"
  BY <1>1, <1>2 DEF On
<1> QED
  BY <1>1, <1>2, <1>3

\* Nothing is just loaded without an answer.
LEMMA NothingNew ==
  ASSUME AllEvents(conn["cmd"].wire), NEW x
  PROVE  ~JustLoaded(x)
  BY DEF AllEvents, JustLoaded

LEMMA NothingNewNext ==
  ASSUME AllEvents(conn'["cmd"].wire), NEW x
  PROVE  ~JustLoaded(x)'
  BY DEF AllEvents, JustLoaded

\* Before a command is answered, what is loaded is known.
LEMMA KnownAtSetup ==
  ASSUME Base, LoadedInv, todo # <<>>, at = "setup", AllEvents(conn[InUse].wire),
         NEW x \in charon.loaded \ excused
  PROVE  x \in mine
<1>1. x \in mine \/ JustLoaded(x)
  BY UnderWay DEF LoadedInv
<1>2. ASSUME JustLoaded(x) PROVE FALSE
  <2>1. Head(todo) = Load(x)
    BY <1>2 DEF JustLoaded
  <2>2. InUse = "cmd"
    BY <2>1, LoadUses DEF InUse
  <2> QED
    BY <1>2, <2>2, NothingNew
<1> QED
  BY <1>1, <1>2

\* The end of a command of the set-up: answered, or failed without an answer.
LEMMA SetupEndsTrail ==
  ASSUME Base, LoadedInv, SaInv, todo # <<>>, NEW cs, Free(cs),
         cs["cmd"].broken = conn["cmd"].broken,
         NEW ok \in BOOLEAN, SetupEnds(cs, ok), Landed,
         \/ /\ ~AllEvents(conn[InUse].wire)
            /\ \A i \in DOMAIN conn[InUse].wire :
                 ~IsEvent(conn[InUse].wire[i]) => conn[InUse].wire[i].ok = ok
         \/ AllEvents(conn[InUse].wire) /\ ~ok,
         charon' = charon, excused' = excused
  PROVE  LoadedInv' /\ SaInv'
<1>1. /\ at = "setup" /\ UNCHANGED supVars
      /\ mine' = IF ok /\ Head(todo)[1] = "load" THEN mine \cup {Head(todo)[2]} ELSE mine
  BY DEF SetupEnds
<1>2. at' \in {"setup", "initiate", "close"}
  BY DEF SetupEnds, Close, StartInitiate, Begin
<1>3. /\ \A k \in Conns : AllEvents(conn'[k].wire)
      /\ AllEvents(conn'["cmd"].wire) /\ conn'["cmd"].broken = conn["cmd"].broken
  <2>1. cs \in [Conns -> Clients] /\ \A k \in Conns : AllEvents(cs[k].wire)
    BY DEF Free, Quiet
  <2>2. Moves(cs)
    <3>1. Ended(cs, ok, TRUE)
      BY DEF Ended
    <3>2. at' # "none"
      BY <1>2
    <3> QED
      BY <2>1, <3>1, <3>2, EndedMoves DEF Return
  <2> QED
    BY <2>1, <2>2 DEF Moves, Conns
<1>4. ASSUME NEW x \in charon.loaded \ excused PROVE x \in mine'
  <2>1. CASE AllEvents(conn[InUse].wire)
    <3>1. x \in mine
      BY <1>1, <1>4, <2>1, KnownAtSetup
    <3> QED
      BY <1>1, <3>1
  <2>2. CASE ~AllEvents(conn[InUse].wire)
    <3>1. x \in mine \/ JustLoaded(x)
      BY <1>1, <1>4, UnderWay DEF LoadedInv
    <3>2. ASSUME JustLoaded(x) PROVE x \in mine'
      <4>1. Head(todo) = Load(x)
        BY <3>2 DEF JustLoaded
      <4>2. InUse = "cmd" /\ Head(todo)[1] = "load" /\ Head(todo)[2] = x
        BY <4>1, LoadUses DEF InUse
      <4>3. PICK i \in DOMAIN conn["cmd"].wire :
              ~IsEvent(conn["cmd"].wire[i]) /\ conn["cmd"].wire[i].ok
        BY <3>2 DEF JustLoaded
      <4>4. ok
        BY <2>2, <4>2, <4>3
      <4> QED
        BY <1>1, <4>2, <4>4
    <3> QED
      BY <1>1, <3>1, <3>2
  <2> QED
    BY <2>1, <2>2
<1>5. LoadedInv'
  BY <1>2, <1>4 DEF LoadedInv
<1>6. ASSUME at' = "initiate", ~conn'["cmd"].broken PROVE "conn" \in charon.loaded \ excused
  <2>1. ok /\ Tail(todo) = <<>>
    BY <1>6 DEF SetupEnds, Close, StartInitiate, Begin
  <2>2. Head(todo) = Load("conn")
    <3>0. todo \in Seq(Commands)
      BY Types DEF Base
    <3>1. Len(todo) = 1 /\ Head(todo) = todo[1]
      BY <2>1, <3>0, LastCommand
    <3> QED
      BY <1>1, <3>1 DEF Base, PlaceInv
  <2>3. InUse = "cmd"
    BY <2>2, LoadUses DEF InUse
  <2>4. PICK i \in DOMAIN conn["cmd"].wire : ~IsEvent(conn["cmd"].wire[i])
    BY <2>1, <2>3 DEF AllEvents
  <2>5. conn["cmd"].wire[i].ok
    BY <2>1, <2>3, <2>4 DEF AllEvents
  <2>6. JustLoaded("conn")
    BY <2>2, <2>4, <2>5 DEF JustLoaded
  <2> QED
    BY <1>1, <1>3, <1>6, <2>6 DEF SaInv
<1>7. InUse' \in Conns
  BY DEF InUse, On, Control, Conns
<1>8. SaInv'
  <2>1. ~OwnJob'
    BY <1>1, UnderWay DEF SaInv, JobKnown, OwnJob
  <2>2. LookedFor' /\ JobKnown'
    BY <1>3, <1>7, <2>1 DEF LookedFor, JobKnown
  <2>3. ~JustLoaded("conn")'
    BY <1>3, NothingNewNext
  <2> QED
    BY <1>2, <1>6, <2>2, <2>3 DEF SaInv
<1> QED
  BY <1>5, <1>8

\* The end of initiate, or of the subscription to the log.
LEMMA InitiateEndsTrail ==
  ASSUME Base, LoadedInv, SaInv, todo # <<>>, NEW cs, Free(cs),
         cs["cmd"].broken = conn["cmd"].broken,
         NEW ok \in BOOLEAN, InitiateEnds(cs, ok) \/ SubscribeEnds(cs), Landed,
         ~AllEvents(conn[InUse].wire) \/ (~ok /\ conn[InUse].broken),
         charon' = charon, excused' = excused
  PROVE  LoadedInv' /\ SaInv'
<1>1. at \in {"initiate", "subscribe"} /\ UNCHANGED <<supVars, mine>>
  BY DEF InitiateEnds, SubscribeEnds
<1>2. at' \in {"wait", "watch", "close"}
  BY DEF InitiateEnds, SubscribeEnds, Close, Begin
<1>3. /\ \A k \in Conns : AllEvents(conn'[k].wire)
      /\ conn'["cmd"].broken = conn["cmd"].broken
  <2>1. cs \in [Conns -> Clients] /\ \A k \in Conns : AllEvents(cs[k].wire)
    BY DEF Free, Quiet
  <2>2. Moves(cs)
    <3>1. Ended(cs, ok, TRUE)
      BY DEF Ended
    <3>2. at' # "none"
      BY <1>2
    <3> QED
      BY <2>1, <3>1, <3>2, EndedMoves DEF Return
  <2> QED
    BY <2>1, <2>2 DEF Moves, Conns
<1>4. LoadedInv'
  BY <1>1, <1>2 DEF LoadedInv, supVars
<1>5. InUse' \in Conns
  BY DEF InUse, On, Control, Conns
<1>6. SaInv'
  <2>1. JobKnown'
    <3> SUFFICES ASSUME OwnJob
                 PROVE  /\ "conn" \in charon.loaded \ excused
                        /\ at' = "close" /\ conn'["cmd"].broken
      BY DEF OwnJob, JobKnown
    <3>1. sup = "running"
      BY UnderWay
    <3>2. "conn" \in charon.loaded \ excused /\ at = "initiate" /\ AllEvents(conn["cmd"].wire)
      BY <1>1, <3>1 DEF SaInv, JobKnown
    <3>3. InUse = "cmd"
      BY <3>2, InitiateInUse
    <3>4. ~ok /\ conn["cmd"].broken
      BY <3>2, <3>3
    <3>5. at' = "close"
      BY <3>2, <3>4 DEF InitiateEnds, SubscribeEnds, Close, Begin
    <3> QED
      BY <1>3, <3>2, <3>4, <3>5
  <2>2. LookedFor'
    BY <1>3, <1>5 DEF LookedFor
  <2>3. ~conn'["cmd"].broken => "conn" \in charon.loaded \ excused
    BY <1>1, <1>3 DEF SaInv
  <2> QED
    BY <1>2, <2>1, <2>2, <2>3 DEF SaInv
<1> QED
  BY <1>4, <1>6

\* The end of a command of teardown: answered, or failed, and then what it was to
\* remove is excused.
LEMMA CloseEndsTrail ==
  ASSUME Base, LoadedInv, SaInv, todo # <<>>, NEW cs, Settled(cs), cs["evt"].open,
         cs["cmd"].open = conn["cmd"].open, cs["cmd"].broken = conn["cmd"].broken,
         NEW ok \in BOOLEAN, NEW matches, CloseEnds(cs, ok, matches), Landed,
         \/ /\ ~AllEvents(conn[InUse].wire) /\ excused' = excused
            /\ \A i \in DOMAIN conn[InUse].wire :
                 ~IsEvent(conn[InUse].wire[i]) =>
                   conn[InUse].wire[i].ok = ok /\ conn[InUse].wire[i].matches = matches
         \/ excused' = excused \cup Leaves(Head(todo)),
         charon' = charon
  PROVE  LoadedInv' /\ SaInv'
<1>1. /\ at \in {"close", "again", "unload"} /\ sup = "running" /\ Head(todo) \in Commands
      /\ todo \in Seq(Commands) /\ mine \in SUBSET Loads /\ outcome \in Results
  BY UnderWay, Types DEF CloseEnds, Base
<1>2. at' \in {"close", "grace", "unload", "none"}
  BY DEF CloseEnds, StartUnload, Return, Begin
<1>3. sup' # "killed"
  BY <1>1 DEF CloseEnds, StartUnload, Return, Ends, supVars
<1>4. at' # "none" => /\ \A k \in Conns : AllEvents(conn'[k].wire)
                      /\ conn'["cmd"].open = conn["cmd"].open
                      /\ conn'["cmd"].broken = conn["cmd"].broken
  <2>1. cs \in [Conns -> Clients] /\ \A k \in Conns : AllEvents(cs[k].wire)
    BY DEF Settled, Free, Quiet
  <2>2. Ended(cs, ok, matches)
    BY DEF Ended
  <2>3. Return => at' = "none"
    BY DEF Return
  <2> QED
    BY <2>1, <2>2, <2>3, EndedMoves DEF Moves, Conns
<1>5. InUse' \in Conns
  BY DEF InUse, On, Control, Conns
<1>6. LookedFor'
  BY <1>4, <1>5 DEF LookedFor
<1>7. excused \subseteq excused'
  OBVIOUS
<1>8. Terminate[1] = "terminate"
  BY DEF Terminate
<1>9. CASE Head(todo)[1] = "unregister"
  <2>1. at = "close" /\ at' = "close" /\ UNCHANGED mine
    <3>1. Head(todo) # Terminate
      BY <1>8, <1>9
    <3>2. Begin(cs, "close", Tail(todo)) /\ UNCHANGED <<supVars, outcome, mine, view>>
      BY <1>9, <3>1 DEF CloseEnds
    <3> QED
      BY <1>9, <3>2, CommandPlaces DEF Begin
  <2>2. excused' = excused
    BY <1>1, <1>9, LeavesType
  <2>3. LoadedInv'
    BY <1>1, <2>1, <2>2 DEF LoadedInv
  <2>4. JobKnown'
    BY <1>1, <1>4, <2>1, <2>2 DEF SaInv, JobKnown, OwnJob
  <2> QED
    BY <1>6, <2>1, <2>3, <2>4 DEF SaInv
<1>10. CASE Head(todo) = Terminate /\ Head(todo)[1] # "unregister"
  <2>1. at \in {"close", "again"}
    BY <1>1, <1>10, CommandPlaces
  <2>2. \A x \in charon.loaded \ excused' : x \in mine
    BY <1>1, <1>7, <2>1 DEF LoadedInv
  <2>3. IF at = "close" /\ ok /\ ~matches /\ ~cs["cmd"].open
        THEN /\ at' = "grace" /\ todo' = <<>> /\ conn' = cs
             /\ UNCHANGED <<supVars, outcome, mine, view>>
        ELSE StartUnload(cs)
    BY <1>10 DEF CloseEnds
  <2>4. (at' = "grace" /\ excused' = excused) \/ NoneLeft'
    <3>1. CASE ~AllEvents(conn[InUse].wire) /\ excused' = excused
      <4>1. NoneLeft => NoneLeft'
        BY <3>1 DEF NoneLeft
      <4>2. NoneLeft \/ (at = "close" /\ ~conn["cmd"].open /\ Unmatched(conn[InUse].wire))
        BY <1>10, <2>1, <3>1 DEF SaInv, LookedFor
      <4>3. ASSUME ~NoneLeft PROVE at' = "grace"
        <5>1. at = "close" /\ ~cs["cmd"].open /\ Unmatched(conn[InUse].wire)
          BY <4>2, <4>3
        <5>2. CASE excused' = excused \cup Leaves(Head(todo))
          <6>1. "sa" \in excused
            BY <1>1, <1>10, <3>1, <5>2, LeavesType
          <6> QED
            BY <4>3, <6>1 DEF NoneLeft
        <5>3. CASE \A i \in DOMAIN conn[InUse].wire :
                     ~IsEvent(conn[InUse].wire[i]) =>
                       conn[InUse].wire[i].ok = ok /\ conn[InUse].wire[i].matches = matches
          <6>1. PICK i \in DOMAIN conn[InUse].wire : ~IsEvent(conn[InUse].wire[i])
            BY <3>1 DEF AllEvents
          <6>2. conn[InUse].wire[i].ok /\ ~conn[InUse].wire[i].matches
            BY <5>1, <6>1 DEF Unmatched
          <6>3. ok /\ ~matches
            BY <5>3, <6>1, <6>2
          <6> QED
            BY <2>3, <5>1, <6>3
        <5> QED
          BY <5>2, <5>3
      <4> QED
        BY <3>1, <4>1, <4>3
    <3>2. CASE excused' = excused \cup Leaves(Head(todo))
      BY <1>1, <1>10, <3>2, LeavesType DEF NoneLeft
    <3> QED
      BY <3>1, <3>2
  <2>5. CASE at' = "grace"
    <3>1. UNCHANGED mine
      BY <2>3, <2>5 DEF StartUnload, Return, Begin
    <3>2. LoadedInv'
      BY <2>2, <2>5, <3>1 DEF LoadedInv
    <3>3. JobKnown'
      <4>1. CASE excused' = excused
        BY <1>1, <2>5, <4>1 DEF SaInv, JobKnown, OwnJob
      <4>2. CASE NoneLeft'
        BY <4>2 DEF NoneLeft, JobKnown, OwnJob
      <4> QED
        BY <2>4, <4>1, <4>2
    <3> QED
      BY <1>6, <2>5, <3>2, <3>3 DEF SaInv
  <2>6. CASE at' # "grace"
    <3>1. StartUnload(cs) /\ NoneLeft'
      BY <2>3, <2>4, <2>6
    <3>2. JobKnown'
      BY <3>1 DEF NoneLeft, JobKnown, OwnJob
    <3>3. \/ at' = "none" /\ mine = {} /\ Return
          \/ /\ at' = "unload"
             /\ \A x \in mine : \E i \in DOMAIN todo' : todo'[i] = Unload(x)
      BY <1>1, <3>1, UnloadLands
    <3>4. CASE at' = "none" /\ mine = {}
      <4>1. LoadedInv'
        BY <2>2, <3>4 DEF LoadedInv
      <4> QED
        BY <1>6, <3>1, <3>2, <3>4, <4>1 DEF SaInv
    <3>5. CASE at' = "unload" /\ \A x \in mine : \E i \in DOMAIN todo' : todo'[i] = Unload(x)
      <4>1. ASSUME NEW x \in charon.loaded \ excused' PROVE StillToUnload(x)'
        <5>1. PICK i \in DOMAIN todo' : todo'[i] = Unload(x)
          BY <2>2, <3>5
        <5>2. todo' \in Seq(Commands)
          BY DEF Landed
        <5>3. i \in 2..Len(todo') \/ (i = 1 /\ Head(todo') = todo'[1])
          BY <5>2
        <5>4. AllEvents(conn'[InUse'].wire)
          BY <1>4, <1>5, <3>5
        <5> QED
          BY <5>1, <5>3, <5>4 DEF StillToUnload
      <4>2. LoadedInv'
        BY <3>5, <4>1 DEF LoadedInv
      <4> QED
        BY <1>6, <3>1, <3>2, <3>5, <4>2 DEF SaInv
    <3> QED
      BY <3>3, <3>4, <3>5
  <2> QED
    BY <2>5, <2>6
<1>11. CASE Head(todo) # Terminate /\ Head(todo)[1] # "unregister"
  <2>1. at = "unload" /\ Head(todo)[1] = "unload" /\ Head(todo) = Unload(Head(todo)[2])
    BY <1>1, <1>11, CommandPlaces, CommandFacts
  <2>2. NoneLeft'
    BY <1>1, <1>7, <2>1 DEF SaInv, NoneLeft
  <2>3. JobKnown'
    BY <2>2 DEF NoneLeft, JobKnown, OwnJob
  <2>4. \A x \in charon.loaded \ excused' : \E i \in 2..Len(todo) : todo[i] = Unload(x)
    <3> SUFFICES ASSUME NEW x \in charon.loaded \ excused'
                 PROVE  \E i \in 2..Len(todo) : todo[i] = Unload(x)
      OBVIOUS
    <3>1. StillToUnload(x)
      BY <1>1, <1>7, <2>1 DEF LoadedInv
    <3>2. ~(Head(todo) = Unload(x) /\ AllEvents(conn[InUse].wire))
      <4>1. CASE excused' = excused \cup Leaves(Head(todo))
        <5>1. Leaves(Head(todo)) = {Head(todo)[2]}
          BY <1>1, <2>1, LeavesType
        <5>2. x # Head(todo)[2]
          BY <4>1, <5>1
        <5> QED
          BY <5>2, LoadUses
      <4> QED
        BY <4>1
    <3> QED
      BY <3>1, <3>2 DEF StillToUnload
  <2>5. CASE Tail(todo) = <<>>
    <3>1. Len(todo) = 1
      BY <1>1, <2>5, LastCommand
    <3>2. charon.loaded \ excused' = {}
      BY <2>4, <3>1
    <3>3. at' = "none"
      BY <1>11, <2>5 DEF CloseEnds, Return
    <3> QED
      BY <1>6, <2>2, <2>3, <3>2, <3>3 DEF LoadedInv, SaInv
  <2>6. CASE Tail(todo) # <<>>
    <3>1. at' = "unload" /\ todo' = Tail(todo)
      BY <1>11, <2>6 DEF CloseEnds, Begin
    <3>2. ASSUME NEW x \in charon.loaded \ excused' PROVE StillToUnload(x)'
      <4>1. PICK i \in 2..Len(todo) : todo[i] = Unload(x)
        BY <2>4
      <4>2. /\ i - 1 \in 1..Len(todo') /\ todo'[i - 1] = Unload(x)
            /\ Head(todo') = todo'[1] /\ Len(todo') \in Nat
        BY <1>1, <3>1, <4>1, <2>6, TailCommands
      <4>3. i - 1 \in 2..Len(todo') \/ Head(todo') = Unload(x)
        BY <4>2
      <4>4. AllEvents(conn'[InUse'].wire)
        BY <1>4, <1>5, <3>1
      <4> QED
        BY <4>2, <4>3, <4>4 DEF StillToUnload
    <3>3. LoadedInv'
      BY <3>1, <3>2 DEF LoadedInv
    <3> QED
      BY <1>6, <2>2, <2>3, <3>1, <3>3 DEF SaInv
  <2> QED
    BY <2>5, <2>6
<1> QED
  BY <1>9, <1>10, <1>11

Trail == LoadedInv /\ SaInv

LEMMA ReadAnswerTrail ==
  ASSUME Base, Trail, ReadAnswer
  PROVE  Trail'
<1> DEFINE c == conn[InUse]
           d == TakeAnswer(c)
           cs == [conn EXCEPT ![InUse] = d]
           ok == Head(c.wire).ok
           matches == Head(c.wire).matches
<1>1. /\ todo # <<>> /\ HasPacket(c) /\ ~IsEvent(Head(c.wire)) /\ Ended(cs, ok, matches)
      /\ UNCHANGED <<needs, index, worldVars, trusted, excused>>
  BY DEF ReadAnswer
<1>2. c \in Clients /\ Head(todo) \in Commands /\ Busy(c, Head(todo))
  BY <1>1, UnderWay
<1>3. /\ d \in Clients /\ Quiet(d) /\ d.open = c.open /\ d.broken = c.broken
      /\ ~AllEvents(c.wire) /\ OneAnswer(c.wire, Head(todo)) /\ Head(c.wire) \in Packets \ Events
  BY <1>1, <1>2, AnswerFrees
<1>4. /\ Settled(cs) /\ cs["evt"].open /\ cs["cmd"].open = conn["cmd"].open
      /\ cs["cmd"].broken = conn["cmd"].broken
  BY <1>1, <1>3, Freed
<1>5. ok \in BOOLEAN
  BY <1>3 DEF Packets
<1>6. \A i \in DOMAIN c.wire : ~IsEvent(c.wire[i]) => c.wire[i].ok = ok /\ c.wire[i].matches = matches
  <2>1. PICK j \in DOMAIN c.wire : \A i \in DOMAIN c.wire : i # j => IsEvent(c.wire[i])
    BY <1>3 DEF OneAnswer
  <2>2. Head(c.wire) = c.wire[1] /\ 1 \in DOMAIN c.wire
    <3>1. c.wire \in Seq(Packets) /\ c.wire # <<>>
      BY <1>1, <1>2, ClientSet DEF HasPacket
    <3> QED
      BY <3>1, TailPackets
  <2>3. j = 1
    BY <1>1, <2>1, <2>2
  <2> QED
    BY <2>1, <2>2, <2>3
<1>7. charon' = charon /\ excused' = excused
  BY <1>1 DEF worldVars
<1>8. conn[InUse].wire = c.wire
  OBVIOUS
<1> HIDE DEF c, d, cs, ok, matches
<1>9. Landed
  BY <1>1, <1>4, <1>7, EndedLands
<1>10. Free(cs)
  BY <1>4 DEF Settled
<1>11. CASE SetupEnds(cs, ok)
  BY <1>1, <1>3, <1>4, <1>5, <1>6, <1>7, <1>8, <1>9, <1>10, <1>11, SetupEndsTrail DEF Trail
<1>12. CASE InitiateEnds(cs, ok) \/ SubscribeEnds(cs)
  BY <1>1, <1>3, <1>4, <1>5, <1>7, <1>8, <1>9, <1>10, <1>12, InitiateEndsTrail DEF Trail
<1>13. CASE CloseEnds(cs, ok, matches)
  BY <1>1, <1>3, <1>4, <1>5, <1>6, <1>7, <1>8, <1>9, <1>13, CloseEndsTrail DEF Trail
<1> QED
  BY <1>1, <1>11, <1>12, <1>13 DEF Ended

LEMMA CommandFailsTrail ==
  ASSUME Base, Trail, CommandFails
  PROVE  Trail'
<1> DEFINE c == conn[InUse]
           no == FALSE
<1>1. PICK d \in AfterFailure(c) :
        /\ todo # <<>> /\ Fails(c)
        /\ Ended([conn EXCEPT ![InUse] = d], no, no)
        /\ excused' = excused \cup (IF at = "setup" THEN {} ELSE Leaves(Head(todo)))
        /\ UNCHANGED <<needs, index, worldVars, trusted>>
  BY DEF CommandFails
<1> DEFINE cs == [conn EXCEPT ![InUse] = d]
<1>2. c \in Clients /\ Head(todo) \in Commands /\ Busy(c, Head(todo))
  BY <1>1, UnderWay
<1>3. /\ d \in Clients /\ Quiet(d) /\ d.open = c.open /\ d.broken = c.broken /\ d.broken
      /\ AllEvents(c.wire)
  BY <1>1, <1>2, FailureFrees
<1>4. /\ Settled(cs) /\ cs["evt"].open /\ cs["cmd"].open = conn["cmd"].open
      /\ cs["cmd"].broken = conn["cmd"].broken
  BY <1>1, <1>3, Freed
<1>5. /\ no \in BOOLEAN /\ ~no /\ charon' = charon
      /\ AllEvents(conn[InUse].wire) /\ conn[InUse].broken
  BY <1>1, <1>3 DEF worldVars
<1> HIDE DEF c, cs, no
<1>6. Ended(cs, no, no)
  BY <1>1 DEF cs
<1>7. Landed
  BY <1>1, <1>4, <1>5, <1>6, EndedLands
<1>8. Free(cs)
  BY <1>4 DEF Settled
<1>9. CASE SetupEnds(cs, no)
  <2>1. excused' = excused
    BY <1>1, <1>9 DEF SetupEnds
  <2> QED
    BY <1>1, <1>4, <1>5, <1>7, <1>8, <1>9, <2>1, SetupEndsTrail DEF Trail
<1>10. CASE InitiateEnds(cs, no) \/ SubscribeEnds(cs)
  <2>1. at \in {"initiate", "subscribe"}
    BY <1>10 DEF InitiateEnds, SubscribeEnds
  <2>2. excused' = excused
    <3>1. Head(todo)[1] \notin {"terminate", "unload"}
      BY <1>1, <2>1, CommandPlaces
    <3>2. Leaves(Head(todo)) = {}
      BY <1>2, <3>1, LeavesType
    <3> QED
      BY <1>1, <3>2
  <2> QED
    BY <1>1, <1>4, <1>5, <1>7, <1>8, <1>10, <2>2, InitiateEndsTrail DEF Trail
<1>11. CASE CloseEnds(cs, no, no)
  <2>1. at \in {"close", "again", "unload"}
    BY <1>11 DEF CloseEnds
  <2>2. excused' = excused \cup Leaves(Head(todo))
    BY <1>1, <2>1
  <2> QED
    BY <1>1, <1>4, <1>5, <1>7, <1>11, <2>2, CloseEndsTrail DEF Trail
<1> QED
  BY <1>6, <1>9, <1>10, <1>11 DEF Ended

\* Where the commands of an attempt go.
LEMMA TalkingUses ==
  ASSUME conn["cmd"].open
  PROVE  /\ On(conn, Terminate) = "cmd" /\ On(conn, Initiate) = "cmd"
         /\ \A e \in {"ike", "child", "log"} : On(conn, Register(e)) = "evt"
<1>1. Terminate[1] = "terminate" /\ Initiate[1] = "initiate" /\ \A e : Register(e)[1] = "register"
  BY DEF Terminate, Initiate, Register
<1>2. On(conn, Terminate) = "cmd"
  BY <1>1 DEF On, Control
<1>3. On(conn, Initiate) = "cmd"
  BY <1>1 DEF On
<1>4. ASSUME NEW e \in {"ike", "child", "log"} PROVE On(conn, Register(e)) = "evt"
  BY <1>1 DEF On
<1> QED
  BY <1>2, <1>3, <1>4

LEMMA TakesCommandTrail ==
  ASSUME Base, Trail, NEW c \in Conns, TakesCommand(c)
  PROVE  Trail'
<1> DEFINE r == conn[c].request
<1>1. r = Head(todo) /\ r \in Commands /\ r \notin {NoCommand, Initiate}
  BY TakesCommandCases
<1>2. /\ todo # <<>> /\ c = InUse /\ AllEvents(conn[c].wire)
  BY <1>1, RequestIsCommand
<1>2a. ~conn[c].broken
  BY <1>1, RequestIsCommand
<1> DEFINE Case(cs, ok, matches) ==
             /\ EvtGets([conn EXCEPT ![c] = Take(@)], cs)
             /\ conn' = Respond(cs, c, Answer(conn[c].request, ok, matches))
             /\ \/ ~ok /\ r[1] \notin {"terminate", "unload"} /\ charon' = charon /\ excused' = excused
                \/ /\ ok /\ r # Terminate /\ charon' = Taken(r, c)
                   /\ excused' = IF r[1] = "load" THEN excused \ {r[2]} ELSE excused
                \/ /\ ok /\ r = Terminate /\ charon' = WithoutSa(charon)
                   /\ matches <=> charon.sa # "none"
                   /\ excused' = IF charon'.job = 0 THEN excused \ {"sa"} ELSE excused
<1>3. PICK cs : \E ok, matches \in BOOLEAN : Case(cs, ok, matches)
  BY TakesCommandCases
<1>4. PICK ok \in BOOLEAN, matches \in BOOLEAN : Case(cs, ok, matches)
  BY <1>3
<1>5. ByClient /\ UNCHANGED <<drops, breaks>>
  BY DEF TakesCommand
<1>6. UNCHANGED <<sup, at, todo>> /\ UNCHANGED mine /\ sup = "running"
  BY <1>2, <1>5, ByClientPlace, UnderWay
<1>7. charon \in Charons
  BY Types DEF Base
<1>8. r[1] = "register" /\ c = "evt" => r[2] \in {"ike", "child", "log"}
  <2> SUFFICES ASSUME r[1] = "register", c = "evt" PROVE r[2] # "control-log"
    BY <1>1, CommandFacts
  <2>1. On(conn, r) = "evt"
    BY <1>1, <1>2 DEF InUse
  <2>2. r \in {Register("ike"), Register("child"), Register("log")}
    BY <2>1 DEF On
  <2> QED
    BY <2>2 DEF Register
<1>9. charon'.job # 0 /\ charon'.heard => charon.job # 0 /\ charon.heard
  <2>1. Taken(r, c).job = charon.job /\ Taken(r, c).heard = charon.heard
    BY <1>1, <1>7, <1>8, TakenFields
  <2>2. WithoutSa(charon).job # 0 /\ WithoutSa(charon).heard => charon.job # 0 /\ charon.heard
    BY <1>7, WithoutSaType
  <2>3. charon' \in {charon, Taken(r, c), WithoutSa(charon)}
    BY <1>4
  <2> HIDE DEF r, Case
  <2> QED
    BY <2>1, <2>2, <2>3
<1>10. /\ InUse' = InUse /\ conn'["cmd"].broken = conn["cmd"].broken
       /\ conn'["cmd"].open = conn["cmd"].open
       /\ ~AllEvents(conn'[c].wire)
       /\ \A i \in DOMAIN conn'[c].wire :
            ~IsEvent(conn'[c].wire[i]) =>
              conn'[c].wire[i].ok = ok /\ conn'[c].wire[i].matches = matches
       /\ c # "cmd" => conn'["cmd"] = conn["cmd"]
  BY <1>1, <1>4, <1>6, <1>9, CommandAnswered
<1>11. /\ r[1] = "load" => at = "setup"
       /\ r[1] = "unload" <=> at = "unload"
       /\ r = Terminate => at \in {"setup", "close", "again"}
       /\ at \in {"setup", "subscribe", "close", "again", "unload"}
       /\ at = "again" => r = Terminate
       /\ at = "close" => r = Terminate \/ r[1] = "unregister"
  BY <1>1, <1>2, CommandPlaces, UnderWay, InitiateInUse
<1>12. \A x : Head(todo) = Load(x) => c = "cmd" /\ r[1] = "load" /\ r[2] = x
  BY <1>1, <1>2, LoadUses DEF InUse
<1>13. ASSUME NEW x, JustLoaded(x)' PROVE Head(todo) = Load(x) /\ ok
  <2>1. PICK i \in DOMAIN conn'["cmd"].wire :
          ~IsEvent(conn'["cmd"].wire[i]) /\ conn'["cmd"].wire[i].ok
    BY <1>13 DEF JustLoaded
  <2>2. Head(todo) = Load(x)
    BY <1>6, <1>13 DEF JustLoaded
  <2> QED
    BY <1>10, <1>12, <2>1, <2>2
<1>14. \A x : Head(todo) = Load(x) /\ ok => JustLoaded(x)'
  <2> SUFFICES ASSUME NEW x, Head(todo) = Load(x), ok PROVE JustLoaded(x)'
    OBVIOUS
  <2>1. c = "cmd"
    BY <1>12
  <2>2. PICK i \in DOMAIN conn'["cmd"].wire : ~IsEvent(conn'["cmd"].wire[i])
    BY <1>10, <2>1 DEF AllEvents
  <2> QED
    BY <1>6, <1>10, <2>1, <2>2 DEF JustLoaded
<1>15. ASSUME at = "setup", NEW x \in charon.loaded \ excused PROVE x \in mine
  BY <1>2, <1>15, KnownAtSetup DEF Trail
<1>15a. OwnJob => /\ "conn" \in charon.loaded \ excused
                  /\ \/ at = "close" /\ (conn["cmd"].broken \/ ~conn["cmd"].open)
                     \/ at = "again" /\ charon.sa # "none"
  BY <1>6, <1>11 DEF Trail, SaInv, JobKnown
<1>15b. "sa" \notin Loads /\ charon.loaded \subseteq Loads
  BY <1>7 DEF Loads, Secrets, Charons
<1> HIDE DEF r
<1>16. CASE ~ok /\ r[1] \notin {"terminate", "unload"} /\ charon' = charon /\ excused' = excused
  <2>1. Terminate[1] = "terminate"
    BY DEF Terminate
  <2>2. at # "unload" /\ Head(todo) # Terminate
    BY <1>1, <1>11, <1>16, <2>1
  <2>3. LoadedInv'
    BY <1>6, <1>11, <1>15, <1>16, <2>2 DEF Trail, LoadedInv
  <2>4. ~JustLoaded("conn")'
    BY <1>13, <1>16
  <2>5. JobKnown' /\ LookedFor'
    BY <1>6, <1>10, <1>15a, <1>16, <2>2 DEF JobKnown, OwnJob, LookedFor
  <2>6. SaInv'
    BY <1>6, <1>10, <1>11, <1>16, <2>2, <2>4, <2>5 DEF Trail, SaInv
  <2> QED
    BY <2>3, <2>6 DEF Trail
<1>17. CASE /\ ok /\ r # Terminate /\ charon' = Taken(r, c)
            /\ excused' = IF r[1] = "load" THEN excused \ {r[2]} ELSE excused
  <2>1. /\ charon'.job = charon.job /\ charon'.sa = charon.sa
        /\ charon'.loaded = IF r[1] = "load" THEN charon.loaded \cup {r[2]}
                            ELSE IF r[1] = "unload" THEN charon.loaded \ {r[2]}
                            ELSE charon.loaded
    BY <1>1, <1>7, <1>8, <1>17, TakenFields
  <2>2. ASSUME NEW x \in charon'.loaded \ excused', at = "setup"
        PROVE  x \in mine \/ JustLoaded(x)'
    <3>0. r[1] # "unload"
      BY <1>11, <2>2
    <3>1. CASE x \in charon.loaded \ excused
      BY <1>15, <2>2, <3>1
    <3>2. CASE x \notin charon.loaded \ excused
      <4>1. r[1] = "load" /\ x = r[2]
        BY <1>17, <2>1, <2>2, <3>0, <3>2
      <4>2. Head(todo) = Load(x)
        BY <1>1, <4>1, CommandFacts
      <4> QED
        BY <1>14, <1>17, <4>2
    <3> QED
      BY <3>1, <3>2
  <2>3. ASSUME NEW x \in charon'.loaded \ excused', at = "unload"
        PROVE  StillToUnload(x)'
    <3>1. r[1] = "unload"
      BY <1>11, <2>3
    <3>2. x \in charon.loaded \ excused /\ x # r[2]
      BY <1>17, <2>1, <2>3, <3>1
    <3>3. StillToUnload(x)
      BY <1>6, <2>3, <3>2 DEF Trail, LoadedInv
    <3>4. Head(todo) # Unload(x)
      BY <1>1, <3>2, LoadUses
    <3> QED
      BY <1>6, <3>3, <3>4 DEF StillToUnload
  <2>4. LoadedInv'
    <3>1. at \in {"subscribe", "close", "again"} =>
            charon'.loaded = charon.loaded /\ excused' = excused
      BY <1>11, <1>17, <2>1
    <3> QED
      BY <1>6, <1>11, <1>17, <2>2, <2>3, <3>1 DEF Trail, LoadedInv
  <2>5. at = "unload" => NoneLeft
    BY <1>6 DEF Trail, SaInv
  <2>6. "sa" \in excused' <=> "sa" \in excused
    <3>1. r[1] = "load" => r[2] # "sa"
      BY <1>1, <1>15b, CommandFacts
    <3> QED
      BY <1>17, <3>1
  <2>7. NoneLeft => NoneLeft'
    BY <2>1, <2>6 DEF NoneLeft
  <2>8. at \in {"subscribe", "close", "again"} =>
          charon'.loaded = charon.loaded /\ excused' = excused
    BY <1>11, <1>17, <2>1
  <2>9. JobKnown'
    BY <1>6, <1>10, <1>15a, <2>1, <2>6, <2>8 DEF JobKnown, OwnJob
  <2>10. JustLoaded("conn")' => "conn" \in charon'.loaded \ excused'
    BY <1>12, <1>13, <1>17, <2>1
  <2>11. at = "subscribe" /\ ~conn'["cmd"].broken => "conn" \in charon'.loaded \ excused'
    BY <1>10, <2>8 DEF Trail, SaInv
  <2>12. LookedFor'
    BY <1>1, <1>6, <1>17 DEF LookedFor
  <2>13. SaInv'
    BY <1>6, <1>11, <2>5, <2>7, <2>9, <2>10, <2>11, <2>12 DEF SaInv
  <2> QED
    BY <2>4, <2>13 DEF Trail
<1>18. CASE /\ ok /\ r = Terminate /\ charon' = WithoutSa(charon)
            /\ matches <=> charon.sa # "none"
            /\ excused' = IF charon'.job = 0 THEN excused \ {"sa"} ELSE excused
  <2>1. /\ charon'.loaded = charon.loaded /\ charon'.sa = "none"
        /\ charon'.job = IF charon.sa = "none" THEN charon.job ELSE 0
    BY <1>7, <1>18, WithoutSaType
  <2>2. charon'.loaded \ excused' = charon.loaded \ excused
    BY <1>15b, <1>18, <2>1
  <2>3. at \in {"setup", "close", "again"}
    BY <1>11, <1>18
  <2>4. LoadedInv'
    <3> SUFFICES ASSUME NEW x \in charon.loaded \ excused
                 PROVE  x \in mine
      BY <1>6, <2>2, <2>3 DEF LoadedInv
    <3> QED
      BY <1>6, <1>15, <2>3 DEF Trail, LoadedInv
  <2>5. ~JustLoaded("conn")'
    BY <1>1, <1>13, <1>18, LoadUses
  <2>6. OwnJob' => /\ charon.sa = "none" /\ "conn" \in charon'.loaded \ excused'
                   /\ at = "close" /\ (conn["cmd"].broken \/ ~conn["cmd"].open)
    <3> SUFFICES ASSUME OwnJob'
                 PROVE  /\ charon.sa = "none" /\ "conn" \in charon'.loaded \ excused'
                        /\ at = "close" /\ (conn["cmd"].broken \/ ~conn["cmd"].open)
      OBVIOUS
    <3>1. charon.sa = "none" /\ charon.job # 0 /\ excused' = excused
      BY <1>18, <2>1 DEF OwnJob
    <3>2. OwnJob
      BY <3>1 DEF OwnJob
    <3> QED
      BY <1>15a, <2>2, <3>1, <3>2
  <2>7. JobKnown'
    BY <1>6, <1>10, <2>6 DEF JobKnown
  <2>8. LookedFor'
    <3>1. CASE ~OwnJob'
      BY <2>1, <3>1 DEF LookedFor, NoneLeft, OwnJob
    <3>2. CASE OwnJob'
      <4>1. at = "close" /\ ~conn["cmd"].open
        <5> SUFFICES ASSUME conn["cmd"].open PROVE FALSE
          BY <2>6, <3>2
        <5>1. c = On(conn, Terminate)
          BY <1>1, <1>2, <1>18 DEF InUse
        <5>2. c = "cmd"
          BY <5>1, TalkingUses
        <5> QED
          BY <1>2a, <2>6, <3>2, <5>2
      <4>2. Unmatched(conn'[c].wire)
        BY <1>10, <1>18, <2>6, <3>2 DEF Unmatched
      <4> QED
        BY <1>2, <1>6, <1>10, <4>1, <4>2 DEF LookedFor
    <3> QED
      BY <3>1, <3>2
  <2>9. SaInv'
    BY <1>6, <2>3, <2>5, <2>7, <2>8 DEF SaInv
  <2> QED
    BY <2>4, <2>9 DEF Trail
<1> QED
  BY <1>4, <1>16, <1>17, <1>18 DEF r

\* A step that leaves run where it is, and loads or answers nothing.
LEMMA TrailKept ==
  ASSUME Trail, UNCHANGED <<sup, at, todo, mine, excused>>, charon'.loaded = charon.loaded,
         charon'.job \in {charon.job, 0},
         charon'.sa \in {charon.sa, "none"} \/ charon.job # 0,
         charon'.job # 0 /\ charon.sa # "none" => charon'.sa # "none",
         ~conn'["cmd"].broken => ~conn["cmd"].broken,
         at = "close" => conn'["cmd"].open = conn["cmd"].open,
         at = "initiate" /\ charon'.job # 0 /\ AllEvents(conn["cmd"].wire)
           => AllEvents(conn'["cmd"].wire),
         at = "setup" => \A x : JustLoaded(x)' <=> JustLoaded(x),
         at \in {"close", "again", "unload"} =>
           /\ InUse' = InUse
           /\ AllEvents(conn'[InUse].wire) <=> AllEvents(conn[InUse].wire)
           /\ Unmatched(conn[InUse].wire) => Unmatched(conn'[InUse].wire)
  PROVE  Trail'
<1>1. at = "unload" => \A x : StillToUnload(x) => StillToUnload(x)'
  BY DEF StillToUnload
<1>2. LoadedInv'
  BY <1>1 DEF Trail, LoadedInv
<1>3. NoneLeft => NoneLeft'
  BY DEF NoneLeft
<1>4. at \in {"none", "connect", "unload"} /\ sup # "killed" => NoneLeft'
  BY <1>3 DEF Trail, SaInv
<1>5. LookedFor'
  BY <1>3 DEF Trail, SaInv, LookedFor
<1>6. JobKnown'
  <2> SUFFICES ASSUME OwnJob', sup # "killed"
               PROVE  /\ "conn" \in charon.loaded \ excused
                      /\ \/ at = "initiate" /\ AllEvents(conn'["cmd"].wire)
                         \/ at = "close" /\ (conn'["cmd"].broken \/ ~conn'["cmd"].open)
                         \/ at = "grace"
                         \/ at = "again" /\ charon'.sa # "none"
    BY DEF JobKnown
  <2>1. OwnJob /\ charon'.job # 0
    BY DEF OwnJob
  <2>2. /\ "conn" \in charon.loaded \ excused
        /\ \/ at = "initiate" /\ AllEvents(conn["cmd"].wire)
           \/ at = "close" /\ (conn["cmd"].broken \/ ~conn["cmd"].open)
           \/ at = "grace"
           \/ at = "again" /\ charon.sa # "none"
    BY <2>1 DEF Trail, SaInv, JobKnown
  <2> QED
    BY <2>1, <2>2
<1>7. at \in {"initiate", "wait", "subscribe", "watch"} /\ ~conn'["cmd"].broken
        => "conn" \in charon'.loaded \ excused'
  BY DEF Trail, SaInv
<1>8. at = "setup" /\ JustLoaded("conn")' /\ ~conn'["cmd"].broken
        => "conn" \in charon'.loaded \ excused'
  BY DEF Trail, SaInv
<1>9. SaInv'
  BY <1>4, <1>5, <1>6, <1>7, <1>8 DEF SaInv
<1> QED
  BY <1>2, <1>9 DEF Trail

\* What is on the wire of the command connection tells what was just loaded.
LEMMA SameLoaded ==
  ASSUME UNCHANGED todo, conn'["cmd"].wire = conn["cmd"].wire
  PROVE  \A x : JustLoaded(x)' <=> JustLoaded(x)
  BY DEF JustLoaded

LEMMA TakesInitiateTrail ==
  ASSUME Base, Trail, TakesInitiate
  PROVE  Trail'
<1>1. /\ at = "initiate" /\ ~conn["cmd"].broken
      /\ conn'["cmd"].wire = conn["cmd"].wire /\ AllEvents(conn["cmd"].wire)
  BY TakesInitiateBase
<1>2. /\ charon' = [charon EXCEPT !.job = index, !.heard = TRUE]
      /\ ByClient /\ excused' = excused \ {"sa"}
  BY DEF TakesInitiate
<1>3. UNCHANGED <<sup, at, todo>> /\ UNCHANGED mine
  BY <1>2, ByClientPlace
<1>4. charon \in Charons
  BY Types DEF Base
<1>5. charon'.loaded \ excused' = charon.loaded \ excused
  BY <1>2, <1>4 DEF Charons, Loads, Secrets
<1>6. "conn" \in charon.loaded \ excused
  BY <1>1 DEF Trail, SaInv
<1>7. LoadedInv'
  BY <1>1, <1>3, <1>5 DEF Trail, LoadedInv
<1>8. SaInv'
  BY <1>1, <1>3, <1>5, <1>6 DEF SaInv, LookedFor, JobKnown
<1> QED
  BY <1>7, <1>8 DEF Trail

LEMMA CharonWorksTrail ==
  ASSUME Base, Trail,
         SaAppears \/ SaEstablished \/ ChildEstablished \/ InitiateFails
           \/ (\E i \in 0..Children : GatewayDrops(i))
  PROVE  Trail'
<1>1. /\ todo # <<>> => InUse' = InUse
      /\ conn'["cmd"].broken = conn["cmd"].broken
      /\ conn'["cmd"].open = conn["cmd"].open
      /\ conn'["cmd"].wire # conn["cmd"].wire => at = "initiate" /\ charon'.job = 0
      /\ AllEvents(conn'["evt"].wire) <=> AllEvents(conn["evt"].wire)
      /\ Unmatched(conn["evt"].wire) => Unmatched(conn'["evt"].wire)
      /\ charon'.loaded = charon.loaded /\ excused' = excused
      /\ charon'.job \in {charon.job, 0}
      /\ charon'.sa \in {charon.sa, "none"} \/ charon.job # 0
      /\ charon'.job # 0 /\ charon.sa # "none" => charon'.sa # "none"
  BY CharonWorksBase
<1>2. ByClient
  BY DEF SaAppears, SaEstablished, ChildEstablished, InitiateFails, GatewayDrops
<1>3. UNCHANGED <<sup, at, todo>> /\ UNCHANGED mine
  BY <1>2, ByClientPlace
<1>4. at = "setup" => \A x : JustLoaded(x)' <=> JustLoaded(x)
  BY <1>1, <1>3, SameLoaded
<1>5. at \in {"close", "again", "unload"} =>
        /\ InUse' = InUse
        /\ AllEvents(conn'[InUse].wire) <=> AllEvents(conn[InUse].wire)
        /\ Unmatched(conn[InUse].wire) => Unmatched(conn'[InUse].wire)
  <2> SUFFICES ASSUME at \in {"close", "again", "unload"}
               PROVE  /\ InUse' = InUse
                      /\ AllEvents(conn'[InUse].wire) <=> AllEvents(conn[InUse].wire)
                      /\ Unmatched(conn[InUse].wire) => Unmatched(conn'[InUse].wire)
    OBVIOUS
  <2>1. todo # <<>>
    BY DEF Base, PlaceInv
  <2>2. InUse \in {"cmd", "evt"}
    BY <2>1, UnderWay DEF Conns
  <2> QED
    BY <1>1, <2>1, <2>2
<1> QED
  BY <1>1, <1>3, <1>4, <1>5, TrailKept

LEMMA ConnectionBreaksTrail ==
  ASSUME Base, Trail, NEW c \in Conns, ConnectionBreaks(c)
  PROVE  Trail'
<1>1. /\ (todo # <<>> => InUse' = InUse)
      /\ \A k \in Conns : /\ conn'[k].wire = conn[k].wire /\ conn'[k].open = conn[k].open
                          /\ ~conn'[k].broken => ~conn[k].broken
  BY ConnectionBreaksBase
<1>2. ByClient /\ UNCHANGED <<charon, excused>>
  BY DEF ConnectionBreaks
<1>3. UNCHANGED <<sup, at, todo>> /\ UNCHANGED mine
  BY <1>2, ByClientPlace
<1>4. \A x : JustLoaded(x)' <=> JustLoaded(x)
  BY <1>1, <1>3, SameLoaded DEF Conns
<1>5. at \in {"close", "again", "unload"} =>
        /\ InUse' = InUse
        /\ AllEvents(conn'[InUse].wire) <=> AllEvents(conn[InUse].wire)
        /\ Unmatched(conn[InUse].wire) => Unmatched(conn'[InUse].wire)
  BY <1>1, UnderWay DEF Base, PlaceInv
<1> QED
  BY <1>1, <1>2, <1>3, <1>4, <1>5, TrailKept DEF Conns

LEMMA CharonRestartsTrail ==
  ASSUME Base, Trail, CharonRestarts
  PROVE  Trail'
<1>1. /\ Base' /\ (conn'["cmd"].open => conn'["cmd"].broken)
      /\ charon'.loaded = {} /\ charon'.sa = "none" /\ charon'.job = 0
  BY CharonRestartsBase DEF Conns
<1>2. at' \in {"setup", "initiate", "wait", "subscribe", "watch"} => conn'["cmd"].broken
  BY <1>1 DEF Base, PlaceInv
<1>3. LoadedInv'
  BY <1>1 DEF LoadedInv
<1>4. SaInv'
  BY <1>1, <1>2 DEF SaInv, NoneLeft, LookedFor, JobKnown, OwnJob
<1> QED
  BY <1>3, <1>4 DEF Trail

LEMMA ReadEventTrail ==
  ASSUME Base, Trail, ReadEvent
  PROVE  Trail'
<1> DEFINE c == conn[InUse]
           d == IF Head(todo) \in {Terminate, Initiate} THEN RelayEvent(c) ELSE KeepEvent(c)
<1>1. /\ todo # <<>> /\ HasPacket(c) /\ IsEvent(Head(c.wire))
      /\ conn' = [conn EXCEPT ![InUse] = d]
      /\ UNCHANGED <<supVars, needs, at, todo, index, view, mine, outcome, worldVars, trusted,
                     excused>>
  BY DEF ReadEvent
<1>2. /\ c \in Clients /\ Head(todo) \in Commands /\ Busy(c, Head(todo)) /\ InUse \in Conns
  BY <1>1, UnderWay
<1>3. d \in {KeepEvent(c), RelayEvent(c)}
  OBVIOUS
<1>4. c.wire \in Seq(Packets) /\ c.wire # <<>>
  BY <1>1, <1>2, ClientSet DEF HasPacket
<1> HIDE DEF d
<1>5. /\ d \in Clients /\ d.open = c.open /\ d.broken = c.broken /\ d.wire = Tail(c.wire)
      /\ AllEvents(d.wire) <=> AllEvents(c.wire)
  BY <1>1, <1>2, <1>3, EventKeepsBusy
<1>6. conn \in [Conns -> Clients]
  BY Types DEF Base
<1>7. /\ conn'[InUse] = d /\ \A k \in Conns : k # InUse => conn'[k] = conn[k]
      /\ \A k \in Conns : conn'[k].open = conn[k].open /\ conn'[k].broken = conn[k].broken
  BY <1>1, <1>2, <1>5, <1>6
<1>8. InUse' = InUse
  BY <1>1, <1>7 DEF InUse, On, Control, Conns
<1>9. \A x : JustLoaded(x)' <=> JustLoaded(x)
  <2>1. CASE InUse # "cmd"
    BY <1>1, <1>7, <2>1, SameLoaded DEF Conns
  <2>2. CASE InUse = "cmd"
    <3>1. conn'["cmd"].wire = Tail(c.wire) /\ conn["cmd"].wire = c.wire
      BY <1>5, <1>7, <2>2
    <3> HIDE DEF c
    <3>2. (\E i \in DOMAIN Tail(c.wire) : ~IsEvent(Tail(c.wire)[i]) /\ Tail(c.wire)[i].ok)
            <=> \E i \in DOMAIN c.wire : ~IsEvent(c.wire[i]) /\ c.wire[i].ok
      BY <1>1, <1>4, TailPackets
    <3> QED
      BY <1>1, <3>1, <3>2 DEF JustLoaded
  <2> QED
    BY <2>1, <2>2
<1>10. /\ AllEvents(conn'[InUse].wire) <=> AllEvents(conn[InUse].wire)
       /\ Unmatched(conn[InUse].wire) => Unmatched(conn'[InUse].wire)
  BY <1>4, <1>5, <1>7, UnmatchedKept
<1>11. "cmd" \in Conns /\ (AllEvents(conn["cmd"].wire) => AllEvents(conn'["cmd"].wire))
  BY <1>7, <1>10 DEF Conns
<1> HIDE DEF c
<1> QED
  BY <1>1, <1>7, <1>8, <1>9, <1>10, <1>11, TrailKept DEF supVars, worldVars

LEMMA OnEventTrail ==
  ASSUME Base, Trail, OnEvent
  PROVE  Trail'
<1>1. at \in {"wait", "watch"} /\ conn'["cmd"] = conn["cmd"]
  BY OnEventBase
<1>2. UNCHANGED <<supVars, at, todo, mine, worldVars, excused>>
  BY DEF OnEvent
<1> QED
  BY <1>1, <1>2, TrailKept DEF supVars, worldVars

\* run goes on to a command with nothing but events on the wires.
LEMMA BeginTrail ==
  ASSUME Base, Trail, NEW cs, Free(cs), NEW phase, NEW commands, Begin(cs, phase, commands),
         UNCHANGED <<sup, mine, charon>>, excused' \in {excused, excused \cup {"sa"}},
         sup = "running", at \in {"initiate", "wait", "watch", "grace"},
         phase \in {"initiate", "subscribe", "close", "again"},
         phase \in {"initiate", "subscribe"} =>
           at # "grace" /\ cs["cmd"].broken = conn["cmd"].broken,
         OwnJob /\ "sa" \notin excused' =>
           (phase = "close" /\ ~cs["cmd"].open) \/ (phase = "again" /\ charon.sa # "none")
  PROVE  Trail'
<1>1. cs \in [Conns -> Clients] /\ \A k \in Conns : AllEvents(cs[k].wire)
  BY DEF Free, Quiet
<1>2. Moves(cs) /\ at' = phase /\ todo' = commands
  BY <1>1, BeginMoves
<1>3. \A k \in Conns : AllEvents(conn'[k].wire)
  BY <1>1, <1>2 DEF Moves
<1>4. InUse' \in Conns
  BY DEF InUse, On, Control, Conns
<1>5. LoadedInv'
  BY <1>2 DEF Trail, LoadedInv
<1>6. LookedFor'
  BY <1>3, <1>4 DEF LookedFor
<1>7. conn'["cmd"].broken = cs["cmd"].broken /\ conn'["cmd"].open = cs["cmd"].open
  BY <1>2 DEF Moves, Conns
<1>8. phase \in {"initiate", "subscribe"} /\ ~conn'["cmd"].broken
        => "conn" \in charon.loaded \ excused'
  BY <1>7 DEF Trail, SaInv
<1>9. JobKnown'
  <2> SUFFICES ASSUME OwnJob'
               PROVE  /\ "conn" \in charon.loaded \ excused'
                      /\ \/ phase = "close" /\ ~conn'["cmd"].open
                         \/ phase = "again" /\ charon.sa # "none"
    BY <1>2 DEF JobKnown
  <2>1. OwnJob /\ "sa" \notin excused'
    BY DEF OwnJob
  <2>2. "conn" \in charon.loaded \ excused
    BY <2>1 DEF Trail, SaInv, JobKnown
  <2> QED
    BY <1>7, <2>1, <2>2
<1>10. SaInv'
  BY <1>2, <1>6, <1>8, <1>9 DEF SaInv
<1> QED
  BY <1>5, <1>10 DEF Trail

LEMMA CancelTrail ==
  ASSUME Base, Trail, CancelInitiate \/ CancelListening \/ WatchEnds
  PROVE  Trail'
<1>1. UNCHANGED <<supVars, needs, index, view, mine, worldVars, trusted, excused>>
  BY DEF CancelInitiate, CancelListening, WatchEnds
<1>2. UNCHANGED <<sup, mine, charon, excused>>
  BY <1>1 DEF supVars, worldVars
<1>3. \E cs : \E commands :
        /\ Free(cs) /\ sup = "running" /\ Begin(cs, "close", commands)
        /\ at \in {"initiate", "wait", "watch"} /\ (OwnJob => ~cs["cmd"].open)
  <2>1. CASE CancelInitiate
    <3>1. at = "initiate" /\ Close([conn EXCEPT !["cmd"] = Dropped], "stopped")
      BY <2>1 DEF CancelInitiate
    <3> DEFINE cs == [conn EXCEPT !["cmd"] = Dropped]
    <3>2. todo # <<>> /\ InUse = "cmd"
      BY <3>1, InitiateInUse
    <3>3. Quiet(conn["evt"]) /\ sup = "running"
      BY <3>2, UnderWay DEF Conns
    <3>4. conn \in [Conns -> Clients] /\ Dropped \in Clients /\ Quiet(Dropped) /\ ~Dropped.open
      BY Types, FreshClients DEF Base
    <3>5. cs \in [Conns -> Clients] /\ cs["cmd"] = Dropped /\ cs["evt"] = conn["evt"]
      BY <3>4 DEF Conns
    <3> HIDE DEF cs
    <3>6. Free(cs)
      BY <3>3, <3>4, <3>5 DEF Free, Conns
    <3>7. Close(cs, "stopped")
      BY <3>1 DEF cs
    <3>8. \E commands : Begin(cs, "close", commands)
      BY <3>7 DEF Close
    <3>9. ~cs["cmd"].open
      BY <3>4, <3>5
    <3> QED
      BY <3>1, <3>3, <3>6, <3>8, <3>9
  <2>2. CASE CancelListening \/ WatchEnds
    <3>1. /\ at \in {"wait", "watch"}
          /\ Close(conn, "stopped") \/ Close(conn, "down") \/ Close(conn, "error")
      BY <2>2 DEF CancelListening, WatchEnds, Listening
    <3>2. Free(conn) /\ sup = "running"
      BY <3>1, WaitingSettled DEF Settled
    <3>3. \E commands : Begin(conn, "close", commands)
      BY <3>1 DEF Close
    <3>4. ~OwnJob
      BY <3>1, <3>2 DEF Trail, SaInv, JobKnown
    <3> QED
      BY <3>1, <3>2, <3>3, <3>4
  <2> QED
    BY <2>1, <2>2
<1>4. PICK cs, commands :
        /\ Free(cs) /\ sup = "running" /\ Begin(cs, "close", commands)
        /\ at \in {"initiate", "wait", "watch"} /\ (OwnJob => ~cs["cmd"].open)
  BY <1>3
<1> QED
  BY <1>2, <1>4, BeginTrail

LEMMA WaitEndsTrail ==
  ASSUME Base, Trail, WaitEnds \/ GraceEnds
  PROVE  Trail'
<1>1. /\ at \in {"wait", "grace"} /\ UNCHANGED <<supVars, mine, worldVars>>
      /\ excused' = IF at = "grace" /\ charon.job # 0 /\ charon.sa = "none"
                    THEN excused \cup {"sa"} ELSE excused
  BY DEF WaitEnds, GraceEnds
<1>2. Free(conn) /\ sup = "running"
  BY <1>1, WaitingSettled DEF Settled
<1>3. PICK phase, commands :
        /\ Begin(conn, phase, commands) /\ phase \in {"initiate", "subscribe", "close", "again"}
        /\ phase \in {"initiate", "subscribe"} => at # "grace"
        /\ at = "grace" => phase = "again"
  BY DEF WaitEnds, GraceEnds, StartInitiate, Close
<1>4. OwnJob /\ "sa" \notin excused' => phase = "again" /\ charon.sa # "none"
  BY <1>1, <1>2, <1>3 DEF Trail, SaInv, JobKnown, OwnJob
<1> QED
  BY <1>1, <1>2, <1>3, <1>4, BeginTrail DEF supVars, worldVars

LEMMA ConnectTrail ==
  ASSUME Base, Trail, NEW ok \in BOOLEAN, Connect(ok)
  PROVE  Trail'
<1>1. at = "connect" /\ charon' = [charon EXCEPT !.subs = {}, !.heard = FALSE]
      /\ excused' = excused
  BY DEF Connect
<1>2. charon \in Charons /\ sup = "running"
  BY <1>1, Types DEF Base, PlaceInv
<1>3. charon'.loaded = charon.loaded /\ charon'.sa = charon.sa /\ charon'.job = charon.job
  BY <1>1, <1>2 DEF Charons
<1>4. charon.loaded \ excused = {} /\ NoneLeft
  BY <1>1, <1>2 DEF Trail, LoadedInv, SaInv
<1>5. NoneLeft'
  BY <1>1, <1>3, <1>4 DEF NoneLeft
<1>6. at' \in {"none", "setup"} /\ (at' = "setup" => conn'["cmd"].wire = <<>>)
  BY ConnectBase DEF Conns
<1>7. ~JustLoaded("conn")' \/ at' = "none"
  BY <1>6 DEF JustLoaded
<1>8. LoadedInv'
  BY <1>1, <1>3, <1>4 DEF LoadedInv
<1>9. SaInv'
  BY <1>5, <1>6, <1>7 DEF SaInv, NoneLeft, LookedFor, JobKnown, OwnJob
<1> QED
  BY <1>8, <1>9 DEF Trail

LEMMA CommandLineTrail ==
  ASSUME Base, Trail, StartAttempt \/ SignalArrives \/ GivesUp \/ ProcessExits
  PROVE  Trail'
<1>1. CASE StartAttempt \/ GivesUp
  <2>1. /\ sup \in {"asking", "sleeping"} /\ sup' \in {"running", "done"}
        /\ at' \in {at, "connect"} /\ UNCHANGED <<charon, excused>>
    BY <1>1 DEF StartAttempt, GivesUp, Answered, WakeUp, Running, PromptFails, StopSleeping,
       tunnelVars, worldVars
  <2>2. at = "none"
    BY <2>1 DEF Base, PlaceInv
  <2>3. charon.loaded \ excused = {} /\ NoneLeft
    BY <2>1, <2>2 DEF Trail, LoadedInv, SaInv
  <2>4. LoadedInv'
    BY <2>1, <2>3 DEF LoadedInv
  <2>5. NoneLeft'
    BY <2>1, <2>3 DEF NoneLeft
  <2>6. SaInv'
    BY <2>1, <2>2, <2>5 DEF SaInv, NoneLeft, LookedFor, JobKnown, OwnJob
  <2> QED
    BY <2>4, <2>6 DEF Trail
<1>2. CASE SignalArrives
  <2>1. sup' = sup /\ UNCHANGED <<tunnelVars, charon, excused>>
    BY <1>2 DEF SignalArrives, Signal, worldVars
  <2>2. InUse' = InUse /\ \A x : JustLoaded(x)' <=> JustLoaded(x)
    BY <2>1 DEF InUse, JustLoaded, tunnelVars
  <2> QED
    BY <2>1, <2>2, TrailKept DEF tunnelVars
<1>3. CASE ProcessExits
  <2>1. sup' = "killed" /\ at' = "none"
    BY <1>3 DEF ProcessExits, SecondSignal
  <2> QED
    BY <2>1 DEF Trail, LoadedInv, SaInv, LookedFor, JobKnown
<1> QED
  BY <1>1, <1>2, <1>3

LEMMA TrailInit == Init => Trail
<1> SUFFICES ASSUME Init PROVE Trail
  OBVIOUS
<1>1. at = "none"
  BY DEF Init
<1>2. PICK stale \in BOOLEAN :
        charon = NewCharon(stale) /\ excused = IF stale THEN {"sa"} ELSE {}
  BY DEF Init
<1>3. charon.loaded = {} /\ charon.job = 0 /\ ("sa" \notin excused => charon.sa = "none")
  BY <1>2 DEF NewCharon
<1> QED
  BY <1>1, <1>3 DEF Trail, LoadedInv, SaInv, NoneLeft, LookedFor, JobKnown, OwnJob

LEMMA TrailStep == Base /\ Trail /\ [Next]_vars => Trail'
<1> SUFFICES ASSUME Base, Trail, [Next]_vars PROVE Trail'
  OBVIOUS
<1>1. CASE StartAttempt \/ SignalArrives \/ GivesUp \/ ProcessExits
  BY <1>1, CommandLineTrail
<1>2. CASE Inner
  BY <1>2, ConnectTrail, ReadEventTrail, ReadAnswerTrail, CommandFailsTrail, WaitEndsTrail,
     CancelTrail DEF Inner
<1>3. CASE OnEvent \/ CancelInitiate \/ CancelListening
  BY <1>3, OnEventTrail, CancelTrail
<1>4. CASE Charon
  BY <1>4, TakesCommandTrail, ConnectionBreaksTrail, TakesInitiateTrail, CharonWorksTrail,
     CharonRestartsTrail DEF Charon, Conns
<1>5. CASE UNCHANGED vars
  <2>1. UNCHANGED <<sup, tunnelVars, charon, excused>>
    BY <1>5 DEF vars, supVars, worldVars
  <2>2. InUse' = InUse /\ \A x : JustLoaded(x)' <=> JustLoaded(x)
    BY <2>1 DEF InUse, JustLoaded, tunnelVars
  <2> QED
    BY <2>1, <2>2, TrailKept DEF tunnelVars
<1> QED
  BY <1>1, <1>2, <1>3, <1>4, <1>5 DEF Next

LEMMA InvHolds == Spec => []Inv
<1>1. Inv <=> Base /\ Trail
  BY DEF Inv, Base, Trail
<1> QED
  BY <1>1, BaseInit, BaseStep, TrailInit, TrailStep, PTL DEF Spec

-----------------------------------------------------------------------------
(* The tunnel is the service promised.                                     *)

Served == [Promised!Next]_(Promised!vars)

LEMMA TracesType ==
  /\ Traces \in BOOLEAN /\ Traces' \in BOOLEAN
  /\ Traces = TRUE \/ Traces = FALSE
  /\ Traces' = TRUE \/ Traces' = FALSE
  BY DEF Traces

\* Steps of the service by what becomes of the phase and of the traces.
LEMMA ServiceStays ==
  ASSUME cancelled' = cancelled, Phase' = Phase,
         \/ Traces' = Traces
         \/ Phase = "connecting"
         \/ Phase \in {"up", "closing"} /\ (Traces' => Traces)
  PROVE  Served
<1>1. CASE Traces' = Traces
  BY <1>1 DEF Served, Promised!vars
<1>2. CASE Phase = "connecting"
  BY <1>2, TracesType DEF Served, Promised!Next, Promised!Trace, Promised!Vanish
<1>3. CASE Phase \in {"up", "closing"} /\ Traces' = FALSE
  BY <1>3, TracesType DEF Served, Promised!Next, Promised!Clean, Promised!Vanish
<1>4. (Traces' => Traces) => Traces' = Traces \/ Traces' = FALSE
  BY TracesType
<1> QED
  BY <1>1, <1>2, <1>3, <1>4

LEMMA ServiceCloses ==
  ASSUME cancelled' = cancelled, Traces' = Traces,
         \/ Phase = "connecting" /\ Phase' \in {"up", "closing"}
         \/ Phase = "up" /\ Phase' = "closing"
  PROVE  Served
  BY DEF Served, Promised!Next, Promised!ComeUp, Promised!Close

LEMMA ServiceEnds ==
  ASSUME cancelled' = cancelled, Traces' = FALSE,
         Phase = "closing" \/ (Phase = "connecting" /\ ~Traces),
         Phase' \in {"waiting", "finished"}, cancelled => Phase' = "finished"
  PROVE  Served
  BY DEF Served, Promised!Next, Promised!End

Closing == {"close", "grace", "again", "unload"}
Connecting == {"connect", "setup", "initiate", "wait"}

LEMMA PhaseFacts ==
  ASSUME Base
  PROVE  /\ at \in Closing => Phase = "closing" /\ sup = "running"
         /\ at \in {"subscribe", "watch"} => Phase = "up" /\ sup = "running"
         /\ at \in Connecting => Phase = "connecting" /\ sup = "running"
         /\ at = "none" => Phase = IF Over THEN "finished" ELSE "waiting"
         /\ at \in Closing \cup Connecting \cup {"subscribe", "watch", "none"}
<1>1. at \in Closing \cup Connecting \cup {"subscribe", "watch", "none"}
  BY Types DEF Base, Closing, Connecting, Places
<1>2. sup = "running" <=> at # "none"
  BY DEF Base, PlaceInv
<1>3. sup \in {"asking", "running", "sleeping", "done", "killed"}
  BY Types DEF Base, SupTypeOK
<1> QED
  BY <1>1, <1>2, <1>3 DEF Phase, Over, Closing, Connecting

LEMMA PhaseFactsNext ==
  ASSUME Base'
  PROVE  /\ at' \in Closing => Phase' = "closing" /\ sup' = "running"
         /\ at' \in {"subscribe", "watch"} => Phase' = "up" /\ sup' = "running"
         /\ at' \in Connecting => Phase' = "connecting" /\ sup' = "running"
         /\ at' = "none" => Phase' = IF Over' THEN "finished" ELSE "waiting"
         /\ at' \in Closing \cup Connecting \cup {"subscribe", "watch", "none"}
<1>1. at' \in Closing \cup Connecting \cup {"subscribe", "watch", "none"}
  BY TypesNext DEF Base, Closing, Connecting, Places
<1>2. sup' = "running" <=> at' # "none"
  BY DEF Base, PlaceInv
<1>3. sup' \in {"asking", "running", "sleeping", "done", "killed"}
  BY TypesNext DEF Base, SupTypeOK
<1> QED
  BY <1>1, <1>2, <1>3 DEF Phase, Over, Closing, Connecting

\* Before an attempt and after it there are none.
LEMMA NoTraces ==
  ASSUME Trail, at \in {"none", "connect"}
  PROVE  Traces = FALSE
<1>1. CASE sup = "killed"
  BY <1>1 DEF Traces
<1>2. CASE sup # "killed"
  <2>1. charon.loaded \ excused = {} /\ ("sa" \notin excused => charon.sa = "none")
    BY <1>2 DEF Trail, LoadedInv, SaInv, NoneLeft
  <2> QED
    BY <2>1 DEF Traces
<1> QED
  BY <1>1, <1>2

LEMMA NoTracesNext ==
  ASSUME Trail', at' \in {"none", "connect"}
  PROVE  Traces' = FALSE
<1>1. CASE sup' = "killed"
  BY <1>1 DEF Traces
<1>2. CASE sup' # "killed"
  <2>1. charon'.loaded \ excused' = {} /\ ("sa" \notin excused' => charon'.sa = "none")
    BY <1>2 DEF Trail, LoadedInv, SaInv, NoneLeft
  <2> QED
    BY <2>1 DEF Traces
<1> QED
  BY <1>1, <1>2

\* charon alone makes no traces once the tunnel is up, or being closed.
LEMMA CharonLeavesNothing ==
  ASSUME Base, Trail, Charon, at \in Closing \cup {"subscribe", "watch"}
  PROVE  Traces' => Traces
<1>1. sup' = sup
  BY ByClientPlace DEF Charon, TakesCommand, ConnectionBreaks, TakesInitiate, SaAppears,
     SaEstablished, ChildEstablished, InitiateFails, GatewayDrops, CharonRestarts
<1>2. ASSUME NEW c \in Conns, TakesCommand(c) PROVE Traces' => Traces
  <2> DEFINE r == conn[c].request
  <2>1. r = Head(todo) /\ r \in Commands
    BY <1>2, TakesCommandCases
  <2>2. /\ \/ charon' = charon /\ excused' = excused
           \/ /\ charon' = Taken(r, c)
              /\ excused' = IF r[1] = "load" THEN excused \ {r[2]} ELSE excused
           \/ charon' = WithoutSa(charon) /\ excused \subseteq excused' \cup {"sa"}
    BY <1>2, TakesCommandCases
  <2>3. todo # <<>> /\ c = InUse
    BY <1>2, RequestIsCommand DEF TakesCommand
  <2>4. r[1] # "load"
    BY <2>1, <2>3, CommandPlaces DEF Closing
  <2>5. charon \in Charons
    BY Types DEF Base
  <2>6. r[1] = "register" /\ c = "evt" => r[2] \in {"ike", "child", "log"}
    <3> SUFFICES ASSUME r[1] = "register", c = "evt" PROVE r[2] # "control-log"
      BY <2>1, CommandFacts
    <3>1. On(conn, r) = "evt"
      BY <2>1, <2>3 DEF InUse
    <3>2. r \in {Register("ike"), Register("child"), Register("log")}
      BY <3>1 DEF On
    <3> QED
      BY <3>2 DEF Register
  <2>7. Taken(r, c).loaded \subseteq charon.loaded /\ Taken(r, c).sa = charon.sa
    BY <2>1, <2>4, <2>5, <2>6, TakenFields
  <2>8. WithoutSa(charon).loaded = charon.loaded /\ WithoutSa(charon).sa = "none"
    BY <2>5, WithoutSaType
  <2>9. "sa" \notin charon.loaded
    BY <2>5 DEF Charons, Loads, Secrets
  <2> HIDE DEF r
  <2>10. CASE charon' = WithoutSa(charon) /\ excused \subseteq excused' \cup {"sa"}
    BY <1>1, <2>8, <2>9, <2>10 DEF Traces
  <2> QED
    BY <1>1, <2>2, <2>4, <2>7, <2>10 DEF Traces
<1>3. ASSUME NEW c \in Conns, ConnectionBreaks(c) PROVE Traces' => Traces
  BY <1>1, <1>3 DEF ConnectionBreaks, Traces
<1>4. CASE TakesInitiate
  BY <1>4, TakesInitiateBase DEF Closing
<1>5. CASE SaAppears \/ SaEstablished \/ ChildEstablished \/ InitiateFails
             \/ (\E i \in 0..Children : GatewayDrops(i))
  <2>1. /\ charon'.loaded = charon.loaded /\ excused' = excused
        /\ charon'.sa \in {charon.sa, "none"} \/ charon.job # 0
    BY <1>5, CharonWorksBase
  <2>2. charon.job # 0 /\ "sa" \notin excused /\ sup # "killed" => charon.loaded \ excused # {}
    BY DEF Trail, SaInv, JobKnown, OwnJob
  <2> QED
    BY <1>1, <2>1, <2>2 DEF Traces
<1>6. CASE CharonRestarts
  BY <1>6, CharonRestartsBase DEF Traces
<1> QED
  BY <1>2, <1>3, <1>4, <1>5, <1>6 DEF Charon, Conns

LEMMA CharonServes ==
  ASSUME Base, Trail, Base', Trail', Charon
  PROVE  Served
<1>1. UNCHANGED supVars /\ UNCHANGED <<at, todo>>
  BY DEF Charon, TakesCommand, ConnectionBreaks, TakesInitiate, SaAppears,
     SaEstablished, ChildEstablished, InitiateFails, GatewayDrops, CharonRestarts, ByClient
<1>2. Phase' = Phase /\ cancelled' = cancelled
  BY <1>1 DEF Phase, Over, supVars
<1>3. CASE at \in Closing \cup {"subscribe", "watch"}
  <2>1. Phase \in {"up", "closing"}
    BY <1>3, PhaseFacts
  <2> QED
    BY <1>2, <1>3, <2>1, CharonLeavesNothing, ServiceStays
<1>4. CASE at \in Connecting
  BY <1>2, <1>4, PhaseFacts, ServiceStays
<1>5. CASE at = "none"
  <2>1. Traces' = Traces
    BY <1>1, <1>5, NoTraces, NoTracesNext
  <2> QED
    BY <1>2, <2>1, ServiceStays
<1> QED
  BY <1>3, <1>4, <1>5, PhaseFacts

\* The end of an attempt.
LEMMA ReturnServes ==
  ASSUME Base, Trail, Base', Trail', Return, at \in Closing \cup {"connect"}
  PROVE  Served
<1>1. /\ at' = "none" /\ cancelled' = cancelled
      /\ sup' = IF outcome = "stopped" \/ ~persistent \/ cancelled THEN "done" ELSE "sleeping"
  BY DEF Return, Ends
<1>2. Traces' = FALSE /\ Phase' \in {"waiting", "finished"} /\ (cancelled => Phase' = "finished")
  BY <1>1, NoTracesNext, PhaseFactsNext DEF Over
<1>3. Phase = "closing" \/ (Phase = "connecting" /\ ~Traces)
  BY NoTraces, PhaseFacts DEF Connecting
<1> QED
  BY <1>1, <1>2, <1>3, ServiceEnds

\* run goes on, and charon has what it had.
LEMMA RunServes ==
  ASSUME Base, Base', UNCHANGED <<sup, cancelled, excused>>,
         charon'.loaded = charon.loaded, charon'.sa = charon.sa,
         \/ at \in Connecting /\ at' \in Connecting \cup {"subscribe"} \cup Closing
         \/ at \in {"subscribe", "watch"} /\ at' \in {"watch"} \cup Closing
         \/ at \in Closing /\ at' \in Closing
  PROVE  Served
<1>1. Traces' = Traces
  BY DEF Traces
<1>2. \/ Phase' = Phase
      \/ Phase = "connecting" /\ Phase' \in {"up", "closing"}
      \/ Phase = "up" /\ Phase' = "closing"
  BY PhaseFacts, PhaseFactsNext
<1> QED
  BY <1>1, <1>2, ServiceStays, ServiceCloses

LEMMA EndedPlaces ==
  ASSUME NEW cs, NEW ok, NEW matches, Ended(cs, ok, matches)
  PROVE  \/ Return /\ at \in Closing
         \/ /\ UNCHANGED supVars
            /\ \/ at = "setup" /\ at' \in {"setup", "initiate", "close"}
               \/ at = "initiate" /\ at' \in {"wait", "close"}
               \/ at = "subscribe" /\ at' = "watch"
               \/ at \in Closing /\ at' \in Closing
<1>1. CASE SetupEnds(cs, ok)
  BY <1>1 DEF SetupEnds, StartInitiate, Close, Begin
<1>2. CASE InitiateEnds(cs, ok) \/ SubscribeEnds(cs)
  BY <1>2 DEF InitiateEnds, SubscribeEnds, Close, Begin
<1>3. CASE CloseEnds(cs, ok, matches)
  <2>1. at \in {"close", "again", "unload"} /\ (Return \/ (UNCHANGED supVars /\ at' \in Closing))
    BY <1>3 DEF CloseEnds, StartUnload, Begin, Closing
  <2> QED
    BY <2>1 DEF Closing
<1> QED
  BY <1>1, <1>2, <1>3 DEF Ended

LEMMA CommandServes ==
  ASSUME Base, Trail, Base', Trail', ReadAnswer \/ CommandFails
  PROVE  Served
<1>1. /\ \E cs, ok, matches : Ended(cs, ok, matches)
      /\ UNCHANGED worldVars /\ todo # <<>>
      /\ excused' = excused
         \/ (excused' = excused \cup Leaves(Head(todo)) /\ at # "setup")
  <2>1. CASE ReadAnswer
    BY <2>1 DEF ReadAnswer
  <2>2. CASE CommandFails
    BY <2>2 DEF CommandFails
  <2> QED
    BY <2>1, <2>2
<1>2. excused' = excused \/ (excused \subseteq excused' /\ at \in Closing)
  <2>1. at \in {"setup", "initiate", "subscribe", "close", "again", "unload"}
    BY <1>1, UnderWay
  <2>2. at \in {"initiate", "subscribe"} => Leaves(Head(todo)) = {}
    BY <1>1, CommandPlaces, LeavesType, UnderWay
  <2> QED
    BY <1>1, <2>1, <2>2 DEF Closing
<1>3. CASE Return /\ at \in Closing
  BY <1>3, ReturnServes
<1>4. CASE /\ UNCHANGED supVars
           /\ \/ at = "setup" /\ at' \in {"setup", "initiate", "close"}
              \/ at = "initiate" /\ at' \in {"wait", "close"}
              \/ at = "subscribe" /\ at' = "watch"
              \/ at \in Closing /\ at' \in Closing
  <2>1. CASE excused' = excused
    BY <1>1, <1>4, <2>1, RunServes DEF supVars, worldVars, Connecting, Closing
  <2>2. CASE excused \subseteq excused' /\ at \in Closing
    <3>1. Traces' => Traces
      <4>1. sup' = sup /\ charon' = charon
        BY <1>1, <1>4 DEF supVars, worldVars
      <4> QED
        BY <2>2, <4>1 DEF Traces
    <3>2. at' \in Closing
      BY <1>4, <2>2 DEF Closing
    <3>3. Phase = "closing" /\ Phase' = Phase
      BY <2>2, <3>2, PhaseFacts, PhaseFactsNext
    <3> QED
      BY <1>4, <3>1, <3>3, ServiceStays DEF supVars
  <2> QED
    BY <1>2, <2>1, <2>2
<1> QED
  BY <1>1, <1>3, <1>4, EndedPlaces

LEMMA InnerServes ==
  ASSUME Base, Trail, Base', Trail', Inner \/ OnEvent \/ CancelInitiate \/ CancelListening
  PROVE  Served
<1>1. ASSUME NEW ok \in BOOLEAN, Connect(ok) PROVE Served
  <2>1. at = "connect" /\ (Return \/ (at' = "setup" /\ UNCHANGED supVars))
    BY <1>1, ConnectBase
  <2>2. CASE Return
    BY <2>1, <2>2, ReturnServes
  <2>3. CASE at' = "setup" /\ UNCHANGED supVars
    <3>1. Phase = "connecting" /\ Phase' = Phase
      BY <2>1, <2>3, PhaseFacts, PhaseFactsNext DEF Connecting
    <3> QED
      BY <2>3, <3>1, ServiceStays DEF supVars
  <2> QED
    BY <2>1, <2>2, <2>3
<1>2. CASE ReadAnswer \/ CommandFails
  BY <1>2, CommandServes
<1>3. CASE ReadEvent \/ OnEvent
  <2>1. UNCHANGED <<supVars, at, worldVars, excused>>
    BY <1>3 DEF ReadEvent, OnEvent
  <2>2. Phase' = Phase /\ Traces' = Traces /\ cancelled' = cancelled
    BY <2>1 DEF Phase, Over, Traces, supVars, worldVars
  <2> QED
    BY <2>2, ServiceStays
<1>4. CASE WaitEnds
  <2>1. at = "wait" /\ at' \in {"initiate", "close", "subscribe"}
        /\ UNCHANGED <<supVars, worldVars, excused>>
    BY <1>4, WaitEndsBase DEF WaitEnds
  <2> QED
    BY <2>1, RunServes DEF supVars, worldVars, Connecting, Closing
<1>5. CASE CancelInitiate \/ CancelListening \/ WatchEnds
  <2>1. /\ at \in {"initiate", "wait", "watch"} /\ UNCHANGED <<supVars, worldVars, excused>>
    BY <1>5 DEF CancelInitiate, CancelListening, WatchEnds, Listening
  <2>2. at' = "close"
    BY <1>5, CancelBase
  <2> QED
    BY <2>1, <2>2, RunServes DEF supVars, worldVars, Connecting, Closing
<1>6. CASE GraceEnds
  <2>1. /\ at = "grace" /\ at' = "again" /\ UNCHANGED <<supVars, worldVars>>
        /\ excused \subseteq excused'
    BY <1>6, GraceEndsBase DEF GraceEnds
  <2>2. Phase = "closing" /\ Phase' = Phase
    BY <2>1, PhaseFacts, PhaseFactsNext DEF Closing
  <2>3. sup' = sup /\ charon' = charon /\ cancelled' = cancelled
    BY <2>1 DEF supVars, worldVars
  <2>4. Traces' => Traces
    BY <2>1, <2>3 DEF Traces
  <2> QED
    BY <2>2, <2>3, <2>4, ServiceStays
<1> QED
  BY <1>1, <1>2, <1>3, <1>4, <1>5, <1>6 DEF Inner

LEMMA CommandLineServes ==
  ASSUME Base, Trail, Base', Trail', StartAttempt \/ SignalArrives \/ GivesUp \/ ProcessExits
  PROVE  Served
<1>1. CASE StartAttempt \/ GivesUp
  <2>1. /\ sup \in {"asking", "sleeping"} /\ cancelled' = cancelled
        /\ \/ sup' = "running" /\ at' = "connect"
           \/ sup' = "done" /\ at' = at
    BY <1>1 DEF StartAttempt, GivesUp, Answered, WakeUp, Running, PromptFails, StopSleeping,
       tunnelVars
  <2>2. at = "none" /\ Phase = "waiting"
    BY <2>1 DEF Base, PlaceInv, Phase
  <2>3. Phase' = IF sup' = "running" THEN "connecting" ELSE "finished"
    BY <2>1, <2>2 DEF Phase, Over
  <2>4. Traces' = Traces
    BY <2>1, <2>2, NoTraces, NoTracesNext
  <2> QED
    BY <2>1, <2>2, <2>3, <2>4 DEF Served, Promised!Next, Promised!Connect, Promised!Leave
<1>2. CASE SignalArrives
  <2>1. /\ ~cancelled /\ cancelled' = TRUE /\ sup' = sup
        /\ UNCHANGED <<tunnelVars, worldVars, excused>>
    BY <1>2 DEF SignalArrives, Signal
  <2>2. Phase' = Phase /\ Traces' = Traces
    BY <2>1 DEF Phase, Over, Traces, tunnelVars, worldVars
  <2> QED
    BY <2>1, <2>2 DEF Served, Promised!Next, Promised!Ask
<1>3. CASE ProcessExits
  <2>1. ~Over /\ cancelled /\ sup' = "killed" /\ cancelled' = cancelled
    BY <1>3 DEF ProcessExits, SecondSignal, Over
  <2>2. Phase # "finished" /\ Phase' = "finished"
    BY <2>1 DEF Phase, Over
  <2> QED
    BY <2>1, <2>2, TracesType DEF Served, Promised!Next, Promised!Kill
<1> QED
  BY <1>1, <1>2, <1>3

LEMMA StepServes == Base /\ Trail /\ Base' /\ Trail' /\ [Next]_vars => Served
<1> SUFFICES ASSUME Base, Trail, Base', Trail', [Next]_vars PROVE Served
  OBVIOUS
<1>1. CASE StartAttempt \/ SignalArrives \/ GivesUp \/ ProcessExits
  BY <1>1, CommandLineServes
<1>2. CASE Inner \/ OnEvent \/ CancelInitiate \/ CancelListening
  BY <1>2, InnerServes
<1>3. CASE Charon
  BY <1>3, CharonServes
<1>4. CASE UNCHANGED vars
  <2>1. UNCHANGED <<sup, cancelled, at, charon, excused>>
    BY <1>4 DEF vars, supVars, tunnelVars, worldVars
  <2>2. Phase' = Phase /\ Traces' = Traces
    BY <2>1 DEF Phase, Over, Traces
  <2> QED
    BY <2>1, <2>2, ServiceStays
<1> QED
  BY <1>1, <1>2, <1>3, <1>4 DEF Next

\* "Whatever happens, what was loaded into charon is removed before returning"
\* (tunnel.rs, run): whatever the order of answers, events, signals, lost
\* connections and restarts of charon, the tunnel under the command line is
\* the service promised.  In particular nothing it made is in charon when an
\* attempt is over, but for what a failed command of teardown was to remove and
\* an SA that came after the second look of teardown; and once the user asked to
\* stop, at most the attempt whose wait is already over still starts, and none
\* after it.
THEOREM TunnelServes == Spec => ImplementsService
<1>1. Init => Promised!Init
  <2> SUFFICES ASSUME Init PROVE Promised!Init
    OBVIOUS
  <2>1. Phase = "waiting" /\ ~cancelled
    BY DEF Init, SupInit, Phase
  <2>2. Traces = FALSE
    BY TrailInit, NoTraces DEF Init
  <2> QED
    BY <2>1, <2>2 DEF Promised!Init
<1>2. Inv /\ Inv' /\ [Next]_vars => [Promised!Next]_(Promised!vars)
  BY StepServes DEF Inv, Base, Trail, Served
<1> QED
  BY <1>1, <1>2, InvHolds, PTL DEF Spec, ImplementsService, Promised!Spec

-----------------------------------------------------------------------------
(* What watch believes: the events on their way make it what charon has.   *)

\* What the client knows of the SAs.  A child that was taken to be up without
\* an event is not known to be up.
Opinion(v, doubted) ==
  [ikeUp |-> v.ikeUp, ikeDown |-> v.ikeDown, known |-> v.up \ doubted]
Opinions == [ikeUp : BOOLEAN, ikeDown : BOOLEAN, known : SUBSET Kids]

\* What a packet makes of it.
Told(o, packet) ==
  IF ~IsEvent(packet) THEN o
  ELSE IF packet.name # "ike"
  THEN [o EXCEPT !.known = IF packet.up THEN @ \cup {packet.child} ELSE @ \ {packet.child}]
  ELSE IF packet.up THEN [o EXCEPT !.ikeUp = TRUE, !.ikeDown = FALSE]
  ELSE IF o.ikeUp THEN [ikeUp |-> FALSE, ikeDown |-> TRUE, known |-> {}]
  ELSE o

\* A sequence of packets makes p of o; so do the events a connection holds.
Carries(o, q, p) ==
  \E f : /\ f[0] = o /\ f[Len(q)] = p
         /\ \A n \in 1 .. Len(q) : f[n] = Told(f[n - 1], q[n])

Reaches(o, c, p) == \E between : Carries(o, c.pending, between) /\ Carries(between, c.wire, p)

LEMMA CarriesNothing ==
  ASSUME NEW o, NEW p
  PROVE  Carries(o, <<>>, p) <=> o = p
<1>1. Len(<<>>) = 0 /\ 1 .. 0 = {}
  OBVIOUS
<1>2. Carries(o, <<>>, p) => o = p
  BY <1>1 DEF Carries
<1>3. Carries(o, <<>>, o)
  <2> DEFINE f == [n \in {0} |-> o]
  <2>1. f[0] = o /\ f[Len(<<>>)] = o /\ \A n \in 1 .. Len(<<>>) : f[n] = Told(f[n - 1], <<>>[n])
    BY <1>1
  <2> HIDE DEF f
  <2> QED
    BY <2>1 DEF Carries
<1> QED
  BY <1>2, <1>3

LEMMA CarriesFirst ==
  ASSUME NEW o, NEW p, NEW q \in Seq(Packets), q # <<>>, Carries(o, q, p)
  PROVE  Carries(Told(o, Head(q)), Tail(q), p)
<1>1. /\ Len(q) \in Nat /\ Len(q) > 0 /\ Len(Tail(q)) = Len(q) - 1 /\ Head(q) = q[1]
      /\ \A n \in 1 .. Len(q) - 1 : Tail(q)[n] = q[n + 1]
  BY TailPackets
<1>2. PICK f : /\ f[0] = o /\ f[Len(q)] = p
               /\ \A n \in 1 .. Len(q) : f[n] = Told(f[n - 1], q[n])
  BY DEF Carries
<1> DEFINE g == [n \in 0 .. Len(q) - 1 |-> f[n + 1]]
<1>3. g[0] = Told(o, Head(q))
  BY <1>1, <1>2
<1>4. g[Len(Tail(q))] = p
  BY <1>1, <1>2
<1>5. ASSUME NEW n \in 1 .. Len(Tail(q)) PROVE g[n] = Told(g[n - 1], Tail(q)[n])
  <2>1. n + 1 \in 1 .. Len(q) /\ (n + 1) - 1 = n /\ (n - 1) + 1 = n
        /\ n \in 0 .. Len(q) - 1 /\ n - 1 \in 0 .. Len(q) - 1
    BY <1>1
  <2>2. g[n] = f[n + 1] /\ g[n - 1] = f[n] /\ Tail(q)[n] = q[n + 1]
    BY <1>1, <2>1
  <2>3. f[n + 1] = Told(f[n], q[n + 1])
    BY <1>2, <2>1
  <2> QED
    BY <2>2, <2>3
<1> HIDE DEF g
<1> QED
  BY <1>3, <1>4, <1>5 DEF Carries

LEMMA CarriesMore ==
  ASSUME NEW o, NEW p, NEW r, NEW q \in Seq(Packets), NEW t \in Seq(Packets),
         Carries(o, q, p), Carries(p, t, r)
  PROVE  Carries(o, q \o t, r)
<1>1. /\ Len(q) \in Nat /\ Len(t) \in Nat /\ Len(q \o t) = Len(q) + Len(t)
      /\ \A n \in 1 .. Len(q) : (q \o t)[n] = q[n]
      /\ \A n \in 1 .. Len(t) : (q \o t)[n + Len(q)] = t[n]
  BY MorePackets
<1>2. PICK f : /\ f[0] = o /\ f[Len(q)] = p
               /\ \A n \in 1 .. Len(q) : f[n] = Told(f[n - 1], q[n])
  BY DEF Carries
<1>3. PICK g : /\ g[0] = p /\ g[Len(t)] = r
               /\ \A n \in 1 .. Len(t) : g[n] = Told(g[n - 1], t[n])
  BY DEF Carries
<1> DEFINE N == Len(q)
           h == [n \in 0 .. N + Len(t) |-> IF n <= N THEN f[n] ELSE g[n - N]]
<1>4. h[0] = o
  BY <1>1, <1>2
<1>5. h[Len(q \o t)] = r
  <2>1. CASE Len(t) = 0
    BY <1>1, <1>2, <1>3, <2>1
  <2>2. CASE Len(t) > 0
    BY <1>1, <1>3, <2>2
  <2> QED
    BY <1>1, <2>1, <2>2
<1>6. ASSUME NEW n \in 1 .. Len(q \o t) PROVE h[n] = Told(h[n - 1], (q \o t)[n])
  <2>0. n \in 0 .. N + Len(t) /\ n - 1 \in 0 .. N + Len(t)
    BY <1>1
  <2>1. CASE n <= N
    <3>1. n \in 1 .. N /\ n - 1 <= N
      BY <1>1, <2>1
    <3>2. h[n] = f[n] /\ h[n - 1] = f[n - 1] /\ (q \o t)[n] = q[n]
      BY <1>1, <2>0, <2>1, <3>1
    <3> QED
      BY <1>2, <3>1, <3>2
  <2>2. CASE n = N + 1
    <3>1. h[n] = g[1] /\ h[n - 1] = p /\ 1 \in 1 .. Len(t) /\ (q \o t)[n] = t[1]
      BY <1>1, <1>2, <2>0, <2>2
    <3>2. g[1] = Told(g[0], t[1])
      BY <1>3, <3>1
    <3> QED
      BY <1>3, <3>1, <3>2
  <2>3. CASE n > N + 1
    <3>1. /\ n - N \in 1 .. Len(t) /\ (n - N) - 1 = (n - 1) - N /\ (n - N) + N = n
          /\ ~(n <= N) /\ ~(n - 1 <= N)
      BY <1>1, <2>3
    <3>2. h[n] = g[n - N] /\ h[n - 1] = g[(n - N) - 1] /\ (q \o t)[n] = t[n - N]
      BY <1>1, <2>0, <3>1
    <3> QED
      BY <1>3, <3>1, <3>2
  <2> QED
    BY <1>1, <2>1, <2>2, <2>3
<1> HIDE DEF h
<1> QED
  BY <1>4, <1>5, <1>6 DEF Carries

LEMMA CarriesOne ==
  ASSUME NEW o, NEW packet
  PROVE  Carries(o, <<packet>>, Told(o, packet))
<1> DEFINE f == [n \in 0 .. 1 |-> IF n = 0 THEN o ELSE Told(o, packet)]
<1>1. f[0] = o /\ f[1] = Told(o, packet) /\ Len(<<packet>>) = 1 /\ <<packet>>[1] = packet
  OBVIOUS
<1> HIDE DEF f
<1>2. \A n \in 1 .. Len(<<packet>>) : f[n] = Told(f[n - 1], <<packet>>[n])
  <2> SUFFICES ASSUME NEW n \in 1 .. Len(<<packet>>) PROVE f[n] = Told(f[n - 1], <<packet>>[n])
    OBVIOUS
  <2>1. n = 1 /\ n - 1 = 0
    BY <1>1
  <2> QED
    BY <1>1, <2>1
<1> QED
  BY <1>1, <1>2 DEF Carries

\* The events of an ending SA's children, whatever their order.
LEMMA CarriesEnding ==
  ASSUME NEW o \in Opinions, NEW order \in Seq(Kids)
  PROVE  Carries(o, [i \in DOMAIN order |-> ChildEvent(order[i], FALSE)],
                 [o EXCEPT !.known = @ \ {order[i] : i \in DOMAIN order}])
<1>1. PICK q : q = [i \in DOMAIN order |-> ChildEvent(order[i], FALSE)]
  OBVIOUS
<1>2. PICK N \in Nat : N = Len(order) /\ DOMAIN order = 1 .. N
  OBVIOUS
<1>3. Len(q) = N
  BY <1>1, <1>2
<1>4. \A n \in 1 .. N : q[n] = ChildEvent(order[n], FALSE)
  BY <1>1, <1>2
<1> DEFINE gone(n) == {order[i] : i \in 1 .. n}
           f == [n \in 0 .. N |-> [o EXCEPT !.known = @ \ gone(n)]]
<1>5. f[0] = o
  <2>1. gone(0) = {}
    OBVIOUS
  <2> QED
    BY <2>1 DEF Opinions
<1>6. f[Len(q)] = [o EXCEPT !.known = @ \ {order[i] : i \in DOMAIN order}]
  BY <1>2, <1>3
<1>7. ASSUME NEW n \in 1 .. Len(q) PROVE f[n] = Told(f[n - 1], q[n])
  <2>1. n \in 0 .. N /\ n - 1 \in 0 .. N /\ n \in 1 .. N
    BY <1>3
  <2>2. gone(n) = gone(n - 1) \cup {order[n]}
    <3>1. 1 .. n = (1 .. n - 1) \cup {n}
      BY <2>1
    <3> QED
      BY <3>1
  <2>3. f[n].known = f[n - 1].known \ {order[n]}
    BY <2>1, <2>2 DEF Opinions
  <2>4. /\ f[n] = [ikeUp |-> o.ikeUp, ikeDown |-> o.ikeDown, known |-> f[n].known]
        /\ f[n - 1] = [ikeUp |-> o.ikeUp, ikeDown |-> o.ikeDown, known |-> f[n - 1].known]
    BY <2>1 DEF Opinions
  <2> HIDE DEF f
  <2>5. q[n] = [kind |-> "event", name |-> "child", child |-> order[n], up |-> FALSE]
    BY <1>4, <2>1 DEF ChildEvent
  <2>6. Told(f[n - 1], q[n]) = [f[n - 1] EXCEPT !.known = @ \ {order[n]}]
    BY <2>5 DEF Told, IsEvent
  <2>7. PICK a, b : a = f[n] /\ b = f[n - 1]
    OBVIOUS
  <2>8. [b EXCEPT !.known = @ \ {order[n]}] =
          [ikeUp |-> o.ikeUp, ikeDown |-> o.ikeDown, known |-> b.known \ {order[n]}]
    <3>1. PICK x, y, z : x = o.ikeUp /\ y = o.ikeDown /\ z = b.known
      OBVIOUS
    <3>2. b = [ikeUp |-> x, ikeDown |-> y, known |-> z]
      BY <2>4, <2>7, <3>1
    <3>3. PICK w : w = z \ {order[n]}
      OBVIOUS
    <3>4. [b EXCEPT !.known = w] = [ikeUp |-> x, ikeDown |-> y, known |-> w]
      BY <3>2
    <3> QED
      BY <3>1, <3>3, <3>4
  <2>9. a = [ikeUp |-> o.ikeUp, ikeDown |-> o.ikeDown, known |-> b.known \ {order[n]}]
    BY <2>3, <2>4, <2>7
  <2> QED
    BY <2>6, <2>7, <2>8, <2>9
<1> HIDE DEF f
<1> QED
  BY <1>1, <1>5, <1>6, <1>7 DEF Carries

\* What the operations of a connection do.
LEMMA ReachesFacts ==
  ASSUME NEW c \in Clients, NEW o, NEW p, Reaches(o, c, p)
  PROVE  /\ c.pending \in Seq(Events) /\ c.wire \in Seq(Packets) /\ c.pending \in Seq(Packets)
<1>1. c.pending \in Seq(Events) /\ c.wire \in Seq(Packets)
  BY ClientSet
<1>2. Events \subseteq Packets
  BY DEF Packets
<1> QED
  BY <1>1, <1>2

LEMMA ReachesSame ==
  ASSUME NEW c, NEW d, NEW o, NEW p, Reaches(o, c, p), d.pending = c.pending, d.wire = c.wire
  PROVE  Reaches(o, d, p)
  BY DEF Reaches

LEMMA ReachesWritten ==
  ASSUME NEW c \in Clients, NEW d, NEW o, NEW p, NEW r, Reaches(o, c, p),
         NEW t \in Seq(Packets), d.pending = c.pending, d.wire = c.wire \o t, Carries(p, t, r)
  PROVE  Reaches(o, d, r)
<1>1. PICK b : Carries(o, c.pending, b) /\ Carries(b, c.wire, p)
  BY DEF Reaches
<1>2. c.wire \in Seq(Packets)
  BY ReachesFacts
<1>3. Carries(b, c.wire \o t, r)
  BY <1>1, <1>2, CarriesMore
<1> QED
  BY <1>1, <1>3 DEF Reaches

LEMMA ReachesKept ==
  ASSUME NEW c \in Clients, NEW o, NEW p, Reaches(o, c, p), c.wire # <<>>
  PROVE  Reaches(o, KeepEvent(c), p)
<1>1. PICK b : Carries(o, c.pending, b) /\ Carries(b, c.wire, p)
  BY DEF Reaches
<1>2. c.wire \in Seq(Packets) /\ c.pending \in Seq(Packets)
  BY ReachesFacts
<1>3. Head(c.wire) \in Packets
  BY <1>2, TailPackets
<1>4. PICK e : e = Head(c.wire)
  OBVIOUS
<1>5. Carries(Told(b, e), Tail(c.wire), p)
  BY <1>1, <1>2, <1>4, CarriesFirst
<1>6. <<e>> \in Seq(Packets) /\ Append(c.pending, e) = c.pending \o <<e>>
  BY <1>2, <1>3, <1>4
<1>7. Carries(o, Append(c.pending, e), Told(b, e))
  BY <1>1, <1>2, <1>6, CarriesOne, CarriesMore
<1>8. KeepEvent(c).wire = Tail(c.wire) /\ KeepEvent(c).pending = Append(c.pending, e)
  BY <1>4, ClientSet DEF KeepEvent
<1> QED
  BY <1>5, <1>7, <1>8 DEF Reaches

LEMMA ReachesAnswered ==
  ASSUME NEW c \in Clients, NEW o, NEW p, Reaches(o, c, p), c.wire # <<>>, ~IsEvent(Head(c.wire))
  PROVE  Reaches(o, TakeAnswer(c), p)
<1>1. PICK b : Carries(o, c.pending, b) /\ Carries(b, c.wire, p)
  BY DEF Reaches
<1>2. c.wire \in Seq(Packets)
  BY ReachesFacts
<1>3. Told(b, Head(c.wire)) = b
  BY DEF Told
<1>4. Carries(b, Tail(c.wire), p)
  BY <1>1, <1>2, <1>3, CarriesFirst
<1>5. TakeAnswer(c).wire = Tail(c.wire) /\ TakeAnswer(c).pending = c.pending
  BY ClientSet DEF TakeAnswer
<1> QED
  BY <1>1, <1>4, <1>5 DEF Reaches

LEMMA ReachesTaken ==
  ASSUME NEW c \in Clients, NEW o, NEW p, Reaches(o, c, p), HasEvent(c)
  PROVE  Reaches(Told(o, NextEvent(c)), TakeEvent(c), p)
<1>1. PICK b : Carries(o, c.pending, b) /\ Carries(b, c.wire, p)
  BY DEF Reaches
<1>2. c.wire \in Seq(Packets) /\ c.pending \in Seq(Packets)
  BY ReachesFacts
<1>3. CASE c.pending # <<>>
  <2>1. Carries(Told(o, Head(c.pending)), Tail(c.pending), b)
    BY <1>1, <1>2, <1>3, CarriesFirst
  <2>2. /\ NextEvent(c) = Head(c.pending)
        /\ TakeEvent(c).pending = Tail(c.pending) /\ TakeEvent(c).wire = c.wire
    BY <1>3, ClientSet DEF NextEvent, TakeEvent
  <2> QED
    BY <1>1, <2>1, <2>2 DEF Reaches
<1>4. CASE c.pending = <<>>
  <2>1. c.wire # <<>> /\ o = b
    BY <1>1, <1>4, CarriesNothing DEF HasEvent
  <2>2. Carries(Told(o, Head(c.wire)), Tail(c.wire), p)
    BY <1>1, <1>2, <2>1, CarriesFirst
  <2>3. /\ NextEvent(c) = Head(c.wire)
        /\ TakeEvent(c).pending = <<>> /\ TakeEvent(c).wire = Tail(c.wire)
    BY <1>4, ClientSet DEF NextEvent, TakeEvent
  <2>4. Carries(Told(o, Head(c.wire)), <<>>, Told(o, Head(c.wire)))
    BY CarriesNothing
  <2> QED
    BY <2>2, <2>3, <2>4 DEF Reaches
<1> QED
  BY <1>3, <1>4

-----------------------------------------------------------------------------
(* The invariant of the view.                                              *)

Talking == {"setup", "initiate", "wait", "subscribe", "watch"}

\* An answer that reports success is on its way.
HasOk(s) == \E i \in DOMAIN s : ~IsEvent(s[i]) /\ s[i].ok

\* charon has terminated the SA of a previous run, and has established ours.
Terminated ==
  \/ at \in Talking \ {"setup"}
  \/ at = "setup" /\ Head(todo) = Terminate /\ ~AllEvents(conn["cmd"].wire)
  \/ at = "setup" /\ \A i \in DOMAIN todo : todo[i] # Terminate

Established ==
  \/ at \in {"wait", "subscribe", "watch"}
  \/ at = "initiate" /\ HasOk(conn["cmd"].wire)

\* An opinion says nothing that is not so, or all there is to say, of ch; it
\* does not come from events nobody subscribed to.
Sound(p, ch) ==
  /\ p.known \subseteq ch.kids /\ (p.ikeUp => ch.sa = "up")
  /\ "child" \notin ch.subs => p.known = {}
  /\ "ike" \notin ch.subs => ~p.ikeUp

Complete(p, ch) == ch.kids \subseteq p.known /\ (ch.sa = "up" => p.ikeUp)

Seen(p) == p.ikeUp \/ p.ikeDown

\* The subscription to e is still to come.
Awaits(e) ==
  /\ at = "setup"
  /\ \/ \E i \in DOMAIN todo : i # 1 /\ todo[i] = Register(e)
     \/ Head(todo) = Register(e) /\ ~HasOk(conn["evt"].wire)

Subscribed == \A e \in {"ike", "child"} : e \in charon.subs \/ Awaits(e)

\* The subscriptions come before the old SA is terminated.
Before(s, k) ==
  \A i \in DOMAIN s : (s[i] = Terminate => i = k) /\ (s[i][1] = "register" => i < k)

Ordered ==
  at = "setup" => \E k \in 0 .. Len(todo) : Before(todo, k) /\ (k > 0 => todo[k] = Terminate)

\* Nothing is known before anything is said, nor taken to be so before the
\* last child has been waited for.
Fresh ==
  /\ at \in {"none", "connect", "setup"} /\ sup # "killed" => view = NewView
  /\ at \in {"connect", "setup", "initiate", "wait"} => trusted = {}

\* What the events on their way make of the opinion is right.
Right(p) ==
  Sound(p, charon) /\ (Terminated => Complete(p, charon)) /\ (Established => Seen(p))

Tracked ==
  at \in Talking /\ ~conn["evt"].broken =>
    Subscribed /\ \E p \in Opinions : Reaches(Opinion(view, trusted), conn["evt"], p) /\ Right(p)

ViewInv == Ordered /\ Fresh /\ Tracked

LEMMA ViewInvGives == Base /\ ViewInv => ViewAgrees
<1> SUFFICES ASSUME Base, ViewInv, at = "watch", ~conn["evt"].broken, conn["evt"].wire = <<>>,
                    conn["evt"].pending = <<>>
             PROVE  /\ charon.kids \subseteq view.up
                    /\ view.up \ trusted \subseteq charon.kids
                    /\ charon.sa = "up" \/ view.ikeDown \/ trusted # {}
  BY DEF ViewAgrees
<1>1. PICK p \in Opinions : Reaches(Opinion(view, trusted), conn["evt"], p) /\ Right(p)
  BY DEF ViewInv, Tracked, Talking
<1>2. p = Opinion(view, trusted)
  BY <1>1, CarriesNothing DEF Reaches
<1>3. Sound(p, charon) /\ Complete(p, charon) /\ Seen(p)
  BY <1>1 DEF Right, Terminated, Established, Talking
<1>4. p.known = view.up \ trusted /\ p.ikeUp = view.ikeUp /\ p.ikeDown = view.ikeDown
  BY <1>2 DEF Opinion
<1> QED
  BY <1>3, <1>4 DEF Sound, Complete, Seen

LEMMA HasOkMore ==
  ASSUME NEW s \in Seq(Packets), NEW t \in Seq(Packets)
  PROVE  HasOk(s \o t) <=> HasOk(s) \/ HasOk(t)
<1>1. ASSUME HasOk(s) PROVE HasOk(s \o t)
  BY <1>1, MorePackets DEF HasOk
<1>2. ASSUME HasOk(t) PROVE HasOk(s \o t)
  <2>1. PICK i \in DOMAIN t : ~IsEvent(t[i]) /\ t[i].ok
    BY <1>2 DEF HasOk
  <2>2. i + Len(s) \in DOMAIN (s \o t) /\ (s \o t)[i + Len(s)] = t[i]
    BY MorePackets
  <2> QED
    BY <2>1, <2>2 DEF HasOk
<1>3. ASSUME HasOk(s \o t) PROVE HasOk(s) \/ HasOk(t)
  BY <1>3, MorePackets DEF HasOk
<1> QED
  BY <1>1, <1>2, <1>3

LEMMA HasOkRead ==
  ASSUME NEW s \in Seq(Packets), s # <<>>
  PROVE  /\ IsEvent(Head(s)) => (HasOk(Tail(s)) <=> HasOk(s))
         /\ ~IsEvent(Head(s)) /\ Head(s).ok => HasOk(s)
<1>1. ASSUME HasOk(Tail(s)) PROVE HasOk(s)
  BY <1>1, TailPackets DEF HasOk
<1>2. ASSUME HasOk(s), IsEvent(Head(s)) PROVE HasOk(Tail(s))
  <2>1. PICK i \in DOMAIN s : ~IsEvent(s[i]) /\ s[i].ok
    BY <1>2 DEF HasOk
  <2>2. i # 1
    BY <1>2, <2>1, TailPackets
  <2>3. i - 1 \in DOMAIN Tail(s) /\ Tail(s)[i - 1] = s[i]
    BY <2>2, TailPackets
  <2> QED
    BY <2>1, <2>3 DEF HasOk
<1>3. ASSUME ~IsEvent(Head(s)), Head(s).ok PROVE HasOk(s)
  BY <1>3, TailPackets DEF HasOk
<1> QED
  BY <1>1, <1>2, <1>3

LEMMA HasOkEvents ==
  ASSUME NEW s, AllEvents(s)
  PROVE  ~HasOk(s)
  BY DEF AllEvents, HasOk

LEMMA EventsAre ==
  ASSUME NEW t \in Seq(Events)
  PROVE  t \in Seq(Packets) /\ AllEvents(t)
<1>1. Events \subseteq Packets
  BY DEF Packets
<1>2. \A e \in Events : IsEvent(e)
  BY DEF Events, IsEvent, IkeEvent, ChildEvent
<1>3. \A i \in DOMAIN t : t[i] \in Events
  OBVIOUS
<1> QED
  BY <1>1, <1>2, <1>3 DEF AllEvents

\* What each event says.
LEMMA ToldIs ==
  ASSUME NEW p \in Opinions
  PROVE  /\ Told(p, IkeEvent(TRUE)) = [p EXCEPT !.ikeUp = TRUE, !.ikeDown = FALSE]
         /\ Told(p, IkeEvent(FALSE)) =
              IF p.ikeUp THEN [ikeUp |-> FALSE, ikeDown |-> TRUE, known |-> {}] ELSE p
         /\ \A i : Told(p, ChildEvent(i, TRUE)) = [p EXCEPT !.known = @ \cup {i}]
         /\ \A i : Told(p, ChildEvent(i, FALSE)) = [p EXCEPT !.known = @ \ {i}]
         /\ \A command, ok, matches : Told(p, Answer(command, ok, matches)) = p
<1>1. ASSUME NEW u \in BOOLEAN
      PROVE  /\ IkeEvent(u).kind = "event" /\ IkeEvent(u).name = "ike" /\ IkeEvent(u).up = u
             /\ \A i : /\ ChildEvent(i, u).kind = "event" /\ ChildEvent(i, u).name = "child"
                       /\ ChildEvent(i, u).up = u /\ ChildEvent(i, u).child = i
  BY DEF IkeEvent, ChildEvent
<1>2. PICK yes \in BOOLEAN : yes = TRUE
  OBVIOUS
<1>3. PICK no \in BOOLEAN : no = FALSE
  OBVIOUS
<1>4. Told(p, IkeEvent(yes)) = [p EXCEPT !.ikeUp = TRUE, !.ikeDown = FALSE]
  BY <1>1, <1>2 DEF Told, IsEvent
<1>5. Told(p, IkeEvent(no)) =
        IF p.ikeUp THEN [ikeUp |-> FALSE, ikeDown |-> TRUE, known |-> {}] ELSE p
  BY <1>1, <1>3 DEF Told, IsEvent
<1>6. \A i : Told(p, ChildEvent(i, yes)) = [p EXCEPT !.known = @ \cup {i}]
  BY <1>1, <1>2 DEF Told, IsEvent
<1>7. \A i : Told(p, ChildEvent(i, no)) = [p EXCEPT !.known = @ \ {i}]
  BY <1>1, <1>3 DEF Told, IsEvent
<1>8. \A command, ok, matches : Told(p, Answer(command, ok, matches)) = p
  BY DEF Told, IsEvent, Answer
<1> QED
  BY <1>2, <1>3, <1>4, <1>5, <1>6, <1>7, <1>8

\* What charon says on evt: cs becomes ds, and with it the opinion p becomes r.
Hears(cs, p, ds, r) ==
  /\ ds \in [Conns -> Clients] /\ ds["cmd"] = cs["cmd"]
  /\ ds["evt"].open = cs["evt"].open /\ ds["evt"].broken = cs["evt"].broken
  /\ HasOk(ds["evt"].wire) <=> HasOk(cs["evt"].wire)
  /\ \A o : Reaches(o, cs["evt"], p) => Reaches(o, ds["evt"], r)

LEMMA EmitHears ==
  ASSUME NEW cs \in [Conns -> Clients], cs["evt"].open, ~cs["evt"].broken,
         NEW name, NEW events \in Seq(Events), NEW p, NEW r, Carries(p, events, r)
  PROVE  Hears(cs, p, Emit(cs, name, events), IF name \in charon.subs THEN r ELSE p)
<1>1. cs["evt"] \in Clients /\ cs["evt"].wire \in Seq(Packets)
  BY ClientSet DEF Conns
<1>2. EvtGets(cs, Emit(cs, name, events))
  BY EmitGets
<1>3. PICK t : t = IF name \in charon.subs THEN events ELSE <<>>
  OBVIOUS
<1>4. t \in Seq(Events) /\ t \in Seq(Packets) /\ AllEvents(t)
  <2>1. t \in Seq(Events)
    BY <1>3
  <2> QED
    BY <2>1, EventsAre
<1>5. PICK q : q = IF name \in charon.subs THEN r ELSE p
  OBVIOUS
<1>6. Carries(p, t, q)
  BY <1>3, <1>5, CarriesNothing
<1>7. PICK d : d = Emit(cs, name, events)["evt"]
  OBVIOUS
<1>8. d = Write(cs["evt"], t)
  BY <1>3, <1>7 DEF Emit, Conns
<1>9. d.wire = cs["evt"].wire \o t /\ d.pending = cs["evt"].pending
  BY <1>1, <1>8, ClientSet DEF Write
<1>10. HasOk(d.wire) <=> HasOk(cs["evt"].wire)
  BY <1>1, <1>4, <1>9, HasOkMore, HasOkEvents
<1>11. \A o : Reaches(o, cs["evt"], p) => Reaches(o, d, q)
  BY <1>1, <1>4, <1>6, <1>9, ReachesWritten
<1> QED
  BY <1>2, <1>5, <1>7, <1>10, <1>11 DEF Hears, EvtGets

LEMMA EmitsOne ==
  ASSUME NEW cs \in [Conns -> Clients], cs["evt"].open, ~cs["evt"].broken,
         NEW name, NEW e \in Events, NEW p
  PROVE  Hears(cs, p, Emit(cs, name, <<e>>), IF name \in charon.subs THEN Told(p, e) ELSE p)
<1>1. <<e>> \in Seq(Events) /\ Carries(p, <<e>>, Told(p, e))
  BY CarriesOne
<1> QED
  BY <1>1, EmitHears

LEMMA HearsMore ==
  ASSUME NEW a, NEW b, NEW c, NEW p, NEW q, NEW r, Hears(a, p, b, q), Hears(b, q, c, r)
  PROVE  Hears(a, p, c, r)
  BY DEF Hears

\* Every child of an ending SA is in the order its events come in.
LEMMA OrderIsAll ==
  ASSUME NEW S, IsFiniteSet(S), NEW order \in SetToSeqs(S)
  PROVE  order \in Seq(S) /\ {order[i] : i \in DOMAIN order} = S
<1>1. PICK n \in Nat : n = Cardinality(S)
  BY FS_CardinalityType
<1>2. order \in [1 .. n -> S] /\ \A i, j \in 1 .. n : i # j => order[i] # order[j]
  BY <1>1 DEF SetToSeqs
<1>3. order \in Injection(1 .. n, S)
  BY <1>2 DEF Injection, IsInjective
<1>4. Cardinality(1 .. n) = n
  BY FS_Interval
<1>5. order \in Surjection(1 .. n, S)
  BY <1>1, <1>3, <1>4, FS_Injection
<1>6. \A x \in S : \E i \in 1 .. n : order[i] = x
  BY <1>5 DEF Surjection
<1>7. DOMAIN order = 1 .. n
  BY <1>2
<1> QED
  BY <1>2, <1>6, <1>7

\* The end of the SA leaves an opinion that is right of what is left.
LEMMA EndingHears ==
  ASSUME NEW cs \in [Conns -> Clients], cs["evt"].open, ~cs["evt"].broken, charon \in Charons,
         NEW ds \in EmitEnding(cs), NEW p \in Opinions, Sound(p, charon)
  PROVE  \E r \in Opinions : /\ Hears(cs, p, ds, r)
                             /\ Sound(r, WithoutSa(charon)) /\ Complete(r, WithoutSa(charon))
                             /\ Seen(p) => Seen(r)
<1>1. PICK order \in SetToSeqs(charon.kids) :
        ds = Emit(Emit(cs, "child", [i \in DOMAIN order |-> ChildEvent(order[i], FALSE)]),
                  "ike", IF charon.sa = "up" THEN <<IkeEvent(FALSE)>> ELSE <<>>)
  BY DEF EmitEnding
<1>2. charon.kids \subseteq Kids /\ IsFiniteSet(charon.kids)
  <2>1. charon.kids \subseteq Kids /\ IsFiniteSet(Kids)
    BY FS_Interval, ChildrenAssumption DEF Charons, Kids
  <2> QED
    BY <2>1, FS_Subset
<1>3. order \in Seq(charon.kids) /\ {order[i] : i \in DOMAIN order} = charon.kids
  BY <1>2, OrderIsAll
<1>4. order \in Seq(Kids)
  BY <1>2, <1>3
<1>5. PICK e1 : e1 = [i \in DOMAIN order |-> ChildEvent(order[i], FALSE)]
  OBVIOUS
<1>6. e1 \in Seq(Events)
  <2>1. PICK n \in Nat : DOMAIN order = 1 .. n
    BY <1>4
  <2>2. \A i \in DOMAIN order : ChildEvent(order[i], FALSE) \in Events
    <3>1. \A i \in DOMAIN order : order[i] \in Kids
      BY <1>4
    <3> QED
      BY <3>1, EventTypes
  <2>3. e1 \in [1 .. n -> Events]
    BY <1>5, <2>1, <2>2
  <2> QED
    BY <2>3
<1>7. PICK q : q = [p EXCEPT !.known = @ \ charon.kids]
  OBVIOUS
<1>8. /\ q \in Opinions /\ q.known = {} /\ q.ikeUp = p.ikeUp /\ q.ikeDown = p.ikeDown
  BY <1>7 DEF Opinions, Sound
<1>9. Carries(p, e1, q)
  BY <1>3, <1>4, <1>5, <1>7, CarriesEnding
<1>10. PICK b : b = Emit(cs, "child", e1)
  OBVIOUS
<1>11. PICK m : m = IF "child" \in charon.subs THEN q ELSE p
  OBVIOUS
<1>12. Hears(cs, p, b, m)
  BY <1>6, <1>9, <1>10, <1>11, EmitHears
<1>13. b \in [Conns -> Clients] /\ b["evt"].open /\ ~b["evt"].broken
  BY <1>12 DEF Hears
<1>14. /\ m \in Opinions /\ m.known = {} /\ m.ikeUp = p.ikeUp /\ m.ikeDown = p.ikeDown
  BY <1>8, <1>11 DEF Sound
<1>15. PICK no \in BOOLEAN : no = FALSE
  OBVIOUS
<1>16. PICK r : r = IF charon.sa = "up" /\ "ike" \in charon.subs THEN Told(m, IkeEvent(no)) ELSE m
  OBVIOUS
<1>17. /\ r \in Opinions /\ r.known = {} /\ ~r.ikeUp
       /\ p.ikeUp => r.ikeDown
       /\ ~p.ikeUp => r.ikeDown = p.ikeDown
  <2>1. Told(m, IkeEvent(FALSE)) =
          IF m.ikeUp THEN [ikeUp |-> FALSE, ikeDown |-> TRUE, known |-> {}] ELSE m
    BY <1>14, ToldIs
  <2>2. CASE m.ikeUp
    <3>1. charon.sa = "up" /\ "ike" \in charon.subs
      BY <1>14, <2>2 DEF Sound
    <3>2. r = [ikeUp |-> FALSE, ikeDown |-> TRUE, known |-> {}]
      BY <1>15, <1>16, <2>1, <2>2, <3>1
    <3> QED
      BY <1>14, <2>2, <3>2 DEF Opinions
  <2>3. CASE ~m.ikeUp
    <3>1. r = m
      BY <1>15, <1>16, <2>1, <2>3
    <3> QED
      BY <1>14, <2>3, <3>1
  <2> QED
    BY <2>2, <2>3
<1>18. Hears(b, m, ds, r)
  <2>1. IkeEvent(no) \in Events
    BY EventTypes
  <2>2. CASE charon.sa = "up"
    <3>1. ds = Emit(b, "ike", <<IkeEvent(no)>>)
      BY <1>1, <1>5, <1>10, <1>15, <2>2
    <3> QED
      BY <1>13, <1>16, <2>1, <2>2, <3>1, EmitsOne
  <2>3. CASE charon.sa # "up"
    <3>1. ds = Emit(b, "ike", <<>>) /\ r = m
      BY <1>1, <1>5, <1>10, <1>16, <2>3
    <3>2. <<>> \in Seq(Events) /\ Carries(m, <<>>, m)
      BY CarriesNothing
    <3>3. Hears(b, m, Emit(b, "ike", <<>>), IF "ike" \in charon.subs THEN m ELSE m)
      BY <1>13, <3>2, EmitHears
    <3> QED
      BY <3>1, <3>3
  <2> QED
    BY <2>2, <2>3
<1>19. Hears(cs, p, ds, r)
  BY <1>12, <1>18, HearsMore
<1>20. WithoutSa(charon).kids = {} /\ WithoutSa(charon).sa = "none"
  BY DEF WithoutSa, Charons
<1>21. Sound(r, WithoutSa(charon)) /\ Complete(r, WithoutSa(charon))
  BY <1>17, <1>20 DEF Sound, Complete
<1>22. Seen(p) => Seen(r)
  BY <1>17 DEF Seen
<1> QED
  BY <1>17, <1>19, <1>21, <1>22

-----------------------------------------------------------------------------
(* charon's steps.                                                         *)

\* By the time the old SA is gone, evt is subscribed to what becomes of ours.
LEMMA TerminatedSubscribed ==
  ASSUME Base, Ordered, Subscribed, Terminated
  PROVE  "ike" \in charon.subs /\ "child" \in charon.subs
<1> SUFFICES ASSUME NEW e \in {"ike", "child"}, e \notin charon.subs PROVE FALSE
  OBVIOUS
<1>1. at = "setup" /\ Awaits(e)
  BY DEF Subscribed, Awaits
<1>2. todo # <<>> /\ todo \in Seq(Commands)
  BY <1>1, Types DEF Base, PlaceInv
<1>3. /\ Len(todo) \in Nat \ {0} /\ DOMAIN todo = 1 .. Len(todo)
      /\ Head(todo) = todo[1] /\ 1 \in DOMAIN todo
  BY <1>2, TailCommands
<1>4. PICK k \in 0 .. Len(todo) : Before(todo, k) /\ (k > 0 => todo[k] = Terminate)
  BY <1>1 DEF Ordered
<1>5. Register(e)[1] = "register"
  BY DEF Register
<1>6. PICK i \in DOMAIN todo : todo[i] = Register(e)
  BY <1>1, <1>3 DEF Awaits
<1>7. i < k
  BY <1>4, <1>5, <1>6 DEF Before
<1>8. k \in DOMAIN todo /\ todo[k] = Terminate /\ k > 1
  BY <1>3, <1>4, <1>7
<1>9. Head(todo) = Terminate
  BY <1>1, <1>8 DEF Terminated
<1> QED
  BY <1>3, <1>4, <1>8, <1>9 DEF Before

\* A step of charon's takes an opinion that is right to one that is.
Follows(p) ==
  \E r \in Opinions :
    /\ HasOk(conn'["evt"].wire) <=> HasOk(conn["evt"].wire)
    /\ \A o : Reaches(o, conn["evt"], p) => Reaches(o, conn'["evt"], r)
    /\ Sound(r, charon') /\ (Terminated => Complete(r, charon')) /\ (Established' => Seen(r))

LEMMA CharonTracks ==
  ASSUME ViewInv, ByClient, ~conn'["evt"].broken => ~conn["evt"].broken,
         at = "setup" => (AllEvents(conn'["cmd"].wire) <=> AllEvents(conn["cmd"].wire)),
         charon'.subs = charon.subs,
         \A p \in Opinions :
           at \in Talking /\ ~conn["evt"].broken /\ Subscribed /\ Right(p) => Follows(p)
  PROVE  ViewInv'
<1>1. UNCHANGED <<sup, at, todo, view, trusted>>
  BY ByClientPlace
<1>2. Ordered'
  BY <1>1 DEF ViewInv, Ordered
<1>3. Fresh'
  BY <1>1 DEF ViewInv, Fresh
<1>4. Terminated' => Terminated
  BY <1>1 DEF Terminated
<1>5. ASSUME at' \in Talking, ~conn'["evt"].broken
      PROVE  Subscribed' /\ \E p \in Opinions :
               Reaches(Opinion(view', trusted'), conn'["evt"], p) /\ Right(p)'
  <2>1. Subscribed
    BY <1>1, <1>5 DEF ViewInv, Tracked
  <2>2. PICK p \in Opinions : Reaches(Opinion(view, trusted), conn["evt"], p) /\ Right(p)
    BY <1>1, <1>5 DEF ViewInv, Tracked
  <2>3. Follows(p)
    BY <1>1, <1>5, <2>1, <2>2
  <2>4. PICK r \in Opinions :
          /\ HasOk(conn'["evt"].wire) <=> HasOk(conn["evt"].wire)
          /\ \A o : Reaches(o, conn["evt"], p) => Reaches(o, conn'["evt"], r)
          /\ Sound(r, charon') /\ (Terminated => Complete(r, charon')) /\ (Established' => Seen(r))
    BY <2>3 DEF Follows
  <2>5. Subscribed'
    BY <1>1, <2>1, <2>4 DEF Subscribed, Awaits
  <2>6. Reaches(Opinion(view', trusted'), conn'["evt"], r)
    BY <1>1, <2>2, <2>4
  <2>7. Right(r)'
    BY <1>4, <2>4 DEF Right
  <2> QED
    BY <2>5, <2>6, <2>7
<1>6. Tracked'
  BY <1>5 DEF Tracked
<1> QED
  BY <1>2, <1>3, <1>6 DEF ViewInv

\* The answer to initiate, if it is written, ends the wait for it.
LEMMA InitiateWritten ==
  ASSUME Base, NEW cs \in [Conns -> Clients], cs["cmd"] = conn["cmd"], NEW ok \in BOOLEAN,
         conn' = RespondInitiate(cs, ok)
  PROVE  /\ conn'["evt"] = cs["evt"]
         /\ at # "initiate" => conn'["cmd"] = conn["cmd"]
         /\ ~ok => (HasOk(conn'["cmd"].wire) <=> HasOk(conn["cmd"].wire))
<1>1. CASE ~(charon.job # 0 /\ charon.heard)
  BY <1>1 DEF RespondInitiate
<1>2. CASE charon.job # 0 /\ charon.heard
  <2>1. PICK a : a = Answer(Initiate, ok, FALSE)
    OBVIOUS
  <2>2. conn' = [cs EXCEPT !["cmd"] = Write(conn["cmd"], <<a>>)]
    BY <1>2, <2>1 DEF RespondInitiate, Respond
  <2>3. PICK d : d = Write(conn["cmd"], <<a>>)
    OBVIOUS
  <2>4. conn'["evt"] = cs["evt"] /\ conn'["cmd"] = d
    BY <2>2, <2>3 DEF Conns
  <2>5. conn["cmd"] \in Clients /\ conn["cmd"].wire \in Seq(Packets)
    BY Types, ClientSet DEF Base, Conns
  <2>6. CASE ~(conn["cmd"].open /\ ~conn["cmd"].broken)
    BY <2>3, <2>4, <2>6 DEF Write
  <2>7. CASE conn["cmd"].open /\ ~conn["cmd"].broken
    <3>1. at = "initiate"
      BY <1>2, <2>7 DEF Base, WireInv
    <3>2. conn'["cmd"].wire = conn["cmd"].wire \o <<a>>
      BY <2>3, <2>4, <2>5, <2>7, ClientSet DEF Write
    <3>3. a \in Packets /\ a.ok = ok
      <4>1. Initiate \in Commands
        BY DEF Commands
      <4>2. PICK no \in BOOLEAN : no = FALSE
        OBVIOUS
      <4>3. a = Answer(Initiate, ok, no)
        BY <2>1, <4>2
      <4> QED
        BY <4>1, <4>3 DEF Answer, Packets
    <3>4. <<a>> \in Seq(Packets) /\ (~ok => ~HasOk(<<a>>))
      <4>1. <<a>> \in Seq(Packets) /\ DOMAIN <<a>> = {1} /\ <<a>>[1] = a
        BY <3>3
      <4> QED
        BY <3>3, <4>1 DEF HasOk
    <3>5. ~ok => (HasOk(conn'["cmd"].wire) <=> HasOk(conn["cmd"].wire))
      <4>1. PICK w \in Seq(Packets), t \in Seq(Packets) : w = conn["cmd"].wire /\ t = <<a>>
        BY <2>5, <3>4
      <4>2. HasOk(w \o t) <=> HasOk(w) \/ HasOk(t)
        BY HasOkMore
      <4> QED
        BY <3>2, <3>4, <4>1, <4>2
    <3> QED
      BY <2>4, <3>1, <3>5
  <2> QED
    BY <2>6, <2>7
<1> QED
  BY <1>1, <1>2

\* A Talking client has an event connection that charon can write to.
LEMMA TalkingOpen ==
  ASSUME Base, at \in Talking
  PROVE  /\ conn \in [Conns -> Clients] /\ conn["evt"].open /\ conn["cmd"].open
         /\ conn["evt"] \in Clients /\ conn["cmd"] \in Clients /\ charon \in Charons
  BY Types DEF Base, PlaceInv, Talking, Conns

\* charon, its SAs being as in ch.
LEMMA SoundSame ==
  ASSUME NEW p, NEW a, NEW b, a.kids = b.kids, a.subs = b.subs,
         (a.sa = "up") <=> (b.sa = "up")
  PROVE  (Sound(p, a) <=> Sound(p, b)) /\ (Complete(p, a) <=> Complete(p, b))
  BY DEF Sound, Complete

LEMMA SaAppearsView ==
  ASSUME Base, ViewInv, SaAppears
  PROVE  ViewInv'
<1>1. /\ ByClient /\ conn' = conn /\ charon.sa = "none"
      /\ charon' = [charon EXCEPT !.sa = "connecting"] /\ charon \in Charons
  BY Types DEF Base, SaAppears
<1>2. charon'.kids = charon.kids /\ charon'.subs = charon.subs /\ charon'.sa = "connecting"
  BY <1>1 DEF Charons
<1>3. Established' <=> Established
  BY <1>1, ByClientPlace DEF Established
<1>4. ASSUME NEW p \in Opinions, Right(p) PROVE Follows(p)
  <2>1. Sound(p, charon') /\ (Terminated => Complete(p, charon')) /\ (Established => Seen(p))
    BY <1>1, <1>2, <1>4, SoundSame DEF Right
  <2> QED
    BY <1>1, <1>3, <2>1 DEF Follows
<1> QED
  BY <1>1, <1>2, <1>4, CharonTracks

LEMMA SaEstablishedView ==
  ASSUME Base, ViewInv, SaEstablished
  PROVE  ViewInv'
<1>1. PICK yes \in BOOLEAN : yes = TRUE
  OBVIOUS
<1>2. /\ ByClient /\ conn' = Emit(conn, "ike", <<IkeEvent(yes)>>)
      /\ charon' = [charon EXCEPT !.sa = "up"] /\ charon \in Charons
      /\ conn \in [Conns -> Clients] /\ IkeEvent(yes) \in Events
  BY <1>1, EventTypes, Types DEF Base, SaEstablished
<1>3. charon'.kids = charon.kids /\ charon'.subs = charon.subs /\ charon'.sa = "up"
  BY <1>2 DEF Charons
<1>4. EvtGets(conn, conn')
  <2>1. <<IkeEvent(yes)>> \in Seq(Events)
    BY <1>2
  <2> QED
    BY <1>2, <2>1, EmitGets
<1>6. Established' <=> Established
  BY <1>2, <1>4, ByClientPlace DEF Established, EvtGets
<1>7. ASSUME NEW p \in Opinions, at \in Talking, ~conn["evt"].broken, Subscribed, Right(p)
      PROVE  Follows(p)
  <2>1. PICK r : r = IF "ike" \in charon.subs THEN Told(p, IkeEvent(yes)) ELSE p
    OBVIOUS
  <2>2. Hears(conn, p, conn', r)
    BY <1>2, <1>7, <2>1, EmitsOne, TalkingOpen
  <2>3. Told(p, IkeEvent(yes)) = [p EXCEPT !.ikeUp = TRUE, !.ikeDown = FALSE]
    BY <1>1, ToldIs
  <2>4. CASE "ike" \in charon.subs
    <3>1. r \in Opinions /\ r.ikeUp /\ r.known = p.known
      BY <2>1, <2>3, <2>4 DEF Opinions
    <3>2. Sound(r, charon') /\ (Terminated => Complete(r, charon')) /\ Seen(r)
      BY <1>3, <1>7, <2>4, <3>1 DEF Right, Sound, Complete, Seen
    <3> QED
      BY <2>2, <3>1, <3>2 DEF Follows, Hears
  <2>5. CASE "ike" \notin charon.subs
    <3>1. r = p /\ ~Terminated
      BY <1>7, <2>1, <2>5, TerminatedSubscribed DEF ViewInv
    <3>2. Sound(p, charon') /\ (Established => Seen(p))
      BY <1>3, <1>7, <2>5 DEF Right, Sound
    <3> QED
      BY <1>6, <1>7, <2>2, <3>1, <3>2 DEF Follows, Hears
  <2> QED
    BY <2>4, <2>5
<1> QED
  BY <1>2, <1>3, <1>4, <1>7, CharonTracks DEF EvtGets

LEMMA ChildEstablishedView ==
  ASSUME Base, ViewInv, ChildEstablished
  PROVE  ViewInv'
<1>1. PICK yes \in BOOLEAN : yes = TRUE
  OBVIOUS
<1>2. PICK cs : cs = Emit(conn, "child", <<ChildEvent(charon.job, yes)>>)
  OBVIOUS
<1>3. /\ ByClient /\ conn' = RespondInitiate(cs, yes) /\ charon.job # 0 /\ charon.sa = "up"
      /\ charon' = [charon EXCEPT !.kids = @ \cup {charon.job}, !.job = 0]
      /\ charon \in Charons /\ conn \in [Conns -> Clients]
  BY <1>1, <1>2, Types DEF Base, ChildEstablished
<1>4. charon.job \in Kids /\ ChildEvent(charon.job, yes) \in Events
  BY <1>3, EventTypes DEF Charons, Kids
<1>5. /\ charon'.kids = charon.kids \cup {charon.job} /\ charon'.subs = charon.subs
      /\ charon'.sa = "up"
  BY <1>3 DEF Charons
<1>6. EvtGets(conn, cs)
  <2>1. <<ChildEvent(charon.job, yes)>> \in Seq(Events)
    BY <1>4
  <2> QED
    BY <1>2, <1>3, <2>1, EmitGets
<1>7. /\ conn'["evt"] = cs["evt"]
      /\ at # "initiate" => conn'["cmd"] = conn["cmd"]
  BY <1>3, <1>6, InitiateWritten DEF EvtGets
<1>8. Established' => Terminated
  BY <1>3, ByClientPlace DEF Established, Terminated, Talking
<1>9. ASSUME NEW p \in Opinions, at \in Talking, ~conn["evt"].broken, Subscribed, Right(p)
      PROVE  Follows(p)
  <2>1. PICK r : r = IF "child" \in charon.subs THEN Told(p, ChildEvent(charon.job, yes)) ELSE p
    OBVIOUS
  <2>2. Hears(conn, p, cs, r)
    BY <1>2, <1>3, <1>4, <1>9, <2>1, EmitsOne, TalkingOpen
  <2>3. Told(p, ChildEvent(charon.job, yes)) = [p EXCEPT !.known = @ \cup {charon.job}]
    BY <1>1, ToldIs
  <2>4. Terminated => p.ikeUp
    BY <1>3, <1>9 DEF Right, Complete
  <2>5. CASE "child" \in charon.subs
    <3>1. r \in Opinions /\ r.ikeUp = p.ikeUp /\ r.known = p.known \cup {charon.job}
      BY <1>4, <2>1, <2>3, <2>5 DEF Opinions
    <3>2. /\ Sound(r, charon') /\ (Terminated => Complete(r, charon'))
          /\ (Established' => Seen(r))
      BY <1>3, <1>5, <1>8, <1>9, <2>4, <2>5, <3>1 DEF Right, Sound, Complete, Seen
    <3> QED
      BY <1>7, <2>2, <3>1, <3>2 DEF Follows, Hears
  <2>6. CASE "child" \notin charon.subs
    <3>1. r = p /\ ~Terminated
      BY <1>9, <2>1, <2>6, TerminatedSubscribed DEF ViewInv
    <3>2. Sound(p, charon')
      BY <1>3, <1>5, <1>9, <2>6 DEF Right, Sound
    <3> QED
      BY <1>7, <1>8, <1>9, <2>2, <3>1, <3>2 DEF Follows, Hears
  <2> QED
    BY <2>5, <2>6
<1> QED
  BY <1>3, <1>5, <1>6, <1>7, <1>9, CharonTracks DEF EvtGets

LEMMA InitiateFailsView ==
  ASSUME Base, ViewInv, InitiateFails
  PROVE  ViewInv'
<1>1. PICK no \in BOOLEAN : no = FALSE
  OBVIOUS
<1>2. /\ ByClient /\ conn' = RespondInitiate(conn, no)
      /\ charon' = [charon EXCEPT !.job = 0, !.sa = IF @ = "connecting" THEN "none" ELSE @]
      /\ charon \in Charons /\ conn \in [Conns -> Clients]
  BY <1>1, Types DEF Base, InitiateFails
<1>3. /\ charon'.kids = charon.kids /\ charon'.subs = charon.subs
      /\ (charon'.sa = "up") <=> (charon.sa = "up")
  BY <1>2 DEF Charons
<1>4. /\ conn'["evt"] = conn["evt"]
      /\ at # "initiate" => conn'["cmd"] = conn["cmd"]
      /\ HasOk(conn'["cmd"].wire) <=> HasOk(conn["cmd"].wire)
  BY <1>1, <1>2, InitiateWritten
<1>5. Established' <=> Established
  BY <1>2, <1>4, ByClientPlace DEF Established
<1>6. ASSUME NEW p \in Opinions, Right(p) PROVE Follows(p)
  <2>1. Sound(p, charon') /\ (Terminated => Complete(p, charon')) /\ (Established => Seen(p))
    BY <1>3, <1>6, SoundSame DEF Right
  <2> QED
    BY <1>4, <1>5, <2>1 DEF Follows
<1> QED
  BY <1>2, <1>3, <1>4, <1>6, CharonTracks

LEMMA TakesInitiateView ==
  ASSUME Base, ViewInv, TakesInitiate
  PROVE  ViewInv'
<1>1. PICK yes \in BOOLEAN : yes = TRUE
  OBVIOUS
<1>2. /\ ByClient /\ conn' = [conn EXCEPT !["cmd"] = Take(@)]
      /\ charon' = [charon EXCEPT !.job = index, !.heard = yes]
      /\ charon \in Charons /\ conn \in [Conns -> Clients]
  BY <1>1, Types DEF Base, TakesInitiate
<1>3. /\ charon'.kids = charon.kids /\ charon'.subs = charon.subs
      /\ (charon'.sa = "up") <=> (charon.sa = "up")
  BY <1>2 DEF Charons
<1>4. conn'["evt"] = conn["evt"] /\ conn'["cmd"].wire = conn["cmd"].wire
  <2>1. conn["cmd"] \in Clients
    BY <1>2 DEF Conns
  <2>2. Take(conn["cmd"]).wire = conn["cmd"].wire
    BY <2>1, ClientSet DEF Take
  <2> QED
    BY <1>2, <2>2 DEF Conns
<1>5. Established' <=> Established
  BY <1>2, <1>4, ByClientPlace DEF Established
<1>6. ASSUME NEW p \in Opinions, Right(p) PROVE Follows(p)
  <2>1. Sound(p, charon') /\ (Terminated => Complete(p, charon')) /\ (Established => Seen(p))
    BY <1>3, <1>6, SoundSame DEF Right
  <2> QED
    BY <1>4, <1>5, <2>1 DEF Follows
<1> QED
  BY <1>2, <1>3, <1>4, <1>6, CharonTracks

LEMMA GatewayDropsView ==
  ASSUME Base, ViewInv, NEW i \in 0 .. Children, GatewayDrops(i)
  PROVE  ViewInv'
<1>1. PICK no \in BOOLEAN : no = FALSE
  OBVIOUS
<1>2. ByClient /\ charon \in Charons /\ conn \in [Conns -> Clients]
  BY Types DEF Base, GatewayDrops
<1>3. CASE i \in Kids
  <2>1. /\ conn' = Emit(conn, "child", <<ChildEvent(i, no)>>)
        /\ charon' = [charon EXCEPT !.kids = @ \ {i}]
        /\ ChildEvent(i, no) \in Events
    BY <1>1, <1>3, EventTypes DEF GatewayDrops
  <2>2. /\ charon'.kids = charon.kids \ {i} /\ charon'.subs = charon.subs
        /\ charon'.sa = charon.sa
    BY <1>2, <2>1 DEF Charons
  <2>3. EvtGets(conn, conn')
    <3>1. <<ChildEvent(i, no)>> \in Seq(Events)
      BY <2>1
    <3> QED
      BY <1>2, <2>1, <3>1, EmitGets
  <2>4. Established' <=> Established
    BY <1>2, <2>3, ByClientPlace DEF Established, EvtGets
  <2>5. ASSUME NEW p \in Opinions, at \in Talking, ~conn["evt"].broken, Subscribed, Right(p)
        PROVE  Follows(p)
    <3>1. PICK r : r = IF "child" \in charon.subs THEN Told(p, ChildEvent(i, no)) ELSE p
      OBVIOUS
    <3>2. Hears(conn, p, conn', r)
      BY <1>2, <2>1, <2>5, <3>1, EmitsOne, TalkingOpen
    <3>3. Told(p, ChildEvent(i, no)) = [p EXCEPT !.known = @ \ {i}]
      BY <1>1, ToldIs
    <3>4. CASE "child" \in charon.subs
      <4>1. /\ r \in Opinions /\ r.ikeUp = p.ikeUp /\ r.ikeDown = p.ikeDown
            /\ r.known = p.known \ {i}
        BY <3>1, <3>3, <3>4 DEF Opinions
      <4>2. /\ Sound(r, charon') /\ (Terminated => Complete(r, charon'))
            /\ (Established => Seen(r))
        BY <2>2, <2>5, <3>4, <4>1 DEF Right, Sound, Complete, Seen
      <4> QED
        BY <2>4, <3>2, <4>1, <4>2 DEF Follows, Hears
    <3>5. CASE "child" \notin charon.subs
      <4>1. r = p /\ ~Terminated
        BY <2>5, <3>1, <3>5, TerminatedSubscribed DEF ViewInv
      <4>2. Sound(p, charon') /\ (Established => Seen(p))
        BY <2>2, <2>5, <3>5 DEF Right, Sound
      <4> QED
        BY <2>4, <2>5, <3>2, <4>1, <4>2 DEF Follows, Hears
    <3> QED
      BY <3>4, <3>5
  <2> QED
    BY <1>2, <2>2, <2>3, <2>5, CharonTracks DEF EvtGets
<1>4. CASE i \notin Kids
  <2>1. charon' = WithoutSa(charon) /\ \E ds \in EmitEnding(conn) : conn' = RespondInitiate(ds, no)
    BY <1>1, <1>4 DEF GatewayDrops
  <2>2. PICK cs \in EmitEnding(conn) : conn' = RespondInitiate(cs, no)
    BY <2>1
  <2>3. EvtGets(conn, cs)
    BY <1>2, EndingGets
  <2>4. /\ conn'["evt"] = cs["evt"]
        /\ at # "initiate" => conn'["cmd"] = conn["cmd"]
        /\ HasOk(conn'["cmd"].wire) <=> HasOk(conn["cmd"].wire)
    BY <1>1, <2>2, <2>3, InitiateWritten DEF EvtGets
  <2>5. Established' <=> Established
    BY <1>2, <2>4, ByClientPlace DEF Established
  <2>6. charon'.subs = charon.subs
    BY <1>2, <2>1, WithoutSaType
  <2>7. ASSUME NEW p \in Opinions, at \in Talking, ~conn["evt"].broken, Right(p)
        PROVE  Follows(p)
    <3>1. Sound(p, charon) /\ (Established => Seen(p)) /\ conn["evt"].open
      BY <2>7, TalkingOpen DEF Right
    <3>2. PICK r \in Opinions : /\ Hears(conn, p, cs, r)
                                /\ Sound(r, WithoutSa(charon)) /\ Complete(r, WithoutSa(charon))
                                /\ Seen(p) => Seen(r)
      BY <1>2, <2>7, <3>1, EndingHears
    <3> QED
      BY <2>1, <2>4, <2>5, <3>1, <3>2 DEF Follows, Hears
  <2> QED
    BY <1>2, <2>3, <2>4, <2>6, <2>7, CharonTracks DEF EvtGets
<1> QED
  BY <1>3, <1>4

LEMMA ConnectionBreaksView ==
  ASSUME Base, ViewInv, NEW c \in Conns, ConnectionBreaks(c)
  PROVE  ViewInv'
<1>1. /\ ByClient /\ conn' = [conn EXCEPT ![c] = Break(@)] /\ charon' = charon
      /\ conn \in [Conns -> Clients] /\ conn[c] \in Clients
  BY Types DEF Base, ConnectionBreaks
<1>2. /\ Break(conn[c]).wire = conn[c].wire /\ Break(conn[c]).pending = conn[c].pending
      /\ Break(conn[c]).broken
  BY <1>1, ClientSet DEF Break
<1>3. \A k \in Conns : /\ conn'[k].wire = conn[k].wire /\ conn'[k].pending = conn[k].pending
                       /\ ~conn'[k].broken => ~conn[k].broken
  BY <1>1, <1>2
<1>4. /\ conn'["evt"].wire = conn["evt"].wire /\ conn'["evt"].pending = conn["evt"].pending
      /\ conn'["cmd"].wire = conn["cmd"].wire
      /\ ~conn'["evt"].broken => ~conn["evt"].broken
  BY <1>3 DEF Conns
<1>5. Established' <=> Established
  BY <1>1, <1>4, ByClientPlace DEF Established
<1>6. ASSUME NEW p \in Opinions, Right(p) PROVE Follows(p)
  <2>1. \A o : Reaches(o, conn["evt"], p) => Reaches(o, conn'["evt"], p)
    BY <1>4 DEF Reaches
  <2> QED
    BY <1>1, <1>4, <1>5, <1>6, <2>1 DEF Follows, Right
<1> QED
  BY <1>1, <1>4, <1>6, CharonTracks

LEMMA CharonRestartsView ==
  ASSUME Base, ViewInv, CharonRestarts
  PROVE  ViewInv'
<1>1. /\ ByClient
      /\ conn' = [k \in {"cmd", "evt"} |-> IF conn[k].open THEN Break(conn[k]) ELSE conn[k]]
  BY DEF CharonRestarts
<1>2. UNCHANGED <<sup, at, todo, view, trusted>>
  BY <1>1, ByClientPlace
<1>3. Ordered' /\ Fresh'
  BY <1>2 DEF ViewInv, Ordered, Fresh
<1>4. at \in Talking => conn'["evt"].broken
  <2>1. conn["evt"] \in Clients
    BY Types DEF Base, Conns
  <2>2. Break(conn["evt"]).broken
    BY <2>1, ClientSet DEF Break
  <2> QED
    BY <1>1, <2>2, TalkingOpen
<1> QED
  BY <1>2, <1>3, <1>4 DEF ViewInv, Tracked

\* An answer is a packet that says nothing of the SAs.
LEMMA AnswerIs ==
  ASSUME NEW r \in Commands, NEW ok \in BOOLEAN, NEW matches \in BOOLEAN
  PROVE  LET a == Answer(r, ok, matches) IN a \in Packets /\ ~IsEvent(a) /\ a.ok = ok
  BY DEF Answer, Packets, IsEvent

AnswerAdded(cs, c, a, ds) ==
  /\ \A k \in Conns : k # c => ds[k] = cs[k]
  /\ ~a.ok => (HasOk(ds[c].wire) <=> HasOk(cs[c].wire))
  /\ ds[c].broken = cs[c].broken
  /\ \A p, o : Reaches(o, cs[c], p) => Reaches(o, ds[c], p)

LEMMA AnswerWords ==
  ASSUME NEW cs \in [Conns -> Clients], NEW c \in Conns, cs[c].open, ~cs[c].broken,
         NEW a \in Packets, ~IsEvent(a), NEW ds, ds = Respond(cs, c, a)
  PROVE  AnswerAdded(cs, c, a, ds)
<1>1. PICK t : t = <<a>>
  OBVIOUS
<1>2. t \in Seq(Packets) /\ (~a.ok => ~HasOk(t))
  <2>1. t \in Seq(Packets) /\ DOMAIN t = {1} /\ t[1] = a
    BY <1>1
  <2> QED
    BY <2>1 DEF HasOk
<1>3. cs[c] \in Clients /\ cs[c].wire \in Seq(Packets)
  BY ClientSet
<1>4. PICK d : d = Write(cs[c], t)
  OBVIOUS
<1>5. d.wire = cs[c].wire \o t /\ d.pending = cs[c].pending /\ d.broken = cs[c].broken
  BY <1>3, <1>4, ClientSet DEF Write
<1>6. ds[c] = d /\ \A k \in Conns : k # c => ds[k] = cs[k]
  BY <1>1, <1>4 DEF Respond
<1>7. ~a.ok => (HasOk(d.wire) <=> HasOk(cs[c].wire))
  <2>1. PICK w \in Seq(Packets) : w = cs[c].wire
    BY <1>3
  <2>2. HasOk(w \o t) <=> HasOk(w) \/ HasOk(t)
    BY <1>2, HasOkMore
  <2> QED
    BY <1>2, <1>5, <2>1, <2>2
<1>8. ASSUME NEW p, NEW o, Reaches(o, cs[c], p) PROVE Reaches(o, d, p)
  <2>1. Told(p, a) = p
    BY DEF Told
  <2>2. Carries(p, t, p)
    BY <1>1, <2>1, CarriesOne
  <2> QED
    BY <1>2, <1>3, <1>5, <1>8, <2>2, ReachesWritten
<1> QED
  BY <1>5, <1>6, <1>7, <1>8 DEF AnswerAdded

LEMMA TakenSas ==
  ASSUME charon \in Charons, NEW r \in Commands, NEW c, r[1] \notin {"unload", "unregister"}
  PROVE  /\ Taken(r, c).kids = charon.kids /\ Taken(r, c).sa = charon.sa
         /\ Taken(r, c).subs =
              IF r[1] = "register" /\ c = "evt" THEN charon.subs \cup {r[2]} ELSE charon.subs
<1>1. PICK l : l = IF r[1] = "load" THEN charon.loaded \cup {r[2]} ELSE charon.loaded
  OBVIOUS
<1>2. PICK b : b = IF r[1] = "register" /\ c = "evt" THEN charon.subs \cup {r[2]} ELSE charon.subs
  OBVIOUS
<1>3. Taken(r, c) = [charon EXCEPT !.loaded = l, !.subs = b]
  BY <1>1, <1>2 DEF Taken
<1> QED
  BY <1>2, <1>3 DEF Charons

LEMMA TakesCommandView ==
  ASSUME Base, ViewInv, NEW c \in Conns, TakesCommand(c)
  PROVE  ViewInv'
<1>1. /\ ByClient /\ conn[c].request \notin {NoCommand, Initiate}
      /\ UNCHANGED <<sup, at, todo, view, trusted>>
  BY ByClientPlace DEF TakesCommand
<1>2. Ordered' /\ Fresh'
  BY <1>1 DEF ViewInv, Ordered, Fresh
<1> SUFFICES ASSUME at \in Talking, ~conn'["evt"].broken
             PROVE  Subscribed' /\ \E p \in Opinions :
                      Reaches(Opinion(view, trusted), conn'["evt"], p) /\ Right(p)'
  BY <1>1, <1>2 DEF ViewInv, Tracked
<1>3. PICK r : r = conn[c].request
  OBVIOUS
<1>4. /\ todo # <<>> /\ c = InUse /\ r = Head(todo) /\ r \in Commands
      /\ conn[c].open /\ ~conn[c].broken /\ conn[c] \in Clients
  BY <1>1, <1>3, RequestIsCommand
<1>5. at \in {"setup", "subscribe"}
  <2>1. at # "initiate"
    BY <1>1, <1>3, <1>4, InitiateInUse
  <2> QED
    BY <1>4, <2>1, UnderWay DEF Talking
<1>6. charon \in Charons /\ conn \in [Conns -> Clients] /\ conn["evt"].open /\ conn["cmd"].open
  BY TalkingOpen
<1>7. PICK taken : taken = [conn EXCEPT ![c] = Take(@)]
  OBVIOUS
<1>8. /\ taken \in [Conns -> Clients]
      /\ \A k \in Conns : /\ taken[k].wire = conn[k].wire /\ taken[k].pending = conn[k].pending
                          /\ taken[k].open = conn[k].open /\ taken[k].broken = conn[k].broken
  <2>1. /\ Take(conn[c]) \in Clients
        /\ Take(conn[c]).wire = conn[c].wire /\ Take(conn[c]).pending = conn[c].pending
        /\ Take(conn[c]).open = conn[c].open /\ Take(conn[c]).broken = conn[c].broken
    BY <1>4, ClientSet DEF Take
  <2> QED
    BY <1>6, <1>7, <2>1
<1>9. /\ taken["evt"].open /\ taken["evt"].broken = conn["evt"].broken
      /\ HasOk(taken["evt"].wire) <=> HasOk(conn["evt"].wire)
      /\ taken["cmd"].wire = conn["cmd"].wire
      /\ \A o, p : Reaches(o, conn["evt"], p) => Reaches(o, taken["evt"], p)
      /\ taken[c].open /\ ~taken[c].broken
  BY <1>4, <1>6, <1>8 DEF Conns, Reaches
<1>10. PICK yes \in BOOLEAN : yes = TRUE
  OBVIOUS
<1>11. PICK no \in BOOLEAN : no = FALSE
  OBVIOUS
<1>12. Established' <=> Established
  BY <1>1, <1>5 DEF Established
<1>13. "evt" \in Conns /\ "cmd" \in Conns /\ (c = "evt" \/ c = "cmd")
  BY DEF Conns
<1>14. CASE /\ r[1] \in {"version", "stats", "register", "load"}
            /\ conn' = Respond(taken, c, Answer(r, no, no)) /\ charon' = charon
  <2>1. /\ \A k \in Conns : k # c => conn'[k] = taken[k]
        /\ HasOk(conn'[c].wire) <=> HasOk(taken[c].wire)
        /\ conn'[c].broken = taken[c].broken
        /\ \A p, o : Reaches(o, taken[c], p) => Reaches(o, conn'[c], p)
    <3>1. PICK a : a = Answer(r, no, no)
      OBVIOUS
    <3>2. a \in Packets /\ ~IsEvent(a) /\ ~a.ok
      BY <1>4, <1>11, <3>1, AnswerIs
    <3>3. taken \in [Conns -> Clients] /\ taken[c].open /\ ~taken[c].broken
          /\ conn' = Respond(taken, c, a)
      BY <1>8, <1>9, <1>14, <3>1
    <3>4. PICK ds : ds = conn'
      OBVIOUS
    <3>5. AnswerAdded(taken, c, a, ds)
      BY <3>2, <3>3, <3>4, AnswerWords
    <3> QED
      BY <3>2, <3>4, <3>5 DEF AnswerAdded
  <2>2. /\ HasOk(conn'["evt"].wire) <=> HasOk(conn["evt"].wire)
        /\ conn'["evt"].broken = conn["evt"].broken
    BY <1>9, <1>13, <2>1
  <2>3. Subscribed /\ \E p \in Opinions : Reaches(Opinion(view, trusted), conn["evt"], p) /\ Right(p)
    BY <2>2 DEF ViewInv, Tracked
  <2>4. PICK p \in Opinions : Reaches(Opinion(view, trusted), conn["evt"], p) /\ Right(p)
    BY <2>3
  <2>5. Reaches(Opinion(view, trusted), conn'["evt"], p)
    BY <1>9, <1>13, <2>1, <2>4
  <2>6. Subscribed'
    BY <1>1, <1>14, <2>2, <2>3 DEF Subscribed, Awaits
  <2>7. Terminated' => Terminated
    <3>1. Terminate[1] = "terminate"
      BY DEF Terminate
    <3>2. Head(todo) # Terminate
      BY <1>4, <1>14, <3>1
    <3> QED
      BY <1>1, <3>2 DEF Terminated
  <2>8. Right(p)'
    BY <1>12, <1>14, <2>4, <2>7 DEF Right
  <2> QED
    BY <2>5, <2>6, <2>8
<1>15. CASE /\ r # Terminate /\ charon' = Taken(r, c)
            /\ conn' = Respond(taken, c, Answer(r, yes, no))
  <2>1. /\ \A k \in Conns : k # c => conn'[k] = taken[k]
        /\ conn'[c].broken = taken[c].broken
        /\ \A p, o : Reaches(o, taken[c], p) => Reaches(o, conn'[c], p)
    <3>1. PICK a : a = Answer(r, yes, no)
      OBVIOUS
    <3>2. a \in Packets /\ ~IsEvent(a)
      BY <1>4, <3>1, AnswerIs
    <3>3. taken \in [Conns -> Clients] /\ taken[c].open /\ ~taken[c].broken
          /\ conn' = Respond(taken, c, a)
      BY <1>8, <1>9, <1>15, <3>1
    <3>4. PICK ds : ds = conn'
      OBVIOUS
    <3>5. AnswerAdded(taken, c, a, ds)
      BY <3>2, <3>3, <3>4, AnswerWords
    <3> QED
      BY <3>4, <3>5 DEF AnswerAdded
  <2>2. conn'["evt"].broken = conn["evt"].broken
    BY <1>9, <1>13, <2>1
  <2>3. Subscribed /\ \E p \in Opinions : Reaches(Opinion(view, trusted), conn["evt"], p) /\ Right(p)
    BY <2>2 DEF ViewInv, Tracked
  <2>4. PICK p \in Opinions : Reaches(Opinion(view, trusted), conn["evt"], p) /\ Right(p)
    BY <2>3
  <2>5. Reaches(Opinion(view, trusted), conn'["evt"], p)
    BY <1>9, <1>13, <2>1, <2>4
  <2>6. r[1] \notin {"unload", "unregister"}
    BY <1>4, <1>5, CommandPlaces
  <2>7. /\ charon'.kids = charon.kids /\ charon'.sa = charon.sa
        /\ charon'.subs =
             IF r[1] = "register" /\ c = "evt" THEN charon.subs \cup {r[2]} ELSE charon.subs
    BY <1>4, <1>6, <1>15, <2>6, TakenSas
  <2>8. Subscribed'
    <3> SUFFICES ASSUME NEW e \in {"ike", "child"}, e \notin charon'.subs PROVE Awaits(e)'
      BY DEF Subscribed
    <3>1. e \notin charon.subs
      BY <2>7
    <3>2. Awaits(e)
      BY <2>3, <3>1 DEF Subscribed
    <3>3. Head(todo) # Register(e)
      <4> SUFFICES ASSUME r = Register(e) PROVE FALSE
        BY <1>4
      <4>1. r[1] = "register" /\ r[2] = e
        BY DEF Register
      <4>2. On(conn, r) = "evt"
        BY <4>1 DEF On
      <4> QED
        BY <1>4, <2>7, <4>1, <4>2 DEF InUse
    <3> QED
      BY <1>1, <3>2, <3>3 DEF Awaits
  <2>9. Terminated' => Terminated
    BY <1>1, <1>4, <1>15 DEF Terminated
  <2>10. Sound(p, charon') /\ (Complete(p, charon) => Complete(p, charon'))
    BY <2>4, <2>7 DEF Right, Sound, Complete
  <2>11. Right(p)'
    BY <1>12, <2>4, <2>9, <2>10 DEF Right
  <2> QED
    BY <2>5, <2>8, <2>11
<1>16. CASE /\ r = Terminate /\ charon' = WithoutSa(charon)
            /\ \E cs \in EmitEnding(taken) :
                 conn' = Respond(cs, c, Answer(r, TRUE, charon.sa # "none"))
  <2>1. PICK m \in BOOLEAN : m = (charon.sa # "none")
    OBVIOUS
  <2>2. PICK cs \in EmitEnding(taken) : conn' = Respond(cs, c, Answer(r, yes, m))
    BY <1>10, <1>16, <2>1
  <2>3. at = "setup" /\ c = "cmd"
    <3>1. at = "setup"
      BY <1>4, <1>5, <1>16, CommandPlaces
    <3>2. On(conn, r) = "cmd"
      <4>1. r[1] = "terminate"
        BY <1>16 DEF Terminate
      <4> QED
        BY <1>6, <4>1 DEF On, Control, Register
    <3> QED
      BY <1>4, <3>1, <3>2 DEF InUse
  <2>4. EvtGets(taken, cs)
    BY <1>6, <1>8, EndingGets
  <2>5. cs \in [Conns -> Clients] /\ cs["cmd"] = taken["cmd"] /\ cs["evt"].broken = taken["evt"].broken
    BY <2>4 DEF EvtGets
  <2>6. conn'["evt"] = cs["evt"]
    BY <1>13, <2>2, <2>3, <2>5 DEF Respond
  <2>7. ~conn["evt"].broken
    BY <1>9, <2>5, <2>6
  <2>8. Subscribed /\ \E p \in Opinions : Reaches(Opinion(view, trusted), conn["evt"], p) /\ Right(p)
    BY <2>7 DEF ViewInv, Tracked
  <2>9. PICK p \in Opinions : Reaches(Opinion(view, trusted), conn["evt"], p) /\ Right(p)
    BY <2>8
  <2>10. PICK q \in Opinions : /\ Hears(taken, p, cs, q)
                               /\ Sound(q, WithoutSa(charon)) /\ Complete(q, WithoutSa(charon))
    BY <1>6, <1>8, <1>9, <2>7, <2>9, EndingHears DEF Right
  <2>11. Reaches(Opinion(view, trusted), conn'["evt"], q)
    BY <1>9, <2>6, <2>9, <2>10 DEF Hears
  <2>12. Subscribed'
    <3>1. charon'.subs = charon.subs
      BY <1>6, <1>16, WithoutSaType
    <3>2. HasOk(conn'["evt"].wire) <=> HasOk(conn["evt"].wire)
      BY <1>9, <2>6, <2>10 DEF Hears
    <3> QED
      BY <1>1, <2>8, <3>1, <3>2 DEF Subscribed, Awaits
  <2>13. Right(q)'
    <3>1. ~Established'
      BY <1>1, <2>3 DEF Established
    <3> QED
      BY <1>16, <2>10, <3>1 DEF Right
  <2> QED
    BY <2>11, <2>12, <2>13
<1> QED
  BY <1>3, <1>7, <1>10, <1>11, <1>14, <1>15, <1>16 DEF TakesCommand, Taken

-----------------------------------------------------------------------------
(* The client's steps.                                                     *)

LEMMA ViewElsewhere ==
  ASSUME at' \in Closing \/ (at' = "none" /\ (view' = NewView \/ sup' = "killed"))
  PROVE  ViewInv'
  BY DEF ViewInv, Ordered, Fresh, Tracked, Talking, Closing

LEMMA ReadEventView ==
  ASSUME Base, ViewInv, ReadEvent
  PROVE  ViewInv'
<1> DEFINE c == conn[InUse]
           d == IF Head(todo) \in {Terminate, Initiate} THEN RelayEvent(c) ELSE KeepEvent(c)
<1>1. /\ todo # <<>> /\ HasPacket(c) /\ IsEvent(Head(c.wire))
      /\ conn' = [conn EXCEPT ![InUse] = d] /\ charon' = charon /\ ByClient
  BY DEF ReadEvent, ByClient, worldVars
<1>2. c \in Clients /\ InUse \in Conns /\ conn \in [Conns -> Clients] /\ c.wire # <<>>
  BY <1>1, UnderWay, Types DEF Base, HasPacket
<1>3. d \in {KeepEvent(c), RelayEvent(c)}
  OBVIOUS
<1>4. Head(todo) \notin {Terminate, Initiate} => d = KeepEvent(c)
  OBVIOUS
<1> HIDE DEF d
<1>5. c.wire \in Seq(Packets) /\ d.wire = Tail(c.wire) /\ d.broken = c.broken
  BY <1>2, <1>3, ClientSet DEF KeepEvent, RelayEvent
<1>6. /\ AllEvents(d.wire) <=> AllEvents(c.wire)
      /\ HasOk(d.wire) <=> HasOk(c.wire)
  <2>1. PICK w \in Seq(Packets) : w = c.wire
    BY <1>5
  <2>2. w # <<>> /\ IsEvent(Head(w)) /\ d.wire = Tail(w)
    BY <1>1, <1>2, <1>5, <2>1
  <2>3. (AllEvents(Tail(w)) <=> AllEvents(w)) /\ (HasOk(Tail(w)) <=> HasOk(w))
    BY <2>2, EventRead, HasOkRead
  <2> QED
    BY <2>1, <2>2, <2>3
<1>7. conn'[InUse] = d /\ \A k \in Conns : k # InUse => conn'[k] = conn[k]
  BY <1>1, <1>2
<1>8. \A k \in Conns : /\ conn'[k].broken = conn[k].broken
                       /\ AllEvents(conn'[k].wire) <=> AllEvents(conn[k].wire)
                       /\ HasOk(conn'[k].wire) <=> HasOk(conn[k].wire)
  BY <1>5, <1>6, <1>7
<1>9. "evt" \in Conns /\ "cmd" \in Conns
  BY DEF Conns
<1>10. Established' <=> Established
  BY <1>1, <1>8, <1>9, ByClientPlace DEF Established
<1>11. ASSUME NEW p \in Opinions, at \in Talking, Right(p)
       PROVE  Follows(p)
  <2>1. \A o : Reaches(o, conn["evt"], p) => Reaches(o, conn'["evt"], p)
    <3>1. CASE InUse = "evt"
      <4>1. Head(todo) \notin {Terminate, Initiate}
        BY <1>11, <3>1, TalkingUses, TalkingOpen DEF InUse
      <4>2. conn'["evt"] = KeepEvent(conn["evt"])
        BY <1>4, <1>7, <3>1, <4>1
      <4> QED
        BY <1>2, <3>1, <4>2, ReachesKept
    <3>2. CASE InUse # "evt"
      BY <1>7, <1>9, <3>2
    <3> QED
      BY <3>1, <3>2
  <2> QED
    BY <1>1, <1>8, <1>9, <1>10, <1>11, <2>1 DEF Follows, Right
<1> QED
  BY <1>1, <1>8, <1>9, <1>11, CharonTracks

\* What the client is told, it knows.
LEMMA OpinionTold ==
  ASSUME view \in Views, trusted \subseteq Kids, NEW e \in Events
  PROVE  Opinion(HandleEvent(view, e), IF e.name = "child" THEN trusted \ {e.child} ELSE trusted)
           = Told(Opinion(view, trusted), e)
<1>1. PICK o : o = Opinion(view, trusted)
  OBVIOUS
<1>2. o \in Opinions /\ o.ikeUp = view.ikeUp /\ o.ikeDown = view.ikeDown
      /\ o.known = view.up \ trusted
  BY <1>1 DEF Opinion, Opinions, Views
<1>3. \/ \E u \in BOOLEAN : e = IkeEvent(u)
      \/ \E i \in Kids, u \in BOOLEAN : e = ChildEvent(i, u)
  BY DEF Events
<1>4. CASE \E u \in BOOLEAN : e = IkeEvent(u)
  <2>1. PICK u \in BOOLEAN : e = IkeEvent(u)
    BY <1>4
  <2>2. e.kind = "event" /\ e.name = "ike" /\ e.up = u
    BY <2>1 DEF IkeEvent
  <2>3. PICK v : v = HandleEvent(view, e)
    OBVIOUS
  <2>4. v = OnIkeUpdown(view, u)
    BY <2>2, <2>3 DEF HandleEvent
  <2>5. CASE u
    <3>1. /\ v.ikeUp = TRUE /\ v.ikeDown = FALSE /\ v.up = view.up
      BY <2>4, <2>5 DEF OnIkeUpdown, Views
    <3>2. Told(o, e) = [o EXCEPT !.ikeUp = TRUE, !.ikeDown = FALSE]
      BY <2>2, <2>5 DEF Told, IsEvent
    <3>3. [o EXCEPT !.ikeUp = TRUE, !.ikeDown = FALSE] =
            [ikeUp |-> TRUE, ikeDown |-> FALSE, known |-> o.known]
      <4>1. PICK yes \in BOOLEAN : yes = TRUE
        OBVIOUS
      <4>2. PICK no \in BOOLEAN : no = FALSE
        OBVIOUS
      <4>3. \A x, y \in Opinions :
              x.ikeUp = y.ikeUp /\ x.ikeDown = y.ikeDown /\ x.known = y.known => x = y
        BY DEF Opinions
      <4>4. PICK x : x = [o EXCEPT !.ikeUp = yes, !.ikeDown = no]
        OBVIOUS
      <4>5. PICK y : y = [ikeUp |-> yes, ikeDown |-> no, known |-> o.known]
        OBVIOUS
      <4>6. x \in Opinions /\ x.ikeUp = yes /\ x.ikeDown = no /\ x.known = o.known
        BY <1>2, <4>4 DEF Opinions
      <4>7. y \in Opinions /\ y.ikeUp = yes /\ y.ikeDown = no /\ y.known = o.known
        BY <1>2, <4>5 DEF Opinions
      <4>8. x = y
        BY <4>3, <4>6, <4>7
      <4> QED
        BY <4>1, <4>2, <4>4, <4>5, <4>8
    <3> QED
      BY <1>1, <1>2, <2>2, <2>3, <3>1, <3>2, <3>3 DEF Opinion
  <2>6. CASE ~u /\ ~view.ikeUp
    <3>1. v = view /\ Told(o, e) = o
      BY <1>2, <2>2, <2>4, <2>6 DEF OnIkeUpdown, Told, IsEvent
    <3> QED
      BY <1>1, <2>2, <2>3, <3>1
  <2>7. CASE ~u /\ view.ikeUp
    <3>1. /\ v.ikeUp = FALSE /\ v.ikeDown = TRUE /\ v.up = {}
      BY <2>4, <2>7 DEF OnIkeUpdown, Views
    <3>2. Told(o, e) = [ikeUp |-> FALSE, ikeDown |-> TRUE, known |-> {}]
      BY <1>2, <2>2, <2>7 DEF Told, IsEvent
    <3>3. Opinion(v, trusted) = [ikeUp |-> FALSE, ikeDown |-> TRUE, known |-> {}]
      BY <3>1 DEF Opinion
    <3> QED
      BY <1>1, <2>2, <2>3, <3>2, <3>3
  <2> QED
    BY <2>5, <2>6, <2>7
<1>5. CASE \E i \in Kids, u \in BOOLEAN : e = ChildEvent(i, u)
  <2>1. PICK i \in Kids, u \in BOOLEAN : e = ChildEvent(i, u)
    BY <1>5
  <2>2. e.kind = "event" /\ e.name = "child" /\ e.up = u /\ e.child = i
    BY <2>1 DEF ChildEvent
  <2>3. PICK v : v = HandleEvent(view, e)
    OBVIOUS
  <2>4. v = OnChildUpdown(view, i, u)
    BY <2>2, <2>3 DEF HandleEvent
  <2>5. PICK x : x = IF u THEN view.up \cup {i} ELSE view.up \ {i}
    OBVIOUS
  <2>6. /\ v.ikeUp = view.ikeUp /\ v.ikeDown = view.ikeDown /\ v.up = x
    BY <2>4, <2>5 DEF OnChildUpdown, Views
  <2>7. PICK y : y = IF u THEN o.known \cup {i} ELSE o.known \ {i}
    OBVIOUS
  <2>8. x \ (trusted \ {i}) = y
    BY <1>2, <2>5, <2>7
  <2>9. Told(o, e) = [o EXCEPT !.known = y]
    BY <2>2, <2>7 DEF Told, IsEvent
  <2>10. [o EXCEPT !.known = y] = [ikeUp |-> o.ikeUp, ikeDown |-> o.ikeDown, known |-> y]
    BY <1>2 DEF Opinions
  <2>11. Opinion(v, trusted \ {i}) = [ikeUp |-> view.ikeUp, ikeDown |-> view.ikeDown, known |-> y]
    BY <2>6, <2>8 DEF Opinion
  <2> QED
    BY <1>1, <1>2, <2>2, <2>3, <2>9, <2>10, <2>11
<1> QED
  BY <1>3, <1>4, <1>5

\* A step of run that leaves the opinion, and what the events make of it, alone.
SameOpinion ==
  \A p : Reaches(Opinion(view, trusted), conn["evt"], p)
           => Reaches(Opinion(view', trusted'), conn'["evt"], p)

LEMMA RunTracks ==
  ASSUME ViewInv, at \in Talking, charon' = charon, Ordered', Fresh', SameOpinion,
         ~conn'["evt"].broken => ~conn["evt"].broken,
         Subscribed => Subscribed', Terminated' => Terminated, Established' => Established
  PROVE  ViewInv'
<1>1. ASSUME ~conn'["evt"].broken
      PROVE  Subscribed' /\ \E p \in Opinions :
               Reaches(Opinion(view', trusted'), conn'["evt"], p) /\ Right(p)'
  <2>1. Subscribed /\ \E p \in Opinions : Reaches(Opinion(view, trusted), conn["evt"], p) /\ Right(p)
    BY <1>1 DEF ViewInv, Tracked
  <2>2. PICK p \in Opinions : Reaches(Opinion(view, trusted), conn["evt"], p) /\ Right(p)
    BY <2>1
  <2>3. Reaches(Opinion(view', trusted'), conn'["evt"], p) /\ Right(p)'
    BY <2>2 DEF SameOpinion, Right
  <2> QED
    BY <2>1, <2>3
<1>2. Tracked'
  BY <1>1 DEF Tracked
<1> QED
  BY <1>2 DEF ViewInv

\* After the set-up, evt is subscribed to what becomes of the SA for good.
LEMMA SubscribedOn ==
  ASSUME at # "setup", charon' = charon, Subscribed
  PROVE  Subscribed'
  BY DEF Subscribed, Awaits

LEMMA OnEventView ==
  ASSUME Base, ViewInv, OnEvent
  PROVE  ViewInv'
<1>1. PICK c : c = conn["evt"]
  OBVIOUS
<1>2. PICK e : e = NextEvent(c)
  OBVIOUS
<1>3. /\ Listening /\ HasEvent(c) /\ view' = HandleEvent(view, e)
      /\ trusted' = IF e.name = "child" THEN trusted \ {e.child} ELSE trusted
      /\ conn' = [conn EXCEPT !["evt"] = TakeEvent(c)]
      /\ UNCHANGED <<sup, at, todo, charon>>
  BY <1>1, <1>2 DEF OnEvent, supVars, worldVars
<1>4. at \in {"wait", "watch"} /\ at \in Talking /\ at # "setup"
  BY <1>3 DEF Listening, Talking
<1>5. /\ conn \in [Conns -> Clients] /\ c \in Clients /\ Quiet(c)
      /\ view \in Views /\ trusted \subseteq Kids
  BY <1>1, <1>4, WaitingSettled, Types DEF Base, Settled, Free, Conns
<1>6. e \in Events /\ TakeEvent(c).broken = c.broken
  BY <1>2, <1>3, <1>5, NextIsEvent
<1>7. conn'["evt"] = TakeEvent(c)
  BY <1>3, <1>5 DEF Conns
<1>8. Opinion(view', trusted') = Told(Opinion(view, trusted), e)
  BY <1>3, <1>5, <1>6, OpinionTold
<1>9. SameOpinion
  BY <1>1, <1>2, <1>3, <1>5, <1>7, <1>8, ReachesTaken DEF SameOpinion
<1>10. Ordered' /\ Fresh'
  <2>1. at = "wait" => trusted' = {}
    BY <1>3 DEF ViewInv, Fresh
  <2> QED
    BY <1>3, <1>4, <2>1 DEF Ordered, Fresh
<1>11. Terminated /\ Established
  BY <1>4 DEF Terminated, Established
<1> QED
  BY <1>1, <1>3, <1>4, <1>6, <1>7, <1>9, <1>10, <1>11, SubscribedOn, RunTracks

\* A command that is sent leaves the events where they are.
Carried(cs) ==
  \A k \in Conns : /\ conn'[k].wire = cs[k].wire /\ conn'[k].pending = cs[k].pending
                   /\ conn'[k].broken = cs[k].broken

LEMMA BeginCarries ==
  ASSUME NEW cs \in [Conns -> Clients], NEW phase, NEW commands, Begin(cs, phase, commands)
  PROVE  Carried(cs) /\ at' = phase /\ todo' = commands
<1> DEFINE c == Head(commands)
           k == On(cs, c)
<1>1. conn' = [cs EXCEPT ![k] = Send(cs[k], c)] /\ at' = phase /\ todo' = commands
  BY DEF Begin
<1>2. k \in Conns
  BY DEF On, Control, Conns
<1> HIDE DEF k, c
<1>3. cs[k] \in Clients
  BY <1>2
<1>4. /\ Send(cs[k], c).wire = cs[k].wire /\ Send(cs[k], c).broken = cs[k].broken
      /\ Send(cs[k], c).pending = cs[k].pending
  BY <1>3, ClientSet DEF Send
<1>5. conn'[k] = Send(cs[k], c) /\ \A j \in Conns : j # k => conn'[j] = cs[j]
  BY <1>1, <1>2
<1> QED
  BY <1>1, <1>4, <1>5 DEF Carried

LEMMA WaitEndsView ==
  ASSUME Base, ViewInv, WaitEnds
  PROVE  ViewInv'
<1>1. at = "wait" /\ charon' = charon /\ at \in Talking /\ at # "setup" /\ trusted = {}
  BY DEF WaitEnds, worldVars, Talking, ViewInv, Fresh
<1>2. conn \in [Conns -> Clients] /\ view \in Views
  BY Types DEF Base
<1>3. Terminated /\ Established
  BY <1>1 DEF Terminated, Established
<1>4. CASE Carried(conn) /\ at' \in {"initiate", "subscribe"}
           /\ (at' = "initiate" => trusted' = {}) /\ Opinion(view', trusted') = Opinion(view, trusted)
  <2>1. SameOpinion /\ conn'["evt"].broken = conn["evt"].broken
    BY <1>4 DEF Carried, SameOpinion, Conns, Reaches
  <2>2. Ordered' /\ Fresh'
    BY <1>4 DEF Ordered, Fresh
  <2> QED
    BY <1>1, <1>3, <2>1, <2>2, SubscribedOn, RunTracks
<1>5. CASE index < Children
  <2>1. StartInitiate(conn) /\ UNCHANGED <<view, trusted>>
    BY <1>5 DEF WaitEnds
  <2>2. CASE cancelled
    <3>1. at' = "close"
      BY <2>1, <2>2 DEF StartInitiate, Close, Begin
    <3> QED
      BY <3>1, ViewElsewhere DEF Closing
  <2>3. CASE ~cancelled
    <3>1. Begin(conn, "initiate", <<Initiate>>)
      BY <2>1, <2>3 DEF StartInitiate
    <3>2. Carried(conn) /\ at' = "initiate"
      BY <1>2, <3>1, BeginCarries
    <3> QED
      BY <1>1, <1>4, <2>1, <3>2
  <2> QED
    BY <2>2, <2>3
<1>6. CASE ~(index < Children)
  <2>1. /\ Begin(conn, "subscribe", <<Register("log")>>)
        /\ \/ UNCHANGED <<view, trusted>>
           \/ view' = [view EXCEPT !.up = Kids, !.tunnelUp = TRUE] /\ trusted' = Kids \ view.up
    BY <1>6 DEF WaitEnds
  <2>2. Carried(conn) /\ at' = "subscribe"
    BY <1>2, <2>1, BeginCarries
  <2>3. CASE UNCHANGED <<view, trusted>>
    BY <1>4, <2>2, <2>3
  <2>4. CASE view' = [view EXCEPT !.up = Kids, !.tunnelUp = TRUE] /\ trusted' = Kids \ view.up
    <3>1. view'.ikeUp = view.ikeUp /\ view'.ikeDown = view.ikeDown /\ view'.up = Kids
      BY <1>2, <2>4 DEF Views
    <3>2. view.up \subseteq Kids
      BY <1>2 DEF Views
    <3>3. view'.up \ trusted' = view.up \ trusted
      BY <1>1, <2>4, <3>1, <3>2
    <3>4. Opinion(view', trusted') = Opinion(view, trusted)
      BY <3>1, <3>3 DEF Opinion
    <3> QED
      BY <1>4, <2>2, <3>4
  <2> QED
    BY <2>1, <2>3, <2>4
<1> QED
  BY <1>5, <1>6

LEMMA OrderedTail ==
  ASSUME NEW s \in Seq(Commands), s # <<>>, NEW k \in 0 .. Len(s), Before(s, k),
         k > 0 => s[k] = Terminate
  PROVE  \E j \in 0 .. Len(Tail(s)) : Before(Tail(s), j) /\ (j > 0 => Tail(s)[j] = Terminate)
<1>1. /\ Len(s) \in Nat \ {0} /\ Len(Tail(s)) = Len(s) - 1
      /\ DOMAIN Tail(s) = 1..(Len(s) - 1) /\ DOMAIN s = 1..Len(s)
      /\ \A i \in DOMAIN Tail(s) : Tail(s)[i] = s[i + 1] /\ i + 1 \in DOMAIN s
  BY TailCommands
<1>2. PICK j : j = IF k = 0 THEN 0 ELSE k - 1
  OBVIOUS
<1>3. j \in 0 .. Len(Tail(s)) /\ (j > 0 => Tail(s)[j] = Terminate)
  BY <1>1, <1>2
<1>4. Before(Tail(s), j)
  <2> SUFFICES ASSUME NEW i \in DOMAIN Tail(s)
               PROVE  /\ Tail(s)[i] = Terminate => i = j
                      /\ Tail(s)[i][1] = "register" => i < j
    BY DEF Before
  <2>1. i \in Nat /\ i >= 1 /\ i + 1 \in DOMAIN s /\ Tail(s)[i] = s[i + 1]
    BY <1>1
  <2>2. /\ s[i + 1] = Terminate => i + 1 = k
        /\ s[i + 1][1] = "register" => i + 1 < k
    BY <2>1 DEF Before
  <2> QED
    BY <1>2, <2>1, <2>2
<1> QED
  BY <1>3, <1>4

\* The set-up goes on with its next command.
LEMMA SetupGoesOn ==
  ASSUME Base, ViewInv, at = "setup", at' = "setup", todo' = Tail(todo), todo # <<>>,
         Tail(todo) # <<>>, charon' = charon, UNCHANGED <<sup, view, trusted>>, SameOpinion,
         conn'["evt"].broken = conn["evt"].broken,
         AllEvents(conn'["cmd"].wire), AllEvents(conn'["evt"].wire),
         ~AllEvents(conn[InUse].wire), HasOk(conn[InUse].wire)
  PROVE  ViewInv'
<1>1. todo \in Seq(Commands) /\ conn["cmd"].open /\ at \in Talking
  BY TalkingOpen, Types DEF Base, Talking
<1>2. /\ DOMAIN Tail(todo) = 1..(Len(todo) - 1) /\ DOMAIN todo = 1..Len(todo)
      /\ Len(todo) \in Nat \ {0} /\ Head(todo) = todo[1]
      /\ Head(Tail(todo)) = todo[2] /\ 2 \in DOMAIN todo
      /\ \A i \in DOMAIN todo : i # 1 => i - 1 \in DOMAIN Tail(todo) /\ Tail(todo)[i - 1] = todo[i]
  BY <1>1, TailCommands
<1>3. Ordered'
  BY <1>1, OrderedTail DEF ViewInv, Ordered
<1>4. Fresh'
  BY DEF ViewInv, Fresh
<1>5. ~HasOk(conn'["cmd"].wire) /\ ~HasOk(conn'["evt"].wire)
  BY HasOkEvents
<1>6. ASSUME Terminated' PROVE Terminated
  <2>1. \A i \in DOMAIN Tail(todo) : Tail(todo)[i] # Terminate
    BY <1>6 DEF Terminated, Talking
  <2>2. CASE Head(todo) = Terminate
    <3>1. InUse = "cmd"
      BY <1>1, <2>2, TalkingUses DEF InUse
    <3> QED
      BY <2>2, <3>1 DEF Terminated
  <2>3. CASE Head(todo) # Terminate
    <3>1. \A i \in DOMAIN todo : todo[i] # Terminate
      BY <1>2, <2>1, <2>3
    <3> QED
      BY <3>1 DEF Terminated
  <2> QED
    BY <2>2, <2>3
<1>7. ~Established'
  BY DEF Established
<1>8. ASSUME Subscribed PROVE Subscribed'
  <2> SUFFICES ASSUME NEW e \in {"ike", "child"}, e \notin charon.subs PROVE Awaits(e)'
    BY DEF Subscribed
  <2>1. Awaits(e)
    BY <1>8 DEF Subscribed
  <2>2. Head(todo) = Register(e) => HasOk(conn["evt"].wire)
    BY <1>1, TalkingUses DEF InUse
  <2>3. PICK i \in DOMAIN todo : i # 1 /\ todo[i] = Register(e)
    BY <2>1, <2>2 DEF Awaits
  <2>4. i - 1 \in DOMAIN Tail(todo) /\ Tail(todo)[i - 1] = Register(e)
    BY <1>2, <2>3
  <2>5. CASE i = 2
    BY <1>2, <1>5, <2>3, <2>5 DEF Awaits
  <2>6. CASE i # 2
    <3>1. i - 1 # 1
      BY <1>2, <2>6
    <3> QED
      BY <2>4, <3>1 DEF Awaits
  <2> QED
    BY <2>5, <2>6
<1> QED
  BY <1>1, <1>3, <1>4, <1>6, <1>7, <1>8, RunTracks

\* The set-up is over.
LEMMA SetupIsOver ==
  ASSUME Base, ViewInv, at = "setup", at' = "initiate", todo # <<>>, Tail(todo) = <<>>,
         charon' = charon, UNCHANGED <<sup, view, trusted>>, SameOpinion,
         conn'["evt"].broken = conn["evt"].broken, AllEvents(conn'["cmd"].wire)
  PROVE  ViewInv'
<1>1. todo \in Seq(Commands) /\ at \in Talking
  BY Types DEF Base, Talking
<1>2. Len(todo) = 1 /\ DOMAIN todo = 1 .. Len(todo)
  BY <1>1, LastCommand
<1>3. todo[1] = Load("conn") /\ Load("conn") # Terminate
  BY <1>2, LoadUses DEF Base, PlaceInv
<1>4. \A i \in DOMAIN todo : todo[i] # Terminate
  BY <1>2, <1>3
<1>5. Terminated
  BY <1>4 DEF Terminated
<1>6. ~Established'
  BY HasOkEvents DEF Established
<1>7. Ordered' /\ Fresh'
  BY DEF ViewInv, Ordered, Fresh
<1>8. Subscribed => Subscribed'
  BY <1>5, TerminatedSubscribed DEF ViewInv, Subscribed
<1> QED
  BY <1>1, <1>5, <1>6, <1>7, <1>8, RunTracks

\* What becomes of the events when an answer is read and the next command sent.
LEMMA AnswerCarries ==
  ASSUME Base, todo # <<>>, at \in Talking, HasPacket(conn[InUse]),
         ~IsEvent(Head(conn[InUse].wire)), UNCHANGED <<view, trusted>>,
         NEW cs, cs = [conn EXCEPT ![InUse] = TakeAnswer(@)], Carried(cs)
  PROVE  SameOpinion /\ conn'["evt"].broken = conn["evt"].broken
<1>1. /\ InUse \in Conns /\ conn[InUse] \in Clients /\ conn \in [Conns -> Clients]
      /\ "evt" \in Conns /\ conn[InUse].wire # <<>>
  BY UnderWay, Types DEF Base, Conns, HasPacket
<1>2. cs[InUse] = TakeAnswer(conn[InUse]) /\ \A k \in Conns : k # InUse => cs[k] = conn[k]
  BY <1>1
<1>3. TakeAnswer(conn[InUse]).broken = conn[InUse].broken
  BY <1>1, ClientSet DEF TakeAnswer
<1>4. cs["evt"].broken = conn["evt"].broken
  BY <1>1, <1>2, <1>3
<1>5. ASSUME NEW o, NEW p, Reaches(o, conn["evt"], p) PROVE Reaches(o, cs["evt"], p)
  <2>1. CASE InUse = "evt"
    BY <1>1, <1>2, <1>5, <2>1, ReachesAnswered
  <2>2. CASE InUse # "evt"
    BY <1>1, <1>2, <1>5, <2>2
  <2> QED
    BY <2>1, <2>2
<1>6. ASSUME NEW o, NEW p, Reaches(o, cs["evt"], p) PROVE Reaches(o, conn'["evt"], p)
  BY <1>1, <1>6 DEF Carried, Reaches
<1>7. SameOpinion
  BY <1>5, <1>6 DEF SameOpinion
<1> QED
  BY <1>1, <1>4, <1>7 DEF Carried

\* Once teardown has begun, no opinion counts any more.
LEMMA CloseEndsElsewhere ==
  ASSUME NEW cs, NEW ok, NEW matches, CloseEnds(cs, ok, matches)
  PROVE  at' \in Closing \/ (at' = "none" /\ view' = NewView)
  BY DEF CloseEnds, StartUnload, Return, Begin, Closing

LEMMA ReadAnswerView ==
  ASSUME Base, ViewInv, ReadAnswer
  PROVE  ViewInv'
<1>1. PICK cs : cs = [conn EXCEPT ![InUse] = TakeAnswer(@)]
  OBVIOUS
<1>2. PICK packet : packet = Head(conn[InUse].wire)
  OBVIOUS
<1>3. /\ todo # <<>> /\ HasPacket(conn[InUse]) /\ ~IsEvent(packet)
      /\ Ended(cs, packet.ok, packet.matches) /\ charon' = charon /\ trusted' = trusted
  BY <1>1, <1>2 DEF ReadAnswer, worldVars
<1>4. conn[InUse] \in Clients /\ Head(todo) \in Commands /\ Busy(conn[InUse], Head(todo))
  BY <1>3, UnderWay
<1>5. /\ Quiet(TakeAnswer(conn[InUse])) /\ TakeAnswer(conn[InUse]) \in Clients
      /\ TakeAnswer(conn[InUse]).open = conn[InUse].open
      /\ TakeAnswer(conn[InUse]).broken = conn[InUse].broken
      /\ ~AllEvents(conn[InUse].wire)
  BY <1>2, <1>3, <1>4, AnswerFrees
<1>6. Free(cs)
  <2>1. PICK d : d = TakeAnswer(conn[InUse])
    OBVIOUS
  <2>2. cs = [conn EXCEPT ![InUse] = d]
    BY <1>1, <2>1
  <2> QED
    BY <1>3, <1>5, <2>1, <2>2, Freed DEF Settled
<1>7. packet.ok => HasOk(conn[InUse].wire)
  <2>1. conn[InUse].wire \in Seq(Packets) /\ conn[InUse].wire # <<>>
    BY <1>3, <1>4, ClientSet DEF HasPacket
  <2> QED
    BY <1>2, <1>3, <2>1, HasOkRead
<1>8. cs \in [Conns -> Clients]
  BY <1>6 DEF Free
<1>9. ASSUME Carried(cs), at \in Talking, view' = view
      PROVE  /\ SameOpinion /\ conn'["evt"].broken = conn["evt"].broken
             /\ AllEvents(conn'["cmd"].wire) /\ AllEvents(conn'["evt"].wire)
  <2>1. SameOpinion /\ conn'["evt"].broken = conn["evt"].broken
    BY <1>1, <1>2, <1>3, <1>9, AnswerCarries
  <2> QED
    BY <1>6, <1>9, <2>1 DEF Free, Quiet, Carried, Conns
<1>10. CASE SetupEnds(cs, packet.ok)
  <2>1. at = "setup" /\ at \in Talking /\ view' = view /\ sup' = sup
    BY <1>10 DEF SetupEnds, supVars, Talking
  <2>2. CASE at' = "close"
    BY <2>2, ViewElsewhere DEF Closing
  <2>3. CASE at' # "close"
    <3>1. packet.ok
      BY <1>10, <2>3 DEF SetupEnds, Close, Begin
    <3>2. CASE Tail(todo) = <<>>
      <4>1. Begin(cs, "initiate", <<Initiate>>)
        BY <1>10, <2>3, <3>1, <3>2 DEF SetupEnds, StartInitiate, Close, Begin
      <4>2. Carried(cs) /\ at' = "initiate"
        BY <1>8, <4>1, BeginCarries
      <4> QED
        BY <1>3, <1>9, <2>1, <3>2, <4>2, SetupIsOver
    <3>3. CASE Tail(todo) # <<>>
      <4>1. Begin(cs, "setup", Tail(todo))
        BY <1>10, <2>3, <3>1, <3>3 DEF SetupEnds, Close, Begin
      <4>2. Carried(cs) /\ at' = "setup" /\ todo' = Tail(todo)
        BY <1>8, <4>1, BeginCarries
      <4> QED
        BY <1>3, <1>5, <1>7, <1>9, <2>1, <3>1, <3>3, <4>2, SetupGoesOn
    <3> QED
      BY <3>2, <3>3
  <2> QED
    BY <2>2, <2>3
<1>11. CASE InitiateEnds(cs, packet.ok)
  <2>1. at = "initiate" /\ at \in Talking /\ at # "setup" /\ view' = view
    BY <1>11 DEF InitiateEnds, Talking
  <2>2. CASE ~packet.ok
    <3>1. at' = "close"
      BY <1>11, <2>2 DEF InitiateEnds, Close, Begin
    <3> QED
      BY <3>1, ViewElsewhere DEF Closing
  <2>3. CASE packet.ok
    <3>1. at' = "wait" /\ conn' = cs
      BY <1>11, <2>3 DEF InitiateEnds
    <3>2. Carried(cs)
      BY <3>1 DEF Carried
    <3>3. Terminated /\ Established
      BY <1>7, <2>1, <2>3, InitiateInUse DEF Terminated, Established
    <3>4. Ordered' /\ Fresh'
      BY <1>3, <2>1, <3>1 DEF ViewInv, Ordered, Fresh
    <3> QED
      BY <1>3, <1>9, <2>1, <3>2, <3>3, <3>4, SubscribedOn, RunTracks
  <2> QED
    BY <2>2, <2>3
<1>12. CASE SubscribeEnds(cs)
  <2>1. at = "subscribe" /\ at \in Talking /\ at # "setup" /\ view' = view /\ at' = "watch"
        /\ conn' = cs
    BY <1>12 DEF SubscribeEnds, Talking
  <2>2. Carried(cs)
    BY <2>1 DEF Carried
  <2>3. Terminated /\ Established
    BY <2>1 DEF Terminated, Established
  <2>4. Ordered' /\ Fresh'
    BY <2>1 DEF Ordered, Fresh
  <2> QED
    BY <1>3, <1>9, <2>1, <2>2, <2>3, <2>4, SubscribedOn, RunTracks
<1>13. CASE CloseEnds(cs, packet.ok, packet.matches)
  BY <1>13, CloseEndsElsewhere, ViewElsewhere
<1> QED
  BY <1>3, <1>10, <1>11, <1>12, <1>13 DEF Ended

LEMMA CommandFailsView ==
  ASSUME Base, ViewInv, CommandFails
  PROVE  ViewInv'
<1>1. PICK no \in BOOLEAN : no = FALSE
  OBVIOUS
<1>2. PICK d \in AfterFailure(conn[InUse]) :
        /\ todo # <<>> /\ Fails(conn[InUse]) /\ Ended([conn EXCEPT ![InUse] = d], no, no)
  BY <1>1 DEF CommandFails
<1>3. PICK cs : cs = [conn EXCEPT ![InUse] = d]
  OBVIOUS
<1>4. CASE SetupEnds(cs, no) \/ InitiateEnds(cs, no)
  <2>1. at' = "close"
    BY <1>1, <1>4 DEF SetupEnds, InitiateEnds, Close, Begin
  <2> QED
    BY <2>1, ViewElsewhere DEF Closing
<1>5. CASE SubscribeEnds(cs)
  <2>1. at = "subscribe" /\ at' = "watch" /\ conn' = cs /\ at \in Talking
    BY <1>5 DEF SubscribeEnds, Talking
  <2>2. conn[InUse] \in Clients /\ Head(todo) \in Commands /\ Busy(conn[InUse], Head(todo))
    BY <1>2, UnderWay
  <2>3. d.broken
    BY <1>2, <2>2, FailureFrees
  <2>4. InUse = "evt"
    <3>1. Head(todo) = Register("log")
      <4>1. Register("log") \in Commands
        BY DEF Commands
      <4>2. Head(<<Register("log")>>) = Register("log")
        BY <4>1, ShortLists
      <4> QED
        BY <2>1, <4>2 DEF Base, PlaceInv
    <3> QED
      BY <2>1, <3>1, TalkingOpen, TalkingUses DEF InUse
  <2>5. conn'["evt"].broken
    <3>1. conn \in [Conns -> Clients]
      BY Types DEF Base
    <3> QED
      BY <1>3, <2>1, <2>3, <2>4, <3>1 DEF Conns
  <2> QED
    BY <2>1, <2>5 DEF ViewInv, Ordered, Fresh, Tracked
<1>6. CASE CloseEnds(cs, no, no)
  BY <1>6, CloseEndsElsewhere, ViewElsewhere
<1> QED
  BY <1>2, <1>3, <1>4, <1>5, <1>6 DEF Ended

\* The list of the set-up, where it matters.
SetupShape(s) ==
  /\ s \in Seq(Commands) /\ Len(s) >= 6
  /\ s[1] = Version /\ s[2] = Stats /\ s[3] = Register("control-log")
  /\ s[4] = Register("ike") /\ s[5] = Register("child") /\ s[6] = Terminate
  /\ \A i \in DOMAIN s : i > 6 => s[i][1] = "load"

LEMMA ShapeKept ==
  ASSUME NEW s, SetupShape(s), NEW x \in Loads, NEW wanted \in BOOLEAN
  PROVE  SetupShape(s \o (IF wanted THEN <<Load(x)>> ELSE <<>>))
<1>1. PICK u : u = Load(x)
  OBVIOUS
<1>2. u \in Commands /\ u[1] = "load"
  BY <1>1 DEF Commands, Load
<1>3. s \in Seq(Commands)
  BY DEF SetupShape
<1>4. CASE ~wanted
  <2>1. s \o <<>> = s
    BY <1>3
  <2> QED
    BY <1>4, <2>1
<1>5. CASE wanted
  <2>1. PICK t : t = s \o <<u>>
    OBVIOUS
  <2>2. /\ t \in Seq(Commands) /\ Len(t) = Len(s) + 1 /\ DOMAIN t = 1 .. Len(s) + 1
        /\ DOMAIN s = 1 .. Len(s) /\ Len(s) \in Nat
        /\ \A i \in 1 .. Len(s) : t[i] = s[i]
        /\ t[Len(s) + 1] = u
    BY <1>2, <1>3, <2>1
  <2>3. Len(t) >= 6 /\ \A i \in 1 .. 6 : t[i] = s[i]
    BY <2>2 DEF SetupShape
  <2>4. \A i \in DOMAIN t : i > 6 => t[i][1] = "load"
    BY <1>2, <2>2 DEF SetupShape
  <2>5. SetupShape(t)
    BY <2>2, <2>3, <2>4 DEF SetupShape
  <2> QED
    BY <1>1, <1>5, <2>1, <2>5
<1> QED
  BY <1>4, <1>5

LEMMA SetupHasShape == SetupShape(SetupCommands)
<1> DEFINE s0 == <<Version, Stats, Register("control-log"), Register("ike"), Register("child"),
                   Terminate>>
           s1 == s0 \o (IF "psk" \in needs THEN <<Load("psk")>> ELSE <<>>)
           s2 == s1 \o (IF "eap" \in needs THEN <<Load("eap")>> ELSE <<>>)
           s3 == s2 \o (IF "key" \in needs THEN <<Load("key")>> ELSE <<>>)
           s4 == s3 \o <<Load("conn")>>
<1>1. "conn" \in Loads /\ "psk" \in Loads /\ "eap" \in Loads /\ "key" \in Loads
  BY DEF Loads, Secrets
<1>2. SetupShape(s0)
  <2>1. PICK a \in Commands, b \in Commands, c \in Commands, d \in Commands, e \in Commands,
             f \in Commands :
          /\ a = Version /\ b = Stats /\ c = Register("control-log") /\ d = Register("ike")
          /\ e = Register("child") /\ f = Terminate
    BY DEF Commands
  <2>2. PICK s : s = <<a, b, c, d, e, f>>
    OBVIOUS
  <2>3. /\ s \in Seq(Commands) /\ Len(s) = 6 /\ DOMAIN s = 1 .. 6
        /\ s[1] = a /\ s[2] = b /\ s[3] = c /\ s[4] = d /\ s[5] = e /\ s[6] = f
    BY <2>2
  <2>4. SetupShape(s)
    BY <2>1, <2>3 DEF SetupShape
  <2> QED
    BY <2>1, <2>2, <2>4
<1> HIDE DEF s0
<1>3. SetupShape(s1)
  BY <1>1, <1>2, ShapeKept
<1> HIDE DEF s1
<1>4. SetupShape(s2)
  BY <1>1, <1>3, ShapeKept
<1> HIDE DEF s2
<1>5. SetupShape(s3)
  BY <1>1, <1>4, ShapeKept
<1> HIDE DEF s3
<1>6. SetupShape(s4)
  <2>1. PICK yes \in BOOLEAN : yes = TRUE
    OBVIOUS
  <2>2. s4 = s3 \o (IF yes THEN <<Load("conn")>> ELSE <<>>)
    BY <2>1
  <2> HIDE DEF s4
  <2> QED
    BY <1>1, <1>5, <2>2, ShapeKept
<1>7. SetupCommands = s4
  BY DEF SetupCommands, s0, s1, s2, s3
<1> QED
  BY <1>6, <1>7

LEMMA ConnectView ==
  ASSUME Base, ViewInv, NEW ok \in BOOLEAN, Connect(ok)
  PROVE  ViewInv'
<1>1. at = "connect" /\ charon' = [charon EXCEPT !.subs = {}, !.heard = FALSE] /\ trusted' = trusted
  BY DEF Connect
<1>2. CASE ~ok
  <2>1. at' = "none" /\ view' = NewView
    BY <1>2 DEF Connect, Return
  <2> QED
    BY <2>1, ViewElsewhere
<1>3. CASE ok
  <2>1. PICK cs : cs = [c \in {"cmd", "evt"} |-> NewClient]
    OBVIOUS
  <2>2. Begin(cs, "setup", SetupCommands) /\ view' = view /\ sup' = sup
    BY <1>3, <2>1 DEF Connect, supVars
  <2>3. cs \in [Conns -> Clients] /\ cs["evt"] = NewClient
    BY <2>1, FreshClients DEF Conns
  <2>4. Carried(cs) /\ at' = "setup" /\ todo' = SetupCommands
    BY <2>2, <2>3, BeginCarries
  <2>5. view = NewView /\ trusted = {}
    <3>1. sup # "killed"
      BY <1>1 DEF Base, PlaceInv
    <3> QED
      BY <1>1, <3>1 DEF ViewInv, Fresh
  <2>6. charon'.subs = {} /\ charon'.kids = charon.kids /\ charon'.sa = charon.sa
    <3>1. charon \in Charons
      BY Types DEF Base
    <3>2. PICK no \in BOOLEAN : no = FALSE
      OBVIOUS
    <3>3. charon' = [charon EXCEPT !.subs = {}, !.heard = no]
      BY <1>1, <3>2
    <3> QED
      BY <3>1, <3>3 DEF Charons
  <2>7. /\ Len(todo') \in Nat /\ Len(todo') >= 6 /\ DOMAIN todo' = 1 .. Len(todo')
        /\ Head(todo') = Version /\ SetupShape(todo')
    BY <2>4, SetupHasShape, SetupList, TailCommands DEF SetupShape
  <2>8. /\ Version[1] = "version" /\ Stats[1] = "stats" /\ Terminate[1] = "terminate"
        /\ Register("control-log")[1] = "register" /\ Register("ike")[1] = "register"
        /\ Register("child")[1] = "register"
    BY DEF Version, Stats, Terminate, Register
  <2>9. Before(todo', 6)
    <3> SUFFICES ASSUME NEW i \in DOMAIN todo'
                 PROVE  /\ todo'[i] = Terminate => i = 6
                        /\ todo'[i][1] = "register" => i < 6
      BY DEF Before
    <3>1. CASE i > 6
      BY <2>7, <2>8, <3>1 DEF SetupShape
    <3>2. CASE i = 6
      BY <2>7, <2>8, <3>2 DEF SetupShape
    <3>3. CASE i < 6
      <4>1. i \in {1, 2, 3, 4, 5}
        BY <2>7, <3>3
      <4> QED
        BY <2>7, <2>8, <4>1 DEF SetupShape
    <3> QED
      BY <2>7, <3>1, <3>2, <3>3
  <2>10. Ordered'
    <3>1. 6 \in 0 .. Len(todo') /\ todo'[6] = Terminate
      BY <2>7 DEF SetupShape
    <3> QED
      BY <2>9, <3>1 DEF Ordered
  <2>11. Fresh'
    BY <1>1, <2>2, <2>4, <2>5 DEF Fresh
  <2>12. Subscribed'
    <3>1. 4 \in DOMAIN todo' /\ 5 \in DOMAIN todo'
      BY <2>7
    <3> QED
      BY <2>4, <2>7, <3>1 DEF Subscribed, Awaits, SetupShape
  <2>13. ~Terminated' /\ ~Established'
    <3>1. 6 \in DOMAIN todo' /\ todo'[6] = Terminate /\ Head(todo') # Terminate
      BY <2>7, <2>8 DEF SetupShape
    <3> QED
      BY <2>4, <3>1 DEF Terminated, Established, Talking
  <2>14. PICK p : p = Opinion(view', trusted')
    OBVIOUS
  <2>15. p \in Opinions /\ p.known = {} /\ ~p.ikeUp
    BY <1>1, <2>2, <2>5, <2>14 DEF Opinion, NewView, Opinions
  <2>16. Reaches(p, conn'["evt"], p)
    <3>1. conn'["evt"].wire = <<>> /\ conn'["evt"].pending = <<>>
      BY <2>3, <2>4 DEF Carried, Conns, NewClient
    <3> QED
      BY <3>1, CarriesNothing DEF Reaches
  <2>17. Right(p)'
    BY <2>6, <2>13, <2>15 DEF Right, Sound
  <2>18. Tracked'
    BY <2>12, <2>14, <2>15, <2>16, <2>17 DEF Tracked
  <2> QED
    BY <2>10, <2>11, <2>18 DEF ViewInv
<1> QED
  BY <1>2, <1>3

LEMMA ViewKept ==
  ASSUME ViewInv, UNCHANGED <<at, todo, conn, view, trusted, charon>>, sup = "killed" => sup' = "killed"
  PROVE  ViewInv'
<1>1. (Subscribed' <=> Subscribed) /\ (Terminated' <=> Terminated) /\ (Established' <=> Established)
  BY DEF Subscribed, Awaits, Terminated, Established
<1>2. \A p : Right(p)' <=> Right(p)
  BY <1>1 DEF Right
<1>3. Tracked'
  BY <1>1, <1>2 DEF ViewInv, Tracked
<1>4. Ordered' /\ Fresh'
  BY DEF ViewInv, Ordered, Fresh
<1> QED
  BY <1>3, <1>4 DEF ViewInv

LEMMA CommandLineView ==
  ASSUME Base, ViewInv, StartAttempt \/ SignalArrives \/ GivesUp \/ ProcessExits
  PROVE  ViewInv'
<1>1. CASE StartAttempt
  <2>1. sup \in {"asking", "sleeping"} /\ at' = "connect" /\ trusted' = {} /\ view' = view
    BY <1>1 DEF StartAttempt, Answered, WakeUp
  <2>2. at = "none" /\ view = NewView
    BY <2>1 DEF Base, PlaceInv, ViewInv, Fresh
  <2> QED
    BY <2>1, <2>2 DEF ViewInv, Ordered, Fresh, Tracked, Talking
<1>2. CASE SignalArrives \/ GivesUp
  <2>1. /\ UNCHANGED <<at, todo, conn, view, trusted, charon>>
        /\ sup # "killed"
    BY <1>2 DEF SignalArrives, GivesUp, Signal, PromptFails, StopSleeping, tunnelVars, worldVars
  <2> QED
    BY <2>1, ViewKept
<1>3. CASE ProcessExits
  <2>1. at' = "none" /\ sup' = "killed"
    BY <1>3 DEF ProcessExits, SecondSignal
  <2> QED
    BY <2>1, ViewElsewhere
<1> QED
  BY <1>1, <1>2, <1>3

LEMMA ClosingView ==
  ASSUME CancelInitiate \/ CancelListening \/ WatchEnds \/ GraceEnds
  PROVE  ViewInv'
<1>1. at' \in Closing
  BY DEF CancelInitiate, CancelListening, WatchEnds, GraceEnds, Close, Begin, Closing
<1> QED
  BY <1>1, ViewElsewhere

LEMMA ViewInit == Init => ViewInv
  BY DEF Init, ViewInv, Ordered, Fresh, Tracked, Talking

LEMMA ViewStep == Base /\ ViewInv /\ [Next]_vars => ViewInv'
<1> SUFFICES ASSUME Base, ViewInv, [Next]_vars PROVE ViewInv'
  OBVIOUS
<1>1. CASE StartAttempt \/ SignalArrives \/ GivesUp \/ ProcessExits
  BY <1>1, CommandLineView
<1>2. CASE Inner
  BY <1>2, ConnectView, ReadEventView, ReadAnswerView, CommandFailsView, WaitEndsView,
     ClosingView DEF Inner
<1>3. CASE OnEvent \/ CancelInitiate \/ CancelListening
  BY <1>3, OnEventView, ClosingView
<1>4. CASE Charon
  BY <1>4, TakesCommandView, ConnectionBreaksView, TakesInitiateView, SaAppearsView,
     SaEstablishedView, ChildEstablishedView, InitiateFailsView, GatewayDropsView,
     CharonRestartsView DEF Charon, Conns
<1>5. CASE UNCHANGED vars
  BY <1>5, ViewKept DEF vars, supVars, tunnelVars, worldVars
<1> QED
  BY <1>1, <1>2, <1>3, <1>4, <1>5 DEF Next

\* With every event read, watch believes exactly those children to be up that
\* charon has up, but for those it took to be up without an event: no event is
\* lost or overtaken between the subscriptions, Client::pending and the loops of
\* wait_child_up and watch.
THEOREM ViewIsRight == Spec => []ViewAgrees
<1>1. Spec => []ViewInv
  <2>1. Base /\ Base' /\ ViewInv /\ [Next]_vars => ViewInv'
    BY ViewStep
  <2> QED
    BY <2>1, BaseHolds, ViewInit, PTL DEF Spec
<1> QED
  BY <1>1, BaseHolds, ViewInvGives, PTL

=============================================================================

----------------------------- MODULE ViciClient -----------------------------
(***************************************************************************)
(* A connection to charon's vici socket: struct Client of                  *)
(* vici/src/client.rs.  One command is in flight at a time and answers     *)
(* carry no number, so that whoever drops a command half-way may not use   *)
(* the connection again.                                                   *)
(*                                                                         *)
(* A connection c is a record.  On the client's side:                      *)
(*   open       the Client exists                                          *)
(*   poisoned   Client::poisoned                                           *)
(*   refused    the command under way was not sent, the client being       *)
(*              poisoned                                                   *)
(*   pending    Client::pending, events to be handed out later             *)
(* Between the two:                                                        *)
(*   request    the command charon has not taken yet, or NoCommand         *)
(*   wire       packets charon has sent and the client has not parsed      *)
(*   broken     the connection is lost                                     *)
(* A packet is the answer to a command (a response, a confirmation, or     *)
(* that the command or event is unknown) or an event.                      *)
(***************************************************************************)
EXTENDS Naturals, Sequences

\* A command is a pair: what to do, and with what.
NoCommand == <<"none", "">>

\* Client::connect, and a Client that was dropped.
NewClient ==
  [open |-> TRUE, poisoned |-> FALSE, refused |-> FALSE, pending |-> <<>>,
   request |-> NoCommand, wire |-> <<>>, broken |-> FALSE]

Dropped == [NewClient EXCEPT !.open = FALSE]

\* An answer says whether its command succeeded and, for a termination,
\* whether there was anything to terminate.  The command it answers, `of`, is
\* not on the wire.
Answer(command, ok, matches) ==
  [kind |-> "answer", of |-> command, ok |-> ok, matches |-> matches]

IsEvent(packet) == packet.kind = "event"

\* check, then the write of exchange or subscribe.
Send(c, command) ==
  IF c.poisoned THEN [c EXCEPT !.refused = TRUE]
  ELSE [c EXCEPT !.poisoned = TRUE, !.request = IF c.broken THEN NoCommand ELSE command]

\* read_packet has a packet for the command under way.
HasPacket(c) == ~c.refused /\ c.wire # <<>>

\* A plausible mistake: a subscription skips the events before its confirmation.
SkipEvent(c) == [c EXCEPT !.wire = Tail(@)]

\* An event while a command is under way: queued, or given to the caller's
\* callback, which only logs it.
KeepEvent(c) == [c EXCEPT !.wire = Tail(@), !.pending = Append(@, Head(c.wire))]
RelayEvent(c) == [c EXCEPT !.wire = Tail(@)]

\* The command's answer ends the exchange.
TakeAnswer(c) == [c EXCEPT !.wire = Tail(@), !.poisoned = FALSE]

\* The command fails: it was refused, the write failed, which leaves the client
\* poisoned, or the connection was closed before an answer.
Fails(c) == c.refused \/ (c.broken /\ c.wire = <<>>)
AfterFailure(c) ==
  IF c.refused THEN {[c EXCEPT !.refused = FALSE]}
  ELSE {[c EXCEPT !.poisoned = p] : p \in BOOLEAN}

\* next_event: from the queue first, then from the wire.
HasEvent(c) == ~c.poisoned /\ (c.pending # <<>> \/ c.wire # <<>>)
NextEvent(c) == IF c.pending # <<>> THEN Head(c.pending) ELSE Head(c.wire)
TakeEvent(c) ==
  IF c.pending # <<>> THEN [c EXCEPT !.pending = Tail(@)]
  ELSE [c EXCEPT !.wire = Tail(@)]

EventsFail(c) ==
  \/ c.poisoned
  \/ c.pending = <<>> /\ c.wire = <<>> /\ c.broken

\* The other end: charon takes a request, and writes packets.
Write(c, packets) ==
  IF c.open /\ ~c.broken THEN [c EXCEPT !.wire = @ \o packets] ELSE c
Take(c) == [c EXCEPT !.request = NoCommand]
Break(c) == [c EXCEPT !.broken = TRUE, !.request = NoCommand]

-----------------------------------------------------------------------------

ClientType(events, commands) ==
  LET Answers == [kind : {"answer"}, of : commands, ok : BOOLEAN, matches : BOOLEAN]
  IN  [open : BOOLEAN, poisoned : BOOLEAN, refused : BOOLEAN, pending : Seq(events),
       request : commands \cup {NoCommand}, wire : Seq(events \cup Answers), broken : BOOLEAN]
=============================================================================

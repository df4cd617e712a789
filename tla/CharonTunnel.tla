---------------------------- MODULE CharonTunnel ----------------------------
(***************************************************************************)
(* The IPsec tunnel that strongSwan's charon runs for the client:          *)
(* charon/src/tunnel.rs over two vici connections, `cmd` for the commands  *)
(* and `evt` for the events, supervised by the command line (Supervisor).  *)
(*                                                                         *)
(* charon is not part of the repository: it is modelled from how the code  *)
(* uses it.  It takes a command, it says on evt what becomes of the SAs,   *)
(* and it goes on with an "initiate" nobody waits for any more.  What the  *)
(* client logs of charon's log is left out.                                *)
(***************************************************************************)
EXTENDS Supervisor, ViciClient, SequencesExt

CONSTANTS
  Credentials,   \* sets of credentials an authentication method may need
  Children,      \* number of CHILD SAs planned (Child::plan)
  MaxDrops,      \* SAs the gateway may close
  MaxBreaks      \* connections that may be lost, or restarts of charon

ASSUME ChildrenAssumption == Children \in Nat \ {0}
ASSUME BoundsAssumption == {MaxDrops, MaxBreaks} \subseteq Nat

VARIABLES
  needs,      \* the credentials of the settings; never change
  conn,       \* the vici connections
  at,         \* where `run` waits: see the actions
  todo,       \* the commands of this part of `run`, the one under way first
  index,      \* the child being initiated
  view,       \* struct State and the `up` of the children
  mine,       \* struct Loaded
  outcome,    \* what establish_and_watch returned
  charon,     \* what charon has: see NewCharon
  drops, breaks,
  trusted,    \* history: children taken to be up without an event
  excused     \* history: what charon holds without this program having failed to try

tunnelVars == <<conn, at, todo, index, view, mine, outcome>>
worldVars == <<charon, drops, breaks>>
vars == <<supVars, needs, tunnelVars, worldVars, trusted, excused>>

Secrets == {"psk", "eap", "key"}
Loads == Secrets \cup {"conn"}
Kids == 1..Children

\* Commands, by what they are about.
Load(x) == <<"load", x>>
Unload(x) == <<"unload", x>>
Register(e) == <<"register", e>>
Unregister(e) == <<"unregister", e>>
Version == <<"version", "">>
Stats == <<"stats", "">>
Initiate == <<"initiate", "">>
Terminate == <<"terminate", "">>

Commands ==
  {Version, Stats, Initiate, Terminate} \cup {Load(x) : x \in Loads}
    \cup {Unload(x) : x \in Loads}
    \cup {Register(e) : e \in {"control-log", "ike", "child", "log"}}
    \cup {Unregister(e) : e \in {"ike", "child", "log"}}

IkeEvent(isUp) == [kind |-> "event", name |-> "ike", child |-> 0, up |-> isUp]
ChildEvent(i, isUp) == [kind |-> "event", name |-> "child", child |-> i, up |-> isUp]
Events == {IkeEvent(u) : u \in BOOLEAN} \cup {ChildEvent(i, u) : i \in Kids, u \in BOOLEAN}

\* State and the children before anything is known.
NewView == [ikeUp |-> FALSE, ikeDown |-> FALSE, tunnelUp |-> FALSE, up |-> {}]

\* charon: what is loaded, our IKE SA, its CHILD SAs, the child an initiate is
\* working on (0: none; a later one joins an earlier one), whether it came on
\* the connection there is now, and the events evt is subscribed to.
NewCharon(stale) ==
  [loaded |-> {}, sa |-> IF stale THEN "up" ELSE "none", kids |-> {}, job |-> 0,
   heard |-> FALSE, subs |-> {}]

\* A previous run may have left an IKE SA.
Init ==
  /\ SupInit
  /\ needs \in Credentials
  /\ conn = [c \in {"cmd", "evt"} |-> Dropped]
  /\ at = "none" /\ todo = <<>> /\ index = 1 /\ view = NewView /\ mine = {}
  /\ outcome = "none"
  /\ \E stale \in BOOLEAN :
       /\ charon = NewCharon(stale)
       /\ excused = IF stale THEN {"sa"} ELSE {}
  /\ drops = 0 /\ breaks = 0 /\ trusted = {}

-----------------------------------------------------------------------------
\* Which connection a command goes to, and the start of a list of commands.

\* control: the event connection once the command connection was abandoned.
Control(cs) == IF cs["cmd"].open THEN "cmd" ELSE "evt"

On(cs, command) ==
  CASE command[1] \in {"terminate", "unload"} -> Control(cs)
    [] command[1] = "unregister" -> "evt"
    [] command \in {Register("ike"), Register("child"), Register("log")} -> "evt"
    [] OTHER -> "cmd"

Begin(cs, phase, commands) ==
  /\ at' = phase /\ todo' = commands
  /\ conn' = [cs EXCEPT ![On(cs, Head(commands))] = Send(@, Head(commands))]

\* establish_and_watch up to the first initiate: query, the subscriptions, the
\* stale SA, the credentials (load_credentials) and the connection.
SetupCommands ==
  LET LoadNeeded(x) == IF x \in needs THEN <<Load(x)>> ELSE <<>>
  IN  <<Version, Stats, Register("control-log"), Register("ike"), Register("child"), Terminate>>
        \o LoadNeeded("psk") \o LoadNeeded("eap") \o LoadNeeded("key") \o <<Load("conn")>>

\* run returns, dropping both connections.
Return ==
  /\ at' = "none" /\ todo' = <<>> /\ outcome' = "none" /\ mine' = {} /\ view' = NewView
  /\ conn' = [c \in {"cmd", "evt"} |-> Dropped]
  /\ Ends(outcome)

\* unload, the end of teardown.
StartUnload(cs) ==
  LET UnloadMine(x) == IF x \in mine THEN <<Unload(x)>> ELSE <<>>
      commands == UnloadMine("conn") \o UnloadMine("psk") \o UnloadMine("eap") \o UnloadMine("key")
  IN  IF commands = <<>> THEN Return
      ELSE Begin(cs, "unload", commands) /\ UNCHANGED <<supVars, outcome, mine, view>>

\* teardown: an abandoned command connection leaves evt to do the rest, which
\* is freed of its events first.
Close(cs, result) ==
  /\ outcome' = result
  /\ Begin(cs, "close",
       IF cs["cmd"].open THEN <<Terminate>>
       ELSE <<Unregister("log"), Unregister("ike"), Unregister("child"), Terminate>>)

-----------------------------------------------------------------------------
\* Attempts.

StartAttempt ==
  /\ Answered \/ WakeUp
  /\ at' = "connect" /\ index' = 1 /\ trusted' = {} /\ outcome' = "error"
  /\ UNCHANGED <<needs, conn, todo, view, mine, worldVars, excused>>

\* The two connections to the socket; nothing is loaded when one fails.
Connect(ok) ==
  /\ at = "connect"
  /\ IF ok
     THEN Begin([c \in {"cmd", "evt"} |-> NewClient], "setup", SetupCommands)
            /\ UNCHANGED <<supVars, outcome, mine, view>>
     ELSE Return
  /\ charon' = [charon EXCEPT !.subs = {}, !.heard = FALSE]
  /\ UNCHANGED <<needs, index, drops, breaks, trusted, excused>>

-----------------------------------------------------------------------------
\* The end of a command.

\* The next initiate, unless the token was cancelled before it.
StartInitiate(cs) ==
  IF cancelled THEN Close(cs, "stopped")
  ELSE Begin(cs, "initiate", <<Initiate>>) /\ UNCHANGED outcome

\* A plausible mistake: what was loaded is remembered all at once at the end.
SetupEndsLate(cs, ok) ==
  /\ at = "setup"
  /\ mine' = IF ok /\ Head(todo) = Load("conn") THEN needs \cup {"conn"} ELSE mine
  /\ IF ~ok THEN Close(cs, "error")
     ELSE IF Tail(todo) = <<>> THEN StartInitiate(cs)
     ELSE IF Head(todo) = Terminate /\ cancelled THEN Close(cs, "stopped")
     ELSE Begin(cs, "setup", Tail(todo)) /\ UNCHANGED outcome
  /\ UNCHANGED <<supVars, view>>

\* A command of the set-up has its answer.  What was loaded is remembered, to
\* be unloaded.  An error ends the attempt; so does making the message of a
\* secret that cannot be read, which counts as a refusal here.
SetupEnds(cs, ok) ==
  /\ at = "setup"
  /\ mine' = IF ok /\ Head(todo)[1] = "load" THEN mine \cup {Head(todo)[2]} ELSE mine
  /\ IF ~ok THEN Close(cs, "error")
     ELSE IF Tail(todo) = <<>> THEN StartInitiate(cs)
     ELSE IF Head(todo) = Terminate /\ cancelled THEN Close(cs, "stopped")
     ELSE Begin(cs, "setup", Tail(todo)) /\ UNCHANGED outcome
  /\ UNCHANGED <<supVars, view>>

\* initiate returns: the child's event is given a moment.
InitiateEnds(cs, ok) ==
  /\ at = "initiate"
  /\ IF ok THEN at' = "wait" /\ todo' = <<>> /\ conn' = cs /\ UNCHANGED outcome
     ELSE Close(cs, "error")
  /\ UNCHANGED <<supVars, mine, view>>

\* The subscription to the log may fail.
SubscribeEnds(cs) ==
  /\ at = "subscribe"
  /\ at' = "watch" /\ todo' = <<>> /\ conn' = cs
  /\ UNCHANGED <<supVars, mine, view, outcome>>

\* A plausible mistake: an abandoned initiate is not looked for a second time.
CloseEndsAtOnce(cs, ok, matches) ==
  /\ at \in {"close", "again", "unload"}
  /\ CASE Head(todo)[1] = "unregister" ->
            Begin(cs, "close", Tail(todo)) /\ UNCHANGED <<supVars, outcome, mine, view>>
       [] Head(todo) = Terminate -> StartUnload(cs)
       [] OTHER ->
            IF Tail(todo) = <<>> THEN Return
            ELSE Begin(cs, "unload", Tail(todo)) /\ UNCHANGED <<supVars, outcome, mine, view>>

\* The commands of teardown are only logged when they fail.  An abandoned
\* initiate may not have created its SA yet: it gets another look.
CloseEnds(cs, ok, matches) ==
  /\ at \in {"close", "again", "unload"}
  /\ CASE Head(todo)[1] = "unregister" ->
            Begin(cs, "close", Tail(todo)) /\ UNCHANGED <<supVars, outcome, mine, view>>
       [] Head(todo) = Terminate ->
            IF at = "close" /\ ok /\ ~matches /\ ~cs["cmd"].open
            THEN /\ at' = "grace" /\ todo' = <<>> /\ conn' = cs
                 /\ UNCHANGED <<supVars, outcome, mine, view>>
            ELSE StartUnload(cs)
       [] OTHER ->
            IF Tail(todo) = <<>> THEN Return
            ELSE Begin(cs, "unload", Tail(todo)) /\ UNCHANGED <<supVars, outcome, mine, view>>

Ended(cs, ok, matches) ==
  \/ SetupEnds(cs, ok)
  \/ InitiateEnds(cs, ok)
  \/ SubscribeEnds(cs)
  \/ CloseEnds(cs, ok, matches)

\* The connection the command under way is on.
InUse == On(conn, Head(todo))

\* exchange and subscribe read a packet: an event, which terminate and initiate
\* relay and the other commands queue, or the answer.
ReadEvent ==
  /\ todo # <<>> /\ HasPacket(conn[InUse]) /\ IsEvent(Head(conn[InUse].wire))
  /\ conn' = [conn EXCEPT ![InUse] =
       IF Head(todo) \in {Terminate, Initiate} THEN RelayEvent(@) ELSE KeepEvent(@)]
  /\ UNCHANGED <<supVars, needs, at, todo, index, view, mine, outcome, worldVars, trusted,
                 excused>>

ReadAnswer ==
  /\ todo # <<>> /\ HasPacket(conn[InUse]) /\ ~IsEvent(Head(conn[InUse].wire))
  /\ LET packet == Head(conn[InUse].wire)
     IN  Ended([conn EXCEPT ![InUse] = TakeAnswer(@)], packet.ok, packet.matches)
  /\ UNCHANGED <<needs, index, worldVars, trusted, excused>>

\* What a command of teardown that fails was to remove: charon keeps it.
Leaves(command) ==
  CASE command = Terminate -> {"sa"}
    [] command[1] = "unload" -> {command[2]}
    [] OTHER -> {}

\* The command fails with its connection.
CommandFails ==
  /\ todo # <<>> /\ Fails(conn[InUse])
  /\ \E c \in AfterFailure(conn[InUse]) : Ended([conn EXCEPT ![InUse] = c], FALSE, FALSE)
  /\ excused' = excused \cup (IF at = "setup" THEN {} ELSE Leaves(Head(todo)))
  /\ UNCHANGED <<needs, index, worldVars, trusted>>

\* A plausible mistake: the connection is made usable again.
CancelInitiateOnly ==
  /\ at = "initiate" /\ cancelled
  /\ Close([conn EXCEPT !["cmd"].poisoned = FALSE], "stopped")
  /\ UNCHANGED <<supVars, needs, index, view, mine, worldVars, trusted, excused>>

\* initiate is the only command raced with the token: the command connection
\* is dropped with it.  When charon reads the command all the same, it does so
\* before this step.
CancelInitiate ==
  /\ at = "initiate" /\ cancelled
  /\ Close([conn EXCEPT !["cmd"] = Dropped], "stopped")
  /\ UNCHANGED <<supVars, needs, index, view, mine, worldVars, trusted, excused>>

-----------------------------------------------------------------------------
\* Events.

\* on_ike_updown.  A down is ours only when the IKE SA was up: the stale one
\* terminated first says nothing.
OnIkeUpdown(v, isUp) ==
  IF isUp THEN [v EXCEPT !.ikeUp = TRUE, !.ikeDown = FALSE]
  ELSE IF ~v.ikeUp THEN v
  ELSE [v EXCEPT !.ikeUp = FALSE, !.ikeDown = TRUE, !.up = {}, !.tunnelUp = FALSE]

\* on_child_updown: the tunnel is up with its last child and down with none.
OnChildUpdown(v, i, isUp) ==
  LET up == IF isUp THEN v.up \cup {i} ELSE v.up \ {i}
  IN  [v EXCEPT !.up = up,
                !.tunnelUp = IF isUp THEN @ \/ up = Kids ELSE @ /\ up # {}]

HandleEvent(v, e) ==
  IF e.name = "ike" THEN OnIkeUpdown(v, e.up) ELSE OnChildUpdown(v, e.child, e.up)

\* The loops of wait_child_up and watch go on.
Listening ==
  \/ at = "wait" /\ index \notin view.up /\ ~view.ikeDown
  \/ at = "watch" /\ ~view.ikeDown /\ view.up # {}

OnEvent ==
  /\ Listening /\ HasEvent(conn["evt"])
  /\ LET e == NextEvent(conn["evt"])
     IN  /\ view' = HandleEvent(view, e)
         /\ trusted' = IF e.name = "child" THEN trusted \ {e.child} ELSE trusted
  /\ conn' = [conn EXCEPT !["evt"] = TakeEvent(@)]
  /\ UNCHANGED <<supVars, needs, at, todo, index, mine, outcome, worldVars, excused>>

\* A plausible mistake: only the wait for a child is raced with the token.
CancelWaiting ==
  /\ at = "wait" /\ Listening /\ cancelled
  /\ Close(conn, "stopped")
  /\ UNCHANGED <<supVars, needs, index, view, mine, worldVars, trusted, excused>>

CancelListening ==
  /\ Listening /\ cancelled
  /\ Close(conn, "stopped")
  /\ UNCHANGED <<supVars, needs, index, view, mine, worldVars, trusted, excused>>

\* A plausible mistake: the loop over the children goes one too far.
WaitEndsOneMore ==
  /\ at = "wait"
  /\ IF index <= Children
     THEN index' = index + 1 /\ StartInitiate(conn) /\ UNCHANGED <<view, trusted>>
     ELSE /\ Begin(conn, "subscribe", <<Register("log")>>)
          /\ IF view.tunnelUp \/ view.ikeDown THEN UNCHANGED <<view, trusted>>
             ELSE /\ view' = [view EXCEPT !.up = Kids, !.tunnelUp = TRUE]
                  /\ trusted' = Kids \ view.up
          /\ UNCHANGED <<index, outcome>>
  /\ UNCHANGED <<supVars, needs, mine, worldVars, excused>>

\* wait_child_up is over: the child is up, the IKE SA is down, CHILD_EVENT_GRACE
\* has passed or evt is lost.  The next child follows; after the last one, a
\* tunnel that is not up but was not seen going down is taken to be up.
WaitEnds ==
  /\ at = "wait"
  /\ IF index < Children
     THEN index' = index + 1 /\ StartInitiate(conn) /\ UNCHANGED <<view, trusted>>
     ELSE /\ Begin(conn, "subscribe", <<Register("log")>>)
          /\ IF view.tunnelUp \/ view.ikeDown THEN UNCHANGED <<view, trusted>>
             ELSE /\ view' = [view EXCEPT !.up = Kids, !.tunnelUp = TRUE]
                  /\ trusted' = Kids \ view.up
          /\ UNCHANGED <<index, outcome>>
  /\ UNCHANGED <<supVars, needs, mine, worldVars, excused>>

\* watch: the tunnel is down, or evt is lost.
WatchEnds ==
  /\ at = "watch"
  /\ \/ (view.ikeDown \/ view.up = {}) /\ Close(conn, "down")
     \/ Listening /\ EventsFail(conn["evt"]) /\ Close(conn, "error")
  /\ UNCHANGED <<supVars, needs, index, view, mine, worldVars, trusted, excused>>

\* ABANDONED_INITIATE_GRACE has passed: an SA that has not appeared by now is
\* later than the code waits for.
GraceEnds ==
  /\ at = "grace"
  /\ Begin(conn, "again", <<Terminate>>)
  /\ excused' = IF charon.job # 0 /\ charon.sa = "none" THEN excused \cup {"sa"} ELSE excused
  /\ UNCHANGED <<supVars, needs, index, view, mine, outcome, worldVars, trusted>>

-----------------------------------------------------------------------------
\* charon.

\* Says what became of the SAs, to a client that subscribed to it.
Emit(cs, name, events) ==
  [cs EXCEPT !["evt"] = Write(@, IF name \in charon.subs THEN events ELSE <<>>)]

Respond(cs, c, packet) == [cs EXCEPT ![c] = Write(@, <<packet>>)]

RespondInitiate(cs, ok) ==
  IF charon.job # 0 /\ charon.heard THEN Respond(cs, "cmd", Answer(Initiate, ok, FALSE)) ELSE cs

ByClient == UNCHANGED <<supVars, needs, at, todo, index, view, mine, outcome, trusted>>

\* The events of an IKE SA that goes away: its children's first, in any order.
EmitEnding(cs) ==
  {Emit(Emit(cs, "child", [i \in DOMAIN order |-> ChildEvent(order[i], FALSE)]),
        "ike", IF charon.sa = "up" THEN <<IkeEvent(FALSE)>> ELSE <<>>) :
     order \in SetToSeqs(charon.kids)}

\* What is left without it; the initiate that worked on it fails.
WithoutSa(ch) == [ch EXCEPT !.sa = "none", !.kids = {}, !.job = IF ch.sa = "none" THEN @ ELSE 0]

\* A command other than initiate.  Loading and subscribing may be refused.
TakesCommand(c) ==
  /\ conn[c].request \notin {NoCommand, Initiate}
  /\ LET r == conn[c].request
         taken == [conn EXCEPT ![c] = Take(@)]
     IN  \/ /\ r[1] \in {"version", "stats", "register", "load"}
            /\ conn' = Respond(taken, c, Answer(r, FALSE, FALSE))
            /\ UNCHANGED <<charon, excused>>
         \/ /\ r # Terminate
            /\ charon' = [charon EXCEPT
                 !.loaded = CASE r[1] = "load" -> @ \cup {r[2]}
                              [] r[1] = "unload" -> @ \ {r[2]}
                              [] OTHER -> @,
                 !.subs = CASE r[1] = "register" /\ c = "evt" -> @ \cup {r[2]}
                            [] r[1] = "unregister" -> @ \ {r[2]}
                            [] OTHER -> @]
            /\ conn' = Respond(taken, c, Answer(r, TRUE, FALSE))
            /\ excused' = IF r[1] = "load" THEN excused \ {r[2]} ELSE excused
         \/ /\ r = Terminate
            /\ charon' = WithoutSa(charon)
            /\ \E cs \in EmitEnding(taken) :
                 conn' = Respond(cs, c, Answer(r, TRUE, charon.sa # "none"))
            /\ excused' = IF charon'.job = 0 THEN excused \ {"sa"} ELSE excused
  /\ ByClient /\ UNCHANGED <<drops, breaks>>

\* An initiate is taken, makes the IKE SA if there is none, establishes it,
\* then the child, and answers; or fails at any point.
TakesInitiate ==
  /\ conn["cmd"].request = Initiate
  /\ charon' = [charon EXCEPT !.job = index, !.heard = TRUE]
  /\ conn' = [conn EXCEPT !["cmd"] = Take(@)]
  /\ excused' = excused \ {"sa"}
  /\ ByClient /\ UNCHANGED <<drops, breaks>>

SaAppears ==
  /\ charon.job # 0 /\ charon.sa = "none"
  /\ charon' = [charon EXCEPT !.sa = "connecting"]
  /\ ByClient /\ UNCHANGED <<conn, drops, breaks, excused>>

SaEstablished ==
  /\ charon.job # 0 /\ charon.sa = "connecting"
  /\ charon' = [charon EXCEPT !.sa = "up"]
  /\ conn' = Emit(conn, "ike", <<IkeEvent(TRUE)>>)
  /\ ByClient /\ UNCHANGED <<drops, breaks, excused>>

ChildEstablished ==
  /\ charon.job # 0 /\ charon.sa = "up"
  /\ charon' = [charon EXCEPT !.kids = @ \cup {charon.job}, !.job = 0]
  /\ conn' = RespondInitiate(Emit(conn, "child", <<ChildEvent(charon.job, TRUE)>>), TRUE)
  /\ ByClient /\ UNCHANGED <<drops, breaks, excused>>

InitiateFails ==
  /\ charon.job # 0
  /\ charon' = [charon EXCEPT !.job = 0, !.sa = IF @ = "connecting" THEN "none" ELSE @]
  /\ conn' = RespondInitiate(conn, FALSE)
  /\ ByClient /\ UNCHANGED <<drops, breaks, excused>>

\* The gateway closes a CHILD SA, or the IKE SA; dpd_action and close_action
\* are such that neither comes back by itself.
GatewayDrops(i) ==
  /\ drops < MaxDrops /\ drops' = drops + 1
  /\ IF i \in Kids
     THEN /\ i \in charon.kids
          /\ charon' = [charon EXCEPT !.kids = @ \ {i}]
          /\ conn' = Emit(conn, "child", <<ChildEvent(i, FALSE)>>)
     ELSE /\ charon.sa = "up"
          /\ charon' = WithoutSa(charon)
          /\ \E cs \in EmitEnding(conn) : conn' = RespondInitiate(cs, FALSE)
  /\ ByClient /\ UNCHANGED <<breaks, excused>>

\* A connection is lost.
ConnectionBreaks(c) ==
  /\ conn[c].open /\ ~conn[c].broken
  /\ breaks < MaxBreaks /\ breaks' = breaks + 1
  /\ conn' = [conn EXCEPT ![c] = Break(@)]
  /\ ByClient /\ UNCHANGED <<charon, drops, excused>>

\* charon is restarted, and knows nothing of us.
CharonRestarts ==
  /\ breaks < MaxBreaks /\ breaks' = breaks + 1
  /\ charon' = NewCharon(FALSE) /\ excused' = {}
  /\ conn' = [c \in {"cmd", "evt"} |-> IF conn[c].open THEN Break(conn[c]) ELSE conn[c]]
  /\ ByClient /\ UNCHANGED drops

-----------------------------------------------------------------------------
\* The user.

SignalArrives ==
  /\ Signal
  /\ UNCHANGED <<needs, tunnelVars, worldVars, trusted, excused>>

GivesUp ==
  /\ PromptFails \/ StopSleeping
  /\ UNCHANGED <<needs, tunnelVars, worldVars, trusted, excused>>

\* The process exits at once, and charon sees its connections close.
ProcessExits ==
  /\ SecondSignal
  /\ at' = "none" /\ todo' = <<>>
  /\ conn' = [c \in {"cmd", "evt"} |-> Dropped]
  /\ UNCHANGED <<needs, index, view, mine, outcome, worldVars, trusted, excused>>

-----------------------------------------------------------------------------

Inner ==
  \/ \E ok \in BOOLEAN : Connect(ok)
  \/ ReadEvent \/ ReadAnswer \/ CommandFails
  \/ WaitEnds \/ WatchEnds \/ GraceEnds

Charon ==
  \/ \E c \in {"cmd", "evt"} : TakesCommand(c) \/ ConnectionBreaks(c)
  \/ TakesInitiate \/ SaAppears \/ SaEstablished \/ ChildEstablished \/ InitiateFails
  \/ \E i \in 0..Children : GatewayDrops(i)
  \/ CharonRestarts

Next ==
  \/ StartAttempt \/ SignalArrives \/ GivesUp \/ ProcessExits
  \/ Inner \/ OnEvent \/ CancelInitiate \/ CancelListening
  \/ Charon

\* The code runs on by itself, select! comes to look at the token, and charon
\* answers every command but initiate, which it may take its time for.
Fairness ==
  /\ WF_vars(Inner) /\ WF_vars(sup = "sleeping" /\ (StartAttempt \/ GivesUp))
  /\ WF_vars(CancelInitiate) /\ SF_vars(CancelListening)
  /\ WF_vars(TakesCommand("cmd")) /\ WF_vars(TakesCommand("evt"))

Spec == Init /\ [][Next]_vars /\ Fairness

-----------------------------------------------------------------------------

TypeOK ==
  /\ SupTypeOK
  /\ needs \in Credentials
  /\ at \in {"none", "connect", "setup", "initiate", "wait", "subscribe", "watch",
             "close", "grace", "again", "unload"}
  /\ conn \in [{"cmd", "evt"} -> ClientType(Events, Commands)]
  /\ todo \in Seq(Commands) /\ index \in Kids
  /\ view \in [ikeUp : BOOLEAN, ikeDown : BOOLEAN, tunnelUp : BOOLEAN, up : SUBSET Kids]
  /\ mine \in SUBSET Loads /\ outcome \in {"none", "stopped", "down", "error"}
  /\ charon \in [loaded : SUBSET Loads, sa : {"none", "connecting", "up"}, kids : SUBSET Kids,
                 job : 0..Children, heard : BOOLEAN, subs : SUBSET {"ike", "child", "log"}]
  /\ drops \in 0..MaxDrops /\ breaks \in 0..MaxBreaks
  /\ trusted \subseteq Kids /\ excused \subseteq Loads \cup {"sa"}

\* charon does not number its answers: an answer on the connection in use is
\* always the one to the command under way, also after a command was abandoned
\* and the event connection took over (Client::poisoned, Tunnel::control).
OwnAnswers ==
  todo # <<>> =>
    \A i \in DOMAIN conn[InUse].wire :
      LET packet == conn[InUse].wire[i]
      IN  IsEvent(packet) \/ (~conn[InUse].refused => packet.of = Head(todo))

\* With every event read, watch believes exactly those children to be up that
\* are, but for those it took to be up without an event: no event is lost or
\* overtaken between the subscriptions, the queue and the two loops.
ViewAgrees ==
  at = "watch" /\ ~conn["evt"].broken /\ conn["evt"].wire = <<>>
    /\ conn["evt"].pending = <<>>
  => /\ charon.kids \subseteq view.up
     /\ view.up \ trusted \subseteq charon.kids
     /\ charon.sa = "up" \/ view.ikeDown \/ trusted # {}

\* Once asked to stop, the program ends, if charon answers its commands.
StopEnds == (cancelled /\ sup # "asking") ~> Over

\* "Whatever happens, what was loaded into charon is removed before returning",
\* as long as there is a connection to remove it on: teardown goes on with evt
\* when cmd was abandoned, but not when cmd was lost (Tunnel::control).
RemovedBeforeReturning ==
  [][at # "none" /\ at' = "none" /\ sup' # "killed"
       /\ conn["evt"].open /\ ~conn["evt"].broken
     => charon'.loaded = {}]_vars

\* What is in charon because of this program.  An SA of a previous run, or of an
\* abandoned initiate that was slower than the second look of teardown, is not
\* counted, nor is what a command of teardown failed to remove.
Traces ==
  /\ sup # "killed"
  /\ charon.loaded \ excused # {} \/ (charon.sa # "none" /\ "sa" \notin excused)

Phase ==
  IF sup \in {"asking", "sleeping"} THEN "waiting"
  ELSE IF Over THEN "finished"
  ELSE IF at \in {"close", "grace", "again", "unload"} THEN "closing"
  ELSE IF at \in {"subscribe", "watch"} THEN "up" ELSE "connecting"

\* The whole is the service the program promises (see Service): what was loaded,
\* and the SA, are gone before the next attempt and before the program ends, by
\* the second look of teardown and its unload, but for what Traces leaves out.
Promised == INSTANCE Service WITH phase <- Phase, traces <- Traces, asked <- cancelled

ImplementsService == Promised!Spec
=============================================================================

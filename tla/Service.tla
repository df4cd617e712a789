------------------------------ MODULE Service ------------------------------
(***************************************************************************)
(* What the program promises whichever tunnel it runs: it connects, again  *)
(* and again if it was told to, what a tunnel changes outside the program  *)
(* is undone before the next attempt and before the program ends, and once *)
(* the user asked it to stop at most one more attempt starts, the one its  *)
(* wait was over for.  Only a second signal ends it with traces left.      *)
(***************************************************************************)

VARIABLES
  phase,    \* "waiting", "connecting", "up", "closing" or "finished"
  traces,   \* something outside the program is changed
  asked     \* the user asked the program to stop

vars == <<phase, traces, asked>>

TypeOK ==
  /\ phase \in {"waiting", "connecting", "up", "closing", "finished"}
  /\ traces \in BOOLEAN
  /\ asked \in BOOLEAN

Init == phase = "waiting" /\ ~traces /\ ~asked

Ask == ~asked /\ asked' = TRUE /\ UNCHANGED <<phase, traces>>

\* Also when the user asked to stop just as the wait was over.
Connect == phase = "waiting" /\ phase' = "connecting" /\ UNCHANGED <<traces, asked>>

\* While a tunnel is built it may leave traces, and it may come up.
Trace == phase = "connecting" /\ traces' = TRUE /\ UNCHANGED <<phase, asked>>

ComeUp ==
  /\ phase = "connecting" /\ phase' = "up"
  /\ traces' \in {traces, TRUE} /\ UNCHANGED asked

Close == phase \in {"connecting", "up"} /\ phase' = "closing" /\ UNCHANGED <<traces, asked>>

Clean == phase = "closing" /\ traces' = FALSE /\ UNCHANGED <<phase, asked>>

\* Others may undo what was changed, as a daemon does that is restarted.
Vanish == phase \in {"connecting", "up"} /\ traces' = FALSE /\ UNCHANGED <<phase, asked>>

\* An attempt ends with no traces left, and no other follows it when the user
\* has asked to stop by then.
End ==
  /\ phase = "closing" \/ (phase = "connecting" /\ ~traces)
  /\ phase' \in IF asked THEN {"finished"} ELSE {"waiting", "finished"}
  /\ traces' = FALSE /\ UNCHANGED asked

\* The program ends between two attempts, or before the first.
Leave == phase = "waiting" /\ phase' = "finished" /\ UNCHANGED <<traces, asked>>

\* A second signal, with whatever traces there are.
Kill ==
  /\ asked /\ phase # "finished"
  /\ phase' = "finished" /\ traces' \in BOOLEAN /\ UNCHANGED asked

Next == \/ Ask \/ Connect \/ Trace \/ ComeUp \/ Close \/ Clean \/ Vanish \/ End \/ Leave \/ Kill

Spec == Init /\ [][Next]_vars
=============================================================================

----------------------------- MODULE Supervisor -----------------------------
(***************************************************************************)
(* The command line's part in a tunnel's life: cli/src/main.rs asks for    *)
(* the secrets, runs a tunnel, runs it again while it was told to, and     *)
(* turns signals into the cancellation every tunnel watches.  The module   *)
(* of a tunnel extends this one and says when an attempt ends.             *)
(***************************************************************************)
EXTENDS Naturals, Sequences

VARIABLES
  sup,         \* "asking", "running", "sleeping", "done" or "killed"
  first,       \* keep_running is in its first attempt
  cancelled,   \* the CancellationToken
  persistent   \* the option is not zero; never changes

supVars == <<sup, first, cancelled, persistent>>

SupTypeOK ==
  /\ sup \in {"asking", "running", "sleeping", "done", "killed"}
  /\ {first, cancelled, persistent} \subseteq BOOLEAN

SupInit ==
  /\ sup = "asking" /\ first = TRUE /\ cancelled = FALSE
  /\ persistent \in BOOLEAN

\* keep_running calls the tunnel's run: after the secrets are asked for, and
\* whenever it has slept.
Running == sup' = "running" /\ UNCHANGED <<first, cancelled, persistent>>

\* The secrets are asked for outside any select!, so that a signal has to
\* wait for the answer.
Answered == sup = "asking" /\ Running

\* A prompt or pinentry fails: run returns the error.
PromptFails == sup = "asking" /\ sup' = "done" /\ UNCHANGED <<first, cancelled, persistent>>

\* What keep_running makes of run's result.
Ends(result) ==
  /\ sup' = IF result = "stopped" \/ ~persistent \/ cancelled THEN "done" ELSE "sleeping"
  /\ first' = FALSE
  /\ UNCHANGED <<cancelled, persistent>>

\* The select! on the interval and the token: both may be ready.
WakeUp == sup = "sleeping" /\ Running

StopSleeping ==
  /\ sup = "sleeping" /\ cancelled
  /\ sup' = "done"
  /\ UNCHANGED <<first, cancelled, persistent>>

\* stop_on_signal: the first signal cancels, the second exits the process.
Signal ==
  /\ sup \notin {"done", "killed"} /\ ~cancelled
  /\ cancelled' = TRUE
  /\ UNCHANGED <<sup, first, persistent>>

SecondSignal ==
  /\ sup \notin {"done", "killed"} /\ cancelled
  /\ sup' = "killed"
  /\ UNCHANGED <<first, cancelled, persistent>>

Over == sup \in {"done", "killed"}
=============================================================================

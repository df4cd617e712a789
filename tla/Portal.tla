------------------------------- MODULE Portal -------------------------------
(***************************************************************************)
(* The portal of the SSL VPN: the requests of sslvpn/src/portal.rs from    *)
(* the login to the start of the tunnel, and the logout, over the client   *)
(* of https/src/http.rs, which sends a request a second time when the      *)
(* connection it was sent on turns out to be closed.                       *)
(*                                                                         *)
(* The gateway is not part of the repository: it answers as it likes, it   *)
(* may act on a request and lose the connection before the answer, and it  *)
(* opens a session when it answers a login with a cookie.                  *)
(***************************************************************************)
EXTENDS Naturals, Sequences

VARIABLES
  config,    \* the settings; never change
  step,      \* where log_in, allocate, fetch_config, start_tunnel or log_out waits
  stream,    \* Client::stream: a connection is open
  retried,   \* `reconnected` in Client::request: no other connection is tried
  code,      \* the second factor being sent: "none", "configured", "asked" or "push"
  cookie,    \* Client::cookie is set
  session,   \* the session of that cookie at the gateway: "none", "open", "closed"
  logout     \* how the last logout went: "none", "failed", "done"

portalVars == <<step, stream, retried, code, cookie, session, logout>>

LoginRequests == {"login", "otp", "second"}

\* Steps in which a request is under way.
Requests == LoginRequests \cup {"hostcheck", "index", "vpn", "xml", "logout"}

\* Steps in which a connection is needed for something else: `reconnect` after
\* the allocation and before the logout, and the request that is not answered.
Connections == {"renew", "start", "relogin"}

\* Steps in which the user is asked for a code.
Prompts == {"askotp", "askcode"}

PortalTypeOK ==
  /\ step \in Requests \cup Connections \cup Prompts \cup {"idle", "ready", "failed"}
  /\ {stream, retried, cookie} \subseteq BOOLEAN
  /\ code \in {"none", "configured", "asked", "push"}
  /\ session \in {"none", "open", "closed"}
  /\ logout \in {"none", "failed", "done"}

-----------------------------------------------------------------------------

\* Portal::new, and log_in up to its first wait.  The session of a configured
\* cookie is one the user opened before.
StartPortal ==
  /\ cookie' = (config.login = "cookie")
  /\ step' = IF config.login = "cookie" THEN "index" ELSE "login"
  /\ stream' = FALSE /\ retried' = TRUE
  /\ code' = "none" /\ logout' = "none"
  /\ session' = IF config.login = "cookie" THEN session ELSE "none"

\* A request begins: without a connection, the one opened for it is the last.
Request(s) == step' = s /\ retried' = ~stream /\ UNCHANGED logout

\* The outcome of setup, or of the logout.
Fail ==
  /\ step' = "failed"
  /\ logout' = IF step \in {"relogin", "logout"} THEN "failed" ELSE logout
  /\ UNCHANGED retried

\* Connector::connect.
Connect(ok) ==
  /\ ~stream /\ step \in Requests \cup Connections
  /\ IF ok
     THEN /\ stream' = TRUE
          /\ step' = CASE step = "renew" -> "xml"
                      [] step = "relogin" -> "logout"
                      [] OTHER -> step
          /\ retried' = (retried /\ step \notin {"renew", "relogin"})
          /\ UNCHANGED logout
     ELSE stream' = FALSE /\ Fail
  /\ UNCHANGED <<config, code, cookie, session>>

\* What the gateway does with a request whose answer does not arrive.
Acts(processed) ==
  session' = IF processed /\ step = "logout" THEN "closed" ELSE session

\* exchange fails with an I/O error: the request is sent again, once, on a new
\* connection.  The gateway may have acted on it already.
Broken(processed) ==
  /\ stream /\ step \in Requests
  /\ stream' = FALSE
  /\ IF retried THEN Fail
     ELSE retried' = TRUE /\ UNCHANGED <<step, logout>>
  /\ Acts(processed)
  /\ UNCHANGED <<config, code, cookie>>

\* exchange fails otherwise: a status line, length or chunk that cannot be read.
Malformed ==
  /\ stream /\ step \in Requests
  /\ stream' = FALSE
  /\ Fail
  /\ Acts(TRUE)
  /\ UNCHANGED <<config, code, cookie>>

\* otp: the configured one-time password, which only the first attempt has, or
\* one the user is asked for.
HasOtp(isFirst) == config.otp /\ isFirst

\* A login request is answered with a refusal: by its reason or page (allowed),
\* by ret=0 or ret=6, by a status that is neither 200 nor the form, or with
\* neither cookie nor token.
OnRefusal ==
  /\ step \in LoginRequests /\ stream
  /\ Fail
  /\ UNCHANGED <<config, stream, code, cookie, session>>

\* The form for a one-time password cannot be read (OtpForm::parse).
OnBadForm ==
  /\ step = "login" /\ stream
  /\ Fail
  /\ UNCHANGED <<config, stream, code, cookie, session>>

\* A code is sent with request s: the configured one, or one asked for at `ask`.
Answer(s, ask, isFirst) ==
  IF HasOtp(isFirst) THEN code' = "configured" /\ Request(s)
  ELSE code' = "asked" /\ step' = ask /\ UNCHANGED <<retried, logout>>

\* The first login request is answered with 401: answer_otp_form.
OnOtpForm(isFirst) ==
  /\ step = "login" /\ stream
  /\ UNCHANGED <<config, stream, cookie, session>>
  /\ Answer("otp", "askotp", isFirst)

\* No cookie but a tokeninfo: second_factor, whose own answer must have a cookie.
OnToken(token, isFirst) ==
  /\ step \in {"login", "otp"} /\ stream
  /\ UNCHANGED <<config, stream, cookie, session>>
  /\ IF ~HasOtp(isFirst) /\ token = "push" /\ config.push
     THEN code' = "push" /\ Request("second")
     ELSE Answer("second", "askcode", isFirst)

\* The gateway has opened a session; it may want a report on the host first.
OnCookie(check) ==
  /\ step \in LoginRequests /\ stream
  /\ UNCHANGED <<config, stream>>
  /\ cookie' = TRUE /\ session' = "open" /\ code' = "none"
  /\ Request(IF check THEN "hostcheck" ELSE "index")

\* The user answers the prompt for a code, or it fails.
OnPrompt(ok) ==
  /\ step \in Prompts
  /\ IF ok THEN Request(IF step = "askotp" THEN "otp" ELSE "second") ELSE Fail
  /\ UNCHANGED <<config, stream, code, cookie, session>>

\* The report on the host and allocate: the requests once the cookie is known,
\* which are refused like any other (allowed) or go on, whatever their status.
OnReply(ok) ==
  /\ step \in {"hostcheck", "index", "vpn"} /\ stream
  /\ UNCHANGED <<config, code, cookie, session>>
  /\ \/ ~ok /\ Fail /\ UNCHANGED stream
     \/ ok /\ step = "hostcheck" /\ Request("index") /\ UNCHANGED stream
     \/ ok /\ step = "index" /\ Request("vpn") /\ UNCHANGED stream
     \/ ok /\ step = "vpn" /\ stream' = FALSE /\ step' = "renew" /\ UNCHANGED <<retried, logout>>

\* fetch_config: here the status counts, and the document must be readable
\* (parse_vpn_config).
OnConfig(ok) ==
  /\ step = "xml" /\ stream
  /\ IF ok THEN step' = "start" /\ UNCHANGED <<retried, logout>> ELSE Fail
  /\ UNCHANGED <<config, stream, code, cookie, session>>

\* start_tunnel: take_over writes the request and hands the connection over.
StartTunnel(ok) ==
  /\ step = "start" /\ stream
  /\ stream' = FALSE
  /\ IF ok THEN step' = "ready" /\ UNCHANGED <<retried, logout>> ELSE Fail
  /\ UNCHANGED <<config, code, cookie, session>>

\* log_out begins on a fresh connection.
StartLogout ==
  /\ step' = "relogin" /\ stream' = FALSE
  /\ UNCHANGED <<retried, code, cookie, session, logout>>

\* The gateway answers the logout.  Refusing it is an error that is only logged.
OnLogoutReply(ok) ==
  /\ step = "logout" /\ stream
  /\ IF ok THEN step' = "idle" /\ logout' = "done" /\ session' = "closed" /\ UNCHANGED retried
     ELSE Fail /\ UNCHANGED session
  /\ UNCHANGED <<config, stream, code, cookie>>
=============================================================================

------------------------------ MODULE Commands ------------------------------
(***************************************************************************)
(* The vocabulary of the command protocol between the web server and the   *)
(* network thread: the four commands of `enum Command` and what each one   *)
(* may be answered with.                                                   *)
(***************************************************************************)

\* enum Command.  A CommandResponse has one variant per command, so a
\* successful response is named by the command it answers.
Commands == {"CheckConnectivity", "ListConnections", "ListWiFiNetworks", "Stop"}

\* The commands whose future is spawned on the main context; the others are
\* answered inside the dispatch callback.
Spawned == {"CheckConnectivity", "Stop"}

\* Stop::new("ok"), the response to a Stop that has succeeded.
Stopped == "Stop"

\* The Err side of Result<CommandResponse>.
Error == "error"

\* Absence of a value: a oneshot still empty, a request not yet made.
None == "none"

\* What the execution of a command can produce.  list_connections and
\* list_wifi_networks are infallible; the two futures may fail.
Outcomes(c) == {c} \cup (IF c \in Spawned THEN {Error} ELSE {})

\* Every answer there is.
Answers == Commands \cup {Error}
=============================================================================

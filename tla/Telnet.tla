------------------------------- MODULE Telnet -------------------------------
(***************************************************************************)
(* The telnet server of esp32/telnet/telnet.c as a state machine that the   *)
(* servers task steps: one call of telnet_run is one action.  The bytes of   *)
(* a session are TelnetInput's subject; here a reception is what it means   *)
(* to the login: a right or wrong credential, a part of one, a control      *)
(* character, nothing, or an error.                                         *)
(***************************************************************************)
EXTENDS Naturals

CONSTANTS
  TxRetriesMax,      \* TELNET_TX_RETRIES_MAX
  LoginRetriesMax,   \* TELNET_LOGIN_RETRIES_MAX
  Timeout            \* servers_get_timeout() / TELNET_CYCLE_TIME_MS

ASSUME TelnetConstants ==
  /\ TxRetriesMax \in Nat /\ LoginRetriesMax \in Nat \ {0} /\ Timeout \in Nat

VARIABLES
  telnet,    \* telnet_data
  sockets,   \* the telnet sockets the network stack has open
  attempt    \* history: the credentials of this login attempt that matched

Substates == {"WELCOME", "SND_USER_OPTIONS", "REQ_USER", "GET_USER", "REQ_PASSWORD",
              "SND_PASSWORD_OPTIONS", "GET_PASSWORD", "INVALID_LOGIN", "SND_REPL_OPTIONS",
              "LOGIN_SUCCESS"}

\* telnet_init; the rest of telnet_data is zero.
TelnetInit ==
  /\ telnet = [state |-> "DISABLED", substate |-> "WELCOME", enabled |-> FALSE,
               sd |-> FALSE, n_sd |-> FALSE, txRetries |-> 0, loginRetries |-> 0,
               credentialsValid |-> FALSE, timeout |-> 0]
  /\ sockets = {}
  /\ attempt = {}

InSession(t) == t.state \in {"CONNECTED", "LOGGED_IN"}

\* telnet_reset: servers_close_socket on both descriptors, closed or not.
Reset(t) == [t EXCEPT !.n_sd = FALSE, !.sd = FALSE, !.state = "START"]

\* telnet_disable.
Disable(t) == [Reset(t) EXCEPT !.enabled = FALSE, !.state = "DISABLED"]

\* telnet_enable.
Enable(t) == [t EXCEPT !.enabled = TRUE]

\* Closing a descriptor closes its socket; opening is done by the actions.
Tracked(t) == {s \in {"listen", "client"} : IF s = "listen" THEN t.sd ELSE t.n_sd}

\* The end of telnet_run: a session that has been silent too long is reset.
TimeoutUnchecked(t) ==
  IF InSession(t) /\ t.timeout <= Timeout THEN [t EXCEPT !.timeout = @ + 1] ELSE t
CountTimeout(t) ==
  CASE ~InSession(t) -> t
    [] InSession(t) /\ t.timeout > Timeout -> Reset([t EXCEPT !.timeout = @ + 1])
    [] OTHER -> [t EXCEPT !.timeout = @ + 1]

\* The step of telnet_run that leaves t; sockets whose descriptors were closed go.
Ran(t) ==
  /\ telnet' = CountTimeout(t)
  /\ sockets' = sockets \ (Tracked(telnet) \ Tracked(telnet'))

-----------------------------------------------------------------------------
\* telnet_wait_for_enabled forgets both descriptors.
WaitForEnabled ==
  /\ telnet.state = "DISABLED"
  /\ telnet' = [telnet EXCEPT !.sd = FALSE, !.n_sd = FALSE,
                              !.state = IF telnet.enabled THEN "START" ELSE "DISABLED"]
  /\ UNCHANGED <<sockets, attempt>>

\* telnet_create_socket: socket, bind and listen, or it is closed again.
CreateSocket(ok) ==
  /\ telnet.state = "START"
  /\ telnet' = IF ok THEN [telnet EXCEPT !.sd = TRUE, !.state = "LISTEN"] ELSE telnet
  /\ sockets' = IF ok THEN sockets \cup {"listen"} ELSE sockets
  /\ UNCHANGED attempt

\* telnet_wait_for_connection.
AcceptsNobody == telnet.state = "LISTEN" /\ UNCHANGED <<telnet, sockets, attempt>>

AcceptFails ==
  /\ telnet.state = "LISTEN"
  /\ Ran(Reset(telnet))
  /\ UNCHANGED attempt

Accept ==
  /\ telnet.state = "LISTEN"
  /\ telnet' = CountTimeout([telnet EXCEPT
       !.sd = FALSE, !.n_sd = TRUE, !.state = "CONNECTED", !.substate = "WELCOME",
       !.txRetries = 0, !.loginRetries = 0, !.timeout = 0, !.credentialsValid = TRUE])
  /\ sockets' = (sockets \ {"listen"}) \cup {"client"}
  /\ attempt' = {}

\* telnet_send_non_blocking: what it leaves, by what send did.
Sent(t, result) ==
  LET again == [t EXCEPT !.txRetries = @ + 1]
  IN  CASE result = "ok" -> [t EXCEPT !.txRetries = 0]
        [] result = "again" /\ again.txRetries <= TxRetriesMax -> again
        [] OTHER -> Reset(again)

\* telnet_recv_text_non_blocking.
Received(t, result) ==
  CASE result = "nothing" -> t
    [] result = "fail" -> Reset(t)
    [] OTHER -> [t EXCEPT !.timeout = 0]

SendResults == {"ok", "again", "fail"}

NextSubstate == [WELCOME |-> "SND_USER_OPTIONS", SND_USER_OPTIONS |-> "REQ_USER",
                 REQ_USER |-> "GET_USER", REQ_PASSWORD |-> "SND_PASSWORD_OPTIONS",
                 SND_PASSWORD_OPTIONS |-> "GET_PASSWORD", SND_REPL_OPTIONS |-> "LOGIN_SUCCESS"]

\* telnet_send_and_proceed, after the reception of left over characters where there is
\* one; when that reception fails, send meets a closed descriptor.
SendAndProceed(result, leftover) ==
  LET before == Received(telnet, leftover)
      after == Sent(before, IF before.n_sd THEN result ELSE "fail")
  IN  /\ telnet.state = "CONNECTED" /\ telnet.substate \in DOMAIN NextSubstate
      /\ telnet.substate \notin {"REQ_USER", "SND_PASSWORD_OPTIONS"} => leftover = "nothing"
      /\ Ran(IF result = "ok" /\ before.n_sd
               THEN [after EXCEPT !.substate = NextSubstate[telnet.substate]] ELSE after)
      /\ UNCHANGED attempt

\* A reception while a credential is awaited that does not complete it.
GetPart(result) ==
  /\ telnet.state = "CONNECTED" /\ telnet.substate \in {"GET_USER", "GET_PASSWORD"}
  /\ Ran(Received(telnet, result))
  /\ UNCHANGED attempt

\* telnet_process_credential decides on the user name.
GetUser(right) ==
  /\ telnet.state = "CONNECTED" /\ telnet.substate = "GET_USER"
  /\ Ran([telnet EXCEPT !.timeout = 0, !.credentialsValid = right, !.substate = "REQ_PASSWORD"])
  /\ attempt' = IF right THEN {"user"} ELSE {}

\* The password, on top of what the user name gave.
GetPasswordOnly(right) ==
  /\ telnet.state = "CONNECTED" /\ telnet.substate = "GET_PASSWORD"
  /\ Ran([telnet EXCEPT !.timeout = 0, !.credentialsValid = right,
                        !.substate = IF right THEN "SND_REPL_OPTIONS" ELSE "INVALID_LOGIN"])
  /\ attempt' = IF right THEN attempt \cup {"pass"} ELSE attempt

GetPassword(right) ==
  LET valid == telnet.credentialsValid /\ right
  IN  /\ telnet.state = "CONNECTED" /\ telnet.substate = "GET_PASSWORD"
      /\ Ran([telnet EXCEPT !.timeout = 0, !.credentialsValid = valid,
                            !.substate = IF valid THEN "SND_REPL_OPTIONS" ELSE "INVALID_LOGIN"])
      /\ attempt' = IF right THEN attempt \cup {"pass"} ELSE attempt

InvalidLogin(result) ==
  LET after == Sent(telnet, result)
      counted == [after EXCEPT !.credentialsValid = TRUE, !.loginRetries = @ + 1]
  IN  /\ telnet.state = "CONNECTED" /\ telnet.substate = "INVALID_LOGIN"
      /\ Ran(CASE result # "ok" -> after
               [] result = "ok" /\ counted.loginRetries >= LoginRetriesMax -> Reset(counted)
               [] OTHER -> [counted EXCEPT !.substate = "SND_USER_OPTIONS"])
      /\ attempt' = IF result = "ok" THEN {} ELSE attempt

\* telnet_reset_buffer on success: see TelnetInput.
LoginSuccess(result) ==
  /\ telnet.state = "CONNECTED" /\ telnet.substate = "LOGIN_SUCCESS"
  /\ Ran(IF result = "ok" THEN [Sent(telnet, result) EXCEPT !.state = "LOGGED_IN"]
                          ELSE Sent(telnet, result))
  /\ UNCHANGED attempt

\* telnet_process without Ctrl-F among the characters.
ProcessInput(result) ==
  /\ telnet.state = "LOGGED_IN"
  /\ Ran(Received(telnet, result))
  /\ UNCHANGED attempt

\* One telnet_run, but for Ctrl-F, which reaches beyond telnet (see ServersTask).
TelnetRun ==
  \/ WaitForEnabled
  \/ \E ok \in BOOLEAN : CreateSocket(ok)
  \/ AcceptsNobody \/ AcceptFails \/ Accept
  \/ \E r \in SendResults, l \in {"data", "nothing", "fail"} : SendAndProceed(r, l)
  \/ \E r \in {"data", "nothing", "fail"} : GetPart(r) \/ ProcessInput(r)
  \/ \E right \in BOOLEAN : GetUser(right) \/ GetPassword(right)
  \/ \E r \in SendResults : InvalidLogin(r) \/ LoginSuccess(r)

-----------------------------------------------------------------------------
\* A client reaches the REPL only when the user name and the password of one and the same
\* attempt matched, whatever was valid in an attempt before (telnet_run's
\* credentialsValid, set and reset in four substates).
LoginNeedsBoth ==
  \/ telnet.state = "LOGGED_IN"
  \/ telnet.state = "CONNECTED" /\ telnet.substate \in {"SND_REPL_OPTIONS", "LOGIN_SUCCESS"}
  => attempt = {"user", "pass"}
=============================================================================

-------------------------- MODULE ServersTaskProofs --------------------------
(***************************************************************************)
(* LoginNeedsBoth and OffIsOff of ServersTask for every set of callers, any *)
(* scheduling of their delays, and every limit of retries and time.         *)
(***************************************************************************)
EXTENDS ServersTask, TLAPS

TelnetStates == {"DISABLED", "START", "LISTEN", "CONNECTED", "LOGGED_IN"}

TelnetData ==
  [state : TelnetStates, substate : Substates, enabled : BOOLEAN, sd : BOOLEAN, n_sd : BOOLEAN,
   txRetries : Nat, loginRetries : Nat, credentialsValid : BOOLEAN, timeout : Nat]

\* The descriptors that are open are those of the state.
DescriptorsOfState(t) ==
  /\ t.state \in {"DISABLED", "START"} => ~t.sd /\ ~t.n_sd
  /\ t.state = "LISTEN" => t.sd /\ ~t.n_sd
  /\ t.state \in {"CONNECTED", "LOGGED_IN"} => ~t.sd /\ t.n_sd

\* credentialsValid speaks of the user name of this attempt while the password is awaited,
\* and both credentials matched where the login has been accepted.
LoginSoFar(t, matched) ==
  /\ matched \subseteq {"user", "pass"}
  /\ (/\ t.state = "CONNECTED"
      /\ t.substate \in {"REQ_PASSWORD", "SND_PASSWORD_OPTIONS", "GET_PASSWORD"}
      /\ t.credentialsValid)
     => "user" \in matched
  /\ (t.state = "CONNECTED" /\ t.substate \in {"SND_REPL_OPTIONS", "LOGIN_SUCCESS"}) => matched = {"user", "pass"}
  /\ t.state = "LOGGED_IN" => matched = {"user", "pass"}

Good(t, matched) == t \in TelnetData /\ DescriptorsOfState(t) /\ LoginSoFar(t, matched)

TelnetInv == Good(telnet, attempt) /\ sockets = Tracked(telnet)

Flags == [enabled : BOOLEAN, do_enable : BOOLEAN, do_disable : BOOLEAN,
          do_reset : BOOLEAN, reset_and_safe_boot : BOOLEAN]

FtpData == [enabled : BOOLEAN, state : {"DISABLED", "START", "READY"}]

Idle == telnet.state = "DISABLED" /\ ftp.state = "DISABLED"
Off == Idle /\ ~telnet.enabled /\ ~ftp.enabled

\* The task has enabled a server and not yet said so.
Enabling == pc \in {"enable_ftp", "set_enabled"}

\* The inductive invariant: the servers are off as soon as the task has disabled them,
\* before it clears the flags, and run only after it has set the flag.
IInv ==
  /\ TelnetInv
  /\ servers \in Flags
  /\ ftp \in FtpData
  /\ ~servers.enabled => Idle /\ (~Enabling => Off) /\ (pc = "enable_ftp" => ~ftp.enabled)
  /\ pc \in {"clear_disable", "clear_enabled"} => Off

-----------------------------------------------------------------------------
\* telnet_reset leaves a good state whatever it finds.
LEMMA ResetIsGood ==
  ASSUME NEW t \in TelnetData, NEW m \in SUBSET {"user", "pass"}
  PROVE  Good(Reset(t), m) /\ ~Reset(t).sd /\ ~Reset(t).n_sd
  BY Zenon DEF Good, Reset, TelnetData, TelnetStates, DescriptorsOfState, LoginSoFar

\* The timeout at the end of telnet_run changes nothing else, or resets.
LEMMA CountIsGood ==
  ASSUME NEW t, NEW m, Good(t, m)
  PROVE  /\ Good(CountTimeout(t), m)
         /\ CountTimeout(t).sd => t.sd
         /\ CountTimeout(t).n_sd => t.n_sd
  <1> DEFINE u == [t EXCEPT !.timeout = @ + 1]
  <1>1. t \in TelnetData /\ m \in SUBSET {"user", "pass"}
    BY DEF Good, LoginSoFar
  <1>2. u \in TelnetData /\ Good(u, m) /\ u.sd = t.sd /\ u.n_sd = t.n_sd
    BY <1>1 DEF Good, TelnetData, DescriptorsOfState, LoginSoFar
  <1>3. Good(Reset(u), m) /\ ~Reset(u).sd /\ ~Reset(u).n_sd
    BY <1>1, <1>2, ResetIsGood
  <1>4. CountTimeout(t) \in {t, u, Reset(u)}
    BY DEF CountTimeout
  <1> QED BY Zenon, <1>2, <1>3, <1>4

\* A step of telnet_run that opens nothing keeps the sockets those of the descriptors.
LEMMA RanIsGood ==
  ASSUME TelnetInv, NEW t, Good(t, attempt'), t.sd => telnet.sd, t.n_sd => telnet.n_sd, Ran(t)
  PROVE  TelnetInv'
  <1>1. Good(telnet', attempt') /\ (telnet'.sd => telnet.sd) /\ (telnet'.n_sd => telnet.n_sd)
    BY CountIsGood DEF Ran
  <1>2. Tracked(telnet') \subseteq Tracked(telnet)
    BY <1>1 DEF Tracked
  <1>3. sockets' = Tracked(telnet')
    BY <1>2 DEF Ran, TelnetInv
  <1> QED BY <1>1, <1>3 DEF TelnetInv, Good, TelnetData, DescriptorsOfState, LoginSoFar, Tracked

\* What sending and receiving leave.
LEMMA SentIsGood ==
  ASSUME NEW t, NEW m, NEW r, Good(t, m)
  PROVE  /\ Good(Sent(t, r), m)
         /\ Sent(t, r).sd => t.sd
         /\ Sent(t, r).n_sd => t.n_sd
  <1> DEFINE u == [t EXCEPT !.txRetries = @ + 1]
             v == [t EXCEPT !.txRetries = 0]
  <1>1. t \in TelnetData /\ m \in SUBSET {"user", "pass"}
    BY DEF Good, LoginSoFar
  <1>2. u \in TelnetData /\ Good(u, m) /\ u.sd = t.sd /\ u.n_sd = t.n_sd
    BY <1>1 DEF Good, TelnetData, DescriptorsOfState, LoginSoFar
  <1>3. Good(v, m) /\ v.sd = t.sd /\ v.n_sd = t.n_sd
    BY <1>1 DEF Good, TelnetData, DescriptorsOfState, LoginSoFar
  <1>4. Good(Reset(u), m) /\ ~Reset(u).sd /\ ~Reset(u).n_sd
    BY <1>1, <1>2, ResetIsGood
  <1>5. Sent(t, r) \in {u, v, Reset(u)}
    BY DEF Sent
  <1> QED BY Zenon, <1>2, <1>3, <1>4, <1>5

LEMMA ReceivedIsGood ==
  ASSUME NEW t, NEW m, NEW r, Good(t, m)
  PROVE  /\ Good(Received(t, r), m)
         /\ Received(t, r).sd => t.sd
         /\ Received(t, r).n_sd => t.n_sd
  <1> DEFINE v == [t EXCEPT !.timeout = 0]
  <1>1. t \in TelnetData /\ m \in SUBSET {"user", "pass"}
    BY DEF Good, LoginSoFar
  <1>2. Good(v, m) /\ v.sd = t.sd /\ v.n_sd = t.n_sd
    BY <1>1 DEF Good, TelnetData, DescriptorsOfState, LoginSoFar
  <1>3. Good(Reset(t), m) /\ ~Reset(t).sd /\ ~Reset(t).n_sd
    BY <1>1, ResetIsGood
  <1>4. Received(t, r) \in {t, v, Reset(t)}
    BY DEF Received
  <1> QED BY Zenon, <1>2, <1>3, <1>4

-----------------------------------------------------------------------------
\* Every telnet_run keeps the descriptors and the login as they should be.
LEMMA TelnetRunKeeps ==
  ASSUME TelnetInv, TelnetRun
  PROVE  TelnetInv'
  <1>1. Good(telnet, attempt) /\ telnet \in TelnetData /\ attempt \in SUBSET {"user", "pass"}
    BY DEF TelnetInv, Good, LoginSoFar
  <1>2. CASE WaitForEnabled
    <2>1. telnet' = [telnet EXCEPT !.state = IF telnet.enabled THEN "START" ELSE "DISABLED"]
      BY Zenon, <1>1, <1>2 DEF WaitForEnabled, Good, TelnetData, DescriptorsOfState
    <2>2. Good(telnet', attempt') /\ telnet'.sd = telnet.sd /\ telnet'.n_sd = telnet.n_sd
      BY Zenon, <1>1, <1>2, <2>1 DEF WaitForEnabled, Good, TelnetData, TelnetStates, DescriptorsOfState, LoginSoFar
    <2> QED BY Zenon, <1>2, <2>2 DEF WaitForEnabled, TelnetInv, Tracked
  <1>3. ASSUME NEW ok \in BOOLEAN, CreateSocket(ok) PROVE TelnetInv'
    <2>1. CASE ~ok
      BY <1>3, <2>1 DEF CreateSocket, TelnetInv
    <2>2. CASE ok
      <3>1. Good(telnet', attempt') /\ telnet'.sd /\ ~telnet'.n_sd /\ ~telnet.sd /\ ~telnet.n_sd
        BY Zenon, <1>1, <1>3, <2>2 DEF CreateSocket, Good, TelnetData, TelnetStates, DescriptorsOfState, LoginSoFar
      <3>2. Tracked(telnet) = {} /\ Tracked(telnet') = {"listen"}
        BY <3>1 DEF Tracked
      <3> QED BY <1>3, <2>2, <3>1, <3>2 DEF CreateSocket, TelnetInv
    <2> QED BY <2>1, <2>2
  <1>4. CASE AcceptsNobody
    BY <1>4 DEF AcceptsNobody, TelnetInv
  <1>5. CASE AcceptFails
    <2>1. Good(Reset(telnet), attempt') /\ ~Reset(telnet).sd /\ ~Reset(telnet).n_sd
      BY <1>1, <1>5, ResetIsGood DEF AcceptFails
    <2> QED BY <1>5, <2>1, RanIsGood DEF AcceptFails
  <1>6. CASE Accept
    <2> DEFINE t == [telnet EXCEPT
          !.sd = FALSE, !.n_sd = TRUE, !.state = "CONNECTED", !.substate = "WELCOME",
          !.txRetries = 0, !.loginRetries = 0, !.timeout = 0, !.credentialsValid = TRUE]
    <2>1. Good(t, attempt') /\ t.n_sd /\ ~t.sd /\ t.timeout = 0 /\ InSession(t)
      BY ZenonT(30), <1>1, <1>6 DEF Accept, Good, TelnetData, TelnetStates, Substates, DescriptorsOfState, LoginSoFar, InSession
    <2>2. telnet' = [t EXCEPT !.timeout = @ + 1]
      BY <1>6, <2>1, TelnetConstants DEF Accept, CountTimeout
    <2>3. Good(telnet', attempt') /\ telnet'.n_sd /\ ~telnet'.sd
      <3>1. telnet' = CountTimeout(t)
        BY <1>6 DEF Accept
      <3>2. Good(CountTimeout(t), attempt')
        BY <2>1, CountIsGood
      <3>3. telnet'.n_sd = t.n_sd /\ telnet'.sd = t.sd
        BY <2>1, <2>2 DEF Good, TelnetData
      <3> QED BY Zenon, <2>1, <3>1, <3>2, <3>3
    <2>4. telnet.sd /\ ~telnet.n_sd
      BY <1>1, <1>6 DEF Accept, Good, DescriptorsOfState
    <2>5. Tracked(telnet) = {"listen"} /\ Tracked(telnet') = {"client"}
      BY <2>3, <2>4 DEF Tracked
    <2> QED BY <1>6, <2>3, <2>5 DEF Accept, TelnetInv
  <1>7. ASSUME NEW r, NEW l, SendAndProceed(r, l) PROVE TelnetInv'
    <2> DEFINE before == Received(telnet, l)
               after == Sent(before, IF before.n_sd THEN r ELSE "fail")
               t == IF r = "ok" /\ before.n_sd
                      THEN [after EXCEPT !.substate = NextSubstate[telnet.substate]] ELSE after
    <2>1. attempt' = attempt /\ Ran(t)
      BY <1>7 DEF SendAndProceed
    <2>2. Good(before, attempt) /\ (before.sd => telnet.sd) /\ (before.n_sd => telnet.n_sd)
      BY <1>1, ReceivedIsGood
    <2>3. Good(after, attempt) /\ (after.sd => before.sd) /\ (after.n_sd => before.n_sd)
      BY <2>2, SentIsGood
    <2>4. CASE ~(r = "ok" /\ before.n_sd)
      BY <2>1, <2>2, <2>3, <2>4, RanIsGood
    <2>5. CASE r = "ok" /\ before.n_sd
      <3>1. before \in TelnetData /\ before.state = telnet.state /\ before.substate = telnet.substate
            /\ before.credentialsValid = telnet.credentialsValid
        <4>1. l # "fail"
          BY <1>1, <2>5 DEF Received, Reset, TelnetData
        <4> QED BY <1>1, <4>1 DEF Received, TelnetData
      <3>2. after = [before EXCEPT !.txRetries = 0]
        BY <2>5 DEF Sent
      <3>3. /\ after \in TelnetData /\ after.state = telnet.state /\ after.substate = telnet.substate
            /\ after.credentialsValid = telnet.credentialsValid
        BY <3>1, <3>2 DEF TelnetData
      <3>4. telnet.state = "CONNECTED" /\ telnet.substate \in DOMAIN NextSubstate
        BY <1>7 DEF SendAndProceed
      <3>5. Good(t, attempt) /\ t.sd = after.sd /\ t.n_sd = after.n_sd
        BY <2>3, <2>5, <3>3, <3>4
           DEF NextSubstate, Good, TelnetData, Substates, DescriptorsOfState, LoginSoFar
      <3> QED BY Zenon, <2>1, <2>2, <2>3, <3>5, RanIsGood
    <2> QED BY <2>4, <2>5
  <1>8. ASSUME NEW r, GetPart(r) \/ ProcessInput(r) PROVE TelnetInv'
    <2>1. attempt' = attempt /\ Ran(Received(telnet, r))
      BY <1>8 DEF GetPart, ProcessInput
    <2> QED BY <1>1, <2>1, ReceivedIsGood, RanIsGood
  <1>9. ASSUME NEW right \in BOOLEAN, GetUser(right) PROVE TelnetInv'
    <2> DEFINE t == [telnet EXCEPT !.timeout = 0, !.credentialsValid = right, !.substate = "REQ_PASSWORD"]
    <2>1. Good(t, attempt') /\ t.sd = telnet.sd /\ t.n_sd = telnet.n_sd
      BY Zenon, <1>1, <1>9 DEF GetUser, Good, TelnetData, Substates, DescriptorsOfState, LoginSoFar
    <2> QED BY Zenon, <1>9, <2>1, RanIsGood DEF GetUser
  <1>10. ASSUME NEW right \in BOOLEAN, GetPassword(right) PROVE TelnetInv'
    <2> DEFINE valid == telnet.credentialsValid /\ right
               t == [telnet EXCEPT !.timeout = 0, !.credentialsValid = valid,
                       !.substate = IF valid THEN "SND_REPL_OPTIONS" ELSE "INVALID_LOGIN"]
    <2>1. Ran(t)
      BY <1>10 DEF GetPassword
    <2>2. Good(t, attempt') /\ t.sd = telnet.sd /\ t.n_sd = telnet.n_sd
      BY ZenonT(30), <1>1, <1>10 DEF GetPassword, Good, TelnetData, Substates, DescriptorsOfState, LoginSoFar
    <2> QED BY Zenon, <2>1, <2>2, RanIsGood
  <1>11. ASSUME NEW r, InvalidLogin(r) PROVE TelnetInv'
    <2> DEFINE after == Sent(telnet, r)
               counted == [after EXCEPT !.credentialsValid = TRUE, !.loginRetries = @ + 1]
               again == [counted EXCEPT !.substate = "SND_USER_OPTIONS"]
    <2>1. Good(after, attempt) /\ (after.sd => telnet.sd) /\ (after.n_sd => telnet.n_sd)
      BY <1>1, SentIsGood
    <2>2. CASE r # "ok"
      <3>1. attempt' = attempt /\ Ran(after)
        BY <1>11, <2>2 DEF InvalidLogin
      <3> QED BY <2>1, <3>1, RanIsGood
    <2>3. CASE r = "ok"
      <3>1. attempt' = {}
        BY <1>11, <2>3 DEF InvalidLogin
      <3>2. after = [telnet EXCEPT !.txRetries = 0] /\ telnet.state = "CONNECTED"
        BY <1>11, <2>3 DEF Sent, InvalidLogin
      <3>3. counted \in TelnetData /\ again \in TelnetData
        <4>1. after \in TelnetData
          BY <2>1 DEF Good
        <4>2. after.loginRetries + 1 \in Nat
          BY <4>1 DEF TelnetData
        <4>3. counted \in TelnetData
          BY Zenon, <4>1, <4>2 DEF TelnetData
        <4> HIDE DEF counted
        <4> QED BY <4>3 DEF TelnetData, Substates
      <3>4. Good(again, attempt') /\ again.sd = telnet.sd /\ again.n_sd = telnet.n_sd
        BY <1>1, <3>1, <3>2, <3>3 DEF Good, TelnetData, DescriptorsOfState, LoginSoFar
      <3>5. Good(Reset(counted), attempt') /\ ~Reset(counted).sd /\ ~Reset(counted).n_sd
        BY <3>1, <3>3, ResetIsGood
      <3>6. Ran(Reset(counted)) \/ Ran(again)
        BY <1>11, <2>3 DEF InvalidLogin
      <3> QED BY Zenon, <3>4, <3>5, <3>6, RanIsGood
    <2> QED BY <2>2, <2>3
  <1>12. ASSUME NEW r, LoginSuccess(r) PROVE TelnetInv'
    <2>1. Good(Sent(telnet, r), attempt) /\ (Sent(telnet, r).sd => telnet.sd) /\ (Sent(telnet, r).n_sd => telnet.n_sd)
      BY <1>1, SentIsGood
    <2>2. CASE r # "ok"
      <3>1. attempt' = attempt /\ Ran(Sent(telnet, r))
        BY <1>12, <2>2 DEF LoginSuccess
      <3> QED BY <2>1, <3>1, RanIsGood
    <2>3. CASE r = "ok"
      <3> DEFINE t == [Sent(telnet, r) EXCEPT !.state = "LOGGED_IN"]
      <3>1. attempt' = attempt /\ Ran(t)
        BY <1>12, <2>3 DEF LoginSuccess
      <3>2. Sent(telnet, r) = [telnet EXCEPT !.txRetries = 0]
        BY <2>3 DEF Sent
      <3>3. Sent(telnet, r) \in TelnetData /\ attempt = {"user", "pass"} /\ ~telnet.sd /\ telnet.n_sd
        BY <1>1, <1>12, <2>1 DEF LoginSuccess, Good, DescriptorsOfState, LoginSoFar
      <3>4. t \in TelnetData /\ t.state = "LOGGED_IN" /\ t.sd = telnet.sd /\ t.n_sd = telnet.n_sd
        BY Zenon, <1>1, <3>2, <3>3 DEF TelnetData, TelnetStates
      <3>5. Good(t, attempt)
        BY Zenon, <3>3, <3>4 DEF Good, DescriptorsOfState, LoginSoFar
      <3> QED BY Zenon, <3>1, <3>4, <3>5, RanIsGood
    <2> QED BY <2>2, <2>3
  <1> QED BY <1>2, <1>3, <1>4, <1>5, <1>6, <1>7, <1>8, <1>9, <1>10, <1>11, <1>12 DEF TelnetRun

-----------------------------------------------------------------------------
\* telnet_disable, whatever state the server is in.
LEMMA DisableKeeps ==
  ASSUME TelnetInv, DisableTelnet
  PROVE  TelnetInv' /\ ~telnet'.enabled /\ telnet'.state = "DISABLED"
  <1>1. telnet \in TelnetData /\ attempt \in SUBSET {"user", "pass"} /\ sockets = Tracked(telnet)
    BY DEF TelnetInv, Good, LoginSoFar
  <1>2. /\ telnet' \in TelnetData /\ telnet'.state = "DISABLED" /\ ~telnet'.enabled
        /\ ~telnet'.sd /\ ~telnet'.n_sd
    BY Zenon, <1>1 DEF DisableTelnet, Disable, Reset, TelnetData, TelnetStates
  <1>3. sockets' = {} /\ Tracked(telnet') = {}
    BY <1>1, <1>2 DEF DisableTelnet, Tracked
  <1>4. Good(telnet', attempt')
    BY <1>1, <1>2 DEF DisableTelnet, Good, DescriptorsOfState, LoginSoFar
  <1> QED BY <1>2, <1>3, <1>4 DEF TelnetInv

LEMMA InitInv == Init => IInv
  <1> SUFFICES ASSUME Init PROVE IInv
    OBVIOUS
  <1>1. Good(telnet, attempt)
    BY DEF Init, TelnetInit, Good, TelnetData, TelnetStates, Substates, DescriptorsOfState, LoginSoFar
  <1>2. sockets = Tracked(telnet)
    BY DEF Init, TelnetInit, Tracked
  <1>3. Off /\ ftp \in FtpData
    BY DEF Init, TelnetInit, Off, Idle, FtpData
  <1> QED BY <1>1, <1>2, <1>3 DEF IInv, TelnetInv, Init, Flags, Off, Enabling

\* Steps that change none of the flags' meanings: the servers stay as they are, the task
\* does not come to where they must be off, nor leave where they may be enabled.
LEMMA SameInv ==
  ASSUME IInv, UNCHANGED <<telnetVars, ftp>>, servers' \in Flags, servers'.enabled = servers.enabled,
         pc' = pc \/ (~Enabling /\ pc' \in {"loop", "run", "end", "restart"})
  PROVE  IInv'
  <1>1. TelnetInv'
    BY DEF IInv, TelnetInv, telnetVars
  <1>2. UNCHANGED <<telnet, ftp>>
    BY DEF telnetVars
  <1>3. Idle' = Idle /\ Off' = Off /\ ftp' \in FtpData
    BY <1>2 DEF Idle, Off, IInv
  <1> QED BY <1>1, <1>2, <1>3 DEF IInv, Enabling

\* The task comes to the servers' turn, which it takes outside of the two windows.
LEMMA RunsInv ==
  ASSUME servers' \in Flags, TelnetInv', ftp' \in FtpData, ~servers'.enabled => Off',
         pc' \in {"loop", "run", "end", "restart"}
  PROVE  IInv'
  BY DEF IInv, Off, Enabling

LEMMA NextInv == IInv /\ [Next]_vars => IInv'
  <1> SUFFICES ASSUME IInv, [Next]_vars PROVE IInv'
    OBVIOUS
  <1>1. TelnetInv /\ servers \in Flags /\ ftp \in FtpData
    BY DEF IInv
  <1>a. telnet \in TelnetData /\ attempt \in SUBSET {"user", "pass"} /\ sockets = Tracked(telnet)
    BY <1>1 DEF TelnetInv, Good, LoginSoFar
  <1>b. ~servers.enabled /\ ~Enabling => Off
    BY DEF IInv
  <1>2. CASE DoEnable
    <2>1. TelnetInv'
      <3>1. telnet' \in TelnetData /\ Good(telnet', attempt') /\ telnet'.sd = telnet.sd /\ telnet'.n_sd = telnet.n_sd
        BY Zenon, <1>1, <1>a, <1>2 DEF DoEnable, Enable, TelnetInv, Good, TelnetData, DescriptorsOfState, LoginSoFar
      <3> QED BY <1>a, <1>2, <3>1 DEF DoEnable, TelnetInv, Tracked
    <2>2. telnet'.state = telnet.state
      BY <1>a, <1>2 DEF DoEnable, Enable, TelnetData
    <2>3. pc = "loop" /\ pc' = "enable_ftp" /\ UNCHANGED <<servers, ftp>>
      BY <1>2 DEF DoEnable
    <2> QED BY <1>1, <1>b, <2>1, <2>2, <2>3 DEF IInv, Idle, Off, Enabling
  <1>3. CASE EnableFtp
    <2>1. TelnetInv' /\ UNCHANGED <<telnet, servers>>
      BY <1>1, <1>3 DEF EnableFtp, telnetVars, TelnetInv
    <2>2. pc = "enable_ftp" /\ pc' = "set_enabled" /\ ftp' \in FtpData /\ ftp'.state = ftp.state
      BY Zenon, <1>1, <1>3 DEF EnableFtp, FtpData
    <2> QED BY <1>1, <2>1, <2>2 DEF IInv, Idle, Enabling
  <1>4. CASE SetEnabled
    <2>1. TelnetInv' /\ ftp' = ftp /\ pc' = "clear_enable"
      BY <1>1, <1>4 DEF SetEnabled, telnetVars, TelnetInv
    <2>2. servers' \in Flags /\ servers'.enabled
      BY Zenon, <1>1, <1>4 DEF SetEnabled, Flags
    <2> QED BY <1>1, <2>1, <2>2 DEF IInv
  <1>5. CASE ClearEnable
    <2>1. servers' \in Flags /\ servers'.enabled = servers.enabled
      BY Zenon, <1>1, <1>5 DEF ClearEnable, Flags
    <2> QED BY <1>5, <2>1, SameInv DEF ClearEnable, Enabling
  <1>6. CASE DoDisable
    <2>1. TelnetInv' /\ ~telnet'.enabled /\ telnet'.state = "DISABLED"
      BY <1>1, <1>6, DisableKeeps DEF DoDisable
    <2>2. ftp' \in FtpData /\ Off' /\ Idle'
      BY <1>6, <2>1 DEF DoDisable, FtpDisabled, FtpData, Off, Idle
    <2>3. servers' = servers /\ pc' = "clear_disable"
      BY <1>6 DEF DoDisable
    <2> QED BY <1>1, <2>1, <2>2, <2>3 DEF IInv, Off
  <1>7. CASE ClearDisable
    <2>1. servers' \in Flags /\ servers'.enabled = servers.enabled
      BY Zenon, <1>1, <1>7 DEF ClearDisable, Flags
    <2>2. Off /\ TelnetInv' /\ UNCHANGED <<telnet, ftp>> /\ pc' = "clear_enabled"
      BY <1>1, <1>7 DEF ClearDisable, telnetVars, TelnetInv, IInv
    <2> QED BY <1>1, <2>1, <2>2 DEF IInv, Idle, Off
  <1>8. CASE ClearEnabled
    <2>1. servers' \in Flags
      BY Zenon, <1>1, <1>8 DEF ClearEnabled, Flags
    <2>2. Off /\ TelnetInv' /\ UNCHANGED <<telnet, ftp>> /\ pc' = "run"
      BY <1>1, <1>8 DEF ClearEnabled, telnetVars, TelnetInv, IInv
    <2> QED BY <1>1, <2>1, <2>2 DEF IInv, Idle, Off
  <1>9. CASE DoReset
    <2>1. servers' \in Flags /\ servers'.enabled = servers.enabled /\ pc = "loop" /\ pc' = "run"
      BY Zenon, <1>1, <1>9 DEF DoReset, Flags
    <2>2. CASE servers.enabled
      <3>1. Good(telnet', attempt') /\ ~telnet'.sd /\ ~telnet'.n_sd /\ sockets' = {}
        BY <1>a, <1>9, <2>2, ResetIsGood DEF DoReset
      <3>2. TelnetInv'
        BY <3>1 DEF TelnetInv, Tracked
      <3>3. ftp' \in FtpData
        BY <1>1, <1>9, <2>2 DEF DoReset, FtpData
      <3> QED BY <2>1, <2>2, <3>2, <3>3, RunsInv
    <2>3. CASE ~servers.enabled
      BY <1>9, <2>1, <2>3, SameInv DEF DoReset, telnetVars, Enabling
    <2> QED BY <2>2, <2>3
  <1>10. CASE NothingToDo
    BY <1>1, <1>10, SameInv DEF NothingToDo, Enabling
  <1>11. CASE RunServer
    <2>1. servers' = servers /\ pc = "run" /\ pc' = "end"
      BY <1>11 DEF RunServer
    <2>2. CASE cycle /\ TelnetRun /\ UNCHANGED ftp
      <3>1. TelnetInv'
        BY <1>1, <2>2, TelnetRunKeeps
      <3>2. ASSUME Off PROVE Off'
        <4>1. WaitForEnabled
          BY <2>2, <3>2 DEF Off, Idle, TelnetRun, CreateSocket, AcceptsNobody, AcceptFails, Accept,
             SendAndProceed, GetPart, ProcessInput, GetUser, GetPassword, InvalidLogin, LoginSuccess
        <4> QED BY <1>a, <2>2, <3>2, <4>1 DEF WaitForEnabled, Off, Idle, TelnetData
      <3> QED BY <1>1, <1>b, <2>1, <2>2, <3>1, <3>2, RunsInv DEF Enabling
    <2>3. CASE ~cycle /\ FtpRun /\ UNCHANGED telnetVars
      <3>1. TelnetInv'
        BY <1>1, <2>3 DEF TelnetInv, telnetVars
      <3>2. ftp' \in FtpData
        BY <1>1, <2>3 DEF FtpRun, FtpData
      <3>3. ASSUME Off PROVE Off'
        BY <1>1, <2>3, <3>3 DEF Off, Idle, FtpRun, FtpData, telnetVars
      <3> QED BY <1>1, <1>b, <2>1, <3>1, <3>2, <3>3, RunsInv DEF Enabling
    <2> QED BY <1>11, <2>2, <2>3 DEF RunServer
  <1>12. CASE RunCtrlF
    <2>1. pc = "run" /\ pc' = "end"
      BY <1>12 DEF RunCtrlF
    <2>2. CASE servers.enabled
      <3>1. TelnetInv' /\ ~telnet'.enabled /\ telnet'.state = "DISABLED"
        BY <1>1, <1>12, <2>2, DisableKeeps DEF RunCtrlF
      <3>2. ftp' \in FtpData /\ Off'
        <4>1. ftp' = FtpDisabled
          BY <1>12, <2>2 DEF RunCtrlF
        <4> QED BY <3>1, <4>1 DEF FtpDisabled, FtpData, Off, Idle
      <3>3. servers' \in Flags
        BY Zenon, <1>1, <1>12, <2>2 DEF RunCtrlF, Flags
      <3> QED BY <2>1, <3>1, <3>2, <3>3, RunsInv
    <2>3. CASE ~servers.enabled
      BY <1>1, <1>12, <2>1, <2>3, SameInv DEF RunCtrlF, Enabling
    <2> QED BY <2>2, <2>3
  <1>13. CASE EndCycle \/ SafeBoot
    BY <1>1, <1>13, SameInv DEF EndCycle, SafeBoot, Enabling
  <1>14. CASE Restart
    <2>1. Good(telnet', attempt')
      BY Zenon, <1>14 DEF Restart, Good, TelnetData, TelnetStates, Substates, DescriptorsOfState, LoginSoFar
    <2>2. sockets' = Tracked(telnet') /\ Off' /\ ftp' \in FtpData
      BY <1>14 DEF Restart, Tracked, Off, Idle, FtpDisabled, FtpData
    <2>3. servers' \in Flags /\ pc' = "loop"
      BY <1>14 DEF Restart, Flags
    <2> QED BY <2>1, <2>2, <2>3, RunsInv DEF TelnetInv
  <1>15. ASSUME NEW c \in Callers, Waits(c) \/ Calls(c) PROVE IInv'
    <2>1. UNCHANGED <<telnetVars, ftp, pc>>
      BY Zenon, <1>15 DEF Waits, Calls, Start, StartReturns, Stop, StopPolls, StopReturns, RequestReset, taskVars
    <2>2. servers' \in Flags /\ servers'.enabled = servers.enabled
      BY Zenon, <1>1, <1>15 DEF Waits, Calls, Start, StartReturns, Stop, StopPolls, StopReturns, RequestReset, Flags
    <2> QED BY <2>1, <2>2, SameInv
  <1>16. CASE RequestSafeBoot
    <2>1. servers' \in Flags /\ servers'.enabled = servers.enabled
      BY Zenon, <1>1, <1>16 DEF RequestSafeBoot, Flags
    <2> QED BY <1>16, <2>1, SameInv DEF RequestSafeBoot, taskVars
  <1>17. CASE UNCHANGED vars
    BY <1>1, <1>17, SameInv DEF vars, telnetVars
  <1> QED BY <1>2, <1>3, <1>4, <1>5, <1>6, <1>7, <1>8, <1>9, <1>10, <1>11, <1>12, <1>13, <1>14, <1>15, <1>16, <1>17
          DEF Next, Task

\* Whatever tasks call servers_start, servers_stop and servers_reset, and however the
\* servers task is scheduled between its writes: while servers_are_enabled() says no,
\* neither server runs or holds a socket, and one is enabled only in the few writes that
\* end with the flag being set.
THEOREM OffAlwaysOff == Spec => []OffIsOff
  <1>1. IInv => OffIsOff
    BY DEF IInv, OffIsOff, Off, Idle, Enabling, TelnetInv, Good, DescriptorsOfState, Tracked
  <1> QED BY InitInv, NextInv, <1>1, PTL DEF Spec

\* A telnet client reaches the REPL only with the user name and the password of one and the
\* same attempt, for every number of retries, every timeout and every set of callers.
THEOREM LoginAlwaysNeedsBoth == Spec => []LoginNeedsBoth
  <1>1. IInv => LoginNeedsBoth
    BY DEF IInv, LoginNeedsBoth, TelnetInv, Good, LoginSoFar
  <1> QED BY InitInv, NextInv, <1>1, PTL DEF Spec

-----------------------------------------------------------------------------
\* The progress of the only caller's call: what its flag, the servers task and the count of
\* the task's passes say of each other.  Unread the flag is set; read it is being acted on;
\* served it is cleared and has had its effect.
Settles(c) ==
  LET between == pc \notin {"enable_ftp", "set_enabled", "clear_enable", "clear_disable", "clear_enabled"} IN
  /\ caller \in [Callers -> {"idle", "starting", "stopping", "stopped", "deleted"}]
  /\ seen \in [Callers -> 0 .. 2]
  /\ caller[c] = "idle" =>
       /\ ~servers.do_enable /\ ~servers.do_disable /\ between
       /\ servers.enabled = (last = "start")
  /\ caller[c] = "starting" =>
       /\ last = "start" /\ ~servers.do_disable
       /\ seen[c] = 0 => servers.do_enable /\ between
       /\ seen[c] = 1 => \/ pc \in {"enable_ftp", "set_enabled"}
                         \/ servers.enabled /\ (pc = "clear_enable" \/ (pc = "run" /\ ~servers.do_enable))
       /\ seen[c] = 2 => servers.enabled /\ ~servers.do_enable /\ between
  /\ caller[c] = "stopping" =>
       /\ last = "stop" /\ ~servers.do_enable
       /\ seen[c] = 0 => servers.do_disable /\ between
       /\ seen[c] = 1 => \/ pc = "clear_disable"
                         \/ ~servers.do_disable /\ (pc = "clear_enabled" \/ (pc = "run" /\ ~servers.enabled))
       /\ seen[c] = 2 => ~servers.do_disable /\ ~servers.enabled /\ between
  /\ caller[c] = "stopped" =>
       /\ last = "stop" /\ ~servers.enabled
       /\ ~servers.do_enable /\ ~servers.do_disable /\ between

\* A step of the servers task, for a caller that waits or does nothing.
LEMMA TaskSettles ==
  ASSUME NEW main, Callers = {main}, Timely, servers \in Flags, Settles(main), Task
  PROVE  Settles(main)'
  <1> USE DEF Flags
  <1>1. CASE DoEnable
    BY <1>1 DEF DoEnable, FlagsRead, Waiting, callerVars, Settles
  <1>2. CASE EnableFtp \/ SetEnabled \/ ClearEnable
    BY <1>2 DEF EnableFtp, SetEnabled, ClearEnable, callerVars, Settles
  <1>3. CASE DoDisable
    BY <1>3 DEF DoDisable, FlagsRead, Waiting, callerVars, Settles
  <1>4. CASE ClearDisable \/ ClearEnabled
    BY <1>4 DEF ClearDisable, ClearEnabled, callerVars, Settles
  <1>5. CASE DoReset
    BY <1>5 DEF DoReset, FlagsRead, Waiting, callerVars, Settles
  <1>6. CASE NothingToDo
    BY <1>6 DEF NothingToDo, FlagsRead, Waiting, callerVars, Settles
  <1>7. CASE RunServer
    BY <1>7 DEF RunServer, FlagsServed, callerVars, Settles
  <1>8. CASE RunCtrlF
    BY <1>8 DEF RunCtrlF, Settles
  <1>9. CASE EndCycle \/ SafeBoot
    BY <1>9 DEF EndCycle, SafeBoot, callerVars, Settles
  <1>10. CASE Restart
    <2>1. /\ servers' \in Flags /\ ~servers'.enabled /\ ~servers'.do_enable /\ ~servers'.do_disable
          /\ last' = "stop" /\ pc' = "loop"
      BY <1>10 DEF Restart
    <2>2. /\ caller' \in [Callers -> {"idle", "starting", "stopping", "stopped", "deleted"}]
          /\ seen' \in [Callers -> 0 .. 2] /\ caller'[main] = "idle"
      BY <1>10 DEF Restart
    <2> QED BY <2>1, <2>2 DEF Settles
  <1> QED BY <1>1, <1>2, <1>3, <1>4, <1>5, <1>6, <1>7, <1>8, <1>9, <1>10 DEF Task

\* A step of the caller: it gives its flag to the task, or finds it served.
LEMMA CallerSettles ==
  ASSUME NEW main, Callers = {main}, Timely, servers \in Flags, Settles(main), Waits(main) \/ Calls(main)
  PROVE  Settles(main)'
  <1> USE DEF Flags, taskVars
  <1>1. CASE StartReturns(main)
    BY <1>1 DEF StartReturns, Delayed, Settles
  <1>2. CASE StopPolls(main)
    BY <1>2 DEF StopPolls, Delayed, Settles
  <1>3. CASE StopReturns(main)
    BY <1>3 DEF StopReturns, Delayed, Settles
  <1>4. CASE Start(main)
    BY <1>4 DEF Start, Settles
  <1>5. CASE Stop(main)
    BY <1>5 DEF Stop, Settles
  <1>6. CASE RequestReset(main)
    BY <1>6 DEF RequestReset, Settles
  <1> QED BY <1>1, <1>2, <1>3, <1>4, <1>5, <1>6 DEF Waits, Calls

\* When one task calls, and its delays last for a pass of the servers task (the premises of
\* the property's own wording), servers_start and servers_stop have had their effect when
\* they return, whatever is reset, typed or restarted in between.
THEOREM CallsAlwaysTakeEffect ==
  ASSUME NEW CONSTANT main, Callers = {main}, Timely
  PROVE  Spec => []CallsTakeEffect
  <1>1. Init => Settles(main)
    <2> SUFFICES ASSUME Init PROVE Settles(main)
      OBVIOUS
    <2>1. /\ servers \in Flags /\ ~servers.enabled /\ ~servers.do_enable /\ ~servers.do_disable
          /\ last = "stop" /\ pc = "loop"
      BY DEF Init, Flags
    <2>2. /\ caller \in [Callers -> {"idle", "starting", "stopping", "stopped", "deleted"}]
          /\ seen \in [Callers -> 0 .. 2] /\ caller[main] = "idle"
      BY DEF Init
    <2> QED BY <2>1, <2>2 DEF Settles, Flags
  <1>2. IInv /\ Settles(main) /\ [Next]_vars => Settles(main)'
    <2> SUFFICES ASSUME IInv, Settles(main), [Next]_vars PROVE Settles(main)'
      OBVIOUS
    <2>1. servers \in Flags
      BY DEF IInv
    <2>2. CASE Task
      BY <2>1, <2>2, TaskSettles
    <2>3. CASE RequestSafeBoot
      BY <2>1, <2>3 DEF RequestSafeBoot, taskVars, Settles, Flags
    <2>4. CASE \E c \in Callers : Waits(c) \/ Calls(c)
      BY <2>1, <2>4, CallerSettles
    <2>5. CASE UNCHANGED vars
      BY <2>5 DEF vars, Settles
    <2> QED BY <2>2, <2>3, <2>4, <2>5 DEF Next
  <1>3. IInv /\ Settles(main) => CallsTakeEffect
    <2> SUFFICES ASSUME IInv, Settles(main), caller[main] = "idle"
                 PROVE  servers.enabled = (last = "start") /\ (last = "stop" => AllOff)
      BY DEF CallsTakeEffect
    <2>1. servers.enabled = (last = "start") /\ ~Enabling
      BY DEF Settles, Enabling
    <2>2. ASSUME last = "stop" PROVE AllOff
      <3>1. Off /\ ftp = FtpDisabled
        <4>1. Off /\ ftp \in FtpData
          BY <2>1, <2>2 DEF IInv
        <4> QED BY Zenon, <4>1 DEF Off, Idle, FtpData, FtpDisabled
      <3>2. sockets = {}
        BY <3>1 DEF IInv, Off, Idle, TelnetInv, Good, DescriptorsOfState, Tracked
      <3> QED BY <3>1, <3>2 DEF AllOff, Off, Idle
    <2> QED BY <2>1, <2>2
  <1> QED BY <1>1, <1>2, <1>3, InitInv, NextInv, PTL DEF Spec
=============================================================================

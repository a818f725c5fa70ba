---------------------------- MODULE AccountMqtt ----------------------------
(***************************************************************************)
(* The account channel: GoveeMqttClient on top of ReconnectingMqttClient,  *)
(* with the login window it shares with the "Test login" probe of the      *)
(* admin page.                                                             *)
(*                                                                         *)
(* Three paths log in to the same Govee account: connect() (start and      *)
(* reconnect timer), the silent refresh of the bearer (its timer, or a 401 *)
(* of the App API) and the probe.  Each looks at the window, waits for     *)
(* Govee's answer, and counts the login after the answer.                  *)
(*                                                                         *)
(* Time is relative: a login or a dial counts for the ticks it has left in *)
(* its window, a timer holds the ticks left before it may fire, and a Tick *)
(* takes one from all of them.                                             *)
(* The backoff of the reconnect timer is any delay: only the part of it    *)
(* that the dial window asks for is kept.                                  *)
(***************************************************************************)
EXTENDS Integers, FiniteSets, Sequences

CONSTANTS
  MaxFails,      \* MQTT_MAX_AUTH_FAILURES
  MaxLogins,     \* MQTT_MAX_LOGINS_PER_WINDOW
  LoginWindow,   \* MQTT_LOGIN_WINDOW_MS, in ticks
  MaxDials,      \* MAX_CONNECTS_PER_WINDOW
  DialWindow,    \* CONNECT_WINDOW_MS, in ticks
  ReuseTries     \* broken reuses after which the cached bundle is given up

ASSUME AccountAssumption ==
  {MaxFails, MaxLogins, LoginWindow, MaxDials, DialWindow, ReuseTries}
    \subseteq Nat \ {0}

VARIABLES
  alive,         \* not disposed
  phase,         \* what each path waits for: nothing, a login, the IoT key
  sent,          \* the verification code the login of a path carried
  broker,        \* the current broker client
  reusing,       \* persistedAttemptInFlight
  reuseFailures,
  bundle,        \* the persisted credentials
  bearer,        \* a bearer token was handed to the App API client
  code,          \* verificationCode in the client; "spent": Govee is done with it
  asked,         \* info.verificationPending: Govee wants a (fresh) code
  fails,         \* authFailCount
  reconnectIn,   \* reconnectTimer
  refreshIn,     \* refreshTimer
  logins,        \* LoginWindow.times, the oldest first: ticks left in the window
  dials          \* connectTimes, likewise

vars == <<alive, phase, sent, broker, reusing, reuseFailures, bundle, bearer,
          code, asked, fails, reconnectIn, refreshIn, logins, dials>>

Off == -1        \* no timer armed

Paths == {"connect", "refresh", "probe"}
Codes == {"none", "fresh", "spent"}

TypeOK ==
  /\ {alive, reusing, bearer, asked} \subseteq BOOLEAN
  /\ phase \in [Paths -> {"idle", "login", "key"}]
  /\ sent \in [Paths -> Codes]
  /\ broker \in {"none", "dialing", "subscribing", "live"}
  /\ reuseFailures \in 0 .. ReuseTries - 1
  /\ bundle \in {"none", "good", "unusable"}
  /\ code \in Codes
  /\ fails \in Nat
  /\ {reconnectIn, refreshIn} \subseteq Nat \cup {Off}
  /\ logins \in Seq(1 .. LoginWindow)
  /\ dials \in Seq(1 .. DialWindow)

(* How Govee may take a login: HTTP 200 with a client record, the same with *)
(* fields missing, HTTP 200 with a refusal, a demand for a code (454, 455), *)
(* an HTTP error status, no answer at all.                                  *)
Answers == {"accepted", "unusable", "refused", "codeWanted", "httpError", "none"}

Noted == {"accepted", "unusable", "refused", "codeWanted"}

(* What has one tick left is gone: the oldest, which come first. *)
Gone(left) == {i \in DOMAIN left : left[i] = 1}

Older(left) ==
  LET gone == Cardinality(Gone(left))
  IN  [i \in 1 .. Len(left) - gone |-> left[i + gone] - 1]

\* mutant: one login too many fits the window
MutLoginWait == IF Len(logins) <= MaxLogins THEN 0 ELSE Head(logins)

(* LoginWindow.waitMs: until the oldest login leaves the window. *)
LoginWait == IF Len(logins) < MaxLogins THEN 0 ELSE Head(logins)

(* connectWaitMs: until the MaxDials-th latest dial leaves the window. *)
DialWait ==
  IF Len(dials) < MaxDials THEN 0 ELSE dials[Len(dials) - MaxDials + 1]

Exhausted(count) == count >= MaxFails

Connected == broker \in {"subscribing", "live"}

----------------------------------------------------------------------------
(* The pieces several handlers share. *)

\* mutant: the backoff alone decides, without the dial window
MutScheduleReconnect(count) ==
  reconnectIn' = IF alive /\ reconnectIn = Off /\ ~ Exhausted(count)
                   THEN 0
                   ELSE reconnectIn

ScheduleReconnect(count) ==
  reconnectIn' = IF alive /\ reconnectIn = Off /\ ~ Exhausted(count)
                   THEN DialWait
                   ELSE reconnectIn

ArmRefresh(delay) == refreshIn' = IF alive THEN delay ELSE Off

(* openAccountBroker *)
OpenBroker ==
  /\ broker' = "dialing"
  /\ dials' = Append(dials, DialWindow)

SendLogin(path) ==
  /\ phase' = [phase EXCEPT ![path] = "login"]
  /\ sent' = [sent EXCEPT ![path] = code]

Wait(path, step) == phase' = [phase EXCEPT ![path] = step]

(* Govee took or refused the code the login carried. *)
SpendCode(path) ==
  code' = IF sent[path] # "none" /\ code # "none" THEN "spent" ELSE code

NoteLogin(answer) ==
  logins' = IF answer \in Noted THEN Append(logins, LoginWindow) ELSE logins

\* mutant: a failure that does not count is not tried again either
MutConnectFails(counted) ==
  /\ fails' = IF counted THEN fails + 1 ELSE fails
  /\ IF counted /\ ~ Exhausted(fails')
       THEN ScheduleReconnect(fails')
       ELSE UNCHANGED reconnectIn

(* The catch of connect(): recordFailure, then a reconnect unless it said stop. *)
ConnectFails(counted) ==
  LET count == IF counted THEN fails + 1 ELSE fails
  IN  /\ fails' = count
      /\ IF counted /\ Exhausted(count)
           THEN UNCHANGED reconnectIn
           ELSE ScheduleReconnect(count)

Init ==
  /\ alive = TRUE
  /\ phase = [p \in Paths |-> "idle"]
  /\ sent = [p \in Paths |-> "none"]
  /\ broker = "none"
  /\ reusing = FALSE
  /\ reuseFailures = 0
  /\ bundle \in {"none", "good", "unusable"}
  /\ bearer = FALSE
  /\ code \in {"none", "fresh"}
  /\ asked = FALSE
  /\ fails = 0
  /\ reconnectIn = 0               \* the connect() of onReady
  /\ refreshIn = Off
  /\ logins = <<>>
  /\ dials = <<>>

----------------------------------------------------------------------------
(* connect() *)

\* mutant: the fired timer keeps its handle while the login is under way
MutConnect ==
  /\ alive /\ reconnectIn = 0
  /\ \/ /\ bundle = "good"
        /\ OpenBroker
        /\ reusing' = TRUE
        /\ bearer' = TRUE
        /\ ArmRefresh(0)
        /\ reconnectIn' = Off
        /\ UNCHANGED <<phase, sent>>
     \/ /\ bundle # "good"
        /\ IF LoginWait > 0
             THEN reconnectIn' = LoginWait /\ UNCHANGED <<phase, sent>>
             ELSE SendLogin("connect") /\ UNCHANGED reconnectIn
        /\ UNCHANGED <<broker, dials, reusing, bearer, refreshIn>>
  /\ UNCHANGED <<alive, reuseFailures, bundle, code, asked, fails, logins>>

(* The reconnect timer fires; its handle is cleared first.  A usable bundle *)
(* is tried without a login; else the window decides.                       *)
Connect ==
  /\ alive /\ reconnectIn = 0
  /\ \/ /\ bundle = "good"
        /\ OpenBroker
        /\ reusing' = TRUE
        /\ bearer' = TRUE
        /\ ArmRefresh(0)
        /\ reconnectIn' = Off
        /\ UNCHANGED <<phase, sent>>
     \/ /\ bundle # "good"
        /\ IF LoginWait > 0
             THEN reconnectIn' = LoginWait /\ UNCHANGED <<phase, sent>>
             ELSE reconnectIn' = Off /\ SendLogin("connect")
        /\ UNCHANGED <<broker, dials, reusing, bearer, refreshIn>>
  /\ UNCHANGED <<alive, reuseFailures, bundle, code, asked, fails, logins>>

(* Govee accepted the login: a code is spent and forgotten, the bearer goes *)
(* out, and the IoT key is asked for unless the adapter stopped meanwhile.  *)
ConnectAccepted ==
  /\ phase["connect"] = "login"
  /\ NoteLogin("accepted")
  /\ code' = IF sent["connect"] # "none" THEN "none" ELSE code
  /\ bearer' = TRUE
  /\ Wait("connect", IF alive THEN "key" ELSE "idle")
  /\ sent' = [sent EXCEPT !["connect"] = "none"]
  /\ UNCHANGED <<alive, broker, reusing, reuseFailures, bundle, asked, fails,
                 reconnectIn, refreshIn, dials>>

ConnectRejected(answer) ==
  /\ phase["connect"] = "login"
  /\ NoteLogin(answer)
  /\ IF answer = "codeWanted"
       THEN /\ asked' = TRUE
            /\ SpendCode("connect")
            /\ UNCHANGED <<fails, reconnectIn>>
       ELSE /\ ConnectFails(answer # "none")
            /\ code' = IF answer = "unusable" /\ sent["connect"] # "none"
                         THEN "none" ELSE code
            /\ UNCHANGED asked
  /\ Wait("connect", "idle")
  /\ sent' = [sent EXCEPT !["connect"] = "none"]
  /\ UNCHANGED <<alive, broker, reusing, reuseFailures, bundle, bearer,
                 refreshIn, dials>>

\* mutant: nobody looks whether the adapter stopped while the key was asked for
MutKeyArrived ==
  /\ phase["connect"] = "key"
  /\ Wait("connect", "idle")
  /\ bundle' = "good"
  /\ ArmRefresh(0)
  /\ OpenBroker
  /\ UNCHANGED <<alive, sent, reusing, reuseFailures, bearer, code, asked,
                 fails, reconnectIn, logins>>

(* The IoT key arrived: the fresh bundle is kept and the broker dialled. *)
KeyArrived ==
  /\ phase["connect"] = "key"
  /\ Wait("connect", "idle")
  /\ IF alive
       THEN /\ bundle' = "good"
            /\ ArmRefresh(0)
            /\ OpenBroker
       ELSE UNCHANGED <<bundle, refreshIn, broker, dials>>
  /\ UNCHANGED <<alive, sent, reusing, reuseFailures, bearer, code, asked,
                 fails, reconnectIn, logins>>

(* No key, or one that cannot be read; no answer does not count. *)
KeyFailed(counted) ==
  /\ phase["connect"] = "key"
  /\ Wait("connect", "idle")
  /\ ConnectFails(counted)
  /\ UNCHANGED <<alive, sent, broker, reusing, reuseFailures, bundle, bearer,
                 code, asked, refreshIn, logins, dials>>

----------------------------------------------------------------------------
(* The events of the broker client *)

Connack ==
  /\ broker = "dialing"
  /\ broker' = "subscribing"
  /\ reusing' = FALSE
  /\ reuseFailures' = 0
  /\ UNCHANGED <<alive, phase, sent, bundle, bearer, code, asked, fails,
                 reconnectIn, refreshIn, logins, dials>>

(* Only here the count of refusals starts again, and the demand for a code *)
(* is taken back from the user.                                            *)
Subscribed ==
  /\ broker = "subscribing"
  /\ broker' = "live"
  /\ fails' = 0
  /\ asked' = FALSE
  /\ UNCHANGED <<alive, phase, sent, reusing, reuseFailures, bundle, bearer,
                 code, reconnectIn, refreshIn, logins, dials>>

(* The client closed: a network failure, a refused certificate, a broker    *)
(* that dropped us, a subscription that failed and was closed by force.     *)
BrokerClosed(refused) ==
  /\ broker # "none"
  /\ broker' = "none"
  /\ reusing' = FALSE
  /\ LET retired == reusing /\ (refused \/ reuseFailures + 1 >= ReuseTries)
     IN  /\ bundle' = IF retired THEN "none" ELSE bundle
         /\ reuseFailures' = IF retired THEN 0
                             ELSE IF reusing THEN reuseFailures + 1
                             ELSE reuseFailures
  /\ ScheduleReconnect(fails)
  /\ UNCHANGED <<alive, phase, sent, bearer, code, asked, fails, refreshIn,
                 logins, dials>>

----------------------------------------------------------------------------
(* The silent refresh of the bearer *)

(* refreshBearerSilently up to the login; "timer" is what the refresh timer *)
(* holds once its own handle is cleared.                                    *)
RefreshBearer(force, timer) ==
  IF ~ alive \/ Exhausted(fails) \/ phase["refresh"] # "idle"
    THEN refreshIn' = timer /\ UNCHANGED <<phase, sent>>
    ELSE IF ~ force /\ ~ Connected
    THEN ArmRefresh(0) /\ UNCHANGED <<phase, sent>>
    ELSE IF LoginWait > 0
    THEN ArmRefresh(LoginWait) /\ UNCHANGED <<phase, sent>>
    ELSE SendLogin("refresh") /\ refreshIn' = timer

RefreshFires ==
  /\ refreshIn = 0
  /\ RefreshBearer(FALSE, Off)
  /\ UNCHANGED <<alive, broker, reusing, reuseFailures, bundle, bearer, code,
                 asked, fails, reconnectIn, logins, dials>>

(* requestBearerRefresh: the App API turned the bearer down. *)
AppApiTurnsBearerDown ==
  /\ bearer
  /\ RefreshBearer(TRUE, refreshIn)
  /\ UNCHANGED <<alive, broker, reusing, reuseFailures, bundle, bearer, code,
                 asked, fails, reconnectIn, logins, dials>>

(* The refresh looks neither at disposed after its waits nor clears a code. *)
RefreshAccepted(answer) ==
  /\ phase["refresh"] = "login"
  /\ answer \in {"accepted", "unusable"}
  /\ NoteLogin(answer)
  /\ SpendCode("refresh")
  /\ bearer' = TRUE
  /\ Wait("refresh", "key")
  /\ sent' = [sent EXCEPT !["refresh"] = "none"]
  /\ UNCHANGED <<alive, broker, reusing, reuseFailures, bundle, asked, fails,
                 reconnectIn, refreshIn, dials>>

(* A refusal in the payload is recorded like one of connect(); an HTTP      *)
(* error status lands in the catch, which records nothing.                  *)
RefreshRejected(answer) ==
  /\ phase["refresh"] = "login"
  /\ NoteLogin(answer)
  /\ \/ /\ answer = "codeWanted"
        /\ asked' = TRUE
        /\ SpendCode("refresh")
        /\ UNCHANGED <<fails, refreshIn>>
     \/ /\ answer = "refused"
        /\ fails' = fails + 1
        /\ IF Exhausted(fails + 1) THEN UNCHANGED refreshIn ELSE ArmRefresh(0)
        /\ UNCHANGED <<asked, code>>
     \/ /\ answer \in {"httpError", "none"}
        /\ ArmRefresh(0)
        /\ UNCHANGED <<asked, code, fails>>
  /\ Wait("refresh", "idle")
  /\ sent' = [sent EXCEPT !["refresh"] = "none"]
  /\ UNCHANGED <<alive, broker, reusing, reuseFailures, bundle, bearer,
                 reconnectIn, dials>>

(* With or without a new key: the certificate of the old bundle stays with *)
(* the new bearer.                                                         *)
RefreshKeyAnswered(arrived) ==
  /\ phase["refresh"] = "key"
  /\ Wait("refresh", "idle")
  /\ bundle' = IF arrived \/ bundle # "none" THEN "good" ELSE "none"
  /\ ArmRefresh(0)
  /\ UNCHANGED <<alive, sent, broker, reusing, reuseFailures, bearer, code,
                 asked, fails, reconnectIn, logins, dials>>

----------------------------------------------------------------------------
(* The probe, the clock, the end *)

(* "Test login": a client of its own that never reconnects; the throttle of *)
(* 30 s lets only one of them wait at a time.  A full window is its answer. *)
ProbeTest ==
  /\ phase["probe"] = "idle"
  /\ LoginWait = 0
  /\ Wait("probe", "login")
  /\ UNCHANGED <<alive, sent, broker, reusing, reuseFailures, bundle, bearer,
                 code, asked, fails, reconnectIn, refreshIn, logins, dials>>

ProbeAnswered(answer) ==
  /\ phase["probe"] = "login"
  /\ NoteLogin(answer)
  /\ Wait("probe", "idle")
  /\ UNCHANGED <<alive, sent, broker, reusing, reuseFailures, bundle, bearer,
                 code, asked, fails, reconnectIn, refreshIn, dials>>

(* The token of the bundle reaches its end. *)
BundleExpires ==
  /\ bundle = "good"
  /\ bundle' = "unusable"
  /\ UNCHANGED <<alive, phase, sent, broker, reusing, reuseFailures, bearer,
                 code, asked, fails, reconnectIn, refreshIn, logins, dials>>

Tick ==
  /\ logins' = Older(logins)
  /\ dials' = Older(dials)
  /\ reconnectIn' = IF reconnectIn > 0 THEN reconnectIn - 1 ELSE reconnectIn
  /\ refreshIn' = IF refreshIn > 0 THEN refreshIn - 1 ELSE refreshIn
  /\ UNCHANGED <<alive, phase, sent, broker, reusing, reuseFailures, bundle,
                 bearer, code, asked, fails>>

(* disconnect(), from onUnload *)
Disconnect ==
  /\ alive
  /\ alive' = FALSE
  /\ reconnectIn' = Off
  /\ refreshIn' = Off
  /\ broker' = "none"
  /\ UNCHANGED <<phase, sent, reusing, reuseFailures, bundle, bearer, code,
                 asked, fails, logins, dials>>

ConnectSteps ==
  \/ Connect \/ ConnectAccepted \/ KeyArrived
  \/ \E answer \in Answers \ {"accepted"} : ConnectRejected(answer)
  \/ \E counted \in BOOLEAN : KeyFailed(counted)

BrokerSteps ==
  \/ Connack \/ Subscribed
  \/ \E refused \in BOOLEAN : BrokerClosed(refused)

RefreshSteps ==
  \/ RefreshFires \/ AppApiTurnsBearerDown
  \/ \E answer \in {"accepted", "unusable"} : RefreshAccepted(answer)
  \/ \E answer \in {"refused", "codeWanted", "httpError", "none"} :
       RefreshRejected(answer)
  \/ \E arrived \in BOOLEAN : RefreshKeyAnswered(arrived)

Next ==
  \/ ConnectSteps \/ BrokerSteps \/ RefreshSteps
  \/ ProbeTest \/ \E answer \in Answers : ProbeAnswered(answer)
  \/ BundleExpires \/ Tick \/ Disconnect

Spec == Init /\ [][Next]_vars

----------------------------------------------------------------------------
(* Properties *)

(* There is one connect loop: of an armed reconnect timer, a connect() under *)
(* way and a broker client at most one exists, whatever the refresh and the  *)
(* probe do meanwhile.  pauseLogins and the fired timer rely on it: neither  *)
(* looks whether a timer is armed or a client open.                          *)
OneConnectLoop ==
  /\ reconnectIn # Off => phase["connect"] = "idle" /\ broker = "none"
  /\ phase["connect"] # "idle" => broker = "none"

(* No broker client is opened by a login or a key that was under way when   *)
(* the adapter stopped (L12).                                               *)
NoSocketAfterStop == ~ alive => broker = "none" /\ reconnectIn = Off

(* The broker is never dialled more than MaxDials times in a window, through *)
(* the backoff, a pause for the login window or a retired bundle.            *)
DialsAreSpared == Len(dials) <= MaxDials

(* The three paths look at the window before they wait and count after it,  *)
(* so the account may see more logins than MaxLogins in a window, but only  *)
(* one more for each other path under way.                                  *)
LoginsBounded == Len(logins) <= MaxLogins + Cardinality(Paths) - 1

(* No window of the account ever holds more than MaxLogins logins, the probe *)
(* included: what the comment on LoginWindow says.                           *)
LoginsWithinWindow == Len(logins) <= MaxLogins

LoginStarts ==
  \E p \in {"connect", "refresh"} : phase[p] # "login" /\ phase'[p] = "login"

(* Once MaxFails refusals stand the client sends no login of its own. *)
CapStopsLogins == [][LoginStarts => ~ Exhausted(fails)]_vars

(* Once Govee asked for a code no login is sent until the user entered one, *)
(* which restarts the adapter.                                              *)
AskedPausesLogins == [][LoginStarts => ~ asked]_vars

(* A code Govee consumed or turned down is not sent again. *)
SpentCodeNotReplayed == \A p \in Paths : sent[p] # "spent"

(* As long as nothing stopped the logins for good, the bearer that was      *)
(* handed out is going to be renewed: by its timer, or by a path under way. *)
BearerIsRenewed ==
  alive /\ bearer /\ ~ asked /\ ~ Exhausted(fails) =>
    refreshIn # Off \/ phase["refresh"] # "idle"
      \/ reconnectIn # Off \/ phase["connect"] # "idle"

(* The timers fire, time passes, and every request ends by its timeout.  A  *)
(* login, a key, a dial and a subscription that are tried again and again   *)
(* succeed some day.                                                        *)
Fairness ==
  /\ WF_vars(Tick) /\ WF_vars(Connect)
  /\ WF_vars(ConnectAccepted \/ \E answer \in Answers \ {"accepted"} : ConnectRejected(answer))
  /\ WF_vars(KeyArrived \/ \E counted \in BOOLEAN : KeyFailed(counted))
  /\ SF_vars(ConnectAccepted) /\ SF_vars(KeyArrived)
  /\ SF_vars(Connack) /\ SF_vars(Subscribed)

FairSpec == Spec /\ Fairness

GivenUp == ~ alive \/ Exhausted(fails) \/ asked

(* The user stops testing the login and the App API stops turning down new *)
(* bearers: either could use up every login window for itself.             *)
OthersCalmDown ==
  /\ <>[](phase["probe"] = "idle")
  /\ <>[][~ AppApiTurnsBearerDown]_vars

(* The push channel is restored again and again unless the adapter stopped, *)
(* Govee asks for a code or the cap on refusals is reached: a full login    *)
(* window, a retired bundle and refreshes in between only delay it.         *)
GetsThrough == OthersCalmDown => []<>(broker = "live" \/ GivenUp)

\* Neither the broker nor the login is asked more often than its window allows.
BudgetsAreKept ==
  /\ TypeOK
  /\ DialsAreSpared
  /\ LoginsBounded
=============================================================================

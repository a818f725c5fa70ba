---------------------------- MODULE EventChannel ---------------------------
(***************************************************************************)
(* The Cloud-events channel (govee-openapi-mqtt-client.ts) on the          *)
(* reconnecting client it shares with the account channel                  *)
(* (reconnecting-mqtt-client.ts): the broker connection, the backoff timer,*)
(* the cap on refused keys and the share of one connect per window.        *)
(*                                                                         *)
(* mqtt.js and the broker are external: a connect is answered, refused or  *)
(* lost; an ended or lost socket fires "close" once, unless its listeners  *)
(* were taken off before.                                                  *)
(***************************************************************************)
EXTENDS Integers

CONSTANTS
  MaxRefusals,     \* OPENAPI_MQTT_MAX_AUTH_FAILURES
  ConnectWindow,   \* CONNECT_WINDOW_MS, in ticks
  MaxTroubles      \* refusals, losses and outages in a behaviour

ASSUME EventAssumption ==
  /\ MaxRefusals \in Nat \ {0} /\ ConnectWindow \in Nat \ {0} /\ MaxTroubles \in Nat

VARIABLES
  eventSock,     \* "none", "dialed", "connected" (CONNACK), "subscribed", "ended" (close is due)
  eventTimer,    \* ticks until the reconnect; NoTimer: not armed
  eventDisposed,
  refusals,      \* connectFailCount
  attempts,      \* reconnectAttempts
  lastDial,      \* ticks since the last connect, at most ConnectWindow
  heldOpen,      \* info.openapiMqttConnected, as onConnection wrote it
  onlyWell,      \* the broker and the key stay good from now on
  troubles

eventVars == <<eventSock, eventTimer, eventDisposed, refusals, attempts, lastDial,
               heldOpen, onlyWell, troubles>>

NoTimer == -1
MaxDelay == ConnectWindow + 1

\* reconnectExhausted
Exhausted == refusals >= MaxRefusals

\* computeBackoffDelay doubles up to its cap, and jitters.
BackoffDelays(n) == 1 .. (IF n >= 2 THEN 2 ELSE 1)

\* A mutation: the share of the counterpart is left out of the wait.
NoWait == 0

\* connectWaitMs: one connect a window, counted from the start of each.
ConnectWait == IF lastDial >= ConnectWindow THEN 0 ELSE ConnectWindow - lastDial + 1

Larger(a, b) == IF a > b THEN a ELSE b

\* A mutation: only the first loss is followed by a reconnect.
OnlyOnce == eventTimer = NoTimer /\ ~Exhausted /\ ~eventDisposed /\ attempts = 0

\* scheduleReconnect runs only when nothing is armed, the cap is not reached
\* and the client lives.
MayArm == eventTimer = NoTimer /\ ~Exhausted /\ ~eventDisposed

ScheduleReconnect ==
  IF MayArm
    THEN /\ attempts' = IF attempts < 3 THEN attempts + 1 ELSE attempts
         /\ eventTimer' \in {Larger(d, ConnectWait) : d \in BackoffDelays(attempts + 1)}
    ELSE UNCHANGED <<attempts, eventTimer>>

-----------------------------------------------------------------------------

\* connect and openBroker: an older socket is released first, without a close.
\* The factory may throw: then only the timer is left.
Connect ==
  /\ ~eventDisposed /\ eventTimer = 0
  /\ \/ /\ eventSock' = "dialed" /\ lastDial' = 0
        /\ eventTimer' = NoTimer /\ UNCHANGED <<attempts, troubles>>
     \/ /\ troubles < MaxTroubles /\ troubles' = troubles + 1 /\ ~onlyWell
        /\ eventSock' = "none" /\ lastDial' = 0
        /\ attempts' = IF attempts < 3 THEN attempts + 1 ELSE attempts
        /\ eventTimer' \in {ConnectWindow + 1}
  /\ UNCHANGED <<eventDisposed, refusals, heldOpen, onlyWell>>

\* CONNACK: nothing is reset before the subscription stands.
Connack ==
  /\ eventSock = "dialed" /\ eventSock' = "connected"
  /\ UNCHANGED <<eventTimer, eventDisposed, refusals, attempts, lastDial, heldOpen,
                 onlyWell, troubles>>

\* subscribeOrForceClose: subscribed, or refused and the socket ended by us.
SubscribeAnswer ==
  /\ eventSock = "connected"
  /\ \/ /\ eventSock' = "subscribed" /\ attempts' = 0 /\ refusals' = 0 /\ heldOpen' = TRUE
        /\ UNCHANGED troubles
     \/ /\ troubles < MaxTroubles /\ troubles' = troubles + 1 /\ ~onlyWell
        /\ eventSock' = "ended" /\ UNCHANGED <<attempts, refusals, heldOpen>>
  /\ UNCHANGED <<eventTimer, eventDisposed, lastDial, onlyWell>>

\* The broker refuses the key: at the cap the client disposes of itself, before
\* it the broker closes the socket.
KeyRefused ==
  /\ eventSock = "dialed" /\ ~onlyWell
  /\ troubles < MaxTroubles /\ troubles' = troubles + 1
  /\ refusals' = refusals + 1
  /\ IF refusals + 1 >= MaxRefusals
       THEN /\ heldOpen' = FALSE /\ eventDisposed' = TRUE
            /\ eventTimer' = NoTimer /\ eventSock' = "none"
       ELSE /\ eventSock' = "ended" /\ UNCHANGED <<heldOpen, eventDisposed, eventTimer>>
  /\ UNCHANGED <<attempts, lastDial, onlyWell>>

\* An outage: the error handler ends a socket mqtt.js would keep.
SocketLost ==
  /\ eventSock \in {"dialed", "connected", "subscribed"} /\ ~onlyWell
  /\ troubles < MaxTroubles /\ troubles' = troubles + 1
  /\ eventSock' = "ended"
  /\ UNCHANGED <<eventTimer, eventDisposed, refusals, attempts, lastDial, heldOpen, onlyWell>>

\* Mutations: the loss is not said; no reconnect follows a close.
CloseUnsaid ==
  /\ eventSock = "ended" /\ eventSock' = "none"
  /\ ScheduleReconnect
  /\ UNCHANGED <<eventDisposed, refusals, lastDial, heldOpen, onlyWell, troubles>>

CloseForGood ==
  /\ eventSock = "ended" /\ eventSock' = "none" /\ heldOpen' = FALSE
  /\ UNCHANGED <<eventTimer, attempts, eventDisposed, refusals, lastDial, onlyWell, troubles>>

\* "close": the shown state falls, the next connect is scheduled.
Close ==
  /\ eventSock = "ended" /\ eventSock' = "none"
  /\ heldOpen' = FALSE
  /\ ScheduleReconnect
  /\ UNCHANGED <<eventDisposed, refusals, lastDial, onlyWell, troubles>>

\* A mutation: the armed timer outlives the stop.
DisconnectSocket ==
  /\ ~eventDisposed /\ eventDisposed' = TRUE /\ eventSock' = "none"
  /\ UNCHANGED <<eventTimer, refusals, attempts, lastDial, heldOpen, onlyWell, troubles>>

\* onUnload: the timer is cleared, the socket released; its close is not heard.
Disconnect ==
  /\ ~eventDisposed /\ eventDisposed' = TRUE
  /\ eventTimer' = NoTimer /\ eventSock' = "none"
  /\ UNCHANGED <<refusals, attempts, lastDial, heldOpen, onlyWell, troubles>>

\* Time runs while a timer is armed, up to the moment it is due.
EventTick ==
  /\ eventTimer # 0
  /\ eventTimer > 0 \/ lastDial < ConnectWindow
  /\ eventTimer' = IF eventTimer > 0 THEN eventTimer - 1 ELSE eventTimer
  /\ lastDial' = IF lastDial < ConnectWindow THEN lastDial + 1 ELSE lastDial
  /\ UNCHANGED <<eventSock, eventDisposed, refusals, attempts, heldOpen, onlyWell, troubles>>

\* The troubles end for good.
TroublesEnd ==
  /\ ~onlyWell /\ onlyWell' = TRUE
  /\ UNCHANGED <<eventSock, eventTimer, eventDisposed, refusals, attempts, lastDial,
                 heldOpen, troubles>>

EventInit ==
  /\ eventSock = "none" /\ eventTimer = 0 /\ eventDisposed = FALSE /\ refusals = 0
  /\ attempts = 0 /\ lastDial = ConnectWindow /\ heldOpen = FALSE /\ onlyWell = FALSE
  /\ troubles = 0

EventNext ==
  \/ Connect \/ Connack \/ SubscribeAnswer \/ KeyRefused \/ SocketLost \/ Close
  \/ Disconnect \/ EventTick \/ TroublesEnd

EventFairness == WF_eventVars(Connect) /\ WF_eventVars(Connack)
  /\ WF_eventVars(SubscribeAnswer) /\ WF_eventVars(Close) /\ WF_eventVars(EventTick)

EventSpec == EventInit /\ [][EventNext]_eventVars /\ EventFairness

-----------------------------------------------------------------------------

\* Types; the counters stay below their caps.
EventTypeOK ==
  /\ eventSock \in {"none", "dialed", "connected", "subscribed", "ended"}
  /\ eventTimer \in NoTimer .. MaxDelay /\ refusals \in 0 .. MaxRefusals
  /\ attempts \in 0 .. 3 /\ lastDial \in 0 .. ConnectWindow
  /\ eventDisposed => eventTimer = NoTimer /\ eventSock = "none"

\* A living client is never left with neither a socket nor a timer, and never
\* has both: no silent death, and no second connect loop beside the first.
OneWayToConnect ==
  ~eventDisposed => (eventSock = "none") = (eventTimer # NoTimer)

\* The broker is asked for one connection a window, whatever closes and fails.
ConnectsAreSpared == lastDial' = 0 /\ lastDial # 0 => lastDial >= ConnectWindow

\* The datapoint does not claim a connection whose close was heard.
ShownIsOpen == heldOpen /\ ~eventDisposed => eventSock \in {"subscribed", "ended"}

\* When the broker answers and the key is good from some time on, the events
\* arrive, unless the key was refused up to the cap before or the adapter stops.
EventsArrive == []<>(onlyWell => eventSock = "subscribed" \/ eventDisposed)

\* The channel has one way to a connection at any time, spares the broker and tells
\* the truth.
EventsFlow ==
  /\ [](EventTypeOK /\ OneWayToConnect /\ ShownIsOpen)
  /\ [][ConnectsAreSpared]_eventVars
=============================================================================

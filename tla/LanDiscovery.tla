---------------------------- MODULE LanDiscovery ----------------------------
(***************************************************************************)
(* How the adapter finds the lights of the local network and keeps each    *)
(* one tied to its address.  The LAN client binds two sockets one after    *)
(* the other, scans every 30 s (multicast, the broadcast address of each   *)
(* network, every address that answered before) and hands on what comes    *)
(* back; the device manager ties the address a scan reply came from to a   *)
(* device and, from then on, reads every status datagram from that         *)
(* address as that device's and sends that device's commands there.        *)
(*                                                                         *)
(* UDP loses, delays and reorders; the router gives and takes addresses.   *)
(* An address is a pair of a network and a number.                         *)
(*   govee-lan-client.ts, device-manager.ts, command-router.ts, main.ts    *)
(***************************************************************************)
EXTENDS Naturals, FiniteSets, Sequences, NoValue

CONSTANTS
    Bulbs,         \* the lights of the house, 1..n; a device has its light's number
    Networks,      \* the networks the host is on
    Hosts,         \* the addresses a network has
    Houses,        \* the households looked at, see HomeType
    MaxDistinct,   \* MAX_DISTINCT_LAN_DEVICES
    MaxMoves,      \* bound: how often a light gets another address or is unplugged
    MaxFlight,     \* bound: datagrams on the air
    Missing        \* the name of a network the host no longer has

LanAddresses == Networks \X Hosts

(* What is fixed for a household: the lights the account lists, the        *)
(* network the user selected (one the host is on, a name it no longer      *)
(* has, or None for all), whether all lights are of one model and whether  *)
(* the router may give a light the address another one had.                *)
HomeType ==
    [account : SUBSET Bulbs, chosen : Networks \cup {Missing, None},
     sameSku : BOOLEAN, reuse : BOOLEAN]

ASSUME DiscoveryAssumption ==
    /\ Bulbs \subseteq Nat /\ IsFiniteSet(Bulbs)
    /\ MaxDistinct \in Nat /\ MaxMoves \in Nat /\ MaxFlight \in Nat
    /\ None \notin Bulbs \cup Networks \cup LanAddresses /\ Missing \notin Networks
    /\ Houses \subseteq HomeType

VARIABLES
    home,
    at,          \* the address a light has now, or None: unplugged
    had,         \* the lights an address was ever given to
    moves,
    \* the LAN client
    sock,        \* "off", "listen" (first bind), "scan" (second bind), "open", "busy"
    scanTimer,
    stopped,
    seenDeviceIps,
    \* the device manager and the command router
    devices,     \* the devices in the order of the device map
    lanIp,
    recent,       \* devices with a status answered or asked for in the last minute
    brokerConnected,
    readBack,    \* addresses with a read-back armed
    \* the network
    air,         \* datagrams on their way to the adapter
    \* history
    spokeFor         \* the light whose scan reply gave a device its address

discoveryVars ==
    <<home, at, had, moves, sock, scanTimer, stopped, seenDeviceIps, devices,
      lanIp, recent, brokerConnected, readBack, air, spokeFor>>

clientVars == <<sock, scanTimer, stopped>>
routerVars == <<home, at, had, moves>>

Datagrams == [kind : {"scan", "devStatus"}, light : Bulbs, from : LanAddresses]

LanTypeOK ==
    /\ home \in HomeType
    /\ at \in [Bulbs -> LanAddresses \cup {None}]
    /\ had \in [LanAddresses -> SUBSET Bulbs]
    /\ moves \in 0..MaxMoves
    /\ sock \in {"off", "listen", "scan", "open", "busy"}
    /\ scanTimer \in BOOLEAN /\ stopped \in BOOLEAN /\ brokerConnected \in BOOLEAN
    /\ seenDeviceIps \subseteq Bulbs \X LanAddresses
    /\ devices \in UNION {[1..n -> Bulbs] : n \in 0..Cardinality(Bulbs)}
    /\ lanIp \in [Bulbs -> LanAddresses \cup {None}]
    /\ recent \subseteq Bulbs
    /\ readBack \subseteq LanAddresses
    /\ air \subseteq Datagrams
    /\ spokeFor \in [Bulbs -> Bulbs \cup {None}]

-----------------------------------------------------------------------------
(* The network                                                             *)

(* The light, if any, behind an address.                                   *)
LightsAt(ip) == {l \in Bulbs : at[l] = ip}

Listening == sock \in {"scan", "open"}

(* What a light sends is heard while the listen socket is open, and may be *)
(* lost.                                                                   *)
OnTheAir(sent) ==
    \E kept \in SUBSET sent :
        /\ air' = air \cup kept
        /\ Cardinality(air') <= MaxFlight

(* A request to an address: whoever has that address answers from it.      *)
Answers(kind, ips) == {[kind |-> kind, light |-> l, from |-> at[l]] :
                          l \in {x \in Bulbs : at[x] \in ips}}

(* A light gets an address that is free.  Without reuse the router keeps   *)
(* an address for the light that had it.                                   *)
MayHave(l, ip) ==
    /\ LightsAt(ip) = {}
    /\ home.reuse \/ had[ip] \subseteq {l}

PlugIn(l) ==
    /\ \E ip \in LanAddresses :
          /\ at[l] # ip
          /\ MayHave(l, ip)
          /\ at' = [at EXCEPT ![l] = ip]
          /\ had' = [had EXCEPT ![ip] = @ \cup {l}]
    /\ moves < MaxMoves
    /\ moves' = moves + 1
    /\ UNCHANGED <<home, clientVars, seenDeviceIps, devices, lanIp, recent,
                   brokerConnected, readBack, air, spokeFor>>

Unplug(l) ==
    /\ at[l] # None
    /\ moves < MaxMoves
    /\ at' = [at EXCEPT ![l] = None]
    /\ moves' = moves + 1
    /\ UNCHANGED <<home, had, clientVars, seenDeviceIps, devices, lanIp, recent,
                   brokerConnected, readBack, air, spokeFor>>

Lose ==
    /\ \E d \in air : air' = air \ {d}
    /\ UNCHANGED <<routerVars, clientVars, seenDeviceIps, devices, lanIp, recent,
                   brokerConnected, readBack, spokeFor>>

-----------------------------------------------------------------------------
(* The LAN client                                                          *)

(* The network the sockets are bound to: the selected one, or all of them  *)
(* when nothing is selected or the host no longer has the selected one.    *)
multicastBind == IF home.chosen \in Networks THEN home.chosen ELSE None

(* A mutation of the next: the selection is ignored.                      *)
BroadcastsEverywhere(bind) == Networks

(* The networks a broadcast goes to.                                       *)
interfaceBroadcasts(bind) == IF bind = None THEN Networks ELSE {bind}

(* Whom a scan can reach: everyone on a network it is broadcast to, and    *)
(* everyone at an address that answered before.  A target over the         *)
(* discovery limit is skipped this round: its lights' answers are among    *)
(* those OnTheAir drops.                                                   *)
Targets ==
    {ip \in LanAddresses : ip[1] \in interfaceBroadcasts(multicastBind)}
        \cup {s[2] : s \in seenDeviceIps}

SendScan == OnTheAir(Answers("scan", Targets))

(* start: the listen socket is bound first.                                *)
StartLan ==
    /\ sock = "off" /\ ~stopped
    /\ sock' = "listen"
    /\ UNCHANGED <<routerVars, scanTimer, stopped, seenDeviceIps, devices, lanIp, recent,
                   brokerConnected, readBack, air, spokeFor>>

(* The port is taken: no scan starts, the LAN channel is down as a whole.  *)
ListenFails ==
    /\ sock = "listen" /\ ~stopped
    /\ sock' = "busy"
    /\ UNCHANGED <<routerVars, scanTimer, stopped, seenDeviceIps, devices, lanIp, recent,
                   brokerConnected, readBack, air, spokeFor>>

(* A mutation of the next: no check.                                       *)
GoesOnAnyway == TRUE

(* Whether the callback of a bind goes on: not behind a stop.              *)
GoesOn == ~stopped

(* The listen socket is bound: the scan socket is bound next, and the      *)
(* repeating scan is armed.                                                *)
ListenReady ==
    /\ sock = "listen"
    /\ IF GoesOn THEN /\ sock' = "scan"
                      /\ scanTimer' = TRUE
                 ELSE /\ sock' = "off"
                      /\ UNCHANGED scanTimer
    /\ UNCHANGED <<routerVars, stopped, seenDeviceIps, devices, lanIp, recent,
                   brokerConnected, readBack, air, spokeFor>>

(* The scan socket is bound: the first scan goes out.                      *)
ScanReady ==
    /\ sock = "scan"
    /\ IF GoesOn THEN /\ sock' = "open"
                      /\ SendScan
                 ELSE /\ sock' = "off"
                      /\ UNCHANGED air
    /\ UNCHANGED <<routerVars, scanTimer, stopped, seenDeviceIps, devices, lanIp, recent,
                   brokerConnected, readBack, spokeFor>>

ScanAgain ==
    /\ scanTimer /\ sock = "open"
    /\ SendScan
    /\ UNCHANGED <<routerVars, clientVars, seenDeviceIps, devices, lanIp, recent,
                   brokerConnected, readBack, spokeFor>>

(* stop: the timer is cleared, the sockets are closed, what the client     *)
(* had seen is forgotten.  A bind still under way calls back afterwards.   *)
CloseClient ==
    /\ ~stopped
    /\ stopped' = TRUE
    /\ scanTimer' = FALSE
    /\ sock' = IF sock \in {"listen", "scan"} THEN sock ELSE "off"
    /\ seenDeviceIps' = {}
    /\ air' = {}
    /\ UNCHANGED <<routerVars, devices, lanIp, recent, brokerConnected, readBack, spokeFor>>

-----------------------------------------------------------------------------
(* Scan replies                                                            *)

(* A mutation of the next: all are kept.                                   *)
KeepsHistory(key) == {}

(* The addresses a light was seen at and has left.                         *)
StaleEntries(key) == {s \in seenDeviceIps : s[1] = key[1] /\ s # key}

IsNewIdentity(key) == key \notin seenDeviceIps

(* At the cap an identity that is not listed is not let in.                *)
TurnedAway(key) == IsNewIdentity(key) /\ Cardinality(seenDeviceIps) >= MaxDistinct

SeenWith(key) ==
    IF IsNewIdentity(key) THEN (seenDeviceIps \ StaleEntries(key)) \cup {key} ELSE seenDeviceIps

InMap == {devices[i] : i \in DOMAIN devices}

(* A mutation of the next: a device with an address is taken as well.      *)
AnyOfTheModel == {d \in InMap : home.sameSku}

(* The only device of the reply's model without an address, when there is  *)
(* exactly one: taken when no device has the reply's identity.             *)
SkuMatches == {d \in InMap : lanIp[d] = None /\ home.sameSku}

(* A mutation of the next: a device without an address takes any reply.    *)
FirstWithoutAddress(l) ==
    IF l \in InMap /\ lanIp[l] # None THEN l
    ELSE IF \E d \in InMap : lanIp[d] = None
         THEN CHOOSE d \in InMap : /\ lanIp[d] = None
                                    /\ \A e \in InMap : lanIp[e] = None => d <= e
    ELSE None

(* The device a scan reply is taken for, or None.                          *)
findDeviceForLanDiscovery(l) ==
    IF l \in InMap THEN l
    ELSE IF Cardinality(SkuMatches) = 1 THEN CHOOSE d \in SkuMatches : TRUE
    ELSE None

(* The first device of the map that holds an address, or None.             *)
HolderIn(list, ips, ip) ==
    LET holders == {i \in DOMAIN list : ips[list[i]] = ip}
    IN  IF holders = {} THEN None
        ELSE list[CHOOSE i \in holders : \A j \in holders : i <= j]

deviceByLanIp(ip) == HolderIn(devices, lanIp, ip)

(* A scan reply: the address it came from is tied to the device it is      *)
(* taken for, a device of its own is made when there is none, and the      *)
(* light behind the address is asked for its status - without the broker   *)
(* every time, with it once a minute.                                      *)
ScanReply(d) ==
    LET key == <<d.light, d.from>>
        found == findDeviceForLanDiscovery(d.light)
        target == IF found = None THEN d.light ELSE found
    IN  /\ d.kind = "scan" /\ Listening
        /\ IF TurnedAway(key)
           THEN /\ air' = air \ {d}
                /\ UNCHANGED <<seenDeviceIps, devices, lanIp, recent, spokeFor>>
           ELSE /\ seenDeviceIps' = SeenWith(key)
                /\ devices' = IF found = None THEN Append(devices, target) ELSE devices
                /\ lanIp' = [lanIp EXCEPT ![target] = d.from]
                /\ spokeFor' = [spokeFor EXCEPT ![target] = d.light]
                /\ LET holder == HolderIn(devices', lanIp', d.from)
                       asks == ~brokerConnected \/ holder \notin recent
                   IN  /\ recent' = IF asks THEN recent \cup {holder} ELSE recent
                       /\ \E kept \in SUBSET (IF asks THEN Answers("devStatus", {d.from}) ELSE {}) :
                             air' = (air \ {d}) \cup kept
        /\ UNCHANGED <<routerVars, clientVars, brokerConnected, readBack>>

(* A status: read as that of the device that holds the address it came     *)
(* from; one from an address nobody holds is dropped.                      *)
StatusReply(d) ==
    LET holder == deviceByLanIp(d.from)
    IN  /\ d.kind = "devStatus" /\ Listening
        /\ air' = air \ {d}
        /\ recent' = IF holder = None THEN recent ELSE recent \cup {holder}
        /\ UNCHANGED <<routerVars, clientVars, seenDeviceIps, devices, lanIp,
                       brokerConnected, readBack, spokeFor>>

(* A minute without a status: the device is asked at the next scan again.  *)
GoesStale(d) ==
    /\ d \in recent
    /\ recent' = recent \ {d}
    /\ UNCHANGED <<routerVars, clientVars, seenDeviceIps, devices, lanIp,
                   brokerConnected, readBack, air, spokeFor>>

BrokerChanges ==
    /\ brokerConnected' = ~brokerConnected
    /\ UNCHANGED <<routerVars, clientVars, seenDeviceIps, devices, lanIp, recent,
                   readBack, air, spokeFor>>

-----------------------------------------------------------------------------
(* Commands                                                                *)

(* A command of the user goes to the address the device holds; whoever has *)
(* that address takes it.  One read-back is armed for the address.         *)
LanCommand(d) ==
    /\ d \in InMap /\ lanIp[d] # None /\ ~stopped /\ sock # "off"
    /\ readBack' = readBack \cup {lanIp[d]}
    /\ UNCHANGED <<routerVars, clientVars, seenDeviceIps, devices, lanIp, recent,
                   brokerConnected, air, spokeFor>>

(* The read-back asks the address the command went to, wherever the device *)
(* is by then.                                                             *)
ReadBackFires(ip) ==
    /\ ip \in readBack /\ ~stopped
    /\ readBack' = readBack \ {ip}
    /\ OnTheAir(Answers("devStatus", {ip}))
    /\ UNCHANGED <<routerVars, clientVars, seenDeviceIps, devices, lanIp, recent,
                   brokerConnected, spokeFor>>

-----------------------------------------------------------------------------
(* Every light has an address when the adapter starts; the account's       *)
(* devices are known, none of them with an address.                        *)
DiscoveryInit ==
    /\ home \in Houses
    /\ at \in [Bulbs -> LanAddresses]
    /\ \A l, m \in Bulbs : at[l] = at[m] => l = m
    /\ had = [ip \in LanAddresses |-> LightsAt(ip)]
    /\ moves = 0
    /\ sock = "off" /\ scanTimer = FALSE /\ stopped = FALSE
    /\ seenDeviceIps = {}
    /\ devices \in {s \in [1..Cardinality(home.account) -> home.account] :
                      \A i, j \in DOMAIN s : i < j => s[i] < s[j]}
    /\ lanIp = [l \in Bulbs |-> None]
    /\ recent = {} /\ brokerConnected = FALSE /\ readBack = {}
    /\ air = {}
    /\ spokeFor = [l \in Bulbs |-> None]

DiscoveryNext ==
    \/ \E l \in Bulbs : PlugIn(l) \/ Unplug(l) \/ GoesStale(l) \/ LanCommand(l)
    \/ Lose \/ BrokerChanges
    \/ StartLan \/ ListenFails \/ ListenReady \/ ScanReady \/ ScanAgain \/ CloseClient
    \/ \E d \in air : ScanReply(d) \/ StatusReply(d)
    \/ \E ip \in LanAddresses : ReadBackFires(ip)

DiscoverySpec == DiscoveryInit /\ [][DiscoveryNext]_discoveryVars

-----------------------------------------------------------------------------
(* Properties                                                              *)

(* A light a device may be taken for: the one whose scan reply gave the    *)
(* device its address, or, where the router hands addresses on, one that   *)
(* had that address as well.                                               *)
TakenFor(d, l) == l = spokeFor[d] \/ (home.reuse /\ {l, spokeFor[d]} \subseteq had[lanIp[d]])

(* However lights move and datagrams are lost, late or out of order: the   *)
(* light a device's command reaches, and the light whose status is shown   *)
(* on it, is the one that answered for the device, or took over the        *)
(* address it answered from: "the device that answers on this LAN address" *)
(* (device-manager.ts).                                                    *)
MeetsTheOneThatAnswered ==
    \A d \in InMap : lanIp[d] # None =>
        /\ \A l \in LightsAt(lanIp[d]) : TakenFor(d, l)
        /\ \A x \in air : deviceByLanIp(x.from) = d => TakenFor(d, x.light)

(* A device has its address from its own light, or from one that the       *)
(* account does not list, when no other device of that model was left      *)
(* without an address: "otherwise the wrong same-SKU device would get      *)
(* bound" (findDeviceForLanDiscovery).                                     *)
GuessIsForced ==
    \A d \in Bulbs : spokeFor[d] \notin {None, d} =>
        /\ home.sameSku /\ spokeFor[d] \notin home.account
        /\ \A e \in home.account : lanIp[e] # None

(* Once a device's own light has answered, no other answers for it.        *)
OwnAnswerStays == \A d \in Bulbs : spokeFor[d] = d => spokeFor'[d] = d

(* A reply that is let in: its address is read as that of a device it may  *)
(* be taken for, and a light with a device of its own gives it the address *)
(* it answers from, whoever had answered for the device before.            *)
AnswererIsRead ==
    \A d \in air :
       (ScanReply(d) /\ <<d.light, d.from>> \in seenDeviceIps')
           => /\ deviceByLanIp(d.from)' # None
              /\ TakenFor(deviceByLanIp(d.from), d.light)'
              /\ d.light \in InMap => spokeFor'[d.light] = d.light /\ lanIp'[d.light] = d.from

(* What the client remembers stays bounded by the lights there are, not by *)
(* the addresses they ever had: one address per light, never more than the *)
(* cap (handleScanResponse).                                               *)
SeenIsBounded ==
    /\ Cardinality(seenDeviceIps) <= MaxDistinct
    /\ \A s, t \in seenDeviceIps : s[1] = t[1] => s = t

(* The two binds of start call back when they like: behind a stop neither  *)
(* opens a socket, arms the repeating scan or sends one.                   *)
StoppedIsSilent == stopped => /\ ~scanTimer
                              /\ sock # "open"
                              /\ air = {}

(* The selected network decides where the adapter searches: no light of    *)
(* another network is found, not even one that moved there.                *)
SearchStaysOnChosen ==
    multicastBind # None => \A s \in seenDeviceIps : s[2][1] = multicastBind

(* Refuted: known devices always pass the cap, so the reply of a light     *)
(* that is listed moves its device to the address it came from.            *)
KnownAlwaysPass ==
    [][\A d \in air :
          (ScanReply(d) /\ \E s \in seenDeviceIps : s[1] = d.light)
              => <<d.light, d.from>> \in seenDeviceIps']_discoveryVars

(* Refuted: a device only ever meets its own light.                        *)
MeetsItself ==
    \A d \in InMap : lanIp[d] # None =>
        /\ LightsAt(lanIp[d]) \subseteq {d}
        /\ \A x \in air : deviceByLanIp(x.from) = d => x.light = d

(* Refuted: a light that answers and has a device of its own is read as    *)
(* that device from then on.                                               *)
OwnDeviceIsRead ==
    [][\A d \in air :
          (ScanReply(d) /\ <<d.light, d.from>> \in seenDeviceIps' /\ d.light \in InMap)
              => deviceByLanIp(d.from)' = d.light]_discoveryVars

\* A search meets every light as the device it answered for, on the chosen
\* network, within its bound, and ends with the stop.
LightsAreMet ==
  /\ [](LanTypeOK /\ MeetsTheOneThatAnswered /\ GuessIsForced)
  /\ [](SeenIsBounded /\ StoppedIsSilent /\ SearchStaysOnChosen)
  /\ [][AnswererIsRead /\ OwnAnswerStays]_discoveryVars
=============================================================================

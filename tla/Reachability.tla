---------------------------- MODULE Reachability ----------------------------
(***************************************************************************)
(* Whether one device is there: what its local interface, the status       *)
(* pushes of the account broker, the account list, the cloud reads and its *)
(* gateway say, how each of these proofs ages, and what the 20-second      *)
(* round shows of it (lookups.ts, cloud-merge.ts, device-manager.ts,       *)
(* connection-state.ts, online-sync.ts, state-manager.ts).                 *)
(*                                                                         *)
(* Time is counted in units of ten minutes and kept as the age of every    *)
(* stamp, so the 20-second round and the 2-minute poll run many times in   *)
(* one unit; an age of TTL stands for "expired or never".                  *)
(***************************************************************************)
EXTENDS Integers, FiniteSets

CONSTANTS TTL,          \* CLOUD_ONLINE_EVIDENCE_TTL_MS: 3 units
          REFRESH,      \* CLOUD_REACHABILITY_REFRESH_MS: 2 units
          MaxHeard      \* bound: packets, answers and changes of the channels

ASSUME ReachAssumption == TTL \in Nat \ {0} /\ REFRESH \in Nat /\ MaxHeard \in Nat

Age == 0..TTL
Said == {"none", "yes", "no"}
NoStamp == TTL + 1

VARIABLES
    kind,     \* "light", or "appliance" for everything that is none
    dev,      \* what the adapter knows of the device
    gw,       \* raw flag of its gateway in the device list
    chan,     \* the cloud paths: REST, broker, App API answered lately
    shown,    \* info.online of the device
    conn,     \* info.connection, this device being the only one
    heard,    \* events left (bound)
    proof,    \* history: age of the newest sign of life, as old as its own stamp
    offAge,   \* history: age of the last "offline" nothing spoke against since
    replayed, \* history: a packet older than what was known arrived
    gone      \* history: the last packet of the broker said "offline"

reachVars == <<kind, dev, gw, chan, shown, conn, heard, proof, offAge, replayed, gone>>

ReachTypeOK ==
    /\ kind \in {"light", "appliance"}
    /\ dev \in [lanIp : BOOLEAN, lanSeen : BOOLEAN, lanReply : BOOLEAN,
                report : Said, reportAge : Age, liveAge : Age, pushAge : Age,
                raw : BOOLEAN, gateway : {"unknown", "up", "down"}, noPath : BOOLEAN, tried : BOOLEAN]
    /\ (dev.lanReply => dev.lanSeen)
    /\ (dev.lanIp => kind = "light")
    /\ gw \in {"absent", "up", "down"}
    /\ chan \in [cloud : BOOLEAN, broker : BOOLEAN, app : BOOLEAN]
    /\ shown \in BOOLEAN /\ conn \in BOOLEAN /\ {replayed, gone} \subseteq BOOLEAN
    /\ heard \in 0..MaxHeard
    /\ proof \in Age /\ offAge \in Age

\* After a start: nothing is proven, the cache kept the device's own flag.
ReachInit ==
    /\ kind \in {"light", "appliance"}
    /\ dev \in [lanIp : {FALSE}, lanSeen : IF kind = "light" THEN BOOLEAN ELSE {FALSE}, lanReply : {FALSE},
                report : {"none"}, reportAge : {TTL}, liveAge : {TTL}, pushAge : {TTL},
                raw : BOOLEAN, gateway : {"unknown"}, noPath : {TRUE}, tried : {FALSE}]
    /\ gw \in IF kind = "light" THEN {"absent"} ELSE {"absent", "up", "down"}
    /\ chan = [cloud |-> FALSE, broker |-> FALSE, app |-> FALSE]
    /\ shown = FALSE /\ conn = FALSE
    /\ heard = MaxHeard
    /\ proof = TTL /\ offAge = TTL /\ replayed = FALSE /\ gone = FALSE

\* A light with an address, or heard on the LAN within the last seven days.
isLanDriven(d) == kind = "light" /\ (d.lanIp \/ d.lanSeen)

Decides(online, proven) == [online |-> online, proven |-> proven]

ArrivalFirst(d) ==                                                   \* mutant
    IF isLanDriven(d) THEN Decides(d.lanReply, TRUE)
    ELSE IF d.noPath THEN Decides(FALSE, FALSE)
    ELSE IF d.liveAge < TTL THEN Decides(TRUE, TRUE)
    ELSE Decides(d.report = "yes" /\ d.reportAge < TTL, TRUE)

\* Caps first, then Govee's word in both directions, then mere arrival, upward only.
resolveDeviceReachability(d) ==
    IF isLanDriven(d) THEN Decides(d.lanReply, TRUE)
    ELSE IF d.gateway = "down" THEN Decides(FALSE, TRUE)
    ELSE IF d.noPath THEN Decides(FALSE, FALSE)
    ELSE IF d.report # "none" /\ d.reportAge < TTL THEN Decides(d.report = "yes", TRUE)
    ELSE IF d.liveAge < TTL THEN Decides(TRUE, TRUE)
    ELSE Decides(FALSE, FALSE)

Online(d) == resolveDeviceReachability(d).online

\* markCloudPaths: judged anew each time.
markCloudPaths(d, c) == [d EXCEPT !.noPath = ~c.cloud /\ ~c.broker /\ ~c.app]

\* updateConnectionState, for this one device.
Connected(d, c) ==
    /\ d.lanIp \/ ~d.noPath
    /\ Online(d) \/ (kind = "light" /\ ~d.lanIp /\ c.cloud)

\* updateDeviceState: an update with a word on "online" shows the resolver's
\* answer at once, for a device that is no light.
Updates(d, c) ==
    /\ dev' = markCloudPaths(d, c)
    /\ shown' = IF kind = "light" THEN shown ELSE Online(d)
    /\ conn' = Connected(markCloudPaths(d, c), c)

Silent(d) == dev' = d /\ UNCHANGED <<shown, conn>>

Lowest(a, b) == IF a < b THEN a ELSE b

(***************************************************************************)
(* What is heard.                                                          *)
(***************************************************************************)

Hears == heard > 0 /\ heard' = heard - 1

AgedWrong(stamp) == 0                                                \* mutant

\* The packet's own stamp dates it; without one, its arrival.
StampAge(stamp) == IF stamp = NoStamp THEN 0 ELSE stamp

PacketNews(said, stamp) ==
    LET age == StampAge(stamp)
        true == IF stamp = NoStamp THEN 0 ELSE stamp
    IN  /\ proof' = IF said = "no" THEN proof ELSE Lowest(proof, true)
        /\ offAge' = IF said = "no" THEN true ELSE IF true <= offAge THEN TTL ELSE offAge
        /\ replayed' = (replayed \/ true > dev.reportAge)
        /\ gone' = (said = "no")

\* handleMqttStatus: a packet of the account broker.  Only one of the device
\* itself carries a stamp; it arms the shield unless it says "offline".
Push(said, stamp) ==
    /\ Hears /\ chan.broker
    /\ IF isLanDriven(dev) THEN Updates(dev, chan) /\ UNCHANGED <<proof, offAge, replayed, gone>>
       ELSE /\ Updates([dev EXCEPT !.report = IF said = "no" THEN "no" ELSE "yes",
                                   !.reportAge = StampAge(stamp),
                                   !.pushAge = IF stamp # NoStamp /\ said # "no" THEN stamp ELSE @,
                                   !.raw = said # "no"], chan)
            /\ PacketNews(said, stamp)
    /\ UNCHANGED <<kind, gw, chan>>

PollDecides(d, said) == FALSE                                        \* mutant

\* A polled "offline" yields to the device's own recent voice.
Shielded(d, said) == said = "no" /\ d.pushAge < TTL

\* applyOnlineCap: the online word of a list, a read or an event, or its absence.
applyOnlineCap(d, said) ==
    IF said = "none" THEN [d EXCEPT !.liveAge = 0, !.raw = TRUE]
    ELSE [d EXCEPT !.report = said, !.reportAge = 0, !.raw = (said = "yes")]

CapsNews(said) ==
    /\ proof' = IF said = "no" THEN proof ELSE 0
    /\ offAge' = IF said = "no" THEN 0 ELSE IF said = "yes" THEN TTL ELSE offAge
    /\ replayed' = (replayed /\ said # "yes")
    /\ gone' = gone

\* maybeApplyCloudOnline.
Caps(d, said, c) ==
    IF isLanDriven(d) \/ Shielded(d, said)
    THEN Silent(d) /\ UNCHANGED <<proof, offAge, replayed, gone>>
    ELSE /\ CapsNews(said)
         /\ IF said # "no" /\ d.raw THEN Silent(applyOnlineCap(d, said)) ELSE Updates(applyOnlineCap(d, said), c)

\* handleOpenApiEvent.
CloudEvent(said) == Hears /\ Caps(dev, said, chan) /\ UNCHANGED <<kind, gw, chan>>

\* resolveGatewayReachability, at the end of every account list.
GatewayCap == IF gw = "absent" THEN "unknown" ELSE gw

\* pollAppApi answered: with an entry of the device, or with nothing of it.
AppListAnswers(said) ==
    /\ Hears
    /\ chan' = [chan EXCEPT !.app = TRUE]
    /\ \/ Caps([dev EXCEPT !.gateway = GatewayCap], said, chan')
       \/ Silent([dev EXCEPT !.gateway = GatewayCap]) /\ UNCHANGED <<proof, offAge, replayed, gone>>
    /\ UNCHANGED <<kind, gw>>

AppListFails ==
    /\ chan.app
    /\ chan' = [chan EXCEPT !.app = FALSE]
    /\ UNCHANGED <<kind, dev, gw, shown, conn, heard, proof, offAge, replayed, gone>>

\* refreshExpiringReachability: a light the Cloud alone can speak for, whose
\* proof is old, once per window.
Refresh(said) ==
    /\ kind = "light" /\ ~isLanDriven(dev) /\ chan.cloud /\ ~dev.tried
    /\ Lowest(dev.reportAge, dev.liveAge) >= REFRESH
    /\ Hears
    /\ Caps([dev EXCEPT !.tried = TRUE], said, chan)
    /\ UNCHANGED <<kind, gw, chan>>

LanHello ==
    /\ Hears /\ kind = "light" /\ ~dev.lanIp
    /\ Updates([dev EXCEPT !.lanIp = TRUE, !.lanSeen = TRUE, !.lanReply = TRUE, !.raw = TRUE], chan)
    /\ UNCHANGED <<kind, gw, chan, proof, offAge, replayed, gone>>

\* handleLanStatus: the poll is answered.
LanAnswers ==
    /\ dev.lanIp
    /\ Updates([dev EXCEPT !.lanSeen = TRUE, !.lanReply = TRUE, !.raw = TRUE], chan)
    /\ UNCHANGED <<kind, gw, chan, heard, proof, offAge, replayed, gone>>

\* No reply for 90 seconds; not heard for a week, or its address is another light's.
LanReplyAges ==
    /\ dev.lanReply /\ Silent([dev EXCEPT !.lanReply = FALSE])
    /\ UNCHANGED <<kind, gw, chan, heard, proof, offAge, replayed, gone>>

LanForgotten ==
    /\ Hears /\ dev.lanSeen /\ ~dev.lanReply
    /\ Silent([dev EXCEPT !.lanIp = FALSE, !.lanSeen = FALSE])
    /\ UNCHANGED <<kind, gw, chan, proof, offAge, replayed, gone>>

\* The broker's connection is told to updateConnectionState; the REST cloud's is not.
BrokerTurned ==
    /\ Hears
    /\ chan' = [chan EXCEPT !.broker = ~@]
    /\ dev' = markCloudPaths(dev, chan') /\ conn' = Connected(dev', chan')
    /\ UNCHANGED <<kind, gw, shown, proof, offAge, replayed, gone>>

CloudFlips ==
    /\ Hears
    /\ chan' = [chan EXCEPT !.cloud = ~@]
    /\ UNCHANGED <<kind, dev, gw, shown, conn, proof, offAge, replayed, gone>>

GatewayFlips ==
    /\ Hears /\ gw # "absent"
    /\ gw' = IF gw = "up" THEN "down" ELSE "up"
    /\ UNCHANGED <<kind, dev, chan, shown, conn, proof, offAge, replayed, gone>>

(***************************************************************************)
(* Time and the round.                                                     *)
(***************************************************************************)

RoundOfDevices ==                                                    \* mutant
    /\ dev' = markCloudPaths(dev, chan) /\ shown' = Online(dev')
    /\ UNCHANGED <<kind, gw, chan, conn, heard, proof, offAge, replayed, gone>>

\* runOnlineSyncRound with syncInfoOnline: a derived value may raise the
\* light's own flag but never lower it.
Round ==
    LET d == markCloudPaths(dev, chan)
        is == resolveDeviceReachability(d)
        writes == kind = "light" /\ (is.proven \/ is.online)
        after == [d EXCEPT !.raw = IF writes THEN is.online ELSE @]
    IN  /\ dev' = after
        /\ shown' = is.online
        /\ conn' = Connected(after, chan)
        /\ UNCHANGED <<kind, gw, chan, heard, proof, offAge, replayed, gone>>

OlderForever(a) == a + 1                                             \* mutant

Older(a) == IF a < TTL THEN a + 1 ELSE TTL

\* Ten minutes, in which the round ran and the App API's last answer got old.
TimePasses ==
    /\ shown = Online(dev) /\ ~chan.app
    /\ dev' = [dev EXCEPT !.reportAge = Older(@), !.liveAge = Older(@), !.pushAge = Older(@), !.tried = FALSE]
    /\ proof' = Older(proof) /\ offAge' = Older(offAge)
    /\ UNCHANGED <<kind, gw, chan, shown, conn, heard, replayed, gone>>

ReachNext ==
    \/ \E said \in Said : CloudEvent(said) \/ AppListAnswers(said) \/ Refresh(said)
    \/ \E said \in Said, stamp \in 0..NoStamp : Push(said, stamp)
    \/ AppListFails \/ LanHello \/ LanAnswers \/ LanReplyAges \/ LanForgotten
    \/ BrokerTurned \/ CloudFlips \/ GatewayFlips
    \/ Round \/ TimePasses

\* The round is a timer; time passes; an account list that fails, or is not
\* answered for four minutes, no longer counts.
ReachFairness == WF_reachVars(Round) /\ WF_reachVars(TimePasses) /\ WF_reachVars(AppListFails)

ReachSpec == ReachInit /\ [][ReachNext]_reachVars /\ ReachFairness

(***************************************************************************)
(* Properties.                                                             *)
(***************************************************************************)

\* No green without a sign of life younger than the evidence window: not from
\* a replayed packet, not from a channel that is up, not from a flag of the
\* cache ("a wrong green is worse than a wrong grey").
GreenIsProven == (~isLanDriven(dev) /\ Online(dev)) => proof < TTL

\* What Govee said last about the device stands for the whole window, whatever
\* arrives without a word on reachability and however polls and packets
\* interleave, as long as no replayed packet comes in.
OfflineStands ==
    (~isLanDriven(dev) /\ ~replayed /\ offAge < TTL) => ~Online(dev)

\* Refuted: the same when a packet of the device is delivered late.
OfflineStandsAgainstReplay == (~isLanDriven(dev) /\ offAge < TTL) => ~Online(dev)

\* A device that spoke within the window, and that the broker does not call gone,
\* is not greyed by a poll, a missing word or a dead channel among others.
VoiceIsHeard ==
    (/\ ~isLanDriven(dev) /\ ~replayed /\ ~gone
     /\ dev.pushAge < TTL
     /\ dev.gateway # "down" /\ ~dev.noPath) => Online(dev)

\* A device only the cloud paths reach goes grey once it falls silent, and the
\* indicator of the adapter, which nothing else would tell, with it (GV-16).
SilenceIsShown ==
    <>[]((shown => isLanDriven(dev)) /\ (conn => chan.cloud \/ dev.lanIp))

\* A device is shown online on evidence that still counts, and offline only
\* without any.
OnlineIsEvidence == ReachTypeOK /\ GreenIsProven /\ OfflineStands /\ VoiceIsHeard
=============================================================================

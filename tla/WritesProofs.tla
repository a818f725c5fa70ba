---------------------------- MODULE WritesProofs ----------------------------
(***************************************************************************)
(* What the user asks of the adapter is answered with the truth, for any    *)
(* number of writes, values, members, cards and processes: a confirmed      *)
(* value of a light is what the device was last told, a write to a group    *)
(* ends with the value confirmed or with the members named that did not     *)
(* take it, a card of the admin page shows its own light's report, what     *)
(* leaves for a light over the LAN was counted by its gate when it left,    *)
(* in the order it was asked for, and a command leaves for the cloud once,  *)
(* in the order of the writes.                                              *)
(***************************************************************************)
EXTENDS StateChange, GroupFanout, ReportJobs, LanPacing, CommandSend, FiniteSetTheorems, SequenceTheorems, TLAPS


-----------------------------------------------------------------------------
\* What handler h stands for: a power write switches, only a segment settles, only
\* music reads its siblings, and a local snapshot is reset behind its send.
JobHolds(h) ==
  /\ job[h].dp = "power" => job[h].val \in Switch
  /\ job[h].at = "settle" => job[h].dp = "segment"
  /\ job[h].at = "read" => job[h].dp \in {"music", "sensitivity"}
  /\ job[h].at = "reset" /\ job[h].dp = "local" /\ job[h].val # 0 =>
       \E via \in Via : <<"local", job[h].val, via>> \in left

Shows(d) == shown[d].ack /\ shown[d].val # 0

\* As long as both modes are shown, a reset of one of them is under way.
ModesMeetAReset ==
  Shows("scene") /\ Shows("music") =>
    \E h \in Job : {"scene", "music"} \cap (job[h].todo \cup job[h].zero) # {}

ChangeInv ==
  /\ ChangeTypeOK
  /\ \A h \in Job : JobHolds(h)
  /\ ConfirmedLeft
  /\ ConfirmedByReport
  /\ ModesMeetAReset

JobRecord ==
  [at : {"idle", "begin", "read", "settle", "out", "reset", "over"},
   dp : Datapoint, val : Value,
   todo : SUBSET MODE_DROPDOWNS, zero : SUBSET MODE_DROPDOWNS]

JobFits(j) == j \in JobRecord /\ (j.at # "reset" => j.todo \cup j.zero = {})

\* The two parts of the state apart: the datapoints with what confirms them, and the
\* handlers.
ShownTyped ==
  /\ shown \in [Datapoint -> [val : Value, ack : BOOLEAN]]
  /\ light \in Switch /\ believed \in Switch
  /\ left \subseteq Datapoint \X Value \X Via
  /\ reported \subseteq Switch

WorldTyped ==
  /\ paths \in [lan : BOOLEAN, broker : BOOLEAN, cloud : BOOLEAN]
  /\ pushReports \subseteq {"power"}
  /\ events \in 0..MaxEvents

\* The type invariant of a light's writes, in the groups the steps need.
LEMMA TypeParts ==
  ChangeTypeOK <=>
    ShownTyped /\ WorldTyped /\ job \in [Job -> JobRecord] /\ \A h \in Job : JobFits(job[h])
BY DEF ChangeTypeOK, ShownTyped, WorldTyped, JobFits, JobRecord

\* Zero and one are values of every kind of write, and a report's reset is no handler's.
LEMMA Numbers == 0 \in Value /\ 1 \in Value /\ Switch \subseteq Value /\ ReportReset \notin Writer
BY ChangeAssumption DEF Value, Switch, ReportReset, Writer

\* A handler at rest.
LEMMA IdleFits == JobFits(Idle) /\ Idle.dp = "power" /\ Idle.val = 0 /\ Idle.at = "idle"
BY Numbers DEF Idle, JobFits, JobRecord, Datapoint

\* A handler that has answered, whatever became of its write.
LEMMA EndedFits ==
  ASSUME NEW h \in Job
  PROVE  /\ JobFits(Ended(h)) /\ Ended(h).dp = "power" /\ Ended(h).val = 0
         /\ Ended(h).at \in {"idle", "over"}
         /\ Ended(h).todo = {} /\ Ended(h).zero = {}
BY Numbers DEF Ended, Idle, JobFits, JobRecord, Datapoint

\* A step of one handler that leaves the datapoints alone.
LEMMA QuietMove ==
  ASSUME ChangeInv, NEW h \in Job, NEW j, JobFits(j), job' = [job EXCEPT ![h] = j], Quiet,
         j.dp = "power" => j.val \in Switch,
         j.at = "settle" => j.dp = "segment",
         j.at = "read" => j.dp \in {"music", "sensitivity"},
         j.at = "reset" => j.dp = job[h].dp /\ j.val = job[h].val /\ job[h].at = "reset",
         Shows("scene") /\ Shows("music") =>
           ({"scene", "music"} \cap (job[h].todo \cup job[h].zero) # {} =>
              {"scene", "music"} \cap (j.todo \cup j.zero) # {})
  PROVE  ChangeInv'
<1>1. /\ UNCHANGED <<shown, paths, pushReports, light, believed, events, left, reported>>
      /\ ShownTyped /\ WorldTyped /\ job \in [Job -> JobRecord] /\ \A g \in Job : JobFits(job[g])
  BY TypeParts DEF Quiet, ChangeInv
<1>2. ShownTyped' /\ WorldTyped'
  BY <1>1 DEF ShownTyped, WorldTyped
<1>3. /\ job' \in [Job -> JobRecord]
      /\ \A g \in Job : job'[g] = IF g = h THEN j ELSE job[g]
      /\ \A g \in Job : JobFits(job'[g])
  BY <1>1 DEF JobFits
<1>4. ChangeTypeOK'
  <2>1. \A g \in Job : JobFits(job[g])'
    BY <1>3 DEF JobFits, JobRecord
  <2> QED BY <1>2, <1>3, <2>1, TypeParts DEF ChangeTypeOK, ShownTyped, WorldTyped, JobFits, JobRecord
<1>5. \A g \in Job : JobHolds(g)'
  <2> TAKE g \in Job
  <2>1. JobHolds(g) /\ JobHolds(h)
    BY DEF ChangeInv
  <2>2. CASE g = h
    BY <1>1, <1>3, <2>1, <2>2 DEF JobHolds
  <2>3. CASE g # h
    BY <1>1, <1>3, <2>1, <2>3 DEF JobHolds
  <2> QED BY <2>2, <2>3
<1>6. ConfirmedLeft' /\ ConfirmedByReport'
  BY <1>1 DEF ChangeInv, ConfirmedLeft, ConfirmedByReport
<1>7. ModesMeetAReset'
  <2> SUFFICES ASSUME Shows("scene") /\ Shows("music")
               PROVE  \E g \in Job : {"scene", "music"} \cap (job'[g].todo \cup job'[g].zero) # {}
    BY <1>1 DEF ModesMeetAReset, Shows
  <2>1. PICK g \in Job : {"scene", "music"} \cap (job[g].todo \cup job[g].zero) # {}
    BY DEF ChangeInv, ModesMeetAReset
  <2> QED BY <1>3, <2>1
<1> QED BY <1>4, <1>5, <1>6, <1>7 DEF ChangeInv

\* The step of one handler: what is left to show of the new state.
LEMMA JobMoves ==
  ASSUME ChangeInv, NEW h \in Job, NEW j, JobFits(j), job' = [job EXCEPT ![h] = j],
         ShownTyped', WorldTyped', left \subseteq left',
         j.dp = "power" => j.val \in Switch,
         j.at = "settle" => j.dp = "segment",
         j.at = "read" => j.dp \in {"music", "sensitivity"},
         j.at = "reset" /\ j.dp = "local" /\ j.val # 0 =>
           \E via \in Via : <<"local", j.val, via>> \in left',
         ConfirmedLeft', ConfirmedByReport', ModesMeetAReset'
  PROVE  ChangeInv'
<1>1. job \in [Job -> JobRecord] /\ \A g \in Job : JobFits(job[g])
  BY TypeParts DEF ChangeInv
<1>2. /\ job' \in [Job -> JobRecord]
      /\ \A g \in Job : job'[g] = IF g = h THEN j ELSE job[g]
      /\ \A g \in Job : JobFits(job'[g])
  BY <1>1 DEF JobFits
<1>3. ChangeTypeOK'
  BY <1>2 DEF ChangeTypeOK, ShownTyped, WorldTyped, JobFits, JobRecord
<1>4. \A g \in Job : JobHolds(g)'
  <2> TAKE g \in Job
  <2>1. JobHolds(g)
    BY DEF ChangeInv
  <2>2. CASE g = h
    BY <1>2, <2>2 DEF JobHolds
  <2>3. CASE g # h
    BY <1>2, <2>1, <2>3 DEF JobHolds
  <2> QED BY <2>2, <2>3
<1> QED BY <1>3, <1>4 DEF ChangeInv

\* A handler's record, typed.
LEMMA JobTyped ==
  ASSUME ChangeInv, NEW h \in Job
  PROVE  /\ job \in [Job -> JobRecord] /\ ShownTyped /\ WorldTyped
         /\ JobFits(job[h]) /\ JobHolds(h)
         /\ job[h].dp \in Datapoint /\ job[h].val \in Value
         /\ job[h].todo \in SUBSET MODE_DROPDOWNS /\ job[h].zero \in SUBSET MODE_DROPDOWNS
BY TypeParts DEF ChangeInv, JobFits, JobRecord

\* What a datapoint shows is typed after one of them was written.
LEMMA WriteTyped ==
  ASSUME ShownTyped, NEW d \in Datapoint, NEW v \in Value, NEW a \in BOOLEAN,
         shown' = [shown EXCEPT ![d] = [val |-> v, ack |-> a]]
  PROVE  /\ shown' \in [Datapoint -> [val : Value, ack : BOOLEAN]]
         /\ shown'[d].val = v /\ shown'[d].ack = a
         /\ \A e \in Datapoint \ {d} : shown'[e] = shown[e]
BY DEF ShownTyped

\* A send records what left, acks only what its way can confirm, and starts the
\* reset of the other modes.
LEMMA SentKeeps ==
  ASSUME ChangeInv, NEW h \in Writer, NEW via \in Via, Sent(h, via),
         job[h].at \in {"begin", "read", "settle", "out"},
         job[h].dp = "power" /\ via = "lan" => paths.lan
  PROVE  ChangeInv'
<1> DEFINE d == job[h].dp
           v == job[h].val
           j == IF ResetSet(d, v) = {} THEN Ended(h)
                ELSE [job[h] EXCEPT !.at = "reset", !.todo = ResetSet(d, v)]
<1>0. h \in Job
  BY DEF Job
<1>1. /\ job \in [Job -> JobRecord] /\ ShownTyped /\ WorldTyped
      /\ JobFits(job[h]) /\ JobHolds(h) /\ d \in Datapoint /\ v \in Value
      /\ job[h].todo \cup job[h].zero = {}
  BY <1>0, JobTyped DEF JobFits
<1>2. /\ left' = left \cup {<<d, v, via>>}
      /\ light' \in IF d = "power" THEN {light, v} ELSE {light}
      /\ UNCHANGED <<paths, pushReports, believed, events, reported>>
      /\ shown' = ShownAfterSend(d, v, via)
  BY DEF Sent
<1>3. ResetSet(d, v) \in SUBSET MODE_DROPDOWNS
  BY DEF ResetSet, MODE_DROPDOWNS
<1>4. job' = [job EXCEPT ![h] = j]
  BY <1>0, <1>1 DEF Sent
<1> HIDE DEF d, v, j
<1>5. /\ JobFits(j) /\ j.zero = {} /\ j.todo = ResetSet(d, v) /\ j.at \notin {"settle", "read"}
      /\ j.dp = "power" => j.val = 0 \/ (j.val = v /\ d = "power")
      /\ j.at = "reset" => j.dp = d /\ j.val = v
  <2>1. CASE ResetSet(d, v) = {}
    BY <1>0, <2>1, EndedFits DEF j
  <2>2. CASE ResetSet(d, v) # {}
    BY <1>1, <1>3, <2>2 DEF j, d, v, JobFits, JobRecord
  <2> QED BY <2>1, <2>2
<1>6. WorldTyped' /\ left \subseteq left'
  BY <1>1, <1>2 DEF WorldTyped
<1> DEFINE Acks == d # "local" /\ (d = "power" => via = "cloud")
<1>7. shown' = shown \/ (Acks /\ shown' = [shown EXCEPT ![d] = [val |-> v, ack |-> TRUE]])
  BY <1>2 DEF ShownAfterSend, confirmationFor, Via, d
<1>8. ShownTyped' /\ \A e \in Datapoint \ {d} : shown'[e] = shown[e]
  <2>1. shown' \in [Datapoint -> [val : Value, ack : BOOLEAN]] /\ \A e \in Datapoint \ {d} : shown'[e] = shown[e]
    BY <1>1, <1>7, WriteTyped DEF ShownTyped
  <2>2. light' \in Switch
    BY <1>1, <1>2 DEF ShownTyped, JobHolds, d, v
  <2>3. left' \subseteq Datapoint \X Value \X Via
    BY <1>1, <1>2 DEF ShownTyped
  <2> QED BY <1>1, <1>2, <2>1, <2>2, <2>3 DEF ShownTyped
<1>9. shown'[d] = shown[d] \/ (Acks /\ shown'[d].val = v /\ shown'[d].ack)
  BY <1>1, <1>7, WriteTyped
<1>10. ConfirmedLeft'
  <2> SUFFICES ASSUME NEW e \in Datapoint, shown'[e].ack /\ shown'[e].val # 0
               PROVE  \/ \E w \in Via : <<e, shown'[e].val, w>> \in left'
                      \/ e = "power" /\ shown'[e].val \in reported'
    BY DEF ConfirmedLeft
  <2>1. CASE shown'[e] = shown[e]
    BY <1>2, <2>1 DEF ChangeInv, ConfirmedLeft
  <2>2. CASE shown'[e] # shown[e]
    BY <1>2, <1>8, <1>9, <2>2
  <2> QED BY <2>1, <2>2
<1>11. ConfirmedByReport'
  <2>0. "power" \in Datapoint
    BY DEF Datapoint
  <2>1. CASE shown'["power"] = shown["power"]
    BY <1>2, <2>1 DEF ChangeInv, ConfirmedByReport
  <2>2. CASE shown'["power"] # shown["power"]
    BY <1>2, <1>8, <1>9, <2>0, <2>2 DEF ConfirmedByReport
  <2> QED BY <2>1, <2>2
<1>12. \A g \in Job : job'[g] = IF g = h THEN j ELSE job[g]
  BY <1>0, <1>1, <1>4
<1>13. ModesMeetAReset'
  <2>1. CASE d \in {"scene", "music"}
    <3>1. {"scene", "music"} \cap (job'[h].todo \cup job'[h].zero) # {}
      BY <1>0, <1>5, <1>12, <2>1 DEF ResetSet, MODE_DROPDOWNS
    <3> QED BY <1>0, <3>1 DEF ModesMeetAReset
  <2>2. CASE d \notin {"scene", "music"}
    <3>1. shown'["scene"] = shown["scene"] /\ shown'["music"] = shown["music"]
      BY <1>8, <2>2 DEF Datapoint
    <3> SUFFICES ASSUME Shows("scene") /\ Shows("music")
                 PROVE  \E g \in Job : {"scene", "music"} \cap (job'[g].todo \cup job'[g].zero) # {}
      BY <3>1 DEF ModesMeetAReset, Shows
    <3>2. PICK g \in Job : {"scene", "music"} \cap (job[g].todo \cup job[g].zero) # {}
      BY DEF ChangeInv, ModesMeetAReset
    <3> QED BY <1>1, <1>12, <3>2
  <2> QED BY <2>1, <2>2
<1>14. j.dp = "power" => j.val \in Switch
  BY <1>1, <1>5 DEF JobHolds, Switch, d, v
<1>15. j.at = "reset" /\ j.dp = "local"
       /\ j.val # 0 => \E w \in Via : <<"local", j.val, w>> \in left'
  BY <1>2, <1>5
<1> QED BY <1>0, <1>4, <1>5, <1>6, <1>8, <1>10, <1>11, <1>13, <1>14, <1>15, JobMoves

\* A handler moves on, or ends, and nothing else happens.
LEMMA MovesKeeps ==
  ASSUME ChangeInv, NEW h \in Job, job[h].at # "reset",
         \/ Refused(h)
         \/ Moves(h, "out")
         \/ Moves(h, "settle") /\ job[h].dp = "segment"
         \/ Moves(h, "read") /\ job[h].dp \in {"music", "sensitivity"}
  PROVE  ChangeInv'
<1>1. JobFits(job[h]) /\ JobHolds(h) /\ job[h].todo \cup job[h].zero = {}
  BY JobTyped DEF JobFits
<1>2. CASE Refused(h)
  BY <1>1, <1>2, EndedFits, QuietMove DEF Refused, Switch
<1>3. ASSUME NEW to \in {"out", "settle", "read"}, Moves(h, to),
             to = "settle" => job[h].dp = "segment",
             to = "read" => job[h].dp \in {"music", "sensitivity"}
      PROVE  ChangeInv'
  <2> DEFINE j == [job[h] EXCEPT !.at = to]
  <2>1. /\ JobFits(j) /\ j.at = to /\ j.dp = job[h].dp /\ j.val = job[h].val
        /\ j.todo = job[h].todo /\ j.zero = job[h].zero
    BY <1>1 DEF JobFits, JobRecord
  <2>2. job' = [job EXCEPT ![h] = j] /\ Quiet
    BY <1>3, JobTyped DEF Moves
  <2> HIDE DEF j
  <2> QED BY <1>1, <1>3, <2>1, <2>2, QuietMove DEF JobHolds
<1> QED BY <1>2, <1>3

\* A mode dropdown is set to nothing: none of the modes is shown because of it.
LEMMA ClearedKeeps ==
  ASSUME ChangeInv, NEW h \in Job, NEW d \in MODE_DROPDOWNS, NEW j, JobFits(j),
         job' = [job EXCEPT ![h] = j],
         shown' = [shown EXCEPT ![d] = [val |-> 0, ack |-> TRUE]],
         UNCHANGED <<paths, pushReports, light, believed, events, left, reported>>,
         j.dp = "power" => j.val \in Switch,
         j.at \notin {"settle", "read"},
         j.at = "reset" => j.dp = job[h].dp /\ j.val = job[h].val /\ job[h].at = "reset",
         d = "local" => j.todo = job[h].todo /\ {"scene", "music"} \cap job[h].zero \subseteq j.zero
  PROVE  ChangeInv'
<1>1. /\ job \in [Job -> JobRecord] /\ ShownTyped /\ WorldTyped /\ JobHolds(h)
      /\ d \in Datapoint
  BY JobTyped DEF MODE_DROPDOWNS, Datapoint
<1>2. /\ shown' \in [Datapoint -> [val : Value, ack : BOOLEAN]]
      /\ shown'[d].val = 0 /\ \A e \in Datapoint \ {d} : shown'[e] = shown[e]
  BY <1>1, Numbers, WriteTyped
<1>3. ShownTyped' /\ WorldTyped'
  BY <1>1, <1>2 DEF ShownTyped, WorldTyped
<1>4. ConfirmedLeft'
  <2> SUFFICES ASSUME NEW e \in Datapoint, shown'[e].ack /\ shown'[e].val # 0
               PROVE  \/ \E w \in Via : <<e, shown'[e].val, w>> \in left'
                      \/ e = "power" /\ shown'[e].val \in reported'
    BY DEF ConfirmedLeft
  <2>1. e # d
    BY <1>2
  <2> QED BY <1>2, <2>1 DEF ChangeInv, ConfirmedLeft
<1>5. ConfirmedByReport'
  <2>1. shown'["power"] = shown["power"]
    BY <1>2 DEF MODE_DROPDOWNS, Datapoint
  <2> QED BY <2>1 DEF ChangeInv, ConfirmedByReport
<1>6. ModesMeetAReset'
  <2>1. CASE d # "local"
    <3>1. ~(Shows("scene") /\ Shows("music"))'
      BY <1>2, <2>1 DEF Shows, MODE_DROPDOWNS
    <3> QED BY <3>1 DEF ModesMeetAReset
  <2>2. CASE d = "local"
    <3>1. shown'["scene"] = shown["scene"] /\ shown'["music"] = shown["music"]
      BY <1>2, <2>2 DEF Datapoint
    <3> SUFFICES ASSUME Shows("scene") /\ Shows("music")
                 PROVE  \E g \in Job : {"scene", "music"} \cap (job'[g].todo \cup job'[g].zero) # {}
      BY <3>1 DEF ModesMeetAReset, Shows
    <3>2. PICK g \in Job : {"scene", "music"} \cap (job[g].todo \cup job[g].zero) # {}
      BY DEF ChangeInv, ModesMeetAReset
    <3>3. job'[g] = IF g = h THEN j ELSE job[g]
      BY <1>1
    <3> QED BY <2>2, <3>2, <3>3
  <2> QED BY <2>1, <2>2
<1>7. j.at = "reset" /\ j.dp = "local"
      /\ j.val # 0 => \E via \in Via : <<"local", j.val, via>> \in left'
  BY <1>1 DEF JobHolds
<1> QED BY <1>3, <1>4, <1>5, <1>6, <1>7, JobMoves

\* The dropdown's "---".
LEMMA SelectionKeeps ==
  ASSUME ChangeInv, NEW h \in Writer, Selection(h)
  PROVE  ChangeInv'
<1>1. h \in Job /\ job[h].at = "begin" /\ job[h].dp \in MODE_DROPDOWNS
  BY DEF Job, Selection
<1>2. JobFits(job[h]) /\ job[h].todo \cup job[h].zero = {}
  BY <1>1, JobTyped DEF JobFits
<1>3. JobFits(Ended(h)) /\ Ended(h).dp = "power" /\ Ended(h).val = 0
      /\ Ended(h).at \in {"idle", "over"}
      /\ Ended(h).todo = {} /\ Ended(h).zero = {}
  BY <1>1, EndedFits
<1>4. CASE Refused(h)
  BY <1>1, <1>4, MovesKeeps
<1>5. CASE /\ shown' = [shown EXCEPT ![job[h].dp] = [val |-> 0, ack |-> TRUE]]
           /\ job' = [job EXCEPT ![h] = Ended(h)]
           /\ UNCHANGED <<paths, pushReports, light, believed, events, left, reported>>
  <2>1. Ended(h).val \in Switch
    BY <1>3 DEF Switch
  <2>2. PICK d \in MODE_DROPDOWNS : d = job[h].dp
    BY <1>1
  <2>3. Ended(h).todo = job[h].todo
        /\ {"scene", "music"} \cap job[h].zero \subseteq Ended(h).zero
    BY <1>2, <1>3
  <2>4. Ended(h).at \notin {"settle", "read"} /\ Ended(h).at # "reset"
    BY <1>3
  <2> QED BY <1>1, <1>3, <1>5, <2>1, <2>2, <2>3, <2>4, ClearedKeeps
<1> QED BY <1>4, <1>5 DEF Selection

\* Each step of a handler.
LEMMA HandlerKeeps ==
  ASSUME ChangeInv, NEW h \in Writer, Handler(h)
  PROVE  ChangeInv'
<1>0. h \in Job
  BY DEF Job
<1>1. CASE Selection(h)
  BY <1>1, SelectionKeeps
<1>2. ASSUME NEW d \in Datapoint, Skip(h, d)
      PROVE  ChangeInv'
  BY <1>0, <1>2, MovesKeeps DEF Skip, Dispatched, Ready
<1>3. ASSUME ViaCloud(h), job[h].at # "reset"
      PROVE  ChangeInv'
  BY <1>0, <1>3, MovesKeeps DEF ViaCloud
<1>4. ASSUME NEW d \in Datapoint, DispatchLan(h, d)
      PROVE  ChangeInv'
  <2>1. job[h].dp = d /\ job[h].at = "begin" /\ paths.lan
    BY <1>4 DEF DispatchLan, Dispatched, Ready, resolveTransport
  <2>2. CASE Sent(h, "lan")
    BY <2>1, <2>2, SentKeeps DEF Via
  <2>3. CASE ViaCloud(h)
    BY <1>3, <2>1, <2>3
  <2>4. CASE d = "segment" /\ Moves(h, "settle")
    BY <1>0, <2>1, <2>4, MovesKeeps
  <2> QED BY <1>4, <2>2, <2>3, <2>4 DEF DispatchLan
<1>5. ASSUME NEW d \in Datapoint, DispatchBroker(h, d)
      PROVE  ChangeInv'
  <2>1. job[h].at = "begin"
    BY <1>5 DEF DispatchBroker, Dispatched, Ready
  <2>2. CASE Sent(h, "broker")
    BY <2>1, <2>2, SentKeeps DEF Via
  <2> QED BY <1>3, <1>5, <2>1, <2>2 DEF DispatchBroker
<1>6. ASSUME NEW d \in Datapoint, DispatchCloud(h, d)
      PROVE  ChangeInv'
  BY <1>0, <1>6, MovesKeeps DEF DispatchCloud, Dispatched, Ready
<1>7. CASE SegmentLeaves(h)
  <2>1. job[h].at = "settle" /\ job[h].dp = "segment"
    BY <1>0, <1>7 DEF SegmentLeaves, ChangeInv, JobHolds
  <2> QED BY <1>7, <2>1, SentKeeps DEF SegmentLeaves, Via
<1>8. CASE SendCapability(h)
  BY <1>3, <1>8 DEF SendCapability, Ready
<1>9. CASE ReadMusic(h)
  BY <1>0, <1>9, MovesKeeps DEF ReadMusic, Ready
<1>10. CASE SendMusic(h)
  <2>1. job[h].at = "read" /\ job[h].dp # "power"
    BY <1>0, <1>10 DEF SendMusic, ChangeInv, JobHolds
  <2>2. CASE Sent(h, "lan")
    BY <2>1, <2>2, SentKeeps DEF Via
  <2>3. CASE Refused(h)
    BY <1>0, <2>1, <2>3, MovesKeeps
  <2> QED BY <1>3, <1>10, <2>1, <2>2, <2>3 DEF SendMusic
<1>11. CASE CloudSucceeds(h)
  BY <1>11, SentKeeps DEF CloudSucceeds, Via
<1>12. CASE CloudFails(h)
  <2> DEFINE j == Ended(h)
  <2>1. /\ job[h].at = "out" /\ job' = [job EXCEPT ![h] = j]
        /\ light' \in IF job[h].dp = "power" THEN {light, job[h].val} ELSE {light}
        /\ UNCHANGED <<shown, paths, pushReports, believed, events, left, reported>>
    BY <1>12 DEF CloudFails
  <2>2. /\ JobFits(j) /\ j.dp = "power" /\ j.val = 0 /\ j.at \in {"idle", "over"}
        /\ j.todo = {} /\ j.zero = {}
    BY <1>0, EndedFits
  <2>3. /\ job \in [Job -> JobRecord] /\ ShownTyped /\ WorldTyped /\ JobHolds(h)
        /\ job[h].todo \cup job[h].zero = {}
    BY <1>0, <2>1, JobTyped DEF JobFits
  <2> HIDE DEF j
  <2>4. light' \in Switch
    BY <2>1, <2>3 DEF ShownTyped, JobHolds
  <2>5. ShownTyped' /\ WorldTyped' /\ left \subseteq left'
    BY <2>1, <2>3, <2>4 DEF ShownTyped, WorldTyped
  <2>6. ConfirmedLeft' /\ ConfirmedByReport'
    BY <2>1 DEF ChangeInv, ConfirmedLeft, ConfirmedByReport
  <2>7. ModesMeetAReset'
    BY <1>0, <2>1, <2>3 DEF ChangeInv, ModesMeetAReset, Shows
  <2>8. j.dp = "power" => j.val \in Switch
    BY <2>2 DEF Switch
  <2> QED BY <1>0, <2>1, <2>2, <2>5, <2>6, <2>7, <2>8, JobMoves
<1> QED BY <1>1, <1>2, <1>4, <1>5, <1>6, <1>7, <1>8, <1>9, <1>10, <1>11, <1>12 DEF Handler

\* What the user writes is shown unconfirmed, so it claims nothing.
LEMMA UserWriteKeeps ==
  ASSUME ChangeInv, NEW h \in Writer, NEW d \in Datapoint, NEW v \in Value, UserWrites(h, d, v)
  PROVE  ChangeInv'
<1> DEFINE j == [Idle EXCEPT !.at = "begin", !.dp = d, !.val = v]
<1>0. h \in Job
  BY DEF Job
<1>1. /\ job[h].at = "idle"
      /\ d = "power" => v \in Switch
      /\ shown' = [shown EXCEPT ![d] = [val |-> v, ack |-> FALSE]]
      /\ job' = [job EXCEPT ![h] = j]
      /\ UNCHANGED <<paths, pushReports, light, believed, events, left, reported>>
  BY DEF UserWrites
<1>2. /\ job \in [Job -> JobRecord] /\ ShownTyped /\ WorldTyped
      /\ job[h].todo \cup job[h].zero = {}
  BY <1>0, <1>1, JobTyped DEF JobFits
<1>3. JobFits(j) /\ j.at = "begin" /\ j.dp = d /\ j.val = v
  BY DEF Idle, JobFits, JobRecord
<1> HIDE DEF j
<1>4. /\ shown' \in [Datapoint -> [val : Value, ack : BOOLEAN]]
      /\ ~shown'[d].ack /\ \A e \in Datapoint \ {d} : shown'[e] = shown[e]
  BY <1>1, <1>2, WriteTyped
<1>5. ShownTyped' /\ WorldTyped' /\ left \subseteq left'
  BY <1>1, <1>2, <1>4 DEF ShownTyped, WorldTyped
<1>6. ConfirmedLeft'
  <2> SUFFICES ASSUME NEW e \in Datapoint, shown'[e].ack /\ shown'[e].val # 0
               PROVE  \/ \E w \in Via : <<e, shown'[e].val, w>> \in left'
                      \/ e = "power" /\ shown'[e].val \in reported'
    BY DEF ConfirmedLeft
  <2>1. e # d
    BY <1>4
  <2> QED BY <1>1, <1>4, <2>1 DEF ChangeInv, ConfirmedLeft
<1>7. ConfirmedByReport'
  <2>1. "power" \in Datapoint
    BY DEF Datapoint
  <2>2. CASE d = "power"
    BY <1>4, <2>2 DEF ConfirmedByReport
  <2>3. CASE d # "power"
    BY <1>1, <1>4, <2>1, <2>3 DEF ChangeInv, ConfirmedByReport
  <2> QED BY <2>2, <2>3
<1>8. ModesMeetAReset'
  <2> SUFFICES ASSUME (Shows("scene") /\ Shows("music"))'
               PROVE  \E g \in Job : {"scene", "music"} \cap (job'[g].todo \cup job'[g].zero) # {}
    BY DEF ModesMeetAReset
  <2>1. d \notin {"scene", "music"}
    BY <1>4 DEF Shows
  <2>2. shown'["scene"] = shown["scene"] /\ shown'["music"] = shown["music"]
    BY <1>4, <2>1 DEF Datapoint
  <2>3. PICK g \in Job : {"scene", "music"} \cap (job[g].todo \cup job[g].zero) # {}
    BY <2>2 DEF ChangeInv, ModesMeetAReset, Shows
  <2>4. g # h
    BY <1>2, <2>3
  <2> QED BY <1>0, <1>1, <1>2, <2>3, <2>4
<1> QED BY <1>0, <1>1, <1>3, <1>5, <1>6, <1>7, <1>8, JobMoves

\* The reads and writes of a reset, and its end.
LEMMA ResetKeeps ==
  ASSUME ChangeInv, NEW h \in Job, Resets(h)
  PROVE  ChangeInv'
<1>1. ASSUME NEW d \in MODE_DROPDOWNS, ResetReads(h, d)
      PROVE  ChangeInv'
  <2> DEFINE z == IF shown[d].val # 0 THEN job[h].zero \cup {d} ELSE job[h].zero
             j == [job[h] EXCEPT !.todo = @ \ {d}, !.zero = z]
  <2>1. /\ job \in [Job -> JobRecord] /\ JobFits(job[h]) /\ JobHolds(h)
        /\ job[h].zero \in SUBSET MODE_DROPDOWNS
    BY JobTyped
  <2>2. d \in job[h].todo /\ job' = [job EXCEPT ![h] = j] /\ Quiet
    BY <1>1, <2>1 DEF ResetReads
  <2>3. z \in SUBSET MODE_DROPDOWNS
    BY <2>1
  <2>4. job[h].at = "reset"
    BY <2>1, <2>2 DEF JobFits
  <2>5. shown[d].val # 0 => d \in z
    OBVIOUS
  <2>6. job[h].zero \subseteq z
    OBVIOUS
  <2> HIDE DEF z
  <2>7. /\ JobFits(j) /\ j.at = "reset" /\ j.dp = job[h].dp /\ j.val = job[h].val
        /\ j.todo = job[h].todo \ {d} /\ j.zero = z
    BY <2>1, <2>3, <2>4 DEF JobFits, JobRecord
  <2> HIDE DEF j
  <2>8. Shows("scene") /\ Shows("music") =>
          ({"scene", "music"} \cap (job[h].todo \cup job[h].zero) # {} =>
             {"scene", "music"} \cap (j.todo \cup j.zero) # {})
    BY <2>5, <2>6, <2>7 DEF Shows
  <2> QED BY <2>1, <2>2, <2>4, <2>7, <2>8, QuietMove DEF JobHolds
<1>2. ASSUME NEW d \in MODE_DROPDOWNS, ResetWrites(h, d)
      PROVE  ChangeInv'
  <2> DEFINE j == [job[h] EXCEPT !.zero = @ \ {d}]
  <2>1. job \in [Job -> JobRecord] /\ JobFits(job[h]) /\ JobHolds(h)
    BY JobTyped
  <2>2. /\ d \in job[h].zero /\ job' = [job EXCEPT ![h] = j]
        /\ shown' = [shown EXCEPT ![d] = [val |-> 0, ack |-> TRUE]]
        /\ UNCHANGED <<paths, pushReports, light, believed, events, left, reported>>
    BY <1>2, <2>1 DEF ResetWrites
  <2>3. job[h].at = "reset"
    BY <2>1, <2>2 DEF JobFits
  <2>4. /\ JobFits(j) /\ j.at = "reset" /\ j.dp = job[h].dp /\ j.val = job[h].val
        /\ j.todo = job[h].todo /\ j.zero = job[h].zero \ {d}
    BY <2>1, <2>3 DEF JobFits, JobRecord
  <2> HIDE DEF j
  <2>5. j.dp = "power" => j.val \in Switch
    BY <2>1, <2>4 DEF JobHolds
  <2>6. d = "local" => {"scene", "music"} \cap job[h].zero \subseteq j.zero
    BY <2>4
  <2> QED BY <2>2, <2>3, <2>4, <2>5, <2>6, ClearedKeeps
<1>3. CASE ResetEnds(h)
  <2> DEFINE j == Ended(h)
             v == job[h].val
  <2>1. /\ job \in [Job -> JobRecord] /\ JobFits(job[h]) /\ JobHolds(h) /\ ShownTyped
        /\ WorldTyped
        /\ v \in Value
    BY JobTyped
  <2>2. /\ job[h].at = "reset" /\ job[h].todo \cup job[h].zero = {}
        /\ job' = [job EXCEPT ![h] = j]
        /\ shown' = shown \/ (job[h].dp = "local" /\ shown' = [shown EXCEPT !["local"] = [val |-> v, ack |-> TRUE]])
        /\ UNCHANGED <<paths, pushReports, light, believed, events, left, reported>>
    BY <1>3 DEF ResetEnds
  <2>3. JobFits(j) /\ j.dp = "power" /\ j.val = 0 /\ j.at \in {"idle", "over"}
    BY EndedFits
  <2> HIDE DEF j, v
  <2>4. /\ shown' \in [Datapoint -> [val : Value, ack : BOOLEAN]]
        /\ \A e \in Datapoint \ {"local"} : shown'[e] = shown[e]
        /\ shown'["local"] = shown["local"] \/ (job[h].dp = "local" /\ shown'["local"].val = v)
    <3>1. "local" \in Datapoint
      BY DEF Datapoint
    <3>2. CASE shown' = shown
      BY <2>1, <3>2 DEF ShownTyped
    <3>3. CASE job[h].dp = "local" /\ shown' = [shown EXCEPT !["local"] = [val |-> v, ack |-> TRUE]]
      BY <2>1, <3>1, <3>3, WriteTyped
    <3> QED BY <2>2, <3>2, <3>3
  <2>5. ShownTyped' /\ WorldTyped' /\ left \subseteq left'
    BY <2>1, <2>2, <2>4 DEF ShownTyped, WorldTyped
  <2>6. ConfirmedLeft'
    <3> SUFFICES ASSUME NEW e \in Datapoint, shown'[e].ack /\ shown'[e].val # 0
                 PROVE  \/ \E w \in Via : <<e, shown'[e].val, w>> \in left'
                        \/ e = "power" /\ shown'[e].val \in reported'
      BY DEF ConfirmedLeft
    <3>1. CASE shown'[e] = shown[e]
      BY <2>2, <3>1 DEF ChangeInv, ConfirmedLeft
    <3>2. CASE shown'[e] # shown[e]
      <4>1. e = "local" /\ job[h].dp = "local" /\ shown'[e].val = v
        BY <2>4, <3>2
      <4> QED BY <2>1, <2>2, <4>1 DEF JobHolds, v
    <3> QED BY <3>1, <3>2
  <2>7. /\ shown'["scene"] = shown["scene"] /\ shown'["music"] = shown["music"]
        /\ shown'["power"] = shown["power"]
    BY <2>4 DEF Datapoint
  <2>8. ConfirmedByReport'
    BY <2>2, <2>7 DEF ChangeInv, ConfirmedByReport
  <2>9. ModesMeetAReset'
    BY <2>1, <2>2, <2>7 DEF ChangeInv, ModesMeetAReset, Shows
  <2>10. j.dp = "power" => j.val \in Switch
    BY <2>3 DEF Switch
  <2> QED BY <2>2, <2>3, <2>5, <2>6, <2>8, <2>9, <2>10, JobMoves
<1> QED BY <1>1, <1>2, <1>3 DEF Resets

\* A report is shown, confirmed by the light itself; an off starts a reset.
LEMMA ReportKeeps ==
  ASSUME ChangeInv, NEW resets \in BOOLEAN, Reports(resets), pushReports' \subseteq {"power"}
  PROVE  ChangeInv'
<1> DEFINE old == job[ReportReset]
           j == IF resets THEN [Idle EXCEPT !.at = "reset", !.todo = MODE_DROPDOWNS] ELSE old
<1>0. ReportReset \in Job
  BY DEF Job
<1>1. /\ job \in [Job -> JobRecord] /\ JobFits(old) /\ JobHolds(ReportReset) /\ ShownTyped
      /\ WorldTyped
  BY <1>0, JobTyped
<1>2. /\ shown' = [shown EXCEPT !["power"] = [val |-> light, ack |-> TRUE]]
      /\ believed' = light /\ reported' = reported \cup {light}
      /\ UNCHANGED <<paths, light, events, left>>
      /\ resets => old.at = "idle"
  BY DEF Reports, Mirrored
<1>3. job' = [job EXCEPT ![ReportReset] = j]
  BY <1>0, <1>1 DEF Reports
<1>4. light \in Value /\ light \in Switch /\ "power" \in Datapoint
  BY <1>1, Numbers DEF ShownTyped, Datapoint
<1>5. /\ JobFits(j)
      /\ resets => j.at = "reset" /\ j.dp = "power" /\ j.val = 0
      /\ ~resets => j = old
  <2>1. CASE resets
    BY <2>1, Numbers DEF Idle, JobFits, JobRecord, Datapoint
  <2>2. CASE ~resets
    BY <1>1, <2>2
  <2> QED BY <2>1, <2>2
<1> HIDE DEF j
<1>6. /\ shown' \in [Datapoint -> [val : Value, ack : BOOLEAN]]
      /\ shown'["power"].val = light /\ \A e \in Datapoint \ {"power"} : shown'[e] = shown[e]
  BY <1>1, <1>2, <1>4, WriteTyped
<1>7. ShownTyped' /\ WorldTyped' /\ left \subseteq left'
  BY <1>1, <1>2, <1>4, <1>6 DEF ShownTyped, WorldTyped
<1>8. ConfirmedLeft'
  BY <1>2, <1>6 DEF ChangeInv, ConfirmedLeft
<1>9. ConfirmedByReport'
  BY <1>2, <1>6 DEF ConfirmedByReport
<1>10. ModesMeetAReset'
  <2>1. shown'["scene"] = shown["scene"] /\ shown'["music"] = shown["music"]
    BY <1>6 DEF Datapoint
  <2> SUFFICES ASSUME Shows("scene") /\ Shows("music")
               PROVE  \E g \in Job : {"scene", "music"} \cap (job'[g].todo \cup job'[g].zero) # {}
    BY <2>1 DEF ModesMeetAReset, Shows
  <2>2. PICK g \in Job : {"scene", "music"} \cap (job[g].todo \cup job[g].zero) # {}
    BY DEF ChangeInv, ModesMeetAReset
  <2>3. job'[g] = IF g = ReportReset THEN j ELSE job[g]
    BY <1>0, <1>1, <1>3
  <2>4. resets => g # ReportReset
    BY <1>1, <1>2, <2>2 DEF JobFits
  <2> QED BY <1>5, <2>2, <2>3, <2>4
<1>11. /\ j.dp = "power" => j.val \in Switch
       /\ j.at = "settle" => j.dp = "segment"
       /\ j.at = "read" => j.dp \in {"music", "sensitivity"}
       /\ j.at = "reset" /\ j.dp = "local" /\ j.val # 0 =>
            \E via \in Via : <<"local", j.val, via>> \in left'
  <2>1. CASE resets
    BY <1>5, <2>1 DEF Switch
  <2>2. CASE ~resets
    BY <1>1, <1>2, <1>5, <2>2 DEF JobHolds
  <2> QED BY <2>1, <2>2
<1> QED BY <1>0, <1>3, <1>5, <1>7, <1>8, <1>9, <1>10, <1>11, JobMoves

\* The world around the handlers: the app switches, channels come and go.
LEMMA WorldKeeps ==
  ASSUME ChangeInv, UNCHANGED <<shown, job, left, reported, believed>>,
         light' \in Switch, WorldTyped'
  PROVE  ChangeInv'
<1>1. ChangeTypeOK'
  BY DEF ChangeInv, ChangeTypeOK, WorldTyped
<1>2. \A g \in Job : JobHolds(g)'
  BY DEF ChangeInv, JobHolds
<1>3. ConfirmedLeft' /\ ConfirmedByReport' /\ ModesMeetAReset'
  BY DEF ChangeInv, ConfirmedLeft, ConfirmedByReport, ModesMeetAReset, Shows
<1> QED BY <1>1, <1>2, <1>3 DEF ChangeInv

\* Every step of the light's writes keeps the invariant.
LEMMA ChangeStep ==
  ASSUME ChangeInv, [ChangeNext]_changeVars
  PROVE  ChangeInv'
<1>1. ShownTyped /\ WorldTyped
  BY TypeParts DEF ChangeInv
<1>2. CASE AppSwitches \/ LanFound \/ BrokerChanges
  <2>1. UNCHANGED <<shown, job, left, reported, believed>>
    BY <1>2 DEF AppSwitches, LanFound, BrokerChanges
  <2>2. light' \in Switch
    BY <1>1, <1>2 DEF AppSwitches, LanFound, BrokerChanges, ShownTyped, Switch
  <2>3. events' \in 0..MaxEvents
    BY <1>1, <1>2, ChangeAssumption DEF AppSwitches, LanFound, BrokerChanges, WorldTyped
  <2>4. paths' \in [lan : BOOLEAN, broker : BOOLEAN, cloud : BOOLEAN]
    BY <1>1, <1>2 DEF AppSwitches, LanFound, BrokerChanges, WorldTyped
  <2>5. pushReports' \subseteq {"power"}
    BY <1>1, <1>2 DEF AppSwitches, LanFound, BrokerChanges, WorldTyped
  <2>6. WorldTyped'
    BY <2>3, <2>4, <2>5 DEF WorldTyped
  <2> QED BY <2>1, <2>2, <2>6, WorldKeeps
<1>3. CASE UNCHANGED changeVars
  <2>1. WorldTyped' /\ light' \in Switch
    BY <1>1, <1>3 DEF changeVars, WorldTyped, ShownTyped
  <2> QED BY <1>3, <2>1, WorldKeeps DEF changeVars
<1>4. CASE LanStatus
  <2>1. (light = 0 /\ believed # 0) \in BOOLEAN /\ pushReports' \subseteq {"power"}
    BY <1>1, <1>4 DEF LanStatus, WorldTyped
  <2> QED BY <1>4, <2>1, ReportKeeps DEF LanStatus
<1>5. CASE StatusPush
  <2>1. (light = 0) \in BOOLEAN /\ pushReports' \subseteq {"power"}
    BY <1>5 DEF StatusPush
  <2> QED BY <1>5, <2>1, ReportKeeps DEF StatusPush
<1> QED BY <1>2, <1>3, <1>4, <1>5, UserWriteKeeps, HandlerKeeps, ResetKeeps DEF ChangeNext

\* A light that nobody has written to yet.
LEMMA InitChange == ChangeInit => ChangeInv
<1> SUFFICES ASSUME ChangeInit PROVE ChangeInv
  OBVIOUS
<1>1. JobFits(Idle) /\ \A h \in Job : job[h] = Idle
  BY IdleFits DEF ChangeInit
<1>2. job \in [Job -> JobRecord]
  BY <1>1 DEF ChangeInit, JobFits
<1>3. ShownTyped /\ WorldTyped
  BY Numbers, ChangeAssumption DEF ChangeInit, ShownTyped, WorldTyped, Switch
<1>4. ChangeTypeOK
  BY <1>1, <1>2, <1>3, TypeParts
<1>5. \A h \in Job : JobHolds(h)
  BY <1>1, IdleFits DEF JobHolds, Switch
<1>6. ConfirmedLeft /\ ConfirmedByReport /\ ModesMeetAReset
  BY DEF ChangeInit, ConfirmedLeft, ConfirmedByReport, ModesMeetAReset, Shows, Datapoint
<1> QED BY <1>4, <1>5, <1>6 DEF ChangeInv

\* When every handler is through there is no reset, so not both modes are shown.
LEMMA AtRestOneMode ==
  ASSUME ChangeInv
  PROVE  OneModeShown
<1> SUFFICES ASSUME AtRest, Shows("scene"), Shows("music") PROVE FALSE
  BY DEF OneModeShown, Shows
<1>1. PICK h \in Job : {"scene", "music"} \cap (job[h].todo \cup job[h].zero) # {}
  BY DEF ChangeInv, ModesMeetAReset
<1>2. job[h].at # "reset" /\ JobFits(job[h])
  BY <1>1, JobTyped DEF AtRest
<1> QED BY <1>1, <1>2 DEF JobFits

\* A datapoint is shown as confirmed only on evidence that its channel can give,
\* and once the handlers of quick writes are through at most one of scene and music
\* is shown, however their sends, acks and resets interleave (state-change-router.ts,
\* onStateChange; command-router.ts, confirmationFor).
THEOREM ConfirmedStaysTrue == ChangeSpec => []ConfirmedIsTrue
<1>1. ChangeInv /\ [ChangeNext]_changeVars => ChangeInv'
  BY ChangeStep
<1>2. ChangeInv => ConfirmedIsTrue
  BY AtRestOneMode DEF ChangeInv, ConfirmedIsTrue
<1> QED BY InitChange, <1>1, <1>2, PTL DEF ChangeSpec

-----------------------------------------------------------------------------
\* Where one fan-out stands: nobody is in two of todo, took and failed, and until
\* it is over each member that has to take the command is in one of them.
FanHolds(f) ==
  /\ f.at = "sending" =>
       /\ f.counted = HasToTake(f.kind)
       /\ f.counted \subseteq f.todo \cup f.took \cup f.failed
       /\ f.todo \cap f.took = {} /\ f.todo \cap f.failed = {}
  /\ f.at = "idle" => f.todo = {}
  /\ f.at = "over" => f.todo = {}
  /\ f.at = "over" /\ f.counted # {} =>
       (f.acked <=> HasToTake(f.kind) \subseteq f.took /\ ~f.awaiting)

GroupInv == GroupTypeOK /\ \A w \in Write : FanHolds(fan[w])

FanType ==
  [at : {"idle", "sending", "over"}, kind : CommandKind, todo : SUBSET Member,
   counted : SUBSET Member, took : SUBSET Member, failed : SUBSET Member,
   awaiting : BOOLEAN, acked : BOOLEAN]

FanFits(f) == f \in FanType /\ f.failed \subseteq f.counted /\ f.took \cap f.failed = {}

\* A step of one fan-out keeps the invariant when the fan-out it leaves fits.
LEMMA OneFanMoves ==
  ASSUME GroupInv, NEW w \in Write, NEW f, FanFits(f), FanHolds(f),
         fan' = [fan EXCEPT ![w] = f], is' = is,
         online' \subseteq Member, broker' \in BOOLEAN, warnedMembers' \subseteq Member,
         warnedGroup' \in BOOLEAN, flips' \in 0..MaxFlips
  PROVE  GroupInv'
<1>1. fan' \in [Write -> FanType]
  BY DEF GroupInv, GroupTypeOK, FanType, FanFits
<1>2. \A v \in Write : fan'[v] = IF v = w THEN f ELSE fan[v]
  BY DEF GroupInv, GroupTypeOK
<1>3. \A v \in Write : FanFits(fan'[v])
  BY <1>2 DEF GroupInv, GroupTypeOK, FanFits, FanType
<1>4. \A v \in Write : FanHolds(fan'[v])
  BY <1>2 DEF GroupInv
<1>5. \A g : FanHolds(g) => FanHolds(g)'
  BY DEF FanHolds, HasToTake
<1> QED BY <1>1, <1>2, <1>3, <1>4, <1>5 DEF GroupInv, GroupTypeOK, FanFits, FanType

\* A group that nobody has written to yet.
LEMMA InitGroup == GroupInit => GroupInv
<1> SUFFICES ASSUME GroupInit PROVE GroupInv
  OBVIOUS
<1>1. NoFan \in FanType /\ FanFits(NoFan) /\ FanHolds(NoFan)
  BY DEF NoFan, FanType, FanFits, FanHolds, CommandKind
<1>2. \A w \in Write : fan[w] = NoFan
  BY DEF GroupInit
<1>3. is \in [Member -> MemberKind] /\ online \subseteq Member /\ broker \in BOOLEAN
  BY DEF GroupInit
<1>4. MaxFlips \in 0..MaxFlips
  BY GroupAssumption
<1>5. fan \in [Write -> FanType] /\ warnedMembers \subseteq Member
      /\ warnedGroup \in BOOLEAN /\ flips \in 0..MaxFlips
  BY <1>1, <1>4 DEF GroupInit
<1> QED BY <1>1, <1>2, <1>3, <1>5 DEF GroupInv, GroupTypeOK, FanFits, FanType

\* A fan-out begins, or ends at once with a warning.
LEMMA StartKeeps ==
  ASSUME GroupInv, NEW w \in Write, NEW kind \in CommandKind, StartFanOut(w, kind)
  PROVE  GroupInv'
<1>1. /\ is' = is /\ online' \subseteq Member /\ broker' \in BOOLEAN
      /\ warnedMembers' \subseteq Member /\ flips' \in 0..MaxFlips /\ warnedGroup' \in BOOLEAN
  BY DEF StartFanOut, GroupInv, GroupTypeOK
<1>2. Counted(kind) \in SUBSET Member /\ Reachable \in SUBSET Member
      /\ Counted(kind) = HasToTake(kind)
  BY DEF Counted, Reachable, HasToTake, CommandKind
<1>3. CASE Reachable = {}
  <2> DEFINE f == [NoFan EXCEPT !.at = "over", !.kind = kind, !.counted = Counted(kind)]
  <2>1. fan' = [fan EXCEPT ![w] = f]
    BY <1>3 DEF StartFanOut
  <2>2. FanFits(f)
    BY <1>2 DEF FanFits, FanType, NoFan
  <2>3. FanHolds(f)
    BY <1>2 DEF FanHolds, NoFan
  <2> HIDE DEF f
  <2> QED BY <1>1, <2>1, <2>2, <2>3, OneFanMoves
<1>4. CASE Reachable # {}
  <2> DEFINE f == [NoFan EXCEPT !.at = "sending", !.kind = kind, !.todo = Reachable,
                                !.counted = Counted(kind), !.failed = Counted(kind) \ Reachable]
  <2>1. fan' = [fan EXCEPT ![w] = f]
    BY <1>4 DEF StartFanOut
  <2>2. FanFits(f)
    BY <1>2 DEF FanFits, FanType, NoFan
  <2>3. FanHolds(f)
    BY <1>2 DEF FanHolds, NoFan
  <2> HIDE DEF f
  <2> QED BY <1>1, <2>1, <2>2, <2>3, OneFanMoves
<1> QED BY <1>3, <1>4

\* The dropdown's "---" is acked.
LEMMA NothingKeeps ==
  ASSUME GroupInv, NEW w \in Write, NEW kind \in CommandKind, SelectNothing(w, kind)
  PROVE  GroupInv'
<1> DEFINE f == [NoFan EXCEPT !.at = "over", !.kind = kind, !.acked = TRUE]
<1>1. /\ is' = is /\ online' \subseteq Member /\ broker' \in BOOLEAN
      /\ warnedMembers' \subseteq Member /\ flips' \in 0..MaxFlips /\ warnedGroup' \in BOOLEAN
      /\ fan' = [fan EXCEPT ![w] = f]
  BY DEF SelectNothing, GroupInv, GroupTypeOK
<1>2. FanFits(f) /\ FanHolds(f)
  BY DEF FanFits, FanHolds, FanType, NoFan
<1> HIDE DEF f
<1> QED BY <1>1, <1>2, OneFanMoves

\* What a member that is asked leaves of its fan-out.
MemberTook(f, m, awaits) ==
  [f EXCEPT !.todo = @ \ {m}, !.took = @ \cup {m}, !.awaiting = @ \/ (awaits /\ m \in f.counted)]
MemberFailed(f, m) == [f EXCEPT !.todo = @ \ {m}, !.failed = f.failed \cup ({m} \cap f.counted)]

\* A member that is asked moves from todo to took or failed.
LEMMA AskingKeeps ==
  ASSUME GroupInv, NEW w \in Write, NEW m \in fan[w].todo, fan[w].at = "sending",
         \/ \E awaits \in BOOLEAN : Takes(w, m, awaits)
         \/ TakesNothing(w, m)
  PROVE  GroupInv'
<1>0. fan[w] \in FanType /\ FanFits(fan[w]) /\ FanHolds(fan[w])
  BY DEF GroupInv, GroupTypeOK, FanFits, FanType
<1>1. /\ is' = is /\ online' \subseteq Member /\ broker' \in BOOLEAN
      /\ warnedMembers' \subseteq Member /\ flips' \in 0..MaxFlips /\ warnedGroup' \in BOOLEAN
  BY DEF Takes, TakesNothing, GroupInv, GroupTypeOK
<1>2. ASSUME NEW awaits \in BOOLEAN, Takes(w, m, awaits)
      PROVE  GroupInv'
  <2> DEFINE f == MemberTook(fan[w], m, awaits)
  <2>1. fan' = [fan EXCEPT ![w] = f]
    BY <1>0, <1>2 DEF Takes, MemberTook, GroupInv, GroupTypeOK
  <2>2. f \in FanType
    BY <1>0 DEF MemberTook, FanType
  <2>3. /\ f.at = "sending" /\ f.kind = fan[w].kind /\ f.counted = fan[w].counted
        /\ f.todo = fan[w].todo \ {m} /\ f.took = fan[w].took \cup {m} /\ f.failed = fan[w].failed
    BY <1>0 DEF MemberTook, FanType
  <2>4. m \notin fan[w].failed
    BY <1>0 DEF FanHolds
  <2>5. FanFits(f) /\ FanHolds(f)
    BY <1>0, <2>2, <2>3, <2>4 DEF FanFits, FanHolds
  <2> HIDE DEF f
  <2> QED BY <1>1, <2>1, <2>5, OneFanMoves
<1>3. ASSUME TakesNothing(w, m)
      PROVE  GroupInv'
  <2> DEFINE f == MemberFailed(fan[w], m)
  <2>1. fan' = [fan EXCEPT ![w] = f]
    BY <1>0, <1>3 DEF TakesNothing, FailedWith, MemberFailed, GroupInv, GroupTypeOK
  <2>2. f \in FanType
    BY <1>0 DEF MemberFailed, FanType
  <2>3. /\ f.at = "sending" /\ f.kind = fan[w].kind /\ f.counted = fan[w].counted
        /\ f.todo = fan[w].todo \ {m} /\ f.took = fan[w].took
        /\ f.failed = fan[w].failed \cup ({m} \cap fan[w].counted)
    BY <1>0 DEF MemberFailed, FanType
  <2>4. m \notin fan[w].took
    BY <1>0 DEF FanHolds
  <2>5. FanFits(f) /\ FanHolds(f)
    BY <1>0, <2>2, <2>3, <2>4 DEF FanFits, FanHolds
  <2> HIDE DEF f
  <2> QED BY <1>1, <2>1, <2>5, OneFanMoves
<1> QED BY <1>2, <1>3

\* A fan-out ends when nobody is left to ask.
LEMMA EndKeeps ==
  ASSUME GroupInv, NEW w \in Write, EndFanOut(w)
  PROVE  GroupInv'
<1> DEFINE g == fan[w]
           acked == g.took # {} /\ g.failed = {} /\ ~g.awaiting
           f == [g EXCEPT !.at = "over", !.acked = acked]
<1>0. g \in FanType /\ FanFits(g) /\ FanHolds(g)
  BY DEF GroupInv, GroupTypeOK, FanFits, FanType
<1>1. /\ is' = is /\ online' \subseteq Member /\ broker' \in BOOLEAN
      /\ warnedMembers' \subseteq Member /\ flips' \in 0..MaxFlips /\ warnedGroup' \in BOOLEAN
  BY <1>0 DEF EndFanOut, reportFailedMembers, GroupInv, GroupTypeOK, FanType
<1>2. fan' = [fan EXCEPT ![w] = f] /\ g.at = "sending" /\ g.todo = {}
  BY <1>0 DEF EndFanOut, GroupInv, GroupTypeOK
<1>3. acked \in BOOLEAN
  OBVIOUS
<1> HIDE DEF acked
<1>4. f \in FanType /\ f.at = "over" /\ f.acked = acked /\ f.kind = g.kind
      /\ f.counted = g.counted
      /\ f.took = g.took /\ f.failed = g.failed /\ f.awaiting = g.awaiting /\ f.todo = g.todo
  BY <1>0, <1>3 DEF FanType
<1>5. g.counted = HasToTake(g.kind) /\ g.counted \subseteq g.took \cup g.failed
      /\ g.took \cap g.failed = {} /\ g.failed \subseteq g.counted
  BY <1>0, <1>2 DEF FanHolds, FanFits
<1>6. g.counted # {} => (acked <=> HasToTake(g.kind) \subseteq g.took /\ ~g.awaiting)
  BY <1>5 DEF acked
<1> HIDE DEF f
<1>7. FanFits(f) /\ FanHolds(f)
  BY <1>2, <1>4, <1>5, <1>6 DEF FanFits, FanHolds
<1> QED BY <1>1, <1>2, <1>7, OneFanMoves

\* A member is asked only while its fan-out runs.
LEMMA AskedAre ==
  ASSUME GroupInv, NEW w \in Write, NEW m \in Member,
         SendBasic(w, m) \/ fanOutScene(w, m) \/ fanOutMusic(w, m)
  PROVE  /\ m \in fan[w].todo
         /\ \/ \E awaits \in BOOLEAN : Takes(w, m, awaits)
            \/ TakesNothing(w, m)
BY DEF SendBasic, fanOutScene, fanOutMusic

\* Asking a member leaves the other fields of every fan-out, and no ack behind.
LEMMA AskingEndsNothing ==
  ASSUME GroupInv, NEW w \in Write, NEW m \in Member,
         \/ \E awaits \in BOOLEAN : Takes(w, m, awaits)
         \/ TakesNothing(w, m)
  PROVE  \A v \in Write : fan'[v].at = fan[v].at
<1>1. fan \in [Write -> FanType]
  BY DEF GroupInv, GroupTypeOK, FanType
<1>2. ASSUME NEW f, f.at = fan[w].at, fan' = [fan EXCEPT ![w] = f]
      PROVE  \A v \in Write : fan'[v].at = fan[v].at
  BY <1>1, <1>2
<1>3. ASSUME NEW awaits \in BOOLEAN, Takes(w, m, awaits)
      PROVE  \A v \in Write : fan'[v].at = fan[v].at
  <2> DEFINE f == MemberTook(fan[w], m, awaits)
  <2>1. fan' = [fan EXCEPT ![w] = f]
    BY <1>1, <1>3 DEF Takes, MemberTook
  <2>2. f.at = fan[w].at
    BY <1>1 DEF MemberTook, FanType
  <2> HIDE DEF f
  <2> QED BY <1>2, <2>1, <2>2
<1>4. ASSUME TakesNothing(w, m)
      PROVE  \A v \in Write : fan'[v].at = fan[v].at
  <2> DEFINE f == MemberFailed(fan[w], m)
  <2>1. fan' = [fan EXCEPT ![w] = f]
    BY <1>1, <1>4 DEF TakesNothing, FailedWith, MemberFailed
  <2>2. f.at = fan[w].at
    BY <1>1 DEF MemberFailed, FanType
  <2> HIDE DEF f
  <2> QED BY <1>2, <2>1, <2>2
<1> QED BY <1>3, <1>4

\* A fan-out that ends unconfirmed is warned about, or waits for a report alone.
LEMMA EndIsTold ==
  ASSUME GroupInv, NEW w \in Write, EndFanOut(w)
  PROVE  NobodyIsLeftUntold
<1> DEFINE g == fan[w]
           acked == g.took # {} /\ g.failed = {} /\ ~g.awaiting
           f == [g EXCEPT !.at = "over", !.acked = acked]
<1>0. g \in FanType /\ FanFits(g) /\ FanHolds(g) /\ fan \in [Write -> FanType]
  BY DEF GroupInv, GroupTypeOK, FanFits, FanType
<1>1. /\ fan' = [fan EXCEPT ![w] = f] /\ g.at = "sending"
      /\ warnedGroup' = (g.took = {})
      /\ g.took # {} => warnedMembers' = warnedMembers \cup g.failed
      /\ is' = is
  BY <1>0 DEF EndFanOut, reportFailedMembers
<1>2. acked \in BOOLEAN /\ (acked <=> g.took # {} /\ g.failed = {} /\ ~g.awaiting)
  OBVIOUS
<1> HIDE DEF acked
<1>3. /\ f.acked = acked /\ f.kind = g.kind
      /\ f.took = g.took /\ f.failed = g.failed /\ f.awaiting = g.awaiting
  BY <1>0, <1>2 DEF FanType
<1> HIDE DEF f
<1>4. \A v \in Write : fan'[v] = IF v = w THEN f ELSE fan[v]
  BY <1>0, <1>1
<1>5. g.failed \subseteq HasToTake(g.kind) \ g.took
  BY <1>0, <1>1 DEF FanHolds, FanFits
<1> SUFFICES ASSUME ~f.acked
             PROVE  \/ f.awaiting /\ f.failed = {}
                    \/ warnedGroup'
                    \/ (HasToTake(f.kind) \ f.took) \cap warnedMembers' # {}
  BY <1>4 DEF NobodyIsLeftUntold
<1> QED BY <1>1, <1>2, <1>3, <1>5

\* Every step keeps the invariant and tells what it leaves undone.
LEMMA GroupStep ==
  ASSUME GroupInv, [GroupNext]_groupVars
  PROVE  GroupInv' /\ NobodyIsLeftUntold
<1>1. ASSUME NEW w \in Write, NEW k \in CommandKind, StartFanOut(w, k)
      PROVE  GroupInv' /\ NobodyIsLeftUntold
  <2>1. NobodyIsLeftUntold
    <3>0. fan \in [Write -> FanType]
      BY DEF GroupInv, GroupTypeOK, FanType
    <3>1. CASE Reachable = {}
      <4>1. warnedGroup' /\ \A v \in Write \ {w} : fan'[v] = fan[v]
        BY <1>1, <3>0, <3>1 DEF StartFanOut
      <4> QED BY <4>1 DEF NobodyIsLeftUntold
    <3>2. CASE Reachable # {}
      <4>1. fan'[w].at = "sending" /\ \A v \in Write \ {w} : fan'[v] = fan[v]
        BY <1>1, <3>0, <3>2 DEF StartFanOut, NoFan
      <4> QED BY <4>1 DEF NobodyIsLeftUntold
    <3> QED BY <3>1, <3>2
  <2> QED BY <1>1, <2>1, StartKeeps
<1>2. ASSUME NEW w \in Write, NEW k \in CommandKind, SelectNothing(w, k)
      PROVE  GroupInv' /\ NobodyIsLeftUntold
  <2>1. NobodyIsLeftUntold
    BY <1>2 DEF SelectNothing, NobodyIsLeftUntold, GroupInv, GroupTypeOK, NoFan
  <2> QED BY <1>2, <2>1, NothingKeeps
<1>3. ASSUME NEW w \in Write, NEW m \in Member,
             SendBasic(w, m) \/ fanOutScene(w, m) \/ fanOutMusic(w, m)
      PROVE  GroupInv' /\ NobodyIsLeftUntold
  <2>1. /\ m \in fan[w].todo
        /\ \/ \E awaits \in BOOLEAN : Takes(w, m, awaits)
           \/ TakesNothing(w, m)
    BY <1>3, AskedAre
  <2>2. fan[w].at = "sending"
    BY <2>1 DEF GroupInv, GroupTypeOK, FanHolds
  <2>3. GroupInv'
    BY <2>1, <2>2, AskingKeeps
  <2>4. NobodyIsLeftUntold
    BY <2>1, AskingEndsNothing DEF NobodyIsLeftUntold
  <2> QED BY <2>3, <2>4
<1>4. ASSUME NEW w \in Write, EndFanOut(w)
      PROVE  GroupInv' /\ NobodyIsLeftUntold
  BY <1>4, EndKeeps, EndIsTold
<1>5. ASSUME UNCHANGED <<is, fan, warnedMembers, warnedGroup>>,
             online' \subseteq Member, broker' \in BOOLEAN, flips' \in 0..MaxFlips
      PROVE  GroupInv' /\ NobodyIsLeftUntold
  <2>1. \A v \in Write : FanHolds(fan[v])'
    BY <1>5 DEF GroupInv, FanHolds, HasToTake
  <2>2. GroupTypeOK'
    BY <1>5 DEF GroupInv, GroupTypeOK
  <2>3. NobodyIsLeftUntold
    BY <1>5 DEF NobodyIsLeftUntold
  <2> QED BY <2>1, <2>2, <2>3 DEF GroupInv
<1>6. CASE \/ \E m \in Member : OnlineFlips(m)
           \/ BrokerFlips
           \/ UNCHANGED groupVars
  <2>1. UNCHANGED <<is, fan, warnedMembers, warnedGroup>>
    BY <1>6 DEF OnlineFlips, BrokerFlips, groupVars
  <2>2. online' \subseteq Member /\ broker' \in BOOLEAN
    BY <1>6 DEF OnlineFlips, BrokerFlips, groupVars, GroupInv, GroupTypeOK
  <2>3. flips' \in 0..MaxFlips
    BY <1>6, GroupAssumption DEF OnlineFlips, BrokerFlips, groupVars, GroupInv, GroupTypeOK
  <2> QED BY <1>5, <2>1, <2>2, <2>3
<1> QED BY <1>1, <1>2, <1>3, <1>4, <1>6 DEF GroupNext

\* A fan-out that is over is confirmed exactly when everyone who counts took it.
LEMMA GroupInvConfirms == GroupInv => GroupTypeOK /\ GroupConfirmed
BY DEF GroupInv, FanHolds, GroupConfirmed

\* A group is confirmed exactly when the members that have to take the command took
\* it with nothing left to report, and a write that ends unconfirmed is told, however
\* fan-outs overlap and members come and go (group-fanout.ts, fanOut).
THEOREM GroupIsAlwaysTold == GroupSpec => GroupIsTold
<1>1. GroupInv /\ [GroupNext]_groupVars => GroupInv' /\ NobodyIsLeftUntold
  BY GroupStep
<1>2. GroupInv /\ [GroupNext]_groupVars => [NobodyIsLeftUntold]_groupVars
  BY <1>1
<1> QED BY InitGroup, <1>1, <1>2, GroupInvConfirms, PTL DEF GroupSpec, GroupIsTold

-----------------------------------------------------------------------------
JobRec == [result : Outcome \cup {"none"}, age : 0..Keep + 1]

\* A card that goes on asking for a job it was given.
Waits(k) ==
  /\ k.job # NoJob /\ ~k.excuse
  /\ \/ k.at = "asking"
     \/ k.at = "answered" /\ k.answer \in {"job", "pending"}
     \/ k.at = "pause" /\ k.left > 0

\* Its job is still in the map, and ready for no longer than the card has waited.
IsThere(k, js) ==
  /\ k.job \in DOMAIN js
  /\ js[k.job].result = "none" \/ js[k.job].age + k.left <= Patience

\* What a card alone may say.
CardSays(k) ==
  /\ k.job # NoJob => k.job[1] = k.dev
  /\ k.at = "idle" => k.job = NoJob
  /\ k.answer = "gone" => k.excuse
  /\ k.answer = "report" => k.of = k.dev
  /\ k.at = "answered" => k.answer \in {"job", "pending", "gone", "report", "error"}

Given == {c \in Card : card[c].job # NoJob}

\* Each job was counted when it began: no number is given twice, no more reports are
\* ready or made than jobs were begun, and each was begun for a card of its own.
JobsCounted ==
  /\ \A j \in DOMAIN jobs : j[2] <= jobCount
  /\ \A m \in makes : m.job[2] <= jobCount
  /\ IsFiniteSet(makes) /\ ready + Cardinality(makes) <= jobCount
  /\ jobCount <= Cardinality(Given)

CardsHold == \A c \in Card : card[c] \in CardRecord /\ CardSays(card[c])

CardsServed == ~halted => \A c \in Card : Waits(card[c]) => IsThere(card[c], jobs)

\* The adapter's side of ReportTypeOK.
JobsTyped ==
  /\ jobs \in [DOMAIN jobs -> JobRec]
  /\ DOMAIN jobs \subseteq JobId
  /\ makes \subseteq [job : JobId, stage : {"live", "build"}]
  /\ jobCount \in Nat /\ ready \in Nat
  /\ halted \in BOOLEAN /\ up \in BOOLEAN /\ processes \in 1..MaxProcesses
  /\ cooling \subseteq Reported

ReportInv ==
  /\ JobsTyped /\ JobsCounted /\ OpenJobIsMade
  /\ card \in [Card -> CardRecord] /\ CardsHold /\ CardsServed

\* The cards that hold a job are finitely many, no more than there are.
LEMMA GivenCount ==
  /\ IsFiniteSet(Given) /\ Cardinality(Given) \in Nat /\ Cardinality(Given) <= Cardinality(Card)
  /\ Cardinality(Card) \in Nat
BY ReportAssumption, FS_Subset, FS_CardinalityType DEF Given

\* The invariant of the report jobs holds their type invariant.
LEMMA ReportInvTypes == ReportInv => ReportTypeOK
<1> SUFFICES ASSUME ReportInv PROVE ReportTypeOK
  OBVIOUS
<1>1. Cardinality(makes) \in Nat
  BY FS_CardinalityType DEF ReportInv, JobsCounted
<1>2. jobCount \in 0..Cardinality(Card) /\ ready \in 0..jobCount
  BY <1>1, GivenCount DEF ReportInv, JobsTyped, JobsCounted
<1> QED BY <1>2 DEF ReportInv, JobsTyped, ReportTypeOK, JobRec

\* A step that gives no card a job and leaves the counts keeps the count.
LEMMA SameCount ==
  ASSUME ReportInv, DOMAIN jobs' \subseteq DOMAIN jobs, makes' = makes,
         UNCHANGED <<jobCount, ready>>, \A c \in Card : card'[c].job = card[c].job
  PROVE  JobsCounted'
<1>1. Given' = Given
  BY DEF Given
<1> QED BY <1>1 DEF ReportInv, JobsCounted

\* A step of one card alone.
LEMMA CardMoves ==
  ASSUME ReportInv, NEW c \in Card, NEW k \in CardRecord, CardStep(c, k),
         k.job = card[c].job, CardSays(k),
         Waits(k) => Waits(card[c]) /\ k.left <= card[c].left
  PROVE  ReportInv'
<1>1. /\ UNCHANGED <<jobs, makes, jobCount, halted, up, processes, cooling, ready>>
      /\ card' = [card EXCEPT ![c] = k] /\ card \in [Card -> CardRecord]
  BY DEF CardStep, ReportInv
<1>2. card' \in [Card -> CardRecord] /\ \A e \in Card : card'[e] = IF e = c THEN k ELSE card[e]
  BY <1>1
<1>3. JobsTyped' /\ OpenJobIsMade'
  BY <1>1 DEF ReportInv, JobsTyped, OpenJobIsMade
<1>4. JobsCounted'
  <2>1. \A e \in Card : card'[e].job = card[e].job
    BY <1>2
  <2> QED BY <1>1, <2>1, SameCount
<1>5. CardsHold'
  BY <1>2 DEF ReportInv, CardsHold
<1>6. CardsServed'
  <2> SUFFICES ASSUME ~halted, NEW e \in Card, Waits(card'[e])
               PROVE  IsThere(card'[e], jobs)
    BY <1>1 DEF CardsServed, IsThere
  <2>1. CASE e # c
    BY <1>2, <2>1 DEF ReportInv, CardsServed
  <2>2. CASE e = c
    <3>1. IsThere(card[c], jobs) /\ k.left <= card[c].left /\ card'[e] = k
      BY <1>2, <2>2 DEF ReportInv, CardsServed
    <3>2. k.left \in Int /\ card[c].left \in Int /\ \A j \in DOMAIN jobs : jobs[j].age \in Int
      BY <1>1 DEF CardRecord, ReportInv, JobsTyped, JobRec
    <3> QED BY <3>1, <3>2, ReportAssumption DEF IsThere
  <2> QED BY <2>1, <2>2
<1> QED BY <1>2, <1>3, <1>4, <1>5, <1>6 DEF ReportInv

\* The steps of a card.
LEMMA CardKeeps ==
  ASSUME ReportInv, NEW c \in Card,
         Export(c) \/ AskAgain(c) \/ GiveUp(c) \/ Receive(c) \/ Lost(c) \/ SeenDown(c)
  PROVE  ReportInv'
<1>0. card[c] \in CardRecord /\ CardSays(card[c]) /\ 0 \in 0..Patience
  BY ReportAssumption DEF ReportInv, CardsHold
<1>1. ASSUME NEW a \in {"unavailable", "job", "none", "pending"} \cup {card[c].answer},
             CardStep(c, CardEnds(c, a)), card[c].at # "idle"
      PROVE  ReportInv'
  <2> DEFINE k == CardEnds(c, a)
  <2>1. /\ k \in CardRecord /\ k.at = "ended" /\ k.answer = a /\ k.job = card[c].job
        /\ k.dev = card[c].dev /\ k.of = card[c].of /\ k.excuse = card[c].excuse
    BY <1>0 DEF CardEnds, CardRecord
  <2> HIDE DEF k
  <2>2. CardSays(k) /\ ~Waits(k)
    BY <1>0, <2>1 DEF CardSays, Waits
  <2>3. CardStep(c, k)
    BY <1>1 DEF k
  <2> QED BY <2>1, <2>2, <2>3, CardMoves
<1>2. ASSUME NEW to \in {"asking", "pause"}, NEW x \in BOOLEAN, card[c].excuse => x,
             CardStep(c, [card[c] EXCEPT !.at = to, !.excuse = x]),
             card[c].job = NoJob \/ x \/ Waits(card[c])
      PROVE  ReportInv'
  <2> DEFINE k == [card[c] EXCEPT !.at = to, !.excuse = x]
  <2>1. /\ k \in CardRecord /\ k.at = to /\ k.answer = card[c].answer /\ k.job = card[c].job
        /\ k.dev = card[c].dev /\ k.of = card[c].of /\ k.excuse = x /\ k.left = card[c].left
    BY <1>0 DEF CardRecord
  <2>0. card[c].left \in Int /\ CardStep(c, k)
    BY <1>0, <1>2, ReportAssumption DEF CardRecord
  <2> HIDE DEF k
  <2>2. k.at \notin {"idle", "answered"} /\ (card[c].excuse => k.excuse)
    BY <1>2, <2>1
  <2>3. CardSays(k)
    BY <1>0, <2>1, <2>2 DEF CardSays
  <2>4. CASE card[c].job = NoJob \/ x
    <3>1. ~Waits(k)
      BY <2>1, <2>4 DEF Waits
    <3> QED BY <2>0, <2>1, <2>3, <3>1, CardMoves
  <2>5. CASE Waits(card[c])
    BY <2>0, <2>1, <2>3, <2>5, CardMoves
  <2> QED BY <1>2, <2>4, <2>5
<1>3. CASE Export(c)
  <2>1. card[c].job = NoJob
        /\ [card[c] EXCEPT !.at = "asking"] = [card[c] EXCEPT !.at = "asking", !.excuse = card[c].excuse]
    BY <1>0, <1>3 DEF Export, CardRecord, CardSays
  <2>2. card[c].excuse \in BOOLEAN
    BY <1>0 DEF CardRecord
  <2> QED BY <1>2, <1>3, <2>1, <2>2 DEF Export
<1>4. CASE AskAgain(c)
  <2>1. [card[c] EXCEPT !.at = "asking"] = [card[c] EXCEPT !.at = "asking", !.excuse = card[c].excuse]
    BY <1>0 DEF CardRecord
  <2>2. card[c].excuse \in BOOLEAN
    BY <1>0 DEF CardRecord
  <2>3. card[c].job = NoJob \/ card[c].excuse \/ Waits(card[c])
    BY <1>4 DEF AskAgain, Waits
  <2> QED BY <1>2, <1>4, <2>1, <2>2, <2>3 DEF AskAgain
<1>5. CASE GiveUp(c)
  BY <1>1, <1>5 DEF GiveUp
<1>6. CASE Receive(c)
  <2>1. CASE card[c].answer \in {"job", "pending"}
    <3>1. [card[c] EXCEPT !.at = "pause"] = [card[c] EXCEPT !.at = "pause", !.excuse = card[c].excuse]
      BY <1>0 DEF CardRecord
    <3>2. card[c].excuse \in BOOLEAN
      BY <1>0 DEF CardRecord
    <3>3. card[c].job = NoJob \/ card[c].excuse \/ Waits(card[c])
      BY <1>6, <2>1 DEF Receive, Waits
    <3> QED BY <1>2, <1>6, <2>1, <3>1, <3>2, <3>3 DEF Receive
  <2>2. CASE card[c].answer \notin {"job", "pending"}
    BY <1>1, <1>6, <2>2 DEF Receive
  <2> QED BY <2>1, <2>2
<1>7. CASE Lost(c)
  <2>1. CASE card[c].job = NoJob \/ (card[c].at = "answered" /\ card[c].answer = "job")
    BY <1>1, <1>7, <2>1 DEF Lost
  <2>2. CASE ~(card[c].job = NoJob \/ (card[c].at = "answered" /\ card[c].answer = "job"))
    <3> DEFINE x == card[c].excuse \/ (card[c].at = "answered" /\ card[c].answer \in Outcome)
    <3>1. x \in BOOLEAN /\ (card[c].excuse => x)
      BY <1>0 DEF CardRecord
    <3>2. x \/ Waits(card[c])
      BY <1>0, <1>7, <2>2 DEF Lost, Waits, CardSays, Outcome
    <3>3. CardStep(c, [card[c] EXCEPT !.at = "pause", !.excuse = x])
      BY <1>0, <1>7, <2>2 DEF Lost
    <3> HIDE DEF x
    <3> QED BY <1>2, <3>1, <3>2, <3>3
  <2> QED BY <2>1, <2>2
<1>8. CASE SeenDown(c)
  BY <1>1, <1>8 DEF SeenDown
<1> QED BY <1>3, <1>4, <1>5, <1>6, <1>7, <1>8

-----------------------------------------------------------------------------
\* What a message drops is done and long unfetched.
LEMMA KeptKeeps ==
  ASSUME ReportInv
  PROVE  /\ DOMAIN Kept(jobs) \subseteq DOMAIN jobs
         /\ \A j \in DOMAIN Kept(jobs) : Kept(jobs)[j] = jobs[j]
         /\ \A j \in DOMAIN jobs : jobs[j].result = "none" \/ jobs[j].age <= Keep => j \in DOMAIN Kept(jobs)
BY DEF Kept, Restrict

\* So it is the job of no card that waits for it.
LEMMA KeptServes ==
  ASSUME ReportInv, NEW k \in CardRecord, IsThere(k, jobs)
  PROVE  IsThere(k, Kept(jobs))
<1>1. k.left \in Nat /\ \A j \in DOMAIN jobs : jobs[j].age \in Nat
  BY DEF CardRecord, ReportInv, JobsTyped, JobRec
<1>2. jobs[k.job].result = "none" \/ jobs[k.job].age <= Keep
  BY <1>1, ReportAssumption DEF IsThere
<1> QED BY <1>2, KeptKeeps DEF IsThere

\* Whatever else happens to the map, the open jobs and the ones waited for stay.
LEMMA KeptJobs ==
  ASSUME ReportInv, NEW js, js = Kept(jobs)
  PROVE  /\ js \in [DOMAIN js -> JobRec] /\ DOMAIN js \subseteq DOMAIN jobs
         /\ {j \in DOMAIN js : js[j].result = "none"} = {j \in DOMAIN jobs : jobs[j].result = "none"}
         /\ CardsServed => (~halted => \A c \in Card : Waits(card[c]) => IsThere(card[c], js))
<1>1. js \in [DOMAIN js -> JobRec]
  BY DEF Kept, Restrict, ReportInv, JobsTyped
<1>2. \A c \in Card : IsThere(card[c], jobs) => IsThere(card[c], js)
  BY KeptServes DEF ReportInv
<1> QED BY <1>1, <1>2, KeptKeeps DEF CardsServed

\* An answer given to a card.
LEMMA AnsweredCard ==
  ASSUME ReportInv, NEW c \in Card,
         NEW a \in {"job", "pending", "gone", "error"}, a = "gone" => card[c].excuse
  PROVE  /\ Answered(c, a) \in [Card -> CardRecord]
         /\ \A e \in Card \ {c} : Answered(c, a)[e] = card[e]
         /\ LET k == Answered(c, a)[c] IN
              /\ k.at = "answered" /\ k.answer = a /\ k.job = card[c].job /\ k.dev = card[c].dev
              /\ k.excuse = card[c].excuse /\ k.left = card[c].left /\ k.of = card[c].of
              /\ CardSays(k)
<1>1. card \in [Card -> CardRecord] /\ CardSays(card[c])
  BY DEF ReportInv, CardsHold
<1>2. Answered(c, a) = [card EXCEPT ![c] = [card[c] EXCEPT !.at = "answered", !.answer = a]]
  BY <1>1 DEF Answered
<1> DEFINE k == [card[c] EXCEPT !.at = "answered", !.answer = a]
<1>3. /\ k \in CardRecord
      /\ k.at = "answered" /\ k.answer = a /\ k.job = card[c].job /\ k.dev = card[c].dev
      /\ k.excuse = card[c].excuse /\ k.left = card[c].left /\ k.of = card[c].of
  BY <1>1 DEF CardRecord
<1> HIDE DEF k
<1>4. Answered(c, a) = [card EXCEPT ![c] = k]
  BY <1>2 DEF k
<1>5. CardSays(k)
  BY <1>1, <1>3 DEF CardSays
<1> QED BY <1>1, <1>3, <1>4, <1>5

\* A message that only drops what is done and answers one card, or none.
LEMMA DropsAndAnswers ==
  ASSUME ReportInv, ~halted, jobs' = Kept(jobs),
         UNCHANGED <<makes, jobCount, halted, up, processes, cooling, ready>>,
         card' \in [Card -> CardRecord],
         \A e \in Card : CardSays(card'[e]) /\ (card[e].job # NoJob => card'[e].job # NoJob),
         \A e \in Card : Waits(card'[e]) => card'[e] = card[e] \/ IsThere(card'[e], Kept(jobs))
                                             \/ (Waits(card[e]) /\ card'[e].job = card[e].job
                                                 /\ card'[e].left = card[e].left)
  PROVE  ReportInv'
<1> DEFINE js == Kept(jobs)
<1> HIDE DEF js
<1>0. js = Kept(jobs)
  BY DEF js
<1>1. /\ js \in [DOMAIN js -> JobRec] /\ DOMAIN js \subseteq DOMAIN jobs
      /\ {j \in DOMAIN js : js[j].result = "none"} = {j \in DOMAIN jobs : jobs[j].result = "none"}
      /\ \A e \in Card : Waits(card[e]) => IsThere(card[e], js)
  BY <1>0, KeptJobs DEF ReportInv
<1>2. JobsTyped' /\ OpenJobIsMade'
  BY <1>0, <1>1 DEF ReportInv, JobsTyped, OpenJobIsMade
<1>3. JobsCounted'
  <2>1. Given \subseteq Given'
    BY DEF Given
  <2>2. IsFiniteSet(Given') /\ Given' \subseteq Card
    BY ReportAssumption, FS_Subset DEF Given
  <2>3. Cardinality(Given) <= Cardinality(Given') /\ Cardinality(Given) \in Nat
        /\ Cardinality(Given') \in Nat
    BY <2>1, <2>2, FS_Subset, FS_CardinalityType
  <2>4. jobCount <= Cardinality(Given')
    BY <2>3 DEF ReportInv, JobsCounted, JobsTyped
  <2>5. \A j \in DOMAIN jobs' : j[2] <= jobCount'
    BY <1>0, <1>1 DEF ReportInv, JobsCounted
  <2>6. /\ \A m \in makes' : m.job[2] <= jobCount'
        /\ IsFiniteSet(makes') /\ ready' + Cardinality(makes') <= jobCount'
    BY DEF ReportInv, JobsCounted
  <2>7. jobCount' <= Cardinality(Given')
    BY <2>4
  <2> QED BY <2>5, <2>6, <2>7 DEF JobsCounted
<1>4. CardsHold'
  BY DEF CardsHold
<1>5. CardsServed'
  <2> SUFFICES ASSUME NEW e \in Card, Waits(card'[e])
               PROVE  IsThere(card'[e], js)
    BY <1>0 DEF CardsServed, IsThere
  <2>1. CASE Waits(card[e]) /\ card'[e].job = card[e].job /\ card'[e].left = card[e].left
    BY <1>1, <2>1 DEF IsThere
  <2>2. CASE card'[e] = card[e]
    BY <1>1, <2>2
  <2> QED BY <1>0, <2>1, <2>2
<1> QED BY <1>2, <1>3, <1>4, <1>5 DEF ReportInv

\* Asking which lights can be reported on changes no job.
LEMMA ListKeeps == ASSUME ReportInv, List PROVE ReportInv'
BY DropsAndAnswers DEF List, ReportInv, CardsHold

\* A device that is not there, and any message behind the stop.
LEMMA RefusalKeeps ==
  ASSUME ReportInv, NEW c \in Card, card' = Answered(c, "error"),
         UNCHANGED <<makes, jobCount, halted, up, processes, cooling, ready>>,
         (halted /\ jobs' = jobs) \/ (~halted /\ jobs' = Kept(jobs))
  PROVE  ReportInv'
<1>1. /\ card' \in [Card -> CardRecord] /\ \A e \in Card \ {c} : card'[e] = card[e]
      /\ card'[c].at = "answered" /\ card'[c].answer = "error" /\ card'[c].job = card[c].job
      /\ CardSays(card'[c])
  BY AnsweredCard
<1>2. ~Waits(card'[c]) /\ \A e \in Card : CardSays(card'[e]) /\ card'[e].job = card[e].job
  BY <1>1 DEF Waits, ReportInv, CardsHold
<1>3. CASE ~halted /\ jobs' = Kept(jobs)
  BY <1>1, <1>2, <1>3, DropsAndAnswers
<1>4. CASE halted /\ jobs' = jobs
  <2>1. JobsCounted'
    BY <1>2, <1>4, SameCount
  <2>2. JobsTyped' /\ OpenJobIsMade'
    BY <1>4 DEF ReportInv, JobsTyped, OpenJobIsMade
  <2>3. CardsHold' /\ CardsServed'
    BY <1>1, <1>2, <1>4 DEF CardsHold, CardsServed
  <2> QED BY <1>1, <2>1, <2>2, <2>3 DEF ReportInv
<1> QED BY <1>3, <1>4

\* The result of a job: gone, pending, or handed over and dropped.
LEMMA ResultKeeps ==
  ASSUME ReportInv, NEW c \in Card, Result(c), ~halted, card[c].at = "asking", card[c].job # NoJob,
         UNCHANGED <<halted, up, processes, cooling, ready>>
  PROVE  ReportInv'
<1> DEFINE js == Kept(jobs)
           j == card[c].job
<1> HIDE DEF js
<1>0. js = Kept(jobs)
  BY DEF js
<1>1. /\ js \in [DOMAIN js -> JobRec] /\ DOMAIN js \subseteq DOMAIN jobs
      /\ {i \in DOMAIN js : js[i].result = "none"} = {i \in DOMAIN jobs : jobs[i].result = "none"}
      /\ \A e \in Card : Waits(card[e]) => IsThere(card[e], js)
  BY <1>0, KeptJobs DEF ReportInv
<1>2. card \in [Card -> CardRecord] /\ CardSays(card[c]) /\ makes' = makes
      /\ jobCount' = jobCount
  BY DEF ReportInv, CardsHold, Result
<1>3. ASSUME NEW a \in {"pending", "gone"}, a = "gone" => card[c].excuse, jobs' = js, card' = Answered(c, a)
      PROVE  ReportInv'
  <2>1. /\ card' \in [Card -> CardRecord] /\ \A e \in Card \ {c} : card'[e] = card[e]
        /\ card'[c].job = card[c].job /\ card'[c].left = card[c].left
        /\ card'[c].excuse = card[c].excuse /\ CardSays(card'[c])
    BY <1>3, AnsweredCard
  <2>2. Waits(card'[c]) => Waits(card[c])
    BY <2>1 DEF Waits
  <2>3. \A e \in Card : CardSays(card'[e]) /\ card'[e].job = card[e].job
    BY <2>1 DEF ReportInv, CardsHold
  <2> QED BY <1>0, <1>2, <1>3, <2>1, <2>2, <2>3, DropsAndAnswers
<1>4. CASE j \notin DOMAIN js
  <2>1. card[c].excuse
    BY <1>1, <1>4 DEF Waits, IsThere
  <2> QED BY <1>0, <1>3, <1>4, <2>1 DEF Result
<1>5. CASE j \in DOMAIN js /\ js[j].result = "none"
  BY <1>0, <1>3, <1>5 DEF Result
<1>6. CASE j \in DOMAIN js /\ js[j].result # "none"
  <2> DEFINE r == js[j].result
             k == [card[c] EXCEPT !.at = "answered", !.answer = r, !.of = j[1]]
             x(e) == card[e].excuse \/ card[e].job = j
             n(e) == [card[e] EXCEPT !.excuse = x(e)]
  <2>0. r \in Outcome /\ j \in JobId /\ j[1] \in Reported /\ j[1] = card[c].dev
    BY <1>1, <1>2, <1>6 DEF JobRec, ReportInv, JobsTyped, CardSays, JobId
  <2>1. /\ jobs' = Restrict(js, DOMAIN js \ {j})
        /\ card' = [e \in Card |-> IF e = c THEN [Answered(c, r)[c] EXCEPT !.of = j[1]] ELSE n(e)]
    BY <1>0, <1>6 DEF Result
  <2>2. Answered(c, r)[c] = [card[c] EXCEPT !.at = "answered", !.answer = r]
    BY <1>2 DEF Answered
  <2>3. [Answered(c, r)[c] EXCEPT !.of = j[1]] = k
    BY <1>2, <2>2 DEF CardRecord
  <2>4. /\ k \in CardRecord /\ k.at = "answered" /\ k.answer = r /\ k.of = j[1] /\ k.job = j
        /\ k.dev = card[c].dev
    BY <1>2, <2>0 DEF CardRecord, Outcome
  <2>5. CardSays(k) /\ ~Waits(k)
    BY <1>2, <2>0, <2>4 DEF CardSays, Waits, Outcome
  <2>6. ASSUME NEW e \in Card
        PROVE  /\ n(e) \in CardRecord /\ n(e).job = card[e].job /\ n(e).left = card[e].left
               /\ n(e).at = card[e].at /\ n(e).answer = card[e].answer
               /\ n(e).of = card[e].of /\ n(e).dev = card[e].dev
               /\ n(e).excuse = x(e)
    <3>1. x(e) \in BOOLEAN
      BY <1>2 DEF CardRecord
    <3> HIDE DEF x
    <3> QED BY <1>2, <3>1 DEF CardRecord
  <2>7. ASSUME NEW e \in Card
        PROVE  CardSays(n(e)) /\ (Waits(n(e)) => Waits(card[e]) /\ card[e].job # j)
    <3>1. CardSays(card[e])
      BY DEF ReportInv, CardsHold
    <3> HIDE DEF n, j
    <3>2. card[e].excuse => x(e)
      OBVIOUS
    <3>3. card[e].job = j => x(e)
      OBVIOUS
    <3> HIDE DEF x
    <3>4. CardSays(n(e))
      BY <2>6, <3>1, <3>2 DEF CardSays
    <3>5. Waits(n(e)) => Waits(card[e]) /\ card[e].job # j
      BY <2>6, <3>2, <3>3 DEF Waits
    <3> QED BY <3>4, <3>5
  <2> HIDE DEF k, n, x
  <2>8. /\ card' \in [Card -> CardRecord] /\ card'[c] = k
        /\ \A e \in Card \ {c} : card'[e] = n(e)
    BY <2>1, <2>3, <2>4, <2>6
  <2>9. \A e \in Card : card'[e].job = card[e].job
    BY <2>4, <2>6, <2>8 DEF j
  <2>10. /\ DOMAIN jobs' = DOMAIN js \ {j} /\ \A i \in DOMAIN jobs' : jobs'[i] = js[i]
         /\ jobs' \in [DOMAIN jobs' -> JobRec] /\ DOMAIN jobs' \subseteq DOMAIN jobs
    BY <1>1, <2>1 DEF Restrict
  <2>11. {i \in DOMAIN jobs' : jobs'[i].result = "none"} = {i \in DOMAIN js : js[i].result = "none"}
    BY <1>6, <2>10
  <2>12. JobsTyped' /\ OpenJobIsMade'
    BY <1>1, <1>2, <2>10, <2>11 DEF ReportInv, JobsTyped, OpenJobIsMade
  <2>13. JobsCounted'
    BY <1>2, <2>9, <2>10, SameCount
  <2>14. CardsHold'
    BY <2>5, <2>7, <2>8 DEF CardsHold
  <2>15. CardsServed'
    <3> SUFFICES ASSUME NEW e \in Card, Waits(card'[e])
                 PROVE  IsThere(card'[e], jobs')
      BY DEF CardsServed
    <3>1. e # c /\ card'[e] = n(e)
      BY <2>5, <2>8
    <3>2. Waits(card[e]) /\ card[e].job # j /\ IsThere(card[e], js)
      BY <1>1, <2>7, <3>1
    <3>3. n(e).job = card[e].job /\ n(e).left = card[e].left
      BY <2>6
    <3> QED BY <2>10, <3>1, <3>2, <3>3 DEF IsThere
  <2> QED BY <2>8, <2>12, <2>13, <2>14, <2>15 DEF ReportInv
<1> QED BY <1>4, <1>5, <1>6

\* The card that is given job i.
GivenJob(c, i) == [card[c] EXCEPT !.at = "answered", !.answer = "job", !.job = i]

\* A card that is answered with a job of its own light.
LEMMA GivenJobFits ==
  ASSUME ReportInv, NEW c \in Card, NEW i \in JobId, i[1] = card[c].dev
  PROVE  /\ [Answered(c, "job") EXCEPT ![c].job = i] = [card EXCEPT ![c] = GivenJob(c, i)]
         /\ GivenJob(c, i) \in CardRecord /\ GivenJob(c, i).job = i
         /\ GivenJob(c, i).at = "answered" /\ GivenJob(c, i).answer = "job"
         /\ GivenJob(c, i).left = card[c].left /\ GivenJob(c, i).left \in 0..Patience
         /\ GivenJob(c, i).dev = card[c].dev
         /\ CardSays(GivenJob(c, i))
<1>1. card \in [Card -> CardRecord] /\ CardSays(card[c])
  BY DEF ReportInv, CardsHold
<1>2. /\ GivenJob(c, i) \in CardRecord /\ GivenJob(c, i).job = i
      /\ GivenJob(c, i).at = "answered" /\ GivenJob(c, i).answer = "job"
      /\ GivenJob(c, i).left = card[c].left /\ GivenJob(c, i).left \in 0..Patience
      /\ GivenJob(c, i).dev = card[c].dev
  BY <1>1 DEF GivenJob, CardRecord
<1>3. CardSays(GivenJob(c, i))
  BY <1>2 DEF CardSays
<1>4. [Answered(c, "job") EXCEPT ![c].job = i] = [card EXCEPT ![c] = GivenJob(c, i)]
  <2> DEFINE a == [card[c] EXCEPT !.at = "answered", !.answer = "job"]
  <2>1. Answered(c, "job") = [card EXCEPT ![c] = a]
    BY <1>1 DEF Answered
  <2>2. [a EXCEPT !.job = i] = GivenJob(c, i)
    BY <1>1 DEF GivenJob, CardRecord
  <2> HIDE DEF a
  <2>3. [[card EXCEPT ![c] = a] EXCEPT ![c].job = i] = [card EXCEPT ![c] = [a EXCEPT !.job = i]]
    BY <1>1
  <2> QED BY <2>1, <2>2, <2>3
<1> QED BY <1>2, <1>3, <1>4

\* A device whose report is being made: the card is given that job.
LEMMA SameJobKeeps ==
  ASSUME ReportInv, NEW c \in Card, ~halted, NEW i \in Open(Kept(jobs), card[c].dev),
         jobs' = Kept(jobs), card' = [Answered(c, "job") EXCEPT ![c].job = i],
         UNCHANGED <<makes, jobCount, halted, up, processes, cooling, ready>>,
         card[c].job = NoJob
  PROVE  ReportInv'
<1> DEFINE k == GivenJob(c, i)
<1>0. i \in DOMAIN Kept(jobs) /\ i[1] = card[c].dev /\ Kept(jobs)[i].result = "none"
  BY DEF Open
<1>1. i \in JobId /\ card \in [Card -> CardRecord]
  BY <1>0, KeptKeeps DEF ReportInv, JobsTyped
<1>2. card' = [card EXCEPT ![c] = k] /\ k \in CardRecord /\ CardSays(k) /\ k.job = i
  BY <1>0, <1>1, GivenJobFits
<1> HIDE DEF k
<1>3. IsThere(k, Kept(jobs))
  BY <1>0, <1>2 DEF IsThere
<1>4. /\ card' \in [Card -> CardRecord] /\ card'[c] = k
      /\ \A e \in Card \ {c} : card'[e] = card[e]
  BY <1>1, <1>2
<1>5. \A e \in Card : CardSays(card'[e]) /\ (card[e].job # NoJob => card'[e].job # NoJob)
  BY <1>2, <1>4 DEF ReportInv, CardsHold
<1> QED BY <1>3, <1>4, <1>5, DropsAndAnswers

\* A device without one: a new job, its number the next, its report is made - or an
\* error right behind the last one.
LEMMA NewJobKeeps ==
  ASSUME ReportInv, NEW c \in Card, NEW connected \in BOOLEAN, ~halted, card[c].job = NoJob,
         card[c].at = "asking",
         Open(Kept(jobs), card[c].dev) = {}, Start(c, connected),
         UNCHANGED <<halted, up, processes, cooling, ready>>
  PROVE  ReportInv'
<1> DEFINE js == Kept(jobs)
           d == card[c].dev
           id == <<d, jobCount + 1>>
           cold == d \notin cooling
           m == [job |-> id, stage |-> IF connected THEN "live" ELSE "build"]
           rec == [result |-> IF d \in cooling THEN "error" ELSE "none", age |-> 0]
           k == GivenJob(c, id)
<1> HIDE DEF js
<1>0. js = Kept(jobs)
  BY DEF js
<1>1. /\ js \in [DOMAIN js -> JobRec] /\ DOMAIN js \subseteq DOMAIN jobs
      /\ {i \in DOMAIN js : js[i].result = "none"} = {i \in DOMAIN jobs : jobs[i].result = "none"}
      /\ \A e \in Card : Waits(card[e]) => IsThere(card[e], js)
  BY <1>0, KeptJobs DEF ReportInv
<1>2. /\ jobCount' = jobCount + 1
      /\ jobs' = [i \in DOMAIN js \cup {id} |-> IF i = id THEN rec ELSE js[i]]
      /\ makes' = IF d \in cooling THEN makes ELSE makes \cup {m}
      /\ card' = [Answered(c, "job") EXCEPT ![c].job = id]
  BY <1>0 DEF Start, NextCount
<1>3. card \in [Card -> CardRecord] /\ d \in Reported /\ jobCount \in Nat /\ ready \in Nat
  BY DEF ReportInv, JobsTyped, CardRecord
<1>4. c \notin Given /\ Given \subseteq Card
  BY DEF Given
<1>5. jobCount + 1 <= Cardinality(Card)
  <2>1. Cardinality(Given \cup {c}) = Cardinality(Given) + 1
    BY <1>4, GivenCount, FS_AddElement
  <2>2. Cardinality(Given \cup {c}) <= Cardinality(Card)
    BY <1>4, ReportAssumption, FS_Subset
  <2> QED BY <1>3, <2>1, <2>2, GivenCount DEF ReportInv, JobsCounted
<1>6. id \in JobId /\ id[1] = d /\ id[2] = jobCount + 1 /\ id # NoJob
  <2>1. jobCount + 1 \in 1..Cardinality(Card)
    BY <1>3, <1>5, GivenCount
  <2> QED BY <1>3, <2>1 DEF JobId, NoJob
<1>7. id \notin DOMAIN jobs /\ \A n \in makes : n.job # id
  BY <1>3, <1>6 DEF ReportInv, JobsCounted
<1>8. /\ card' = [card EXCEPT ![c] = k] /\ k \in CardRecord /\ k.job = id
      /\ k.at = "answered" /\ k.answer = "job" /\ k.left \in 0..Patience /\ CardSays(k)
  BY <1>2, <1>6, GivenJobFits
<1>9. rec \in JobRec /\ (rec.result = "none" <=> d \notin cooling) /\ rec.age = 0
  BY ReportAssumption DEF JobRec, Outcome
<1>10. m \in [job : JobId, stage : {"live", "build"}] /\ m.job = id
  BY <1>6
<1> HIDE DEF id, m, rec, k
<1>11. /\ card' \in [Card -> CardRecord] /\ card'[c] = k
       /\ \A e \in Card \ {c} : card'[e] = card[e]
  BY <1>3, <1>8
<1>12. /\ DOMAIN jobs' = DOMAIN js \cup {id} /\ jobs'[id] = rec
       /\ \A i \in DOMAIN js : jobs'[i] = js[i]
  BY <1>1, <1>2, <1>7
<1>13. JobsTyped'
  <2>1. jobs' \in [DOMAIN jobs' -> JobRec]
    BY <1>1, <1>2, <1>9, <1>12
  <2>2. DOMAIN jobs' \subseteq JobId
    BY <1>1, <1>6, <1>12 DEF ReportInv, JobsTyped
  <2>3. makes' \subseteq [job : JobId, stage : {"live", "build"}]
    BY <1>2, <1>10 DEF ReportInv, JobsTyped
  <2> QED BY <1>2, <1>3, <2>1, <2>2, <2>3 DEF ReportInv, JobsTyped
<1>14. JobsCounted'
  <2>1. \A i \in DOMAIN jobs' : i[2] <= jobCount'
    <3>1. \A i \in DOMAIN jobs : i[2] \in Nat /\ i[2] <= jobCount
      BY DEF ReportInv, JobsTyped, JobsCounted, JobId
    <3> QED BY <1>1, <1>2, <1>3, <1>6, <1>12, <3>1
  <2>2. \A n \in makes' : n.job[2] <= jobCount'
    <3>1. \A n \in makes : n.job[2] \in Nat /\ n.job[2] <= jobCount
      BY DEF ReportInv, JobsTyped, JobsCounted, JobId
    <3> QED BY <1>2, <1>3, <1>6, <1>10, <3>1
  <2>3. IsFiniteSet(makes') /\ ready + Cardinality(makes') <= jobCount + 1
    <3>1. IsFiniteSet(makes) /\ Cardinality(makes) \in Nat
          /\ ready + Cardinality(makes) <= jobCount
      BY FS_CardinalityType DEF ReportInv, JobsCounted
    <3>2. CASE makes' = makes
      BY <1>3, <3>1, <3>2
    <3>3. CASE makes' = makes \cup {m}
      <4>1. m \notin makes
        BY <1>7, <1>10
      <4>2. IsFiniteSet(makes \cup {m}) /\ Cardinality(makes \cup {m}) = Cardinality(makes) + 1
        BY <3>1, <4>1, FS_AddElement
      <4> QED BY <1>3, <3>1, <3>3, <4>2
    <3> QED BY <1>2, <3>2, <3>3
  <2>4. Given' = Given \cup {c}
    BY <1>6, <1>8, <1>11 DEF Given
  <2>5. Cardinality(Given') = Cardinality(Given) + 1
    BY <1>4, <2>4, GivenCount, FS_AddElement
  <2>6. jobCount' <= Cardinality(Given')
    BY <1>2, <1>3, <2>5, GivenCount DEF ReportInv, JobsCounted
  <2> QED BY <1>2, <2>1, <2>2, <2>3, <2>6 DEF JobsCounted
<1>15. OpenJobIsMade'
  <2>1. /\ {i \in DOMAIN jobs : jobs[i].result = "none"} = {n.job : n \in makes}
        /\ \A n, o \in makes : n.job[1] = o.job[1] => n = o
    BY DEF ReportInv, OpenJobIsMade
  <2>2. \A n \in makes : n.job[1] # d
    <3> SUFFICES ASSUME NEW n \in makes, n.job[1] = d PROVE FALSE
      OBVIOUS
    <3>1. n.job \in DOMAIN js /\ js[n.job].result = "none"
      BY <1>1, <2>1
    <3> QED BY <1>0, <3>1 DEF Open
  <2>3. CASE d \in cooling
    <3>1. makes' = makes /\ rec.result # "none"
      BY <1>2, <1>9, <2>3
    <3>2. {i \in DOMAIN jobs' : jobs'[i].result = "none"} = {i \in DOMAIN js : js[i].result = "none"}
      BY <1>1, <1>7, <1>12, <3>1
    <3> QED BY <1>1, <2>1, <3>1, <3>2 DEF OpenJobIsMade
  <2>4. CASE d \notin cooling
    <3>1. makes' = makes \cup {m} /\ rec.result = "none"
      BY <1>2, <1>9, <2>4
    <3>2. {i \in DOMAIN jobs' : jobs'[i].result = "none"} = {i \in DOMAIN js : js[i].result = "none"} \cup {id}
      BY <1>1, <1>7, <1>12, <3>1
    <3>3. {n.job : n \in makes'} = {n.job : n \in makes} \cup {id}
      BY <1>10, <3>1
    <3>4. \A n, o \in makes' : n.job[1] = o.job[1] => n = o
      BY <1>6, <1>10, <2>1, <2>2, <3>1
    <3> QED BY <1>1, <2>1, <3>2, <3>3, <3>4 DEF OpenJobIsMade
  <2> QED BY <2>3, <2>4
<1>16. CardsHold'
  BY <1>8, <1>11 DEF ReportInv, CardsHold
<1>17. CardsServed'
  <2> SUFFICES ASSUME NEW e \in Card, Waits(card'[e])
               PROVE  IsThere(card'[e], jobs')
    BY DEF CardsServed
  <2>1. CASE e = c
    <3>1. rec.age + k.left <= Patience
      BY <1>8, <1>9, ReportAssumption
    <3> QED BY <1>8, <1>11, <1>12, <2>1, <3>1 DEF IsThere
  <2>2. CASE e # c
    <3>1. IsThere(card[e], js) /\ card'[e] = card[e]
      BY <1>1, <1>11, <2>2
    <3> QED BY <1>12, <3>1 DEF IsThere
  <2> QED BY <2>1, <2>2
<1> QED BY <1>11, <1>13, <1>14, <1>15, <1>16, <1>17 DEF ReportInv

\* The handler of an export: refused, an open job handed over, or a new one.
LEMMA HandleKeeps ==
  ASSUME ReportInv, NEW c \in Card, Handle(c)
  PROVE  ReportInv'
<1>0. card[c].at = "asking" /\ UNCHANGED <<halted, up, processes, cooling, ready>>
  BY DEF Handle
<1>1. CASE halted /\ card' = Answered(c, "error") /\ UNCHANGED <<jobs, makes, jobCount>>
  BY <1>0, <1>1, RefusalKeeps
<1>2. ASSUME ~halted, card[c].job = NoJob, NEW connected \in BOOLEAN, Start(c, connected)
      PROVE  ReportInv'
  <2>1. CASE Open(Kept(jobs), card[c].dev) = {}
    BY <1>0, <1>2, <2>1, NewJobKeeps
  <2>2. ASSUME NEW i \in Open(Kept(jobs), card[c].dev)
        PROVE  ReportInv'
    <3>1. PICK j \in Open(Kept(jobs), card[c].dev) :
            /\ jobs' = Kept(jobs) /\ card' = [Answered(c, "job") EXCEPT ![c].job = j]
            /\ UNCHANGED <<makes, jobCount>>
      BY <1>2, <2>2 DEF Start
    <3> QED BY <1>0, <1>2, <3>1, SameJobKeeps
  <2> QED BY <2>1, <2>2
<1>3. CASE ~halted /\ StartUnknown(c)
  BY <1>0, <1>3, RefusalKeeps DEF StartUnknown
<1>4. CASE ~halted /\ card[c].job # NoJob /\ Result(c)
  BY <1>0, <1>4, ResultKeeps
<1> QED BY <1>1, <1>2, <1>3, <1>4 DEF Handle

-----------------------------------------------------------------------------
\* A report that is done: its job is closed and its device has none in the making.
LEMMA MadeKeeps ==
  ASSUME ReportInv, NEW m \in makes, NEW result \in Outcome, Made(m, result),
         UNCHANGED <<jobCount, halted, up, processes, card>>,
         ready' = ready \/ ready' = ready + 1
  PROVE  ReportInv'
<1> DEFINE rec == [result |-> result, age |-> 0]
<1>1. /\ makes' = makes \ {m} /\ cooling' = cooling \cup {m.job[1]}
      /\ jobs' = [j \in DOMAIN jobs |-> IF j = m.job THEN rec ELSE jobs[j]]
  BY DEF Made
<1>2. rec \in JobRec /\ rec.result # "none" /\ rec.age = 0
  BY ReportAssumption DEF JobRec, Outcome
<1> HIDE DEF rec
<1>3. /\ DOMAIN jobs' = DOMAIN jobs /\ jobs' \in [DOMAIN jobs' -> JobRec]
      /\ \A j \in DOMAIN jobs : jobs'[j] = IF j = m.job THEN rec ELSE jobs[j]
  BY <1>1, <1>2 DEF ReportInv, JobsTyped
<1>4. m.job[1] \in Reported /\ ready \in Nat /\ jobCount \in Nat
  BY DEF ReportInv, JobsTyped, JobId
<1>5. JobsTyped'
  BY <1>1, <1>3, <1>4 DEF ReportInv, JobsTyped
<1>6. IsFiniteSet(makes') /\ Cardinality(makes') = Cardinality(makes) - 1
      /\ Cardinality(makes) \in Nat
  BY <1>1, FS_RemoveElement, FS_CardinalityType DEF ReportInv, JobsCounted
<1>7. JobsCounted'
  <2>1. Given' = Given
    BY DEF Given
  <2>2. ready' + Cardinality(makes') <= jobCount'
    BY <1>4, <1>6 DEF ReportInv, JobsCounted
  <2>3. jobCount' <= Cardinality(Given')
    BY <2>1 DEF ReportInv, JobsCounted
  <2> QED BY <1>1, <1>3, <1>6, <2>2, <2>3 DEF ReportInv, JobsCounted
<1>8. OpenJobIsMade'
  <2>1. /\ ~halted => {j \in DOMAIN jobs : jobs[j].result = "none"} = {n.job : n \in makes}
        /\ \A n, o \in makes : n.job[1] = o.job[1] => n = o
    BY DEF ReportInv, OpenJobIsMade
  <2>2. \A n \in makes' : n.job # m.job
    BY <1>1, <2>1
  <2>3. {n.job : n \in makes'} = {n.job : n \in makes} \ {m.job}
    BY <1>1, <2>2
  <2>4. {j \in DOMAIN jobs' : jobs'[j].result = "none"} = {j \in DOMAIN jobs : jobs[j].result = "none"} \ {m.job}
    BY <1>2, <1>3
  <2> QED BY <1>1, <2>1, <2>3, <2>4 DEF OpenJobIsMade
<1>9. CardsHold' /\ card' \in [Card -> CardRecord]
  BY DEF ReportInv, CardsHold
<1>10. CardsServed'
  <2> SUFFICES ASSUME ~halted, NEW e \in Card, Waits(card[e])
               PROVE  IsThere(card[e], jobs')
    BY DEF CardsServed
  <2>1. IsThere(card[e], jobs)
    BY DEF ReportInv, CardsServed
  <2>2. card[e].left \in 0..Patience
    BY DEF ReportInv, CardRecord
  <2>3. rec.age + card[e].left <= Patience
    BY <1>2, <2>2, ReportAssumption
  <2> QED BY <1>3, <2>1, <2>3 DEF IsThere
<1> QED BY <1>5, <1>7, <1>8, <1>9, <1>10 DEF ReportInv

\* The steps of a report in the making.
LEMMA MakingKeeps ==
  ASSUME ReportInv, NEW m \in makes, LiveRead(m) \/ Built(m)
  PROVE  ReportInv'
<1>1. CASE Built(m)
  BY <1>1, MadeKeeps DEF Built, Outcome
<1>2. CASE LiveRead(m) /\ halted
  BY <1>2, MadeKeeps DEF LiveRead, Outcome
<1>3. CASE LiveRead(m) /\ ~halted
  <2> DEFINE n == [m EXCEPT !.stage = "build"]
  <2>1. /\ makes' = (makes \ {m}) \cup {n}
        /\ UNCHANGED <<jobs, cooling, jobCount, halted, up, processes, ready, card>>
    BY <1>3 DEF LiveRead
  <2>2. n \in [job : JobId, stage : {"live", "build"}] /\ n.job = m.job
    BY DEF ReportInv, JobsTyped
  <2> HIDE DEF n
  <2>3. JobsTyped'
    BY <2>1, <2>2 DEF ReportInv, JobsTyped
  <2>4. IsFiniteSet(makes') /\ Cardinality(makes') <= Cardinality(makes)
        /\ Cardinality(makes') \in Nat
        /\ Cardinality(makes) \in Nat
    <3> DEFINE rest == makes \ {m}
    <3>1. IsFiniteSet(makes) /\ Cardinality(makes) \in Nat
      BY FS_CardinalityType DEF ReportInv, JobsCounted
    <3>2. IsFiniteSet(rest) /\ Cardinality(rest) = Cardinality(makes) - 1
      BY <3>1, FS_RemoveElement
    <3> HIDE DEF rest
    <3>3. IsFiniteSet(rest \cup {n})
          /\ Cardinality(rest \cup {n}) = IF n \in rest THEN Cardinality(rest) ELSE Cardinality(rest) + 1
      BY <3>2, FS_AddElement
    <3>4. makes' = rest \cup {n}
      BY <2>1 DEF rest
    <3> QED BY <3>1, <3>2, <3>3, <3>4, FS_CardinalityType
  <2>5. JobsCounted'
    <3>1. Given' = Given
      BY <2>1 DEF Given
    <3>2. ready' + Cardinality(makes') <= jobCount'
      BY <2>1, <2>4 DEF ReportInv, JobsCounted, JobsTyped
    <3>3. jobCount' <= Cardinality(Given')
      BY <2>1, <3>1 DEF ReportInv, JobsCounted
    <3> QED BY <2>1, <2>2, <2>4, <3>2, <3>3 DEF ReportInv, JobsCounted
  <2>6. OpenJobIsMade'
    <3>1. {x.job : x \in makes'} = {x.job : x \in makes}
      BY <2>1, <2>2
    <3>2. \A x, y \in makes' : x.job[1] = y.job[1] => x = y
      BY <2>1, <2>2 DEF ReportInv, OpenJobIsMade
    <3> QED BY <2>1, <3>1, <3>2 DEF ReportInv, OpenJobIsMade
  <2>7. CardsHold' /\ CardsServed' /\ card' \in [Card -> CardRecord]
    BY <2>1 DEF ReportInv, CardsHold, CardsServed
  <2> QED BY <2>3, <2>5, <2>6, <2>7 DEF ReportInv
<1> QED BY <1>1, <1>2, <1>3

-----------------------------------------------------------------------------
\* No job at all.
LEMMA NoJobs == DOMAIN <<>> = {}
OBVIOUS

\* Behind the stop there is no job, and nothing is promised to a card.
LEMMA StopJobsKeeps ==
  ASSUME ReportInv, StopReports
  PROVE  ReportInv'
<1>1. /\ halted' = TRUE /\ jobs' = <<>> /\ DOMAIN jobs' = {}
      /\ UNCHANGED <<makes, jobCount, up, processes, cooling, ready, card>>
  BY NoJobs DEF StopReports
<1>2. jobs' \in [{} -> JobRec]
  BY <1>1
<1>3. JobsTyped'
  BY <1>1, <1>2 DEF ReportInv, JobsTyped
<1>4. JobsCounted'
  BY <1>1, SameCount
<1>5. OpenJobIsMade'
  BY <1>1 DEF ReportInv, OpenJobIsMade
<1>6. CardsHold' /\ CardsServed' /\ card' \in [Card -> CardRecord]
  BY <1>1 DEF ReportInv, CardsHold, CardsServed
<1> QED BY <1>3, <1>4, <1>5, <1>6 DEF ReportInv

\* A process that ends takes the jobs with it: every card that exports has its excuse.
LEMMA EndKeepsCards ==
  ASSUME ReportInv, ProcessEnds
  PROVE  ReportInv'
<1> DEFINE x(c) == card[c].excuse \/ card[c].at # "idle"
           n(c) == [card[c] EXCEPT !.excuse = x(c)]
<1>1. /\ up' = FALSE /\ jobs' = <<>> /\ DOMAIN jobs' = {} /\ makes' = {} /\ jobCount' = 0
      /\ ready' = 0
      /\ cooling' = {} /\ halted' = FALSE /\ processes' = processes
  BY NoJobs DEF ProcessEnds
<1>2. card \in [Card -> CardRecord]
  BY DEF ReportInv
<1>3. card' = [c \in Card |-> n(c)]
  BY <1>2 DEF ProcessEnds
<1>4. ASSUME NEW c \in Card
      PROVE  /\ n(c) \in CardRecord /\ n(c).job = card[c].job /\ n(c).at = card[c].at
             /\ n(c).answer = card[c].answer /\ n(c).of = card[c].of /\ n(c).dev = card[c].dev
             /\ n(c).excuse = x(c)
  <2>1. x(c) \in BOOLEAN
    BY <1>2 DEF CardRecord
  <2> HIDE DEF x
  <2> QED BY <1>2, <2>1 DEF CardRecord
<1>5. ASSUME NEW c \in Card
      PROVE  CardSays(n(c)) /\ ~Waits(n(c))
  <2>1. CardSays(card[c])
    BY DEF ReportInv, CardsHold
  <2> HIDE DEF n
  <2>2. /\ card[c].excuse => x(c)
        /\ card[c].at # "idle" => x(c)
    OBVIOUS
  <2> HIDE DEF x
  <2> QED BY <1>4, <2>1, <2>2 DEF CardSays, Waits
<1> HIDE DEF n
<1>6. card' \in [Card -> CardRecord] /\ CardsHold' /\ CardsServed'
  BY <1>3, <1>4, <1>5 DEF CardsHold, CardsServed
<1>7. jobs' \in [{} -> JobRec]
  BY <1>1
<1>8. JobsTyped'
  BY <1>1, <1>7 DEF ReportInv, JobsTyped
<1>9. OpenJobIsMade'
  BY <1>1 DEF OpenJobIsMade
<1>10. JobsCounted'
  <2>1. IsFiniteSet(makes') /\ Cardinality(makes') = 0
    BY <1>1, FS_EmptySet
  <2>2. Given' \subseteq Card
    BY DEF Given
  <2>3. Cardinality(Given') \in Nat
    BY <2>2, ReportAssumption, FS_Subset, FS_CardinalityType
  <2> QED BY <1>1, <2>1, <2>3 DEF JobsCounted
<1> QED BY <1>6, <1>8, <1>9, <1>10 DEF ReportInv

\* Time: a paused card has one tick less to wait, a ready report is one tick older.
LEMMA TimeKeeps ==
  ASSUME ReportInv, TimeGoes
  PROVE  ReportInv'
<1> DEFINE goes(c) == card[c].at = "pause" /\ card[c].left > 0
           n(c) == IF goes(c) THEN [card[c] EXCEPT !.left = @ - 1] ELSE card[c]
           ages(j) == jobs[j].result # "none" /\ jobs[j].age <= Keep
           r(j) == IF ages(j) THEN [jobs[j] EXCEPT !.age = @ + 1] ELSE jobs[j]
<1>1. /\ \A c \in Card : card[c].at \notin {"asking", "answered"}
      /\ card' = [c \in Card |-> n(c)] /\ jobs' = [j \in DOMAIN jobs |-> r(j)] /\ cooling' = {}
      /\ UNCHANGED <<makes, jobCount, halted, up, processes, ready>>
  BY DEF TimeGoes
<1>2. card \in [Card -> CardRecord] /\ jobs \in [DOMAIN jobs -> JobRec]
  BY DEF ReportInv, JobsTyped
<1>3. ASSUME NEW c \in Card
      PROVE  /\ n(c) \in CardRecord /\ n(c).job = card[c].job /\ n(c).at = card[c].at
             /\ n(c).answer = card[c].answer /\ n(c).of = card[c].of /\ n(c).dev = card[c].dev
             /\ n(c).excuse = card[c].excuse
             /\ n(c).left = (IF goes(c) THEN card[c].left - 1 ELSE card[c].left)
  <2>1. CASE goes(c)
    <3>1. card[c].left - 1 \in 0..Patience
      BY <1>2, <2>1, ReportAssumption DEF CardRecord
    <3> QED BY <1>2, <2>1, <3>1 DEF CardRecord
  <2>2. CASE ~goes(c)
    BY <1>2, <2>2 DEF CardRecord
  <2> QED BY <2>1, <2>2
<1>4. ASSUME NEW j \in DOMAIN jobs
      PROVE  /\ r(j) \in JobRec /\ r(j).result = jobs[j].result
             /\ jobs[j].age \in Nat /\ r(j).age <= jobs[j].age + 1 /\ r(j).age \in Nat
  <2>1. jobs[j] \in JobRec /\ jobs[j].age \in Nat
    BY <1>2, ReportAssumption DEF JobRec
  <2>2. CASE ages(j)
    <3>1. jobs[j].age + 1 \in 0..Keep + 1
      BY <2>1, <2>2, ReportAssumption
    <3> QED BY <2>1, <2>2, <3>1 DEF JobRec
  <2>3. CASE ~ages(j)
    BY <2>1, <2>3
  <2> QED BY <2>2, <2>3
<1> HIDE DEF n, r
<1>5. /\ card' \in [Card -> CardRecord] /\ \A c \in Card : card'[c] = n(c)
      /\ DOMAIN jobs' = DOMAIN jobs /\ jobs' \in [DOMAIN jobs' -> JobRec]
      /\ \A j \in DOMAIN jobs : jobs'[j] = r(j)
  BY <1>1, <1>3, <1>4
<1>6. JobsTyped'
  BY <1>1, <1>5 DEF ReportInv, JobsTyped
<1>7. JobsCounted'
  <2>1. \A c \in Card : card'[c].job = card[c].job
    BY <1>3, <1>5
  <2> QED BY <1>1, <1>5, <2>1, SameCount
<1>8. OpenJobIsMade'
  <2>1. {j \in DOMAIN jobs' : jobs'[j].result = "none"} = {j \in DOMAIN jobs : jobs[j].result = "none"}
    BY <1>4, <1>5
  <2> QED BY <1>1, <2>1 DEF ReportInv, OpenJobIsMade
<1>9. CardsHold'
  <2> SUFFICES ASSUME NEW c \in Card PROVE CardSays(n(c))
    BY <1>5 DEF CardsHold
  <2>1. CardSays(card[c])
    BY DEF ReportInv, CardsHold
  <2> QED BY <1>3, <2>1 DEF CardSays
<1>10. CardsServed'
  <2> SUFFICES ASSUME ~halted, NEW c \in Card, Waits(n(c))
               PROVE  IsThere(n(c), jobs')
    BY <1>1, <1>5 DEF CardsServed
  <2>1. n(c).at = "pause" /\ n(c).left > 0
    BY <1>1, <1>3 DEF Waits
  <2>2. card[c].left \in Nat
    BY <1>2 DEF CardRecord
  <2>3. goes(c) /\ n(c).left = card[c].left - 1
    BY <1>3, <2>1, <2>2
  <2>4. Waits(card[c])
    BY <1>3, <2>3 DEF Waits
  <2>5. IsThere(card[c], jobs)
    BY <2>4 DEF ReportInv, CardsServed
  <2>6. n(c).job = card[c].job
    BY <1>3
  <2>7. CASE jobs[card[c].job].result = "none"
    BY <1>4, <1>5, <2>5, <2>6, <2>7 DEF IsThere
  <2>8. CASE jobs[card[c].job].age + card[c].left <= Patience
    BY <1>4, <1>5, <2>2, <2>3, <2>5, <2>6, <2>8, ReportAssumption DEF IsThere
  <2> QED BY <2>5, <2>7, <2>8 DEF IsThere
<1> QED BY <1>5, <1>6, <1>7, <1>8, <1>9, <1>10 DEF ReportInv

\* A device cools down, or a process starts with an empty memory.
LEMMA RestKeeps ==
  ASSUME ReportInv, UNCHANGED <<jobs, makes, jobCount, halted, ready, card>>,
         up' \in BOOLEAN, processes' \in 1..MaxProcesses, cooling' \subseteq Reported
  PROVE  ReportInv'
<1>1. JobsTyped' /\ OpenJobIsMade'
  BY DEF ReportInv, JobsTyped, OpenJobIsMade
<1>2. JobsCounted'
  BY SameCount
<1>3. CardsHold' /\ CardsServed'
  BY DEF ReportInv, CardsHold, CardsServed
<1> QED BY <1>1, <1>2, <1>3 DEF ReportInv

\* An adapter that nobody has asked for a report yet.
LEMMA InitReport == ReportInit => ReportInv
<1> SUFFICES ASSUME ReportInit PROVE ReportInv
  OBVIOUS
<1>1. DOMAIN jobs = {} /\ jobs \in [{} -> JobRec] /\ makes = {} /\ jobCount = 0 /\ ready = 0
      /\ halted = FALSE /\ up = TRUE /\ processes = 1 /\ cooling = {}
  BY NoJobs DEF ReportInit
<1>2. ASSUME NEW c \in Card
      PROVE  card[c] \in CardRecord /\ CardSays(card[c]) /\ ~Waits(card[c])
  <2>1. PICK d \in Reported :
          card[c] = [at |-> "idle", dev |-> d, job |-> NoJob, left |-> Patience,
                     answer |-> "none", of |-> d, excuse |-> FALSE]
    BY DEF ReportInit
  <2>2. Patience \in 0..Patience
    BY ReportAssumption
  <2> QED BY <2>1, <2>2 DEF CardRecord, CardSays, Waits
<1>3. card \in [Card -> CardRecord]
  BY <1>2 DEF ReportInit
<1>4. CardsHold /\ CardsServed
  BY <1>2 DEF CardsHold, CardsServed
<1>5. JobsTyped
  <2>1. jobs \in [DOMAIN jobs -> JobRec] /\ DOMAIN jobs \subseteq JobId
    BY <1>1
  <2>2. makes \subseteq [job : JobId, stage : {"live", "build"}] /\ cooling \subseteq Reported
    BY <1>1
  <2>3. jobCount \in Nat /\ ready \in Nat /\ processes \in 1..MaxProcesses
    BY <1>1, ReportAssumption
  <2>4. halted \in BOOLEAN /\ up \in BOOLEAN
    BY <1>1
  <2> QED BY <2>1, <2>2, <2>3, <2>4 DEF JobsTyped
<1>7. OpenJobIsMade
  <2>1. {j \in DOMAIN jobs : jobs[j].result = "none"} = {} /\ {m.job : m \in makes} = {}
    BY <1>1
  <2> QED BY <1>1, <2>1 DEF OpenJobIsMade
<1>6. JobsCounted
  <2>1. IsFiniteSet(makes) /\ Cardinality(makes) = 0
    BY <1>1, FS_EmptySet
  <2> QED BY <1>1, <2>1, GivenCount DEF JobsCounted
<1> QED BY <1>3, <1>4, <1>5, <1>6, <1>7 DEF ReportInv

\* Every step of the report jobs keeps the invariant.
LEMMA ReportStep ==
  ASSUME ReportInv, [ReportNext]_reportVars
  PROVE  ReportInv'
<1>1. CASE List \/ \E c \in Card : Handle(c)
  BY <1>1, ListKeeps, HandleKeeps
<1>2. CASE \E c \in Card : \/ Export(c) \/ Receive(c) \/ Lost(c) \/ SeenDown(c)
                           \/ AskAgain(c) \/ GiveUp(c)
  BY <1>2, CardKeeps
<1>3. CASE \E m \in makes : LiveRead(m) \/ Built(m)
  BY <1>3, MakingKeeps
<1>4. CASE (\E d \in Reported : Cooled(d)) \/ UNCHANGED reportVars
  <2>1. UNCHANGED <<jobs, makes, jobCount, halted, ready, card, up, processes>>
        /\ cooling' \subseteq cooling
    BY <1>4 DEF Cooled, reportVars
  <2> QED BY <2>1, RestKeeps DEF ReportInv, JobsTyped
<1>5. CASE Restarts
  <2>1. UNCHANGED <<jobs, makes, jobCount, halted, ready, card, cooling>> /\ up' \in BOOLEAN
    BY <1>5 DEF Restarts
  <2>2. processes' \in 1..MaxProcesses
    BY <1>5, ReportAssumption DEF Restarts, ReportInv, JobsTyped
  <2> QED BY <2>1, <2>2, RestKeeps DEF ReportInv, JobsTyped
<1>6. CASE StopReports \/ ProcessEnds \/ TimeGoes
  BY <1>6, StopJobsKeeps, EndKeepsCards, TimeKeeps
<1> QED BY <1>1, <1>2, <1>3, <1>4, <1>5, <1>6 DEF ReportNext

\* Only a report that is built makes one more ready, and it asks for the stop first.
LEMMA ReadyBeforeStop ==
  ASSUME ReportInv, [ReportNext]_reportVars
  PROVE  NothingReadyBehindStop
<1>1. ready \in Nat
  BY DEF ReportInv, JobsTyped
<1>2. ready' = ready \/ ready' = 0 \/ (ready' = ready + 1 /\ ~halted)
  BY DEF ReportNext, reportVars, Export, Handle, Receive, Lost, SeenDown, AskAgain, GiveUp,
     CardStep,
         LiveRead, Built, Cooled, List, StopReports, ProcessEnds, Restarts, TimeGoes
<1> QED BY <1>1, <1>2 DEF NothingReadyBehindStop

\* Every open job is being made and a device has one in the making; a card is told its
\* report is gone only with an excuse and saves only its own device's; behind the stop
\* no report gets ready - however answers are lost, cards meet and processes end
\* (report-jobs.ts; diagnosticsApi.ts, exportReport).
THEOREM ReportsStayHonest == ReportSpec => ReportsAreHonest
<1>1. ReportInv /\ [ReportNext]_reportVars => ReportInv' /\ NothingReadyBehindStop
  BY ReportStep, ReadyBeforeStop
<1>2. ReportInv /\ [ReportNext]_reportVars => [NothingReadyBehindStop]_reportVars
  BY <1>1
<1>3. ReportInv => ReportTypeOK /\ OpenJobIsMade /\ GoneHasReason /\ OwnDeviceReported
  BY ReportInvTypes DEF ReportInv, CardsHold, CardSays, GoneHasReason, OwnDeviceReported
<1> QED BY InitReport, <1>1, <1>2, <1>3, PTL DEF ReportSpec, ReportsAreHonest

-----------------------------------------------------------------------------
(* What leaves for a light.                                                *)

Proved == INSTANCE CallGateProofs WITH
  Call <- Datagram, Host <- Light, hostOf <- lightOf,
  Limit <- {"control"}, PerHost <- {"control"},
  maxOf <- [l \in {"control"} |-> MaxPerWindow],
  windowOf <- [l \in {"control"} |-> WindowLength]

\* What is on the wire was let through for that light, at the time it went out.
WireIsCounted ==
  /\ paced \in [Light -> Seq(Datagram)]
  /\ sent \in [Light -> Seq(Datagram)]
  /\ passed \subseteq Datagram
  /\ \A l \in Light : \A d \in Range(sent[l]) :
       d \in passed /\ lightOf[d] = l /\ sentAt[d] = at[d]

\* The library's operators mean the same inside the instances.
LEMMA SameCardinality ==
  ASSUME NEW S
  PROVE  Gate!Cardinality(S) = Proved!Cardinality(S) /\ Proved!Cardinality(S) = Cardinality(S)
BY DEF Gate!Cardinality, Proved!Cardinality, Cardinality

\* The control limit is one the gate can keep.
LEMMA GateAssumptionHolds == Proved!GateAssumption
<1>1. \A S : Proved!IsFiniteSet(S) <=> IsFiniteSet(S)
  BY DEF Proved!IsFiniteSet, IsFiniteSet
<1>2. IsFiniteSet({"control"})
  BY FS_Singleton
<1> QED BY <1>1, <1>2, PacingAssumption DEF Proved!GateAssumption

\* A gate asked through LanPacing is the gate proved about.
LEMMA SameGate ==
  ASSUME NEW h \in Light, NEW S \in SUBSET Datagram
  PROVE  Gate!TryAdmit(h, S) => Proved!TryAdmit(h, S)
<1>1. \A l, g : Gate!Window(l, g) = Proved!Window(l, g)
  BY DEF Gate!Window, Proved!Window, Gate!KeyOf, Proved!KeyOf, Gate!AnyHost, Proved!AnyHost
<1>2. Gate!Fits(h, S) => Proved!Fits(h, S)
  BY <1>1, SameCardinality DEF Gate!Fits, Proved!Fits
<1>3. Gate!Key = Proved!Key /\ \A l, g : Gate!KeyOf(l, g) = Proved!KeyOf(l, g)
  BY DEF Gate!Key, Proved!Key, Gate!KeyOf, Proved!KeyOf, Gate!AnyHost, Proved!AnyHost
<1> QED BY <1>1, <1>2, <1>3 DEF Gate!TryAdmit, Proved!TryAdmit

\* The wait it names is the wait proved about.
LEMMA SameWait ==
  ASSUME NEW h
  PROVE  Gate!WaitMs(h) = Proved!WaitMs(h)
BY Zenon DEF Gate!WaitMs, Proved!WaitMs, Gate!Full, Proved!Full, Gate!RoomIn, Proved!RoomIn,
   Gate!Window, Proved!Window, Gate!KeyOf, Proved!KeyOf, Gate!AnyHost, Proved!AnyHost,
   Gate!Max, Proved!Max, Gate!Cardinality, Proved!Cardinality

-----------------------------------------------------------------------------
LEMMA InitWire == Init => WireIsCounted /\ Proved!GateInit
<1> SUFFICES ASSUME Init PROVE WireIsCounted /\ Proved!GateInit
  OBVIOUS
<1>1. Proved!GateInit
  BY DEF Init, Gate!GateInit, Proved!GateInit, Gate!Key, Proved!Key, Gate!AnyHost, Proved!AnyHost
<1>2. \A l \in Light : Range(sent[l]) = {}
  BY DEF Init, Range
<1> QED BY <1>1, <1>2 DEF Init, WireIsCounted, Gate!GateInit

\* Sending what the gate just counted keeps the wire counted.
LEMMA TransmitKeeps ==
  ASSUME WireIsCounted, NEW l \in Light, NEW out \in Seq(Datagram),
         Gate!TryAdmit(l, Range(out)), Transmit(l, out),
         paced' \in [Light -> Seq(Datagram)]
  PROVE  WireIsCounted'
<1>1. /\ passed' = passed \cup Range(out) /\ Range(out) \subseteq Datagram \ passed
      /\ \A d \in Range(out) : lightOf[d] = l
      /\ \A d \in Datagram : at'[d] = IF d \in Range(out) THEN now ELSE at[d]
  BY DEF Gate!TryAdmit
<1>2. sent' \in [Light -> Seq(Datagram)]
  BY DEF Transmit, WireIsCounted
<1>3. ASSUME NEW g \in Light, NEW d \in Range(sent'[g])
      PROVE  d \in Range(sent[g]) \/ (g = l /\ d \in Range(out))
  BY DEF Transmit, WireIsCounted, Range
<1>4. \A d \in Datagram : sentAt'[d] = IF d \in Range(out) THEN now ELSE sentAt[d]
  BY DEF Transmit
<1>5. ASSUME NEW g \in Light, NEW d \in Range(sent'[g])
      PROVE  d \in passed' /\ lightOf[d] = g /\ sentAt'[d] = at'[d]
  BY <1>1, <1>3, <1>4, <1>5 DEF WireIsCounted
<1> QED BY <1>1, <1>2, <1>5 DEF WireIsCounted

\* Every step keeps the wire counted and is a step of the gate or none of it.
LEMMA NextWire ==
  ASSUME WireIsCounted, [Next]_vars
  PROVE  WireIsCounted' /\ [Proved!GateNext]_(Proved!gateVars)
<1>1. ASSUME NEW d \in Datagram, SendCommand(d)
      PROVE  WireIsCounted' /\ [Proved!GateNext]_(Proved!gateVars)
  <2> DEFINE l == lightOf[d]
  <2>0. l \in Light
    BY PacingAssumption
  <2>1. CASE paced[l] # <<>> /\ UNCHANGED <<gateVars, sent, sentAt>>
    <3>1. paced' = [paced EXCEPT ![l] = Append(@, d)]
      BY <1>1, <2>1 DEF SendCommand
    <3> QED BY <2>0, <2>1, <3>1 DEF WireIsCounted, gateVars, Proved!gateVars
  <2>2. CASE Gate!TryAdmit(l, {d}) /\ Transmit(l, <<d>>) /\ UNCHANGED paced
    <3>1. Range(<<d>>) = {d} /\ <<d>> \in Seq(Datagram)
      BY DEF Range
    <3>2. WireIsCounted'
      BY <2>0, <2>2, <3>1, TransmitKeeps DEF WireIsCounted
    <3> QED BY <2>0, <2>2, <3>2, SameGate DEF Proved!GateNext
  <2>3. CASE Gate!TryAdmit(l, {}) /\ paced' = [paced EXCEPT ![l] = <<d>>]
             /\ UNCHANGED <<sent, sentAt>>
    <3>1. WireIsCounted'
      BY <2>0, <2>3 DEF WireIsCounted, Gate!TryAdmit
    <3> QED BY <2>0, <2>3, <3>1, SameGate DEF Proved!GateNext
  <2> QED BY <1>1, <2>1, <2>2, <2>3 DEF SendCommand
<1>2. ASSUME NEW l \in Light, Release(l)
      PROVE  WireIsCounted' /\ [Proved!GateNext]_(Proved!gateVars)
  <2>1. PICK n \in 0..Len(paced[l]) :
          /\ Gate!TryAdmit(l, Range(SubSeq(paced[l], 1, n)))
          /\ Transmit(l, SubSeq(paced[l], 1, n))
          /\ paced' = [paced EXCEPT ![l] = SubSeq(paced[l], n + 1, Len(paced[l]))]
    BY <1>2 DEF Release
  <2>2. /\ SubSeq(paced[l], 1, n) \in Seq(Datagram)
        /\ SubSeq(paced[l], n + 1, Len(paced[l])) \in Seq(Datagram)
    BY DEF WireIsCounted
  <2>3. WireIsCounted'
    BY <2>1, <2>2, TransmitKeeps DEF WireIsCounted
  <2>4. Range(SubSeq(paced[l], 1, n)) \in SUBSET Datagram
    BY <2>1 DEF Gate!TryAdmit
  <2> QED BY <2>1, <2>3, <2>4, SameGate DEF Proved!GateNext
<1>3. CASE Stop
  BY <1>3 DEF Stop, WireIsCounted, gateVars, Proved!gateVars
<1>4. CASE Tick
  BY <1>4 DEF Tick, Gate!GateTick, Proved!GateTick, Proved!GateNext, WireIsCounted, pacingVars
<1>5. CASE UNCHANGED vars
  BY <1>5 DEF vars, gateVars, pacingVars, WireIsCounted, Proved!gateVars
<1> QED BY <1>1, <1>2, <1>3, <1>4, <1>5 DEF Next

\* The wire's windows are windows of the gate.
LEMMA WireWindows ==
  ASSUME WireIsCounted, Proved!GateInv
  PROVE  LightsAreSpared
<1> SUFFICES ASSUME NEW l \in Light, NEW t \in 0..now
             PROVE  Cardinality({d \in Range(sent[l]) :
                                   sentAt[d] <= t /\ t < sentAt[d] + WindowLength})
                      <= MaxPerWindow
  BY DEF LightsAreSpared
<1> DEFINE wire == {d \in Range(sent[l]) : sentAt[d] <= t /\ t < sentAt[d] + WindowLength}
           gate == Proved!InWindow("control", l, t)
<1>1. wire \subseteq gate
  BY DEF WireIsCounted, Proved!InWindow, Proved!KeyOf
<1>2. IsFiniteSet(gate)
  BY PacingAssumption, FS_Subset DEF WireIsCounted, Proved!InWindow
<1>3. Cardinality(gate) <= MaxPerWindow
  BY SameCardinality DEF Proved!GateInv, Proved!WindowsKept
<1>4. /\ Cardinality(wire) <= Cardinality(gate)
      /\ Cardinality(wire) \in Nat /\ Cardinality(gate) \in Nat
  BY <1>1, <1>2, FS_Subset, FS_CardinalityType
<1> QED BY <1>3, <1>4, PacingAssumption

\* The gate and the wire keep what is proved of both.
WireInv == WireIsCounted /\ Proved!GateInv

LEMMA WireHolds == Spec => []WireInv
<1>1. Init => WireInv
  BY InitWire, GateAssumptionHolds, Proved!InitGateInv DEF WireInv
<1>2. WireInv /\ [Next]_vars => WireInv'
  BY NextWire, GateAssumptionHolds, Proved!NextGateInv DEF WireInv
<1> QED BY <1>1, <1>2, PTL DEF Spec

\* A timer is due after a wait that is a number.
TimersTyped ==
  /\ armed \subseteq Light
  /\ due \in [Light -> Nat]
  /\ closed \in BOOLEAN
  /\ sentAt \in [Datagram -> Nat]

\* The wait for a light is a number.
LEMMA WaitIsNumber == WireInv => \A l \in Light : Gate!WaitMs(l) \in Nat
BY GateAssumptionHolds, Proved!WaitIsLongest, SameWait DEF WireInv

LEMMA NextTimers ==
  ASSUME TimersTyped, WireInv, WireInv', [Next]_vars
  PROVE  TimersTyped'
<1>1. now \in Nat
  BY DEF WireInv, Proved!GateInv, Proved!GateTypeOK
<1>2. \A l \in Light : Gate!WaitMs(l)' \in Nat
  <2>1. (WireInv => \A l \in Light : Gate!WaitMs(l) \in Nat)'
    BY WaitIsNumber, PTL
  <2> QED BY <2>1
<1>3. ASSUME NEW l \in Light, Arm(l)
      PROVE  armed' \subseteq Light /\ due' \in [Light -> Nat]
  BY <1>1, <1>2, <1>3 DEF Arm, TimersTyped
<1>4. ASSUME NEW l \in Light, NEW out, Transmit(l, out)
      PROVE  sentAt' \in [Datagram -> Nat]
  BY <1>1, <1>4 DEF Transmit, TimersTyped
<1>5. ASSUME NEW d \in Datagram, SendCommand(d)
      PROVE  TimersTyped'
  <2>1. lightOf[d] \in Light
    BY PacingAssumption
  <2> QED BY <1>3, <1>4, <1>5, <2>1 DEF SendCommand, TimersTyped
<1>6. ASSUME NEW l \in Light, Release(l)
      PROVE  TimersTyped'
  BY <1>3, <1>4, <1>6 DEF Release, TimersTyped
<1>7. CASE Stop
  BY <1>7 DEF Stop, TimersTyped
<1>8. CASE UNCHANGED pacingVars
  BY <1>8 DEF pacingVars, TimersTyped
<1> QED BY <1>5, <1>6, <1>7, <1>8 DEF Next, Tick, vars

LEMMA TimersHold == Spec => []TimersTyped
<1>1. Init => TimersTyped
  <2> SUFFICES ASSUME Init PROVE TimersTyped
    OBVIOUS
  <2>1. armed = {} /\ closed = FALSE
    BY DEF Init
  <2>2. due = [l \in Light |-> 0] /\ sentAt = [d \in Datagram |-> 0]
    BY DEF Init
  <2> QED BY <2>1, <2>2 DEF TimersTyped
<1>2. TimersTyped /\ WireInv /\ WireInv' /\ [Next]_vars => TimersTyped'
  <2> SUFFICES ASSUME TimersTyped, WireInv, WireInv', [Next]_vars PROVE TimersTyped'
    OBVIOUS
  <2> QED BY NextTimers, Zenon
<1> QED BY <1>1, <1>2, WireHolds, PTL DEF Spec

-----------------------------------------------------------------------------
(***************************************************************************)
(* The order of a light's commands: what was asked for is what was sent     *)
(* followed by what still waits.                                            *)
(***************************************************************************)
\* The histories and the queues of the lights.
QueuesTyped ==
  /\ paced \in [Light -> Seq(Datagram)]
  /\ asked \in [Light -> Seq(Datagram)]
  /\ sent \in [Light -> Seq(Datagram)]

\* A closed client has no timer left to release anything.
OrderInv ==
  /\ QueuesTyped
  /\ closed => armed = {}
  /\ InOrderNothingDropped

\* Joining sequences of datagrams is associative.
LEMMA JoinedLeftOrRight ==
  \A s, t, u \in Seq(Datagram) : (s \o t) \o u = s \o (t \o u)
<1> TAKE s, t, u \in Seq(Datagram)
<1> QED BY ConcatAssociative

\* What a sequence was continued from is a prefix of it.
LEMMA FrontIsPrefix ==
  ASSUME NEW S, NEW s \in Seq(S), NEW t \in Seq(S)
  PROVE  IsPrefix(s, s \o t)
<1>1. Len(s) <= Len(s \o t) /\ Len(s) \in Nat
  BY ConcatProperties, LenProperties
<1>2. CASE Len(s) = 0
  <2>1. SubSeq(s, 1, 0) = <<>> /\ SubSeq(s \o t, 1, 0) = <<>>
    BY ConcatProperties, SubSeqEmpty
  <2> QED BY <1>1, <1>2, <2>1 DEF IsPrefix
<1>3. CASE Len(s) # 0
  <2>1. SubSeq(s \o t, 1, Len(s)) = SubSeq(s, 1, Len(s))
    BY <1>1, <1>3, SubSeqOfConcat1
  <2> QED BY <1>1, <2>1 DEF IsPrefix
<1> QED BY <1>2, <1>3

LEMMA InitOrder == Init => OrderInv
<1> SUFFICES ASSUME Init PROVE OrderInv
  OBVIOUS
<1>1. QueuesTyped /\ armed = {}
  BY DEF Init, QueuesTyped
<1>2. \A l \in Light : asked[l] = <<>> /\ sent[l] = <<>> /\ paced[l] = <<>>
  BY DEF Init
<1>3. <<>> \o <<>> = <<>>
  BY ConcatEmptySeq
<1>4. InOrderNothingDropped
  BY <1>2, <1>3 DEF Init, InOrderNothingDropped
<1> QED BY <1>1, <1>4 DEF OrderInv

\* A command joins the end of what was asked for, and the wire or the queue.
LEMMA SendKeepsOrder ==
  ASSUME OrderInv, NEW d \in Datagram, SendCommand(d)
  PROVE  OrderInv'
<1>0. PICK l \in Light : l = lightOf[d]
  BY PacingAssumption
<1>1. l \in Light /\ ~closed /\ ~closed' /\ <<d>> \in Seq(Datagram)
  BY <1>0 DEF SendCommand
<1>2. asked' = [asked EXCEPT ![l] = Append(@, d)]
  BY <1>0 DEF SendCommand
<1>3. /\ paced[l] \in Seq(Datagram) /\ sent[l] \in Seq(Datagram) /\ asked[l] \in Seq(Datagram)
      /\ asked[l] = sent[l] \o paced[l]
  BY <1>1 DEF OrderInv, QueuesTyped, InOrderNothingDropped
<1>4. Append(asked[l], d) = asked[l] \o <<d>> /\ Append(asked[l], d) \in Seq(Datagram)
  BY <1>3, AppendIsConcat, AppendProperties
<1>5. asked' \in [Light -> Seq(Datagram)] /\ asked'[l] = asked[l] \o <<d>>
      /\ \A g \in Light \ {l} : asked'[g] = asked[g]
  BY <1>1, <1>2, <1>4 DEF OrderInv, QueuesTyped
<1> DEFINE Rest == /\ paced' \in [Light -> Seq(Datagram)] /\ sent' \in [Light -> Seq(Datagram)]
                   /\ \A g \in Light \ {l} : paced'[g] = paced[g] /\ sent'[g] = sent[g]
                   /\ asked'[l] = sent'[l] \o paced'[l]
<1>6. ASSUME paced[l] # <<>> PROVE Rest
  <2>1. paced' = [paced EXCEPT ![l] = Append(@, d)] /\ sent' = sent
    BY <1>0, <1>6 DEF SendCommand
  <2>2. Append(paced[l], d) = paced[l] \o <<d>> /\ Append(paced[l], d) \in Seq(Datagram)
    BY <1>3, AppendIsConcat, AppendProperties
  <2>3. asked'[l] = sent[l] \o (paced[l] \o <<d>>)
    <3>1. (sent[l] \o paced[l]) \o <<d>> = sent[l] \o (paced[l] \o <<d>>)
      BY <1>1, <1>3, JoinedLeftOrRight
    <3> QED BY <1>3, <1>5, <3>1
  <2>4. paced' \in [Light -> Seq(Datagram)] /\ paced'[l] = paced[l] \o <<d>>
        /\ \A g \in Light \ {l} : paced'[g] = paced[g]
    BY <1>1, <2>1, <2>2 DEF OrderInv, QueuesTyped
  <2> QED BY <2>1, <2>3, <2>4 DEF OrderInv, QueuesTyped
<1>7. ASSUME paced[l] = <<>>, sent' = sent, paced' = [paced EXCEPT ![l] = <<d>>]
      PROVE  Rest
  <2>1. asked[l] = sent[l]
    BY <1>3, <1>7, ConcatEmptySeq
  <2>2. paced' \in [Light -> Seq(Datagram)] /\ paced'[l] = <<d>>
        /\ \A g \in Light \ {l} : paced'[g] = paced[g]
    BY <1>1, <1>7 DEF OrderInv, QueuesTyped
  <2> QED BY <1>5, <1>7, <2>1, <2>2 DEF OrderInv, QueuesTyped
<1>8. ASSUME paced[l] = <<>>, paced' = paced, Transmit(l, <<d>>)
      PROVE  Rest
  <2>1. asked[l] = sent[l]
    BY <1>3, <1>8, ConcatEmptySeq
  <2>2. sent' = [sent EXCEPT ![l] = @ \o <<d>>]
    BY <1>8 DEF Transmit
  <2>3. sent[l] \o <<d>> \in Seq(Datagram)
    BY <1>4, <2>1
  <2>4. (sent[l] \o <<d>>) \o <<>> = sent[l] \o <<d>>
    BY <2>3, ConcatEmptySeq
  <2>5. sent' \in [Light -> Seq(Datagram)] /\ sent'[l] = sent[l] \o <<d>>
        /\ \A g \in Light \ {l} : sent'[g] = sent[g]
    BY <1>1, <2>2, <2>3 DEF OrderInv, QueuesTyped
  <2> QED BY <1>5, <1>8, <2>1, <2>4, <2>5 DEF OrderInv, QueuesTyped
<1>9. Rest
  <2> HIDE DEF Rest
  <2>1. paced[l] = <<>> => (sent' = sent /\ paced' = [paced EXCEPT ![l] = <<d>>])
                             \/ (paced' = paced /\ Transmit(l, <<d>>))
    BY <1>0 DEF SendCommand
  <2> QED BY <2>1, <1>6, <1>7, <1>8
<1>10. \A g \in Light : asked'[g] = sent'[g] \o paced'[g]
  BY <1>1, <1>5, <1>9 DEF OrderInv, InOrderNothingDropped
<1> QED BY <1>1, <1>5, <1>9, <1>10 DEF OrderInv, QueuesTyped, InOrderNothingDropped

\* What the timer lets go is the front of what waits.
LEMMA ReleaseKeepsOrder ==
  ASSUME OrderInv, NEW l \in Light, Release(l)
  PROVE  OrderInv'
<1>1. PICK n \in 0..Len(paced[l]) :
        /\ Transmit(l, SubSeq(paced[l], 1, n))
        /\ paced' = [paced EXCEPT ![l] = SubSeq(paced[l], n + 1, Len(paced[l]))]
  BY DEF Release
<1> DEFINE out == SubSeq(paced[l], 1, n)
           rest == SubSeq(paced[l], n + 1, Len(paced[l]))
<1>2. ~closed /\ ~closed' /\ asked' = asked
  BY DEF Release, OrderInv
<1>3. /\ paced[l] \in Seq(Datagram) /\ sent[l] \in Seq(Datagram)
      /\ asked[l] = sent[l] \o paced[l]
  BY <1>2 DEF OrderInv, QueuesTyped, InOrderNothingDropped
<1>4. out \in Seq(Datagram) /\ rest \in Seq(Datagram)
  BY <1>3
<1>5. out \o rest = paced[l]
  <2>1. Len(paced[l]) \in Nat
    BY <1>3, LenProperties
  <2>2. /\ 1 \in 1..Len(paced[l]) + 1 /\ n \in 1 - 1..Len(paced[l])
        /\ Len(paced[l]) \in n..Len(paced[l])
    BY <2>1
  <2>3. out \o rest = SubSeq(paced[l], 1, Len(paced[l]))
    BY <1>3, <2>2, ConcatAdjacentSubSeq
  <2> QED BY <1>3, <2>3, SubSeqFull
<1> HIDE DEF out, rest
<1>6. sent' = [sent EXCEPT ![l] = @ \o out] /\ paced' = [paced EXCEPT ![l] = rest]
  <2>1. Transmit(l, out) /\ paced' = [paced EXCEPT ![l] = rest]
    BY <1>1 DEF out, rest
  <2> QED BY <2>1 DEF Transmit
<1>7. sent[l] \o out \in Seq(Datagram) /\ (sent[l] \o out) \o rest = sent[l] \o (out \o rest)
  <2>1. sent[l] \o out \in Seq(Datagram)
    BY <1>3, <1>4, ConcatProperties
  <2>2. (sent[l] \o out) \o rest = sent[l] \o (out \o rest)
    BY <1>3, <1>4, JoinedLeftOrRight
  <2> QED BY <2>1, <2>2
<1>8. /\ sent' \in [Light -> Seq(Datagram)] /\ paced' \in [Light -> Seq(Datagram)]
      /\ sent'[l] = sent[l] \o out /\ paced'[l] = rest
      /\ \A g \in Light \ {l} : sent'[g] = sent[g] /\ paced'[g] = paced[g]
  BY <1>4, <1>6, <1>7 DEF OrderInv, QueuesTyped
<1>9. \A g \in Light : asked'[g] = sent'[g] \o paced'[g]
  BY <1>2, <1>3, <1>5, <1>7, <1>8 DEF OrderInv, InOrderNothingDropped
<1> QED BY <1>2, <1>8, <1>9 DEF OrderInv, QueuesTyped, InOrderNothingDropped

\* Stopping drops what waits and leaves what was sent: a prefix of what was asked for.
LEMMA StopKeepsOrder ==
  ASSUME OrderInv, Stop
  PROVE  OrderInv'
<1>1. closed' /\ armed' = {} /\ asked' = asked /\ sent' = sent /\ ~closed
  BY DEF Stop
<1>2. paced' \in [Light -> Seq(Datagram)]
  BY DEF Stop
<1>3. ASSUME NEW l \in Light
      PROVE  IsPrefix(sent[l], asked[l])
  <2>1. /\ paced[l] \in Seq(Datagram) /\ sent[l] \in Seq(Datagram)
        /\ asked[l] = sent[l] \o paced[l]
    BY <1>1 DEF OrderInv, QueuesTyped, InOrderNothingDropped
  <2> QED BY <2>1, FrontIsPrefix
<1> QED BY <1>1, <1>2, <1>3 DEF OrderInv, QueuesTyped, InOrderNothingDropped

\* What was asked for is always what was sent followed by what still waits.
LEMMA OrderHolds == Spec => []OrderInv
<1>1. OrderInv /\ [Next]_vars => OrderInv'
  <2> SUFFICES ASSUME OrderInv, [Next]_vars PROVE OrderInv'
    OBVIOUS
  <2>1. CASE Tick \/ UNCHANGED vars
    <3>1. UNCHANGED <<paced, armed, closed, asked, sent>>
      BY <2>1 DEF Tick, vars, pacingVars
    <3> QED BY <3>1 DEF OrderInv, QueuesTyped, InOrderNothingDropped
  <2> QED BY <2>1, SendKeepsOrder, ReleaseKeepsOrder, StopKeepsOrder DEF Next
<1> QED BY InitOrder, <1>1, PTL DEF Spec

\* A light receives its commands in the order they were asked for, each once and
\* none skipped but by stop(), and never more of them than its window holds, whatever
\* waited and however late a release came (govee-lan-client.ts, sendCommand,
\* releaseLater and stop).
THEOREM DatagramsStayInOrder == Spec => []DatagramsLeaveInOrder
<1>1. WireInv => LightsAreSpared
  BY WireWindows DEF WireInv
<1>2. OrderInv => InOrderNothingDropped
  BY DEF OrderInv
<1>3. OrderInv /\ TimersTyped /\ WireInv => TypeOK
  <2> SUFFICES ASSUME OrderInv, TimersTyped, WireInv PROVE TypeOK
    OBVIOUS
  <2>1. Gate!GateTypeOK
    BY DEF WireInv, Proved!GateInv, Proved!GateTypeOK, Gate!GateTypeOK, Gate!Key, Proved!Key,
       Gate!AnyHost, Proved!AnyHost
  <2> QED BY <2>1 DEF OrderInv, QueuesTyped, TimersTyped, TypeOK
<1> QED BY <1>1, <1>2, <1>3, WireHolds, TimersHold, OrderHolds, PTL
     DEF DatagramsLeaveInOrder

-----------------------------------------------------------------------------
(* A command on its way through the limiter.                                *)

\* The limiter below, as its own proofs know it.
Budget == INSTANCE RateLimiterProofs WITH
  Call <- Attempt,
  Device <- {device},
  laneOf <- [c \in Attempt |-> [kind |-> "device-control", deviceKey |-> device]],
  priorityOf <- [c \in Attempt |-> 0],
  Budgeted <- {}, Tracked <- Attempt,
  AccountListPerMinute <- 1, AppApiPerMinute <- 1, DeviceReadPerMinute <- 1,
  AppliancePerDay <- 1

\* Its constants are what the limiter's proofs assume of them.
LEMMA BudgetAssumptions == Budget!CallAssumption /\ Budget!LimitAssumption
<1>1. IsFiniteSet(Attempt)
  <2>1. IsFiniteSet(1..MaxAttempts)
    BY CommandAssumption, FS_Interval
  <2> QED BY <2>1, CommandAssumption, FS_Product DEF Attempt
<1>2. Budget!IsFiniteSet(Attempt) <=> IsFiniteSet(Attempt)
  BY DEF Budget!IsFiniteSet, IsFiniteSet
<1>3. Budget!CallAssumption
  BY <1>1, <1>2 DEF Budget!CallAssumption, Budget!Lane, Budget!ControlLane, Budget!DeviceControl
<1>4. Budget!LimitAssumption
  BY SendLimits DEF Budget!LimitAssumption
<1> QED BY <1>3, <1>4

\* Both begin alike and have the same types.
LEMMA SameTypes ==
  /\ Limiter!Init => Budget!Init
  /\ Budget!TypeOK => Limiter!TypeOK
<1>1. Limiter!WindowLane = Budget!WindowLane
  BY DEF Limiter!WindowLane, Budget!WindowLane, Limiter!AccountList, Budget!AccountList,
         Limiter!AppApi, Budget!AppApi, Limiter!DeviceRead, Budget!DeviceRead
<1>2. Limiter!Status = Budget!Status
  BY DEF Limiter!Status, Budget!Status, Limiter!Refusal, Budget!Refusal
<1> QED BY <1>1, <1>2 DEF Limiter!Init, Budget!Init, Limiter!TypeOK, Budget!TypeOK

\* An attempt is made alike.
LEMMA SameSubmit ==
  ASSUME NEW c \in Attempt, Limiter!ExecuteTracked(c)
  PROVE  Budget!ExecuteTracked(c)
BY DEF Limiter!ExecuteTracked, Budget!ExecuteTracked, Limiter!Submit, Budget!Submit, Limiter!Idle, Budget!Idle,
       Limiter!DeviceBudgetSpent, Budget!DeviceBudgetSpent, Limiter!DeviceOf, Budget!DeviceOf,
       Limiter!CanMakeCall, Budget!CanMakeCall, Limiter!Refuse, Budget!Refuse,
       Limiter!Rejecting, Budget!Rejecting, Limiter!bookings, Budget!bookings,
       Limiter!Spend, Budget!Spend, Limiter!IsControl, Budget!IsControl, Limiter!Floor, Budget!Floor,
       Limiter!Awaited, Budget!Awaited, Limiter!Enqueue, Budget!Enqueue,
       Limiter!DayBudgetSpent, Budget!DayBudgetSpent, Limiter!Insert, Budget!Insert,
       Limiter!Outranks, Budget!Outranks, Limiter!Last, Budget!Last, Limiter!Front, Budget!Front,
       Limiter!InsertAt, Budget!InsertAt, Limiter!Cardinality, Budget!Cardinality, Limiter!LimitOf, Budget!LimitOf

\* What moves the limiter between two steps of the router.
BudgetMoves ==
  \/ \E c \in Attempt, neverSent, failed \in BOOLEAN : Budget!Settle(c, neverSent, failed)
  \/ Budget!ProcessTick \/ Budget!WalkTurn \/ Budget!ResetMinuteWindow \/ Budget!ResetDaily
  \/ \E d \in {device} : Budget!RefillDevice(d)
  \/ Budget!RefillAccount \/ Budget!Stop

\* An answer, a timer, the loop and the stop change it alike.
LEMMA SameMoves ==
  ASSUME LimiterStep
  PROVE  BudgetMoves
<1>1. ASSUME NEW c \in Attempt, NEW neverSent \in BOOLEAN, NEW failed \in BOOLEAN,
             Limiter!Settle(c, neverSent, failed)
      PROVE  Budget!Settle(c, neverSent, failed)
  BY <1>1 DEF Limiter!Settle, Budget!Settle, Limiter!Idle, Budget!Idle, Limiter!Refund, Budget!Refund,
       Limiter!bookings, Budget!bookings, Limiter!IsControl, Budget!IsControl, Limiter!DeviceOf, Budget!DeviceOf,
       Limiter!Floor, Budget!Floor, Limiter!Capped, Budget!Capped
<1>2. Limiter!ProcessQueue => Budget!ProcessQueue
  BY DEF Limiter!ProcessQueue, Budget!ProcessQueue, Limiter!Idle, Budget!Idle,
       Limiter!DayBudgetSpent, Budget!DayBudgetSpent, Limiter!Refuse, Budget!Refuse,
       Limiter!Rejecting, Budget!Rejecting, Limiter!Range, Budget!Range
<1>3. Limiter!WalkTurn => Budget!WalkTurn
  BY DEF Limiter!WalkTurn, Budget!WalkTurn, Limiter!Idle, Budget!Idle,
       Limiter!DeviceBudgetSpent, Budget!DeviceBudgetSpent, Limiter!DeviceOf, Budget!DeviceOf,
       Limiter!CanMakeCall, Budget!CanMakeCall, Limiter!Refuse, Budget!Refuse,
       Limiter!Rejecting, Budget!Rejecting, Limiter!bookings, Budget!bookings,
       Limiter!Spend, Budget!Spend, Limiter!IsControl, Budget!IsControl, Limiter!Floor, Budget!Floor,
       Limiter!RemoveAt, Budget!RemoveAt, Limiter!LimitOf, Budget!LimitOf
<1>4. Limiter!ProcessTick => Budget!ProcessTick
  BY <1>2 DEF Limiter!ProcessTick, Budget!ProcessTick, Limiter!bookings, Budget!bookings
<1>5. Limiter!ResetMinuteWindow => Budget!ResetMinuteWindow
  BY <1>2 DEF Limiter!ResetMinuteWindow, Budget!ResetMinuteWindow, Limiter!WindowLane, Budget!WindowLane,
       Limiter!AccountList, Budget!AccountList, Limiter!AppApi, Budget!AppApi,
       Limiter!DeviceRead, Budget!DeviceRead
<1>6. Limiter!ResetDaily => Budget!ResetDaily
  BY DEF Limiter!ResetDaily, Budget!ResetDaily, Limiter!Idle, Budget!Idle
<1>7. Limiter!RefillDevice(device) => Budget!RefillDevice(device)
  BY DEF Limiter!RefillDevice, Budget!RefillDevice, Limiter!Idle, Budget!Idle
<1>8. Limiter!RefillAccount => Budget!RefillAccount
  BY DEF Limiter!RefillAccount, Budget!RefillAccount, Limiter!Idle, Budget!Idle
<1>9. Limiter!Stop => Budget!Stop
  BY DEF Limiter!Stop, Budget!Stop, Limiter!Idle, Budget!Idle, Limiter!Refuse, Budget!Refuse,
       Limiter!Rejecting, Budget!Rejecting, Limiter!bookings, Budget!bookings, Limiter!Range, Budget!Range
<1> QED BY <1>1, <1>3, <1>4, <1>5, <1>6, <1>7, <1>8, <1>9 DEF LimiterStep, BudgetMoves

\* What the limiter does by itself leaves an attempt made, failed or not made.
Stays(a) == /\ status[a] = "new" => status'[a] = "new"
            /\ status[a] = "given-back" => status'[a] = "given-back"
            /\ status'[a] = "new" => status[a] = "new"

LEMMA LimiterStays ==
  ASSUME Budget!IInv, LimiterStep
  PROVE  Budget!IInv' /\ \A a \in Attempt : Stays(a)
<1>1. BudgetMoves
  BY SameMoves
<1>2. Budget!Next
  BY <1>1 DEF BudgetMoves, Budget!Next
<1>3. Budget!IInv'
  BY <1>2, BudgetAssumptions, Budget!NextIInv
<1>4. \A a \in Attempt : Budget!GoesOn(a)
  BY <1>1, BudgetAssumptions, Budget!CallsGoOn DEF BudgetMoves
<1> QED BY <1>3, <1>4 DEF Budget!GoesOn, Stays

LEMMA SubmitStays ==
  ASSUME Budget!IInv, NEW c \in Attempt, Limiter!ExecuteTracked(c)
  PROVE  /\ Budget!IInv' /\ status[c] = "new" /\ status'[c] # "new"
         /\ \A a \in Attempt \ {c} : Stays(a)
<1>1. Budget!ExecuteTracked(c)
  BY SameSubmit
<1>2. Budget!Next
  BY <1>1 DEF Budget!Next
<1>3. Budget!IInv'
  BY <1>2, BudgetAssumptions, Budget!NextIInv
<1>4. /\ status[c] = "new" /\ status'[c] # "new"
      /\ \A a \in Attempt \ {c} : Budget!GoesOn(a)
  BY <1>1, BudgetAssumptions, Budget!OthersGoOn DEF Budget!ExecuteTracked
<1> QED BY <1>3, <1>4 DEF Budget!GoesOn, Stays

\* The forms of the router's own variables.
SendShape ==
  /\ phase \in [Command -> {"new", "sending", "pausing", "delivered", "failed"}]
  /\ attempt \in [Command -> 0..MaxAttempts]
  /\ seq \in [Command -> Nat]
  /\ sendSeq \in [Slot -> Nat]

\* Where a command is: p its phase, k the attempts made, s what became of each.
Placed(p, k, s) ==
  /\ p = "new" => k = 0
  /\ p # "new" => k > 0
  /\ p = "pausing" => s[k] = "given-back" /\ k < MaxAttempts
  /\ \A n \in 1..MaxAttempts :
       /\ n < k => s[n] = "given-back"
       /\ n = k => s[n] # "new"
       /\ n > k => s[n] = "new"

Tries(w) == [n \in 1..MaxAttempts |-> status[<<w, n>>]]

Numbered(w) == /\ seq[w] <= sendSeq[slotOf[w]]
               /\ phase[w] = "new" => seq[w] = 0

\* The inductive invariant: every attempt but the last is known not to have arrived.
SendInv ==
  /\ Budget!IInv /\ SendShape
  /\ \A w \in Command : Placed(phase[w], attempt[w], Tries(w)) /\ Numbered(w)

\* One command goes on, and with it one attempt.
LEMMA PlacedOn ==
  ASSUME SendInv, SendShape', NEW w \in Command, NEW c \in Attempt, c[1] = w,
         \A v \in Command \ {w} : phase'[v] = phase[v] /\ attempt'[v] = attempt[v],
         \A a \in Attempt \ {c} : Stays(a),
         Placed(phase'[w], attempt'[w], Tries(w)')
  PROVE  \A v \in Command : Placed(phase'[v], attempt'[v], Tries(v)')
<1> SUFFICES ASSUME NEW v \in Command \ {w} PROVE Placed(phase'[v], attempt'[v], Tries(v)')
  OBVIOUS
<1>1. Placed(phase[v], attempt[v], Tries(v))
  BY DEF SendInv
<1>2. \A n \in 1..MaxAttempts : <<v, n>> \in Attempt \ {c}
  BY DEF Attempt
<1>3. \A n \in 1..MaxAttempts : Tries(v)[n] = status[<<v, n>>] /\ Tries(v)'[n] = status'[<<v, n>>]
  BY DEF Tries
<1>4. ASSUME NEW n \in 1..MaxAttempts
      PROVE  /\ Tries(v)[n] = "new" => Tries(v)'[n] = "new"
             /\ Tries(v)[n] = "given-back" => Tries(v)'[n] = "given-back"
             /\ Tries(v)'[n] = "new" => Tries(v)[n] = "new"
  <2>1. Stays(<<v, n>>)
    BY <1>2
  <2>2. /\ status[<<v, n>>] = "new" => status'[<<v, n>>] = "new"
        /\ status[<<v, n>>] = "given-back" => status'[<<v, n>>] = "given-back"
        /\ status'[<<v, n>>] = "new" => status[<<v, n>>] = "new"
    BY <2>1 DEF Stays
  <2>3. Tries(v)[n] = status[<<v, n>>] /\ Tries(v)'[n] = status'[<<v, n>>]
    BY <1>3
  <2> QED BY <2>2, <2>3, Zenon
<1>5. phase'[v] = phase[v] /\ attempt'[v] = attempt[v] /\ attempt[v] \in 0..MaxAttempts
  BY DEF SendInv, SendShape
<1> QED BY <1>1, <1>4, <1>5, CommandAssumption DEF Placed

LEMMA InitSend == SendInit => SendInv
<1> SUFFICES ASSUME SendInit PROVE SendInv
  OBVIOUS
<1>1. Budget!IInv
  BY SameTypes, BudgetAssumptions, Budget!InitIInv DEF SendInit
<1>2. SendShape
  BY CommandAssumption DEF SendInit, SendShape
<1>3. \A a \in Attempt : status[a] = "new"
  BY DEF SendInit, Limiter!Init
<1>4. ASSUME NEW w \in Command
      PROVE  Placed(phase[w], attempt[w], Tries(w)) /\ Numbered(w)
  <2>1. phase[w] = "new" /\ attempt[w] = 0 /\ seq[w] = 0 /\ sendSeq[slotOf[w]] = 0
    BY CommandAssumption DEF SendInit
  <2>2. \A n \in 1..MaxAttempts : Tries(w)[n] = "new"
    BY <1>3 DEF Tries, Attempt
  <2> QED BY <2>1, <2>2, CommandAssumption DEF Placed, Numbered
<1> QED BY <1>1, <1>2, <1>4 DEF SendInv

\* The limiter's own steps.
LEMMA LimiterKeeps == ASSUME SendInv, LimiterStep PROVE SendInv'
<1>1. Budget!IInv' /\ \A a \in Attempt : Stays(a)
  BY LimiterStays DEF SendInv
<1>2. UNCHANGED sendVars
  BY DEF LimiterStep
<1>3. SendShape' /\ \A w \in Command : Numbered(w)'
  BY <1>2 DEF sendVars, SendInv, SendShape, Numbered
<1>4. ASSUME NEW w \in Command PROVE Placed(phase'[w], attempt'[w], Tries(w)')
  <2>1. Placed(phase[w], attempt[w], Tries(w)) /\ attempt[w] \in 0..MaxAttempts
    BY DEF SendInv, SendShape
  <2>2. \A n \in 1..MaxAttempts :
          /\ Tries(w)[n] = "new" => Tries(w)'[n] = "new"
          /\ Tries(w)[n] = "given-back" => Tries(w)'[n] = "given-back"
          /\ Tries(w)'[n] = "new" => Tries(w)[n] = "new"
    BY <1>1 DEF Tries, Stays, Attempt
  <2>3. phase'[w] = phase[w] /\ attempt'[w] = attempt[w]
    BY <1>2 DEF sendVars
  <2> QED BY <2>1, <2>2, <2>3, CommandAssumption DEF Placed
<1> QED BY <1>1, <1>3, <1>4 DEF SendInv

\* An attempt is made, the first or the next one.
LEMMA AttemptKeeps ==
  ASSUME SendInv, NEW w \in Command, NEW n \in 1..MaxAttempts,
         SendOnce(w, n), attempt[w] = n - 1, phase[w] \in {"new", "pausing"},
         n > 1 => phase[w] = "pausing",
         phase' = [phase EXCEPT ![w] = "sending"], attempt' = [attempt EXCEPT ![w] = n],
         SendShape', \A v \in Command : Numbered(v)'
  PROVE  SendInv'
<1> DEFINE c == <<w, n>>
<1>1. c \in Attempt /\ c[1] = w
  BY DEF Attempt
<1>2. /\ Budget!IInv' /\ status'[c] # "new"
      /\ \A a \in Attempt \ {c} : Stays(a)
  BY <1>1, SubmitStays DEF SendInv, SendOnce
<1>3. /\ phase'[w] = "sending" /\ attempt'[w] = n
      /\ \A v \in Command \ {w} : phase'[v] = phase[v] /\ attempt'[v] = attempt[v]
  BY DEF SendInv, SendShape
<1>4. Placed(phase'[w], attempt'[w], Tries(w)')
  <2>1. Placed(phase[w], attempt[w], Tries(w))
    BY DEF SendInv
  <2>2. \A m \in 1..MaxAttempts : m # n => <<w, m>> \in Attempt \ {c}
    BY DEF Attempt
  <2>3. \A m \in 1..MaxAttempts : Tries(w)[m] = status[<<w, m>>] /\ Tries(w)'[m] = status'[<<w, m>>]
    BY DEF Tries
  <2>4. /\ Tries(w)'[n] # "new"
        /\ \A m \in 1..MaxAttempts : m # n =>
             /\ Tries(w)[m] = "new" => Tries(w)'[m] = "new"
             /\ Tries(w)[m] = "given-back" => Tries(w)'[m] = "given-back"
    BY <1>2, <2>2, <2>3 DEF Stays
  <2>5. \A m \in 1..MaxAttempts : m < n => Tries(w)[m] = "given-back"
    BY <2>1, CommandAssumption DEF Placed
  <2>6. \A m \in 1..MaxAttempts : m > n => Tries(w)[m] = "new"
    BY <2>1, CommandAssumption DEF Placed
  <2> QED BY <1>3, <2>4, <2>5, <2>6, CommandAssumption DEF Placed
<1>5. \A v \in Command : Placed(phase'[v], attempt'[v], Tries(v)')
  BY <1>1, <1>2, <1>3, <1>4, PlacedOn
<1> QED BY <1>2, <1>5 DEF SendInv

\* sendBudgeted begins.
LEMMA SendKeeps == ASSUME SendInv, NEW w \in Command, Send(w) PROVE SendInv'
<1>1. /\ phase[w] = "new" /\ SendOnce(w, 1)
      /\ sendSeq' = [sendSeq EXCEPT ![slotOf[w]] = @ + 1]
      /\ seq' = [seq EXCEPT ![w] = sendSeq[slotOf[w]] + 1]
      /\ phase' = [phase EXCEPT ![w] = "sending"]
      /\ attempt' = [attempt EXCEPT ![w] = 1]
  BY DEF Send
<1>2. 1 \in 1..MaxAttempts /\ slotOf \in [Command -> Slot]
  BY CommandAssumption
<1>3. SendShape'
  <2>1. sendSeq[slotOf[w]] \in Nat /\ sendSeq[slotOf[w]] + 1 \in Nat
    BY <1>2 DEF SendInv, SendShape
  <2>2. sendSeq' \in [Slot -> Nat] /\ seq' \in [Command -> Nat]
    BY <1>1, <2>1 DEF SendInv, SendShape
  <2>3. attempt' \in [Command -> 0..MaxAttempts]
    BY <1>1, CommandAssumption DEF SendInv, SendShape
  <2>4. phase' \in [Command -> {"new", "sending", "pausing", "delivered", "failed"}]
    BY <1>1 DEF SendInv, SendShape
  <2> QED BY <2>2, <2>3, <2>4 DEF SendShape
<1>4. attempt[w] = 1 - 1 /\ ~(1 > 1)
  BY <1>1 DEF SendInv, Placed
<1>5. ASSUME NEW v \in Command PROVE Numbered(v)'
  <2>1. seq[v] <= sendSeq[slotOf[v]] /\ (phase[v] = "new" => seq[v] = 0)
    BY DEF SendInv, Numbered
  <2>2. /\ seq[v] \in Nat /\ sendSeq[slotOf[v]] \in Nat /\ sendSeq[slotOf[w]] \in Nat
    BY <1>2 DEF SendInv, SendShape
  <2>3. sendSeq'[slotOf[v]] \in {sendSeq[slotOf[v]], sendSeq[slotOf[v]] + 1}
    BY <1>1, <1>2 DEF SendInv, SendShape
  <2>4. CASE v = w
    <3>1. seq'[w] = sendSeq[slotOf[w]] + 1 /\ sendSeq'[slotOf[w]] = sendSeq[slotOf[w]] + 1 /\ phase'[w] = "sending"
      BY <1>1, <1>2 DEF SendInv, SendShape
    <3> QED BY <2>2, <2>4, <3>1 DEF Numbered
  <2>5. CASE v # w
    <3>1. seq'[v] = seq[v] /\ phase'[v] = phase[v]
      BY <1>1, <2>5 DEF SendInv, SendShape
    <3>2. slotOf' = slotOf /\ seq[v] <= sendSeq'[slotOf[v]]
      BY <2>1, <2>2, <2>3
    <3> QED BY <2>1, <3>1, <3>2 DEF Numbered
  <2> QED BY <2>4, <2>5
<1> QED BY <1>1, <1>2, <1>3, <1>4, <1>5, AttemptKeeps

\* What follows the awaited attempt.
LEMMA ContinueKeeps ==
  ASSUME SendInv, NEW w \in Command, NEW inWindow \in BOOLEAN, Continue(w, inWindow)
  PROVE  SendInv'
<1>1. /\ phase[w] = "sending" /\ UNCHANGED <<limiterVars, attempt, seq, sendSeq>>
  BY DEF Continue
<1>2. PICK p \in {"delivered", "pausing", "failed"} :
        /\ phase' = [phase EXCEPT ![w] = p]
        /\ p = "pausing" => NeverSent(w) /\ attempt[w] < MaxAttempts
  BY DEF Continue
<1>3. Budget!IInv' /\ status' = status
  BY <1>1 DEF SendInv, limiterVars, Budget!IInv, Budget!Books, Budget!BookingsTypeOK, Budget!BookingsExact,
     Budget!Bounded, Budget!Flow, Budget!FlowTypeOK, Budget!BookedCallsAreOut, Budget!QueueOK, Budget!CallersOK
<1>4. SendShape' /\ \A v \in Command : Numbered(v)'
  <2>1. SendShape'
    BY <1>1, <1>2 DEF SendInv, SendShape
  <2>2. \A v \in Command : phase'[v] = "new" => phase[v] = "new"
    BY <1>2 DEF SendInv, SendShape
  <2> QED BY <1>1, <2>1, <2>2 DEF SendInv, Numbered
<1>5. ASSUME NEW v \in Command PROVE Placed(phase'[v], attempt'[v], Tries(v)')
  <2>1. Placed(phase[v], attempt[v], Tries(v)) /\ Tries(v)' = Tries(v) /\ attempt'[v] = attempt[v]
    BY <1>1, <1>3 DEF SendInv, Tries
  <2>2. CASE v = w
    <3>1. phase'[w] = p /\ attempt[w] \in 0..MaxAttempts
      BY <1>2 DEF SendInv, SendShape
    <3>2. p = "pausing" => Tries(w)[attempt[w]] = "given-back" /\ attempt[w] < MaxAttempts
      <4>1. attempt[w] > 0
        BY <1>1, <2>1, <2>2 DEF Placed
      <4> QED BY <1>2, <3>1, <4>1, CommandAssumption DEF NeverSent, Tries
    <3> QED BY <1>1, <1>2, <2>1, <2>2, <3>1, <3>2 DEF Placed
  <2>3. CASE v # w
    <3>1. phase'[v] = phase[v]
      BY <1>2, <2>3 DEF SendInv, SendShape
    <3> QED BY <2>1, <3>1
  <2> QED BY <2>2, <2>3
<1> QED BY <1>3, <1>4, <1>5 DEF SendInv

\* What follows the pause.
LEMMA ResumeKeeps == ASSUME SendInv, NEW w \in Command, Resume(w) PROVE SendInv'
<1>1. phase[w] = "pausing" /\ UNCHANGED <<seq, sendSeq>>
  BY DEF Resume
<1>2. /\ attempt[w] \in 0..MaxAttempts /\ attempt[w] < MaxAttempts /\ attempt[w] > 0
      /\ Placed(phase[w], attempt[w], Tries(w))
  BY <1>1 DEF SendInv, SendShape, Placed
<1>3. CASE Superseded(w)
  <2>1. phase' = [phase EXCEPT ![w] = "failed"] /\ UNCHANGED <<limiterVars, attempt>>
    BY <1>3 DEF Resume
  <2>2. Budget!IInv' /\ status' = status
    BY <2>1 DEF SendInv, limiterVars, Budget!IInv, Budget!Books, Budget!BookingsTypeOK, Budget!BookingsExact,
       Budget!Bounded, Budget!Flow, Budget!FlowTypeOK, Budget!BookedCallsAreOut, Budget!QueueOK, Budget!CallersOK
  <2>3. SendShape' /\ \A v \in Command : phase'[v] = phase[v] \/ (v = w /\ phase'[v] = "failed")
    BY <1>1, <2>1 DEF SendInv, SendShape
  <2>4. \A v \in Command : Numbered(v)'
    BY <1>1, <2>3 DEF SendInv, Numbered
  <2>5. ASSUME NEW v \in Command PROVE Placed(phase'[v], attempt'[v], Tries(v)')
    <3>1. Placed(phase[v], attempt[v], Tries(v)) /\ Tries(v)' = Tries(v) /\ attempt'[v] = attempt[v]
      BY <2>1, <2>2 DEF SendInv, Tries
    <3>2. phase'[v] = phase[v] \/ (phase'[v] = "failed" /\ attempt[v] > 0)
      BY <1>2, <2>3
    <3> QED BY <3>1, <3>2 DEF Placed
  <2> QED BY <2>2, <2>3, <2>4, <2>5 DEF SendInv
<1>4. CASE ~Superseded(w)
  <2>1. PICK n \in 1..MaxAttempts : n = attempt[w] + 1
    BY <1>2, CommandAssumption
  <2>2. /\ phase' = [phase EXCEPT ![w] = "sending"] /\ attempt' = [attempt EXCEPT ![w] = n]
        /\ SendOnce(w, n) /\ attempt[w] = n - 1
    BY <1>2, <1>4, <2>1 DEF Resume
  <2>3. SendShape' /\ \A v \in Command : phase'[v] = "new" => phase[v] = "new"
    BY <1>1, <2>2 DEF SendInv, SendShape
  <2>4. \A v \in Command : Numbered(v)'
    BY <1>1, <2>3 DEF SendInv, Numbered
  <2> QED BY <1>1, <2>2, <2>3, <2>4, AttemptKeeps
<1> QED BY <1>3, <1>4

LEMMA NextSend == ASSUME SendInv, [SendNext]_commandVars PROVE SendInv'
<1>1. ASSUME UNCHANGED commandVars PROVE SendInv'
  <2>1. UNCHANGED <<limiterVars, phase, attempt, seq, sendSeq>>
    BY <1>1 DEF commandVars, sendVars
  <2>2. Budget!IInv' /\ status' = status
    BY <2>1 DEF SendInv, limiterVars, Budget!IInv, Budget!Books, Budget!BookingsTypeOK, Budget!BookingsExact,
       Budget!Bounded, Budget!Flow, Budget!FlowTypeOK, Budget!BookedCallsAreOut, Budget!QueueOK, Budget!CallersOK
  <2> QED BY <2>1, <2>2 DEF SendInv, SendShape, Numbered, Tries
<1> QED BY <1>1, SendKeeps, ResumeKeeps, ContinueKeeps, LimiterKeeps DEF SendNext

\* Only the last attempt of a command can have arrived.
LEMMA OneArrives == ASSUME SendInv PROVE SendTypeOK /\ ReceivedAtMostOnce
<1>1. SendTypeOK
  BY SameTypes, BudgetAssumptions, Budget!TypesFollow DEF SendInv, SendShape, SendTypeOK
<1>2. ASSUME NEW w \in Command PROVE Cardinality(Delivered(w)) <= 1
  <2>1. attempt[w] \in 0..MaxAttempts /\ Placed(phase[w], attempt[w], Tries(w))
    BY DEF SendInv, SendShape
  <2>2. \A n \in 1..MaxAttempts : Tries(w)[n] = status[<<w, n>>]
    BY DEF Tries
  <2>3. \A n \in Delivered(w) : n = attempt[w]
    BY <2>1, <2>2, CommandAssumption DEF Delivered, Placed
  <2>4. Delivered(w) = {} \/ Delivered(w) = {attempt[w]}
    BY <2>3
  <2> QED BY <2>4, FS_EmptySet, FS_Singleton
<1> QED BY <1>1, <1>2 DEF ReceivedAtMostOnce

\* A write that leaves at once is the newest of its datapoint.
LEMMA NewestLeaves ==
  ASSUME SendInv, [SendNext]_commandVars
  PROVE  NoRetryAfterNew
<1> SUFFICES ASSUME NEW w \in Command, NEW v \in Command, NEW n \in 1..MaxAttempts, Older(w, v),
                    status[<<w, n>>] = "new", status'[<<w, n>>] = "running"
             PROVE  FALSE
  BY DEF NoRetryAfterNew
<1>1. /\ slotOf[w] = slotOf[v] /\ 0 < seq[w] /\ seq[w] < seq[v]
      /\ seq[w] \in Nat /\ seq[v] \in Nat /\ sendSeq[slotOf[v]] \in Nat /\ seq[v] <= sendSeq[slotOf[v]]
  BY CommandAssumption DEF Older, SendInv, SendShape, Numbered
<1>2. Superseded(w) /\ phase[w] # "new" /\ <<w, n>> \in Attempt
  BY <1>1 DEF Superseded, SendInv, Numbered, Attempt
<1>3. ASSUME NEW c \in Attempt, Limiter!ExecuteTracked(c), c # <<w, n>> PROVE FALSE
  BY <1>2, <1>3, SubmitStays DEF SendInv, Stays
<1>4. ASSUME NEW u \in Command, Send(u) PROVE FALSE
  <2>1. u # w /\ <<u, 1>> \in Attempt /\ Limiter!ExecuteTracked(<<u, 1>>)
    BY <1>2, <1>4, CommandAssumption DEF Send, SendOnce, Attempt
  <2> QED BY <1>3, <2>1
<1>5. ASSUME NEW u \in Command, Resume(u) PROVE FALSE
  <2>1. CASE UNCHANGED limiterVars
    BY <2>1 DEF limiterVars
  <2>2. CASE ~Superseded(u)
    <3>1. u # w /\ phase[u] = "pausing" /\ Limiter!ExecuteTracked(<<u, attempt[u] + 1>>)
      BY <1>2, <1>5, <2>2 DEF Resume, SendOnce
    <3>2. attempt[u] \in 0..MaxAttempts /\ attempt[u] < MaxAttempts
      BY <3>1 DEF SendInv, SendShape, Placed
    <3>3. <<u, attempt[u] + 1>> \in Attempt
      BY <3>2, CommandAssumption DEF Attempt
    <3> QED BY <1>3, <3>1, <3>3
  <2> QED BY <1>5, <2>1, <2>2 DEF Resume
<1>6. ASSUME NEW u \in Command, NEW inWindow \in BOOLEAN, Continue(u, inWindow) PROVE FALSE
  BY <1>6 DEF Continue, limiterVars
<1>7. ASSUME LimiterStep PROVE FALSE
  BY <1>2, <1>7, LimiterStays DEF SendInv, Stays
<1>8. ASSUME UNCHANGED commandVars PROVE FALSE
  BY <1>8 DEF commandVars, limiterVars
<1> QED BY <1>4, <1>5, <1>6, <1>7, <1>8 DEF SendNext

\* A command is sent again only when Govee never received it, and a write that leaves
\* at once never follows a newer one to its datapoint: for any number of commands,
\* datapoints, attempts and any limits (sendBudgeted of command-router.ts).
THEOREM SentOnce == SendSpec => SentOnceInOrder
<1>1. SendInv /\ [SendNext]_commandVars => NoRetryAfterNew
  BY NewestLeaves
<1>2. SendSpec => []SendInv
  BY InitSend, NextSend, PTL DEF SendSpec
<1> QED BY <1>1, <1>2, OneArrives, PTL DEF SendSpec, SentOnceInOrder
=============================================================================

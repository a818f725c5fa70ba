----------------------------- MODULE ReportJobs -----------------------------
(***************************************************************************)
(* The diagnostics reports: the cards of the admin page that start one and *)
(* then ask for it (src-admin/src/diagnosticsApi.ts), and the jobs in the  *)
(* adapter's memory (diagnostics/report-jobs.ts).  No answer waits for a   *)
(* report, so a card polls; questions and answers get lost on the way, two *)
(* cards ask about one device, the adapter stops and starts again with     *)
(* nothing but its devices.                                                *)
(*                                                                         *)
(* A tick is longer than an answer takes (LIST_TIMEOUT_MS, 15 s) and       *)
(* shorter than the card's patience (3 min).                               *)
(***************************************************************************)
EXTENDS Naturals, FiniteSets, Functions

CONSTANTS
  Card,         \* open pages, each exports one report
  Reported,     \* devices
  Patience,     \* EXPORT_TIMEOUT_MS in ticks
  Keep,         \* REPORT_KEEP_MS in ticks
  MaxProcesses  \* runs of the adapter in a behaviour

ASSUME ReportAssumption ==
  /\ IsFiniteSet(Card)
  /\ Patience \in Nat \ {0} /\ Keep \in Nat /\ Patience <= Keep
  /\ MaxProcesses \in Nat \ {0}

VARIABLES
  jobs,     \* the map of jobs, by id: a device and a number
  makes,    \* reports being made, also those whose job is no longer in the map
  jobCount,
  halted,   \* stopped
  up, processes,
  cooling,  \* devices whose last report ended less than REPORT_COOLDOWN_MS ago
  ready,    \* "report ready" lines of this process
  card

reportVars == <<jobs, makes, jobCount, halted, up, processes, cooling, ready, card>>

JobId == Reported \X (1..Cardinality(Card))
NoJob == <<>>
Outcome == {"report", "error"}

CardRecord ==
  [at : {"idle", "asking", "answered", "pause", "ended"},
   dev : Reported, job : JobId \cup {NoJob}, left : 0..Patience,
   answer : {"none", "job", "pending", "gone", "report", "error", "unavailable"},
   of : Reported,       \* history: the device of the report in `answer`
   excuse : BOOLEAN]    \* history: a restart, a second card or a lost answer took its report

ReportTypeOK ==
  /\ jobs \in [DOMAIN jobs -> [result : Outcome \cup {"none"}, age : 0..Keep + 1]]
  /\ DOMAIN jobs \subseteq JobId
  /\ makes \subseteq [job : JobId, stage : {"live", "build"}]
  /\ jobCount \in 0..Cardinality(Card) /\ ready \in 0..jobCount
  /\ halted \in BOOLEAN /\ up \in BOOLEAN /\ processes \in 1..MaxProcesses
  /\ cooling \subseteq Reported
  /\ card \in [Card -> CardRecord]

ReportInit ==
  /\ jobs = <<>> /\ makes = {} /\ jobCount = 0 /\ ready = 0
  /\ halted = FALSE /\ up = TRUE /\ processes = 1 /\ cooling = {}
  /\ card \in [Card -> {[at |-> "idle", dev |-> d, job |-> NoJob, left |-> Patience,
                         answer |-> "none", of |-> d, excuse |-> FALSE] : d \in Reported}]

-----------------------------------------------------------------------------
(* The adapter: the answer to one message is given at once. *)

\* dropUnfetched
MutKeptPending(js) == Restrict(js, {j \in DOMAIN js : js[j].result # "none" /\ js[j].age <= Keep})
MutKeptNone(js) == Restrict(js, {j \in DOMAIN js : js[j].result = "none"})
Kept(js) == Restrict(js, {j \in DOMAIN js : js[j].result = "none" \/ js[j].age <= Keep})

MutOpenAny(js, d) == {j \in DOMAIN js : js[j].result = "none"}
Open(js, d) == {j \in DOMAIN js : j[1] = d /\ js[j].result = "none"}

Answered(c, a) == [card EXCEPT ![c].at = "answered", ![c].answer = a]

\* The number of the next job.
MutForgetsCount == jobCount
NextCount == jobCount + 1

\* start: the open job of the device, a new one, or a reason.  A report is not made
\* again right after the last one ended.
Start(c, connected) ==
  LET js == Kept(jobs)
      d == card[c].dev
      id == <<d, NextCount>>
      result == IF d \in cooling THEN "error" ELSE "none" IN
  \/ \E j \in Open(js, d) :
       /\ jobs' = js
       /\ card' = [Answered(c, "job") EXCEPT ![c].job = j]
       /\ UNCHANGED <<makes, jobCount>>
  \/ /\ Open(js, d) = {}
     /\ jobCount' = NextCount
     /\ jobs' = [j \in DOMAIN js \cup {id} |->
                   IF j = id THEN [result |-> result, age |-> 0] ELSE js[j]]
     /\ makes' = IF d \in cooling THEN makes
                 ELSE makes \cup {[job |-> id, stage |-> IF connected THEN "live" ELSE "build"]}
     /\ card' = [Answered(c, "job") EXCEPT ![c].job = id]

\* A device that left the map.
StartUnknown(c) ==
  /\ Open(Kept(jobs), card[c].dev) = {}
  /\ jobs' = Kept(jobs)
  /\ card' = Answered(c, "error")
  /\ UNCHANGED <<makes, jobCount>>

\* result: handed over once.
Result(c) ==
  LET js == Kept(jobs)
      j == card[c].job IN
  /\ IF j \notin DOMAIN js
     THEN jobs' = js /\ card' = Answered(c, "gone")
     ELSE IF js[j].result = "none"
     THEN jobs' = js /\ card' = Answered(c, "pending")
     ELSE /\ jobs' = Restrict(js, DOMAIN js \ {j})
          /\ card' = [e \in Card |->
               IF e = c THEN [Answered(c, js[j].result)[c] EXCEPT !.of = j[1]]
               ELSE [card[e] EXCEPT !.excuse = @ \/ card[e].job = j]]
  /\ UNCHANGED <<makes, jobCount>>

\* handle: a message of a card that exports.
Handle(c) ==
  /\ up /\ card[c].at = "asking"
  /\ \/ halted /\ card' = Answered(c, "error") /\ UNCHANGED <<jobs, makes, jobCount>>
     \/ ~halted /\ card[c].job = NoJob /\ \E connected \in BOOLEAN : Start(c, connected)
     \/ ~halted /\ card[c].job = NoJob /\ StartUnknown(c)
     \/ ~halted /\ card[c].job # NoJob /\ Result(c)
  /\ UNCHANGED <<halted, up, processes, cooling, ready>>

\* handle: a page asks for the devices.
List ==
  /\ up /\ ~halted
  /\ jobs' = Kept(jobs)
  /\ UNCHANGED <<makes, jobCount, halted, up, processes, cooling, ready, card>>

\* The end of make, and what start does with its result.
Made(m, result) ==
  /\ makes' = makes \ {m}
  /\ cooling' = cooling \cup {m.job[1]}
  /\ jobs' = [j \in DOMAIN jobs |-> IF j = m.job THEN [result |-> result, age |-> 0] ELSE jobs[j]]

\* make: readLive came back or failed.
LiveRead(m) ==
  /\ m.stage = "live"
  /\ \/ halted /\ Made(m, "error")
     \/ /\ ~halted
        /\ makes' = (makes \ {m}) \cup {[m EXCEPT !.stage = "build"]}
        /\ UNCHANGED <<jobs, cooling>>
  /\ UNCHANGED <<jobCount, halted, up, processes, ready, card>>

\* make: the body was built, or its build failed.
MutBuiltUnasked(m) ==
  /\ m.stage = "build"
  /\ \/ Made(m, "error") /\ UNCHANGED ready
     \/ Made(m, "report") /\ ready' = ready + 1
  /\ UNCHANGED <<jobCount, halted, up, processes, card>>

Built(m) ==
  /\ m.stage = "build"
  /\ \/ Made(m, "error") /\ UNCHANGED ready
     \/ ~halted /\ Made(m, "report") /\ ready' = ready + 1
  /\ UNCHANGED <<jobCount, halted, up, processes, card>>

\* REPORT_COOLDOWN_MS is over.
Cooled(d) ==
  /\ d \in cooling /\ cooling' = cooling \ {d}
  /\ UNCHANGED <<jobs, makes, jobCount, halted, up, processes, ready, card>>

\* stop
StopReports ==
  /\ up /\ ~halted /\ halted' = TRUE
  /\ jobs' = <<>>
  /\ UNCHANGED <<makes, jobCount, up, processes, cooling, ready, card>>

\* The process ends, with or without a stop, and takes everything with it.
ProcessEnds ==
  /\ up /\ up' = FALSE
  /\ jobs' = <<>> /\ makes' = {} /\ jobCount' = 0 /\ ready' = 0 /\ cooling' = {} /\ halted' = FALSE
  /\ card' = [c \in Card |-> [card[c] EXCEPT !.excuse = @ \/ card[c].at # "idle"]]
  /\ UNCHANGED processes

Restarts ==
  /\ ~up /\ processes < MaxProcesses
  /\ up' = TRUE /\ processes' = processes + 1
  /\ UNCHANGED <<jobs, makes, jobCount, halted, cooling, ready, card>>

-----------------------------------------------------------------------------
(* The card: exportReport, with askInstance below it. *)

CardStep(c, new) ==
  /\ card' = [card EXCEPT ![c] = new]
  /\ UNCHANGED <<jobs, makes, jobCount, halted, up, processes, cooling, ready>>

CardEnds(c, answer) == [card[c] EXCEPT !.at = "ended", !.answer = answer, !.left = 0]

Export(c) == card[c].at = "idle" /\ CardStep(c, [card[c] EXCEPT !.at = "asking"])

AskAgain(c) ==
  /\ card[c].at = "pause" /\ card[c].left > 0
  /\ CardStep(c, [card[c] EXCEPT !.at = "asking"])

GiveUp(c) ==
  /\ card[c].at = "pause" /\ card[c].left = 0
  /\ CardStep(c, CardEnds(c, "unavailable"))

Receive(c) ==
  /\ card[c].at = "answered"
  /\ CardStep(c, IF card[c].answer \in {"job", "pending"}
                 THEN [card[c] EXCEPT !.at = "pause"] ELSE CardEnds(c, card[c].answer))

\* The browser's connection gives up on the answer: the start fails, a question is
\* asked again.  A report that was in the answer is lost.
Lost(c) ==
  /\ card[c].at \in {"asking", "answered"}
  /\ CardStep(c, IF card[c].job = NoJob \/ (card[c].at = "answered" /\ card[c].answer = "job")
                 THEN CardEnds(c, "unavailable")
                 ELSE [card[c] EXCEPT !.at = "pause",
                         !.excuse = @ \/ (card[c].at = "answered" /\ card[c].answer \in Outcome)])

\* The instance's `alive` state says that nobody answers.
SeenDown(c) ==
  /\ ~up /\ card[c].at \in {"asking", "answered"}
  /\ CardStep(c, CardEnds(c, "unavailable"))

TimeGoes ==
  /\ \A c \in Card : card[c].at \notin {"asking", "answered"}
  /\ card' = [c \in Card |-> IF card[c].at = "pause" /\ card[c].left > 0
                             THEN [card[c] EXCEPT !.left = @ - 1] ELSE card[c]]
  /\ jobs' = [j \in DOMAIN jobs |->
                IF jobs[j].result # "none" /\ jobs[j].age <= Keep
                THEN [jobs[j] EXCEPT !.age = @ + 1] ELSE jobs[j]]
  /\ cooling' = {}
  /\ UNCHANGED <<makes, jobCount, halted, up, processes, ready>>

ReportNext ==
  \/ \E c \in Card : \/ Export(c) \/ Handle(c) \/ Receive(c) \/ Lost(c) \/ SeenDown(c)
                     \/ AskAgain(c) \/ GiveUp(c)
  \/ \E m \in makes : LiveRead(m) \/ Built(m)
  \/ \E d \in Reported : Cooled(d)
  \/ List \/ StopReports \/ ProcessEnds \/ Restarts \/ TimeGoes

ReportSpec == ReportInit /\ [][ReportNext]_reportVars

-----------------------------------------------------------------------------
\* A job that is still pending is being made, and a device has one report made at a
\* time: nobody polls for a job nobody works on, two cards of one device read it once.
OpenJobIsMade ==
  /\ ~halted => {j \in DOMAIN jobs : jobs[j].result = "none"} = {m.job : m \in makes}
  /\ \A m, n \in makes : m.job[1] = n.job[1] => m = n

\* A card is told its report is gone only behind a restart, a second card of the same
\* device or a lost answer: while it waits, no message of another page drops it
\* (REPORT_KEEP_MS against EXPORT_TIMEOUT_MS).
GoneHasReason == \A c \in Card : card[c].answer = "gone" => card[c].excuse

\* What a card saves is the report of the device it asked for, also when the adapter
\* restarted between two questions and counts its jobs from the start again.
OwnDeviceReported == \A c \in Card : card[c].answer = "report" => card[c].of = card[c].dev

\* Behind the stop no report is finished, wherever its making stood
\* (report-jobs.ts, stop: without its file and without its log line).
NothingReadyBehindStop == ready' > ready => ~halted

\* Refuted: a lost answer costs no report ("the report goes on, ask again",
\* diagnosticsApi.ts).  It was handed over with the answer.
LostAnswerCostsNothing ==
  \A c \in Card : card[c].answer = "gone" =>
    processes > 1 \/ \E e \in Card \ {c} : card[e].job = card[c].job

\* Every card gets the report of its own device or a reason, and none is made
\* behind the stop.
ReportsAreHonest ==
  /\ [](ReportTypeOK /\ OpenJobIsMade /\ GoneHasReason /\ OwnDeviceReported)
  /\ [][NothingReadyBehindStop]_reportVars
=============================================================================

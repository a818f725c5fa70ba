---------------------------- MODULE LibraryLoad -----------------------------
(***************************************************************************)
(* The scene lists and libraries of lights of one model: jobs that run     *)
(* beside each other after every device list (device-manager.ts), share    *)
(* the fetches of a model within their run (library-loader.ts), are        *)
(* refused by the call budget, fail, wait for an account token, and stamp  *)
(* what Govee confirmed.                                                   *)
(*                                                                         *)
(* The endpoints are two: the scene library, open to everybody, and those  *)
(* of the account (music, DIY, features, snapshot packets).                *)
(***************************************************************************)
EXTENDS Integers, FiniteSets

CONSTANTS Light,        \* lights of one model
          LoadRun,      \* the runs (device lists), a bound
          MaxTurns      \* bound: tokens gained and lost

Endpoint == {"open", "account"}
Bearer == "bearer"                       \* the job a token starts, outside any run
Slot == LoadRun \cup {Bearer}

ASSUME LoadAssumption == MaxTurns \in Nat /\ Bearer \notin LoadRun

SCENE_RATE_LIMIT_RETRIES == 2
RECHECK == 2          \* LIBRARY_RECHECK_MS, in half weeks
Never == RECHECK + 1
Times == 0..Never     \* an age; RECHECK: a week or more

VARIABLES
    lib,         \* the libraries of each light
    checkedAt,   \* device.librariesCheckedAt, as an age
    scenesOk,    \* device.scenesChecked
    awaiting,    \* librariesAwaitingBearer
    bearer, followUps, closing,
    turns,       \* bound
    ran,         \* runs started
    memo,        \* sharedFetches of each run
    loadJob,     \* the jobs
    answered,    \* history: when Govee last answered for this endpoint
    scenesSeen   \* history: lights whose scene list the Cloud has answered

loadVars == <<lib, checkedAt, scenesOk, awaiting, bearer, followUps, closing, turns, ran, memo, loadJob,
              answered, scenesSeen>>

Fetch == {"none", "flying", "cancelled", "failed", "empty", "filled"}
Track == {"cancelled", "skipped", "failed", "scenesFailed"}
NoJob == [at |-> "idle", tries |-> 0, token |-> FALSE, recent |-> FALSE, track |-> {}, changed |-> FALSE]

\* Types; the jobs retry a bounded number of times.
LoadTypeOK ==
    /\ lib \in [Light -> [Endpoint -> {"empty", "filled"}]]
    /\ checkedAt \in [Light -> Times]
    /\ {scenesOk, awaiting, scenesSeen} \subseteq SUBSET Light
    /\ {bearer, followUps, closing} \subseteq BOOLEAN
    /\ turns \in 0..MaxTurns /\ ran \subseteq LoadRun
    /\ memo \in [LoadRun -> [Endpoint -> Fetch]]
    /\ loadJob \in [Light \X Slot -> [at : {"idle", "scenes", "open", "account", "finish"},
                                      tries : 0..SCENE_RATE_LIMIT_RETRIES, token : BOOLEAN, recent : BOOLEAN,
                                      track : SUBSET Track, changed : BOOLEAN]]
    /\ answered \in [Light -> [Endpoint -> Times]]

LoadInit ==
    /\ lib = [d \in Light |-> [e \in Endpoint |-> "empty"]]
    /\ checkedAt = [d \in Light |-> Never]
    /\ scenesOk = {} /\ awaiting = {} /\ scenesSeen = {}
    /\ bearer = FALSE /\ followUps = FALSE /\ closing = FALSE
    /\ turns = MaxTurns /\ ran = {}
    /\ memo = [r \in LoadRun |-> [e \in Endpoint |-> "none"]]
    /\ loadJob = [j \in Light \X Slot |-> NoJob]
    /\ answered = [d \in Light |-> [e \in Endpoint |-> Never]]

Idle(j) == loadJob[j].at = "idle"
Goes(j, next) == loadJob' = [loadJob EXCEPT ![j] = next]
World == <<bearer, followUps, closing, turns, ran>>
Stamps == <<checkedAt, scenesOk, awaiting>>

\* loadFromCloud: one job for each light, one memo for the run.
StartRun(r) ==
    /\ r \notin ran /\ ~closing
    /\ ran' = ran \cup {r}
    /\ loadJob' = [j \in DOMAIN loadJob |-> IF j[2] = r THEN [NoJob EXCEPT !.at = "scenes"] ELSE loadJob[j]]
    /\ UNCHANGED <<lib, Stamps, bearer, followUps, closing, turns, memo, answered, scenesSeen>>

recentlyCheckedEmpty(d) == checkedAt[d] < RECHECK

\* loadDeviceLibraries reads the token and the memory of an empty answer first.
Libraries(d, job) == [job EXCEPT !.at = "open", !.token = bearer, !.recent = recentlyCheckedEmpty(d)]

(***************************************************************************)
(* loadDeviceScenes.                                                       *)
(***************************************************************************)

ScenesRefused(d, r) ==
    /\ loadJob[<<d, r>>].at = "scenes"
    /\ Goes(<<d, r>>, Libraries(d, [loadJob[<<d, r>>] EXCEPT !.track = @ \cup {"cancelled"}]))
    /\ UNCHANGED <<lib, Stamps, World, memo, answered, scenesSeen>>

ScenesAnswered(d, r) ==
    /\ loadJob[<<d, r>>].at = "scenes"
    /\ Goes(<<d, r>>, Libraries(d, [loadJob[<<d, r>>] EXCEPT !.changed = TRUE]))
    /\ scenesSeen' = scenesSeen \cup {d}
    /\ UNCHANGED <<lib, Stamps, World, memo, answered>>

OnceMore(job) == job.tries <= SCENE_RATE_LIMIT_RETRIES               \* mutant

MayRetry(job) == job.tries < SCENE_RATE_LIMIT_RETRIES

\* A rate limit is waited out and asked again; another error, or the last try, is noted.
ScenesFail(d, r) ==
    LET job == loadJob[<<d, r>>]
    IN  /\ job.at = "scenes"
        /\ \/ /\ MayRetry(job) /\ ~closing
              /\ Goes(<<d, r>>, [job EXCEPT !.tries = @ + 1])
           \/ Goes(<<d, r>>, Libraries(d, [job EXCEPT !.track = @ \cup {"scenesFailed"}]))
        /\ UNCHANGED <<lib, Stamps, World, memo, answered, scenesSeen>>

(***************************************************************************)
(* loadLibrary and sharedFetch.                                            *)
(***************************************************************************)

After(e) == IF e = "open" THEN "account" ELSE "finish"
At(j, e) == loadJob[j].at = e

\* Known already, or an empty answer of the last week is trusted.
NotAsked(d, s, e) ==
    /\ At(<<d, s>>, e)
    /\ lib[d][e] = "filled" \/ loadJob[<<d, s>>].recent
    /\ Goes(<<d, s>>, [loadJob[<<d, s>>] EXCEPT !.at = After(e)])
    /\ UNCHANGED <<lib, Stamps, World, memo, answered, scenesSeen>>

Asks(d, s, e) == At(<<d, s>>, e) /\ lib[d][e] = "empty" /\ ~loadJob[<<d, s>>].recent

\* An endpoint of the account is not asked without a token.
Skipped(d, s) ==
    /\ Asks(d, s, "account") /\ ~loadJob[<<d, s>>].token
    /\ Goes(<<d, s>>, [loadJob[<<d, s>>] EXCEPT !.at = "finish", !.track = @ \cup {"skipped"}])
    /\ UNCHANGED <<lib, Stamps, World, memo, answered, scenesSeen>>

MayAsk(d, s, e) == Asks(d, s, e) /\ (e = "account" => loadJob[<<d, s>>].token)

FetchStarts(d, r, e) ==
    /\ r # Bearer /\ MayAsk(d, r, e) /\ memo[r][e] = "none"
    /\ memo' = [memo EXCEPT ![r][e] = "flying"]
    /\ UNCHANGED <<lib, Stamps, World, loadJob, answered, scenesSeen>>

FetchEnds(r, e, outcome) ==
    /\ memo[r][e] = "flying"
    /\ memo' = [memo EXCEPT ![r][e] = outcome]
    /\ UNCHANGED <<lib, Stamps, World, loadJob, answered, scenesSeen>>

Outcome == {"cancelled", "failed", "empty", "filled"}

\* What became of the fetch is noted in the job's own record.
Noted(job, outcome) == IF outcome \in Track THEN job.track \cup {outcome} ELSE job.track

TakesOutcome(d, s, e, outcome) ==
    /\ Goes(<<d, s>>, [loadJob[<<d, s>>] EXCEPT !.at = After(e), !.track = Noted(loadJob[<<d, s>>], outcome),
                                            !.changed = @ \/ outcome = "filled"])
    /\ lib' = IF outcome = "filled" THEN [lib EXCEPT ![d][e] = "filled"] ELSE lib
    /\ answered' = IF outcome \in {"empty", "filled"} THEN [answered EXCEPT ![d][e] = 0] ELSE answered
    /\ UNCHANGED <<Stamps, World, memo, scenesSeen>>

\* All lights of the model take the answer of the run's one fetch.
SharedOutcome(d, r, e) ==
    /\ r # Bearer /\ MayAsk(d, r, e) /\ memo[r][e] \in Outcome
    /\ TakesOutcome(d, r, e, memo[r][e])

OwnOutcome(d, e) == \E outcome \in Outcome : MayAsk(d, Bearer, e) /\ TakesOutcome(d, Bearer, e, outcome)

(***************************************************************************)
(* The end of a job, and the token.                                        *)
(***************************************************************************)

FailedCounts(track) == track \cap {"cancelled", "skipped"} = {}      \* mutant

librariesConfirmed(track) == track \cap {"cancelled", "skipped", "failed"} = {}

ErrorsCount(track) == "cancelled" \notin track                       \* mutant

ScenesConfirmed(track) == track \cap {"cancelled", "scenesFailed"} = {}

StartsWithToken(ds) == [j \in DOMAIN loadJob |->
    IF j[2] = Bearer /\ j[1] \in ds
    THEN [NoJob EXCEPT !.at = "open", !.token = TRUE, !.recent = recentlyCheckedEmpty(j[1])] ELSE loadJob[j]]

\* finishLibraryRun: the stamps.
Finishes(d, track) ==
    checkedAt' = IF librariesConfirmed(track) THEN [checkedAt EXCEPT ![d] = 0] ELSE checkedAt

OnlyNoted(d) == FALSE                                                \* mutant

\* awaitBearerForLibraries: a token that came while the job ran starts the load at once.
TokenIsThere(d) == followUps /\ bearer

\* loadSceneDataFor, after the libraries.
JobEnds(d, r) ==
    LET job == loadJob[<<d, r>>]
        waits == "skipped" \in job.track
    IN  /\ r # Bearer /\ At(<<d, r>>, "finish") /\ ~closing
        /\ (waits /\ TokenIsThere(d)) => Idle(<<d, Bearer>>)              \* bound
        /\ Finishes(d, job.track)
        /\ scenesOk' = IF ScenesConfirmed(job.track) THEN scenesOk \cup {d} ELSE scenesOk \ {d}
        /\ IF waits /\ TokenIsThere(d)
           THEN awaiting' = awaiting \ {d} /\ loadJob' = [StartsWithToken({d}) EXCEPT ![<<d, r>>] = NoJob]
           ELSE awaiting' = (IF waits THEN awaiting \cup {d} ELSE awaiting) /\ Goes(<<d, r>>, NoJob)
        /\ UNCHANGED <<lib, World, memo, answered, scenesSeen>>

\* loadLibrariesWithBearer: it leaves the scene list alone.
BearerJobEnds(d) ==
    /\ At(<<d, Bearer>>, "finish") /\ ~closing
    /\ Finishes(d, loadJob[<<d, Bearer>>].track)
    /\ Goes(<<d, Bearer>>, NoJob)
    /\ UNCHANGED <<lib, scenesOk, awaiting, World, memo, answered, scenesSeen>>

\* At the stop the light is saved unconfirmed.
JobEndsClosing(d, s) ==
    /\ At(<<d, s>>, "finish") /\ closing
    /\ scenesOk' = IF s = Bearer THEN scenesOk ELSE scenesOk \ {d}
    /\ Goes(<<d, s>>, NoJob)
    /\ UNCHANGED <<lib, checkedAt, awaiting, World, memo, answered, scenesSeen>>

\* onBearerToken, at a token and at the end of the start (enableBearerFollowUps).
onBearerToken ==
    /\ \A d \in awaiting : Idle(<<d, Bearer>>)                           \* bound
    /\ loadJob' = StartsWithToken(awaiting) /\ awaiting' = {}

TokenComes ==
    /\ turns > 0 /\ turns' = turns - 1
    /\ bearer' = TRUE
    /\ IF followUps /\ ~closing THEN onBearerToken ELSE UNCHANGED <<loadJob, awaiting>>
    /\ UNCHANGED <<lib, checkedAt, scenesOk, followUps, closing, ran, memo, answered, scenesSeen>>

TokenLost ==
    /\ bearer /\ turns > 0 /\ turns' = turns - 1
    /\ bearer' = FALSE
    /\ UNCHANGED <<lib, Stamps, followUps, closing, ran, memo, loadJob, answered, scenesSeen>>

enableBearerFollowUps ==
    /\ ~followUps /\ followUps' = TRUE
    /\ IF bearer /\ ~closing THEN onBearerToken ELSE UNCHANGED <<loadJob, awaiting>>
    /\ UNCHANGED <<lib, checkedAt, scenesOk, bearer, closing, turns, ran, memo, answered, scenesSeen>>

Closes ==
    /\ ~closing /\ closing' = TRUE
    /\ UNCHANGED <<lib, Stamps, bearer, followUps, turns, ran, memo, loadJob, answered, scenesSeen>>

Aged(t) == IF t < RECHECK THEN t + 1 ELSE t

HalfWeekPasses ==
    /\ \A j \in DOMAIN loadJob : Idle(j)
    /\ \E d \in Light : checkedAt[d] < RECHECK \/ \E e \in Endpoint : answered[d][e] < RECHECK
    /\ checkedAt' = [d \in Light |-> Aged(checkedAt[d])]
    /\ answered' = [d \in Light |-> [e \in Endpoint |-> Aged(answered[d][e])]]
    /\ UNCHANGED <<lib, scenesOk, awaiting, World, memo, loadJob, scenesSeen>>

RunStep(d, r) ==
    \/ ScenesRefused(d, r) \/ ScenesAnswered(d, r) \/ ScenesFail(d, r)
    \/ \E e \in Endpoint : FetchStarts(d, r, e) \/ SharedOutcome(d, r, e)
    \/ JobEnds(d, r)

JobStep(d, s) ==
    \/ \E e \in Endpoint : NotAsked(d, s, e)
    \/ Skipped(d, s) \/ JobEndsClosing(d, s)

BearerStep(d) == BearerJobEnds(d) \/ \E e \in Endpoint : OwnOutcome(d, e)

Fetching(r) == \E e \in Endpoint, outcome \in Outcome : FetchEnds(r, e, outcome)

LoadNext ==
    \/ \E r \in LoadRun : StartRun(r) \/ Fetching(r) \/ \E d \in Light : RunStep(d, r)
    \/ \E d \in Light, s \in Slot : JobStep(d, s)
    \/ \E d \in Light : BearerStep(d)
    \/ TokenComes \/ TokenLost \/ enableBearerFollowUps \/ Closes \/ HalfWeekPasses

\* Every call is answered, fails or times out; the start comes to its end.
LoadFairness ==
    /\ \A r \in LoadRun : WF_loadVars(Fetching(r)) /\ \A d \in Light : WF_loadVars(RunStep(d, r))
    /\ \A d \in Light, s \in Slot : WF_loadVars(JobStep(d, s))
    /\ \A d \in Light : WF_loadVars(BearerStep(d))
    /\ WF_loadVars(enableBearerFollowUps)

LoadSpec == LoadInit /\ [][LoadNext]_loadVars /\ LoadFairness

(***************************************************************************)
(* Properties.                                                             *)
(***************************************************************************)

\* An empty library is only remembered as empty when Govee said so for this
\* light: not for a call the budget refused, one that failed (until 3.0.1), or
\* one left out for want of a token (M3), in whatever order jobs and tokens come.
EmptyWasSaid ==
    \A d \in Light, e \in Endpoint :
        (checkedAt[d] # Never /\ lib[d][e] = "empty") => answered[d][e] # Never

\* Refuted: an empty answer is not trusted for longer than the week: every run
\* that trusts it stamps it anew without asking.
EmptyIsAskedAgain ==
    \A d \in Light, e \in Endpoint :
        (recentlyCheckedEmpty(d) /\ lib[d][e] = "empty") => answered[d][e] < RECHECK

\* A light counts as checked, and is trusted by the next start from the cache,
\* only after its scene list was answered once.
ScenesWereSeen == scenesOk \subseteq scenesSeen

\* A light whose libraries were left out for want of a token gets them asked
\* once there is one, however the token and the end of its job cross.
TokenIsUsed ==
    <>[](bearer /\ ~closing => awaiting = {})

\* What is remembered of a library was answered: an empty list was said to be
\* empty, a checked scene list was seen.
LibrariesAreAsked == LoadTypeOK /\ EmptyWasSaid /\ ScenesWereSeen
=============================================================================

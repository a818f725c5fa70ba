----------------------------- MODULE SavedLogin -----------------------------
(***************************************************************************)
(* What outlives a start of the account login: the session Govee issued,   *)
(* kept in an encrypted file so that no start costs a login (and perhaps a *)
(* verification mail), and the mark of the last verification code that is  *)
(* spent.  Two older stores are carried over to the file.  The process may *)
(* end between any two steps, writes fail, and the "Test login" card, the  *)
(* silent refresh and the connect loop use the same code side by side.     *)
(*   handlers/cloud-creds-handler.ts, handlers/account-handler.ts,         *)
(*   atomic-file.ts, main.ts (openAccount, connectAccount)                 *)
(* The login windows, timers and caps of the client are AccountMqtt.       *)
(***************************************************************************)
EXTENDS Naturals, FiniteSets, NoValue

CONSTANTS
    Accounts,       \* Govee accounts the user has
    Codes,          \* verification codes Govee mails
    WriteFaults,    \* how a write of the carry-over may fail: "refused", "torn"
    SwitchesEarly,  \* whether the user changes the account while a start still
                    \* reads a session saved without its account
    MaxIssued,      \* bound: sessions Govee issues
    MaxBoots        \* bound: starts of the adapter

ASSUME LoginAssumption ==
    /\ WriteFaults \subseteq {"refused", "torn"} /\ SwitchesEarly \in BOOLEAN
    /\ MaxIssued \in Nat \ {0} /\ MaxBoots \in Nat
    /\ None \notin Accounts /\ None \notin Codes

VARIABLES
    goveeLogin,       \* the settings: [account, code]
    credsFile,        \* mqtt-credentials.json
    credsMeta,        \* the meta object of 2.18.0-2.18.2
    credsState,       \* the state info.mqttCredentials of 2.1.3-2.17
    usedCode,         \* verification-code.json
    issued,           \* bound: sessions issued so far
    expiredTo,        \* sessions up to this one have expired
    spent,            \* codes Govee consumed or turned down
    boot,             \* where the start is; "down" without a process
    boots,            \* bound
    persisted,        \* GoveeMqttClient.persisted
    verificationCode, \* GoveeMqttClient.verificationCode
    wiredCode,        \* the code the client's hooks remember as spent
    accountTopic,     \* GoveeMqttClient.accountTopic; None: no bearer yet either
    brokerLink,       \* no socket, dialing with a saved or a new session, connected
    gaveUp,           \* the connect loop waits for the user
    login,            \* per path, the code its login under way carries; None: no login
    persisting,       \* persistCreds calls that have not landed
    marking,          \* markVerificationCodeUsed calls that have not landed
    rejected,         \* history: the broker rejected a session in this run
    told,             \* history: codes the adapter was told are spent
    lost              \* history: codes whose mark was not written

diskVars == <<credsFile, credsMeta, credsState, usedCode>>
goveeVars == <<issued, expiredTo, spent>>
accountVars == <<persisted, verificationCode, wiredCode, accountTopic, brokerLink, gaveUp, rejected>>
queueVars == <<persisting, marking>>
historyVars == <<told, lost>>
loginVars == <<goveeLogin, diskVars, goveeVars, boot, boots, accountVars, login, queueVars, historyVars>>

-----------------------------------------------------------------------------
\* The account a session's bearer and its push topic belong to.  What is
\* stored of one names the account it was saved for, since 2.40.0.
Session == [bearer : Accounts, topic : Accounts, nr : 1..MaxIssued]
Blob == [session : Session, accountKey : Accounts \cup {None}]
Torn == [session |-> None, accountKey |-> None]
StoredLogin == Blob \cup {Torn, None}

NoCode == [code |-> None]
CodeOf == {[code |-> c] : c \in Codes} \cup {NoCode}

ASSUME AbsentAssumption == None \notin Session \cup Blob \cup {Torn} \cup CodeOf

LoginTypeOK ==
    /\ goveeLogin \in [account : Accounts, code : Codes \cup {None}]
    /\ {credsFile, credsMeta, credsState} \subseteq StoredLogin
    /\ usedCode \in Codes \cup {None}
    /\ issued \in 0..MaxIssued /\ expiredTo \in 0..issued
    /\ spent \subseteq Codes
    /\ boot \in {"down", "swept", "open", "legacy", "carried", "connect", "up"}
    /\ boots \in 0..MaxBoots
    /\ persisted \in Session \cup {None}
    /\ {verificationCode, wiredCode} \subseteq Codes \cup {None}
    /\ accountTopic \in Accounts \cup {None}
    /\ brokerLink \in {"off", "reuse", "fresh", "on"}
    /\ {gaveUp, rejected} \subseteq BOOLEAN
    /\ login \in [{"connect", "refresh", "probe"} -> CodeOf \cup {None}]
    /\ persisting \subseteq Blob
    /\ marking \subseteq Codes
    /\ told \subseteq Codes /\ lost \subseteq told

-----------------------------------------------------------------------------
(* The stores                                                              *)

\* parsePersistedBlob: nothing stored, or nothing that can be read, is no session.
parsePersistedBlob(b) == IF b = None THEN None ELSE b.session

\* A mutation of the next: every session is taken.
AnyAccount(b, account) == TRUE

\* loadPersistedCreds: a session saved with its account is for that account only.
IsFor(b, account) == b.accountKey \in {None, account}

\* What a write leaves of the file; a write that fails leaves the file as it
\* was, or empty when it broke off.
Writes(old, b) == {[file |-> b, ok |-> TRUE]}
                    \cup {[file |-> IF f = "torn" THEN Torn ELSE old, ok |-> FALSE] : f \in WriteFaults}

\* usableVerificationCode: a code that is marked is not sent.
usableVerificationCode(c) == IF c = usedCode THEN None ELSE c

\* The session the next start reads, as far as the stores can tell.
NextSession == IF parsePersistedBlob(credsFile) # None THEN credsFile
               ELSE IF credsFile = None /\ parsePersistedBlob(credsMeta) # None THEN credsMeta
               ELSE credsState

Unbound(b) == parsePersistedBlob(b) # None /\ b.accountKey = None

NoLogin == [p \in {"connect", "refresh", "probe"} |-> None]

\* The process is gone, and with it every write that has not landed.
ProcessGone ==
    /\ boot' = "down"
    /\ persisted' = None /\ verificationCode' = None /\ wiredCode' = None /\ accountTopic' = None
    /\ brokerLink' = "off" /\ gaveUp' = FALSE /\ rejected' = FALSE
    /\ login' = NoLogin
    /\ persisting' = {} /\ marking' = {}
    /\ lost' = lost \cup marking
    /\ UNCHANGED <<diskVars, goveeVars, boots, told>>

EndProcess == boot # "down" /\ ProcessGone /\ UNCHANGED goveeLogin

\* The settings page saves: the host restarts the instance.
SaveSettings(account, c) ==
    /\ goveeLogin # [account |-> account, code |-> c]
    /\ account # goveeLogin.account =>
         SwitchesEarly \/ ~Unbound(NextSession)
    /\ goveeLogin' = [account |-> account, code |-> c]
    /\ ProcessGone

-----------------------------------------------------------------------------
(* The start                                                               *)

\* migrateCredentialsMetaOnce: the blob of the meta object becomes the file,
\* unless there is one.  The meta object is kept when that failed.
CarryMeta ==
    /\ boot = "down" /\ boots < MaxBoots
    /\ boots' = boots + 1
    /\ IF credsMeta # None /\ credsFile = None
       THEN \E w \in Writes(credsFile, credsMeta) :
               /\ credsFile' = w.file
               /\ boot' = IF w.ok THEN "swept" ELSE "open"
       ELSE boot' = "swept" /\ UNCHANGED credsFile
    /\ UNCHANGED <<goveeLogin, credsMeta, credsState, usedCode, goveeVars, accountVars, login,
                   queueVars, historyVars>>

\* The meta object goes, or its deletion fails.
DropMeta ==
    /\ boot = "swept"
    /\ boot' = "open"
    /\ credsMeta' \in {None, credsMeta}
    /\ UNCHANGED <<goveeLogin, credsFile, credsState, usedCode, goveeVars, boots, accountVars, login,
                   queueVars, historyVars>>

\* openAccount: the client is wired with the code that is not spent, and the
\* file is read; the older state is asked where the file has no session.
OpenAccount ==
    /\ boot = "open"
    /\ wiredCode' = usableVerificationCode(goveeLogin.code)
    /\ verificationCode' = wiredCode'
    /\ IF parsePersistedBlob(credsFile) # None
       THEN /\ persisted' = IF IsFor(credsFile, goveeLogin.account)
                            THEN credsFile.session ELSE None
            /\ boot' = "connect"
       ELSE boot' = "legacy" /\ UNCHANGED persisted
    /\ UNCHANGED <<goveeLogin, diskVars, goveeVars, boots, accountTopic, brokerLink, gaveUp, rejected,
                   login, queueVars, historyVars>>

\* A mutation of the next: what could not be written is not used.
UsedWhenWritten(b, ok) == IF ok THEN parsePersistedBlob(b) ELSE None

\* The session in hand is used whether or not it could be written.
SessionInHand(b, ok) == parsePersistedBlob(b)

\* A mutation of the next: the state goes in any case.
DropsAlways(ok) == "carried"

\* The state is removed only when the file stands.
AfterCarry(ok) == IF ok THEN "carried" ELSE "connect"

\* loadPersistedCreds: the state of an earlier version becomes the file.
CarryState ==
    /\ boot = "legacy"
    /\ IF credsState = None
       THEN boot' = "connect" /\ UNCHANGED <<credsFile, persisted>>
       ELSE \E w \in Writes(credsFile, credsState) :
               /\ credsFile' = w.file
               /\ persisted' = SessionInHand(credsState, w.ok)
               /\ boot' = AfterCarry(w.ok)
    /\ UNCHANGED <<goveeLogin, credsMeta, credsState, usedCode, goveeVars, boots, verificationCode,
                   wiredCode, accountTopic, brokerLink, gaveUp, rejected, login, queueVars, historyVars>>

\* The state goes, or its deletion fails.
DropState ==
    /\ boot = "carried"
    /\ boot' = "connect"
    /\ credsState' \in {None, credsState}
    /\ UNCHANGED <<goveeLogin, credsFile, credsMeta, usedCode, goveeVars, boots, accountVars, login,
                   queueVars, historyVars>>

\* connectAccount: from here on the client connects.
ConnectAccount ==
    /\ boot = "connect"
    /\ boot' = "up"
    /\ UNCHANGED <<goveeLogin, diskVars, goveeVars, boots, accountVars, login, queueVars, historyVars>>

-----------------------------------------------------------------------------
(* Logins                                                                  *)

\* wireAccountClient, rememberSpent: the adapter hears that Govee is done with
\* the code of a login, and a mark is written.
RememberSpent(heard, mark) ==
    /\ told' = told \cup ({heard} \ {None})
    /\ marking' = marking \cup ({mark} \ {None})
    /\ lost' = lost \ {mark}

\* Govee is done with a code it took or turned down.
GoveeSpends(c) == spent' = spent \cup ({c} \ {None})

Starts(path, c) == login' = [login EXCEPT ![path] = [code |-> c]]
Ends(path) == login' = [login EXCEPT ![path] = None]

\* rememberCredentials, persistCreds: kept in memory, and on its way to the disk
\* together with the account it was issued for.
Remember(session) ==
    /\ persisted' = session
    /\ persisting' = persisting \cup {[session |-> session, accountKey |-> goveeLogin.account]}

Reusable == persisted # None /\ persisted.nr > expiredTo

\* connect(): a session that has not expired is used without a login.
Connects ==
    /\ boot = "up" /\ brokerLink = "off" /\ ~gaveUp /\ login["connect"] = None
    /\ IF Reusable
       THEN /\ brokerLink' = "reuse" /\ accountTopic' = persisted.topic
            /\ UNCHANGED login
       ELSE Starts("connect", verificationCode) /\ UNCHANGED <<brokerLink, accountTopic>>
    /\ UNCHANGED <<goveeLogin, diskVars, goveeVars, boot, boots, persisted, verificationCode, wiredCode,
                   gaveUp, rejected, queueVars, historyVars>>

\* Govee took the login.  The code is spent; the session is kept unless the
\* request for its certificate failed.
ConnectTaken ==
    /\ login["connect"] # None /\ login["connect"].code \notin spent /\ issued < MaxIssued
    /\ Ends("connect")
    /\ issued' = issued + 1
    /\ LET c == login["connect"].code
       IN  /\ GoveeSpends(c)
           /\ verificationCode' = IF c # None THEN None ELSE verificationCode
           /\ RememberSpent(c, IF c # None THEN wiredCode ELSE None)
    /\ accountTopic' = goveeLogin.account
    /\ \/ /\ Remember([bearer |-> goveeLogin.account, topic |-> goveeLogin.account, nr |-> issued'])
          /\ brokerLink' = "fresh"
       \/ UNCHANGED <<persisted, persisting, brokerLink>>
    /\ UNCHANGED <<goveeLogin, diskVars, expiredTo, boot, boots, wiredCode, gaveUp, rejected>>

\* A mutation of the next: only a code that was accepted is remembered.
MarksNothing(path) == None

\* What is remembered of a login whose code was turned down.
CodeTurnedDown(path) == IF login[path].code # None THEN wiredCode ELSE None

\* Govee wants a code, or turned this one down: the loop waits for the user.
ConnectTurnedDown ==
    /\ login["connect"] # None
    /\ Ends("connect")
    /\ GoveeSpends(login["connect"].code)
    /\ RememberSpent(login["connect"].code, CodeTurnedDown("connect"))
    /\ gaveUp' = TRUE
    /\ UNCHANGED <<goveeLogin, diskVars, issued, expiredTo, boot, boots, persisted, verificationCode,
                   wiredCode, accountTopic, brokerLink, rejected, persisting>>

\* No answer, or another refusal: again later, or not after the cap on refusals.
ConnectUnanswered ==
    /\ login["connect"] # None
    /\ Ends("connect")
    /\ gaveUp' \in BOOLEAN
    /\ UNCHANGED <<goveeLogin, diskVars, goveeVars, boot, boots, persisted, verificationCode, wiredCode,
                   accountTopic, brokerLink, rejected, queueVars, historyVars>>

\* refreshBearerSilently, by its timer or after a 401 of the App API.
Refreshes ==
    /\ boot = "up" /\ accountTopic # None /\ login["refresh"] = None
    /\ Starts("refresh", verificationCode)
    /\ UNCHANGED <<goveeLogin, diskVars, goveeVars, boot, boots, accountVars, queueVars, historyVars>>

\* The new bearer is kept with the topic of the session in use; without a new
\* certificate the old one stays in the session, if there is one.
RefreshTaken ==
    /\ login["refresh"] # None /\ login["refresh"].code \notin spent /\ issued < MaxIssued
    /\ Ends("refresh")
    /\ issued' = issued + 1
    /\ GoveeSpends(login["refresh"].code)
    /\ \/ Remember([bearer |-> goveeLogin.account, topic |-> accountTopic, nr |-> issued'])
       \/ persisted = None /\ UNCHANGED <<persisted, persisting>>
    /\ UNCHANGED <<goveeLogin, diskVars, expiredTo, boot, boots, verificationCode, wiredCode, accountTopic,
                   brokerLink, gaveUp, rejected, marking, historyVars>>

RefreshTurnedDown ==
    /\ login["refresh"] # None
    /\ Ends("refresh")
    /\ GoveeSpends(login["refresh"].code)
    /\ RememberSpent(login["refresh"].code, CodeTurnedDown("refresh"))
    /\ UNCHANGED <<goveeLogin, diskVars, issued, expiredTo, boot, boots, accountVars, persisting>>

RefreshUnanswered ==
    /\ login["refresh"] # None
    /\ Ends("refresh")
    /\ UNCHANGED <<goveeLogin, diskVars, goveeVars, boot, boots, accountVars, queueVars, historyVars>>

\* "Test login" of the card: with the code of the card, or of the settings.
TestLogin(c) ==
    /\ boot # "down" /\ login["probe"] = None
    /\ Starts("probe", usableVerificationCode(c))
    /\ UNCHANGED <<goveeLogin, diskVars, goveeVars, boot, boots, accountVars, queueVars, historyVars>>

\* A code the test spends is spent for the adapter too; its session is not kept.
TestTaken ==
    /\ login["probe"] # None /\ login["probe"].code \notin spent
    /\ Ends("probe")
    /\ GoveeSpends(login["probe"].code)
    /\ RememberSpent(login["probe"].code, login["probe"].code)
    /\ UNCHANGED <<goveeLogin, diskVars, issued, expiredTo, boot, boots, accountVars, persisting>>

\* The test has no hook for a code that is turned down.
TestTurnedDown ==
    /\ login["probe"] # None
    /\ Ends("probe")
    /\ GoveeSpends(login["probe"].code)
    /\ UNCHANGED <<goveeLogin, diskVars, issued, expiredTo, boot, boots, accountVars, queueVars, historyVars>>

-----------------------------------------------------------------------------
(* The broker and the disk                                                 *)

BrokerAnswers ==
    /\ brokerLink \in {"reuse", "fresh"}
    /\ brokerLink' = "on"
    /\ UNCHANGED <<goveeLogin, diskVars, goveeVars, boot, boots, persisted, verificationCode, wiredCode,
                   accountTopic, gaveUp, rejected, login, queueVars, historyVars>>

\* The socket closes; a saved session the broker does not take is given up.
BrokerGone ==
    /\ brokerLink # "off"
    /\ brokerLink' = "off"
    /\ \/ UNCHANGED <<persisted, rejected>>
       \/ brokerLink = "reuse" /\ persisted' = None /\ rejected' = TRUE
    /\ UNCHANGED <<goveeLogin, diskVars, goveeVars, boot, boots, verificationCode, wiredCode, accountTopic,
                   gaveUp, login, queueVars, historyVars>>

\* Sessions expire in the order they were issued.
SessionExpires ==
    /\ expiredTo < issued
    /\ expiredTo' = expiredTo + 1
    /\ UNCHANGED <<goveeLogin, diskVars, issued, spent, boot, boots, accountVars, login, queueVars, historyVars>>

\* writeFileAtomic: the whole file, or the one before.  Two calls may overtake
\* each other while they make the folder.
PersistEnds(b) ==
    /\ b \in persisting
    /\ persisting' = persisting \ {b}
    /\ credsFile' \in {b, credsFile}
    /\ UNCHANGED <<goveeLogin, credsMeta, credsState, usedCode, goveeVars, boot, boots, accountVars, login,
                   marking, historyVars>>

\* One mark: the last code that is spent.
MarkEnds(c) ==
    /\ c \in marking
    /\ marking' = marking \ {c}
    /\ \/ usedCode' = c /\ UNCHANGED lost
       \/ lost' = lost \cup {c} /\ UNCHANGED usedCode
    /\ UNCHANGED <<goveeLogin, credsFile, credsMeta, credsState, goveeVars, boot, boots, accountVars, login,
                   persisting, told>>

-----------------------------------------------------------------------------
\* An installation of any earlier version, with or without a session saved.
LoginInit ==
    /\ goveeLogin \in [account : Accounts, code : Codes]
    /\ LET old == [session |-> [bearer |-> goveeLogin.account, topic |-> goveeLogin.account, nr |-> 1],
                   accountKey |-> None]
       IN  \E place \in {"none", "file", "meta", "state"} :
              /\ credsFile = IF place = "file" THEN old ELSE None
              /\ credsMeta = IF place = "meta" THEN old ELSE None
              /\ credsState = IF place = "state" THEN old ELSE None
              /\ issued = IF place = "none" THEN 0 ELSE 1
    /\ usedCode = None /\ expiredTo = 0 /\ spent = {}
    /\ boot = "down" /\ boots = 0
    /\ persisted = None /\ verificationCode = None /\ wiredCode = None /\ accountTopic = None
    /\ brokerLink = "off" /\ gaveUp = FALSE /\ rejected = FALSE
    /\ login = NoLogin
    /\ persisting = {} /\ marking = {}
    /\ told = {} /\ lost = {}

LoginNext ==
    \/ \E a \in Accounts, c \in Codes \cup {None} : SaveSettings(a, c)
    \/ EndProcess
    \/ CarryMeta \/ DropMeta \/ OpenAccount \/ CarryState \/ DropState \/ ConnectAccount
    \/ Connects \/ ConnectTaken \/ ConnectTurnedDown \/ ConnectUnanswered
    \/ Refreshes \/ RefreshTaken \/ RefreshTurnedDown \/ RefreshUnanswered
    \/ \E c \in Codes \cup {None} : TestLogin(c)
    \/ TestTaken \/ TestTurnedDown
    \/ BrokerAnswers \/ BrokerGone \/ SessionExpires
    \/ \E b \in persisting : PersistEnds(b)
    \/ \E c \in marking : MarkEnds(c)

LoginSpec == LoginInit /\ [][LoginNext]_loginVars

-----------------------------------------------------------------------------
(* Properties                                                              *)

\* "The session belongs to the account it was issued for": the client never
\* runs on the session, or listens on the topic, of another account than the
\* one in the settings, over every switch and restart (loadPersistedCreds).
SessionIsOwn ==
    persisted # None => persisted.bearer = goveeLogin.account /\ persisted.topic = goveeLogin.account

Loadable == IF parsePersistedBlob(credsFile) # None THEN credsFile ELSE credsState

\* No start costs a login while it has a session: the connect loop logs in only
\* when the stores it reads hold none for this account that still runs, unless
\* the broker refused one in this run - also when the carry-over could not be
\* written ("the exact storm this persistence exists to prevent").
SessionSparesLogin ==
    login["connect"] = None /\ login'["connect"] # None =>
      \/ rejected
      \/ parsePersistedBlob(Loadable) = None
      \/ ~IsFor(Loadable, goveeLogin.account)
      \/ Loadable.session.nr <= expiredTo

\* The session a start reads - the file's, else the older state's - is replaced by
\* a session, never by nothing: whatever write fails or breaks off, and wherever the
\* process ends.  One that is still in the meta object only is not meant: when its
\* carry-over breaks off it is lost (MetaSurvives, refuted).
SessionSurvives == parsePersistedBlob(Loadable) # None => parsePersistedBlob(Loadable') # None

\* "No later login replays a spent code": a start wires a code it was told is
\* spent only while the mark is on its way, when it was never written, or when
\* another code's mark took its place (usableVerificationCode, rememberSpent).
SpentStaysSilent ==
    wiredCode' # None /\ wiredCode = None /\ wiredCode' \in told =>
      wiredCode' \in lost \cup marking \/ usedCode \notin {wiredCode', None}

\* A saved login serves its own account, is not lost once a start can read it and
\* spares logins; a spent code is not sent again, as far as its mark was written.
LoginIsKept ==
    /\ [](LoginTypeOK /\ SessionIsOwn)
    /\ [][SessionSparesLogin /\ SessionSurvives /\ SpentStaysSilent]_loginVars

\* Refuted: a code the adapter was told is spent stays silent once its mark was
\* written - a later mark takes its place.
OneMarkIsEnough ==
    wiredCode' # None /\ wiredCode = None /\ wiredCode' \in told => wiredCode' \in lost \cup marking

\* Refuted: a code Govee turned down in the card is not sent again.
TurnedDownStaysSilent == wiredCode' # None /\ wiredCode = None => wiredCode' \notin spent

\* Refuted: a failed write keeps the meta object as the source for the next start.
MetaSurvives ==
    \/ parsePersistedBlob(Loadable) # None \/ parsePersistedBlob(credsMeta) # None
         => parsePersistedBlob(Loadable') # None \/ parsePersistedBlob(credsMeta') # None
=============================================================================

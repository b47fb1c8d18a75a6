------------------------------ MODULE Options ------------------------------
(***************************************************************************)
(* The options an administrator changes from Server Admin. The environment *)
(* of the deployment wins, then what was saved, then the default; and two  *)
(* of them live in the file of another program, the job dispatcher, which  *)
(* is asked to read it again.                                              *)
(*                                                                         *)
(* The options do not touch each other: a behaviour follows one of them,   *)
(* the subject, with the word the environment has for it, through requests *)
(* that may carry other sections as well. An option is its section and its *)
(* key; a switch is "on" or "off", and "odd" is a word nobody understands. *)
(***************************************************************************)
EXTENDS Naturals, FiniteSets

CONSTANTS None,
          MaxRequests, \* bound: requests to change the options
          MaxFaults    \* bound: saves that fail, restarts

VARIABLES
  subject, word,
  saved,     \* the option in the memory of the server (SecurityConfig.file)
  disk,      \* the same in data/server-config.json
  port,      \* was a new port saved?
  touched,   \* does the bridge of the vehicle have to start again?
  planned,   \* the options in the file of the dispatcher: the number of the request that wrote them
  running,   \* those the dispatcher works with
  reload,    \* what the screen says of the last request to read them
  asked,     \* the requests to read them: how far they are, and does the server still wait?
  requests, faults,
  \* history
  promised,  \* the value that was answered with success, of the last request
  halved,    \* has a refused request changed the file of the dispatcher?
  crossed    \* was a request to read made while another was under way?

dispatcherVars == <<planned, running, reload, asked, halved, crossed>>
vars == <<subject, word, saved, disk, port, touched, planned, running, reload, asked, requests, faults, promised, halved, crossed>>

-----------------------------------------------------------------------------
\* The options, by the rule their word follows.

\* Switches of one line each in the code of a change: what the server tells, what it works with, who gets in.
InformationSwitches ==
  {<<"connections", "recordAddress">>, <<"health", "open">>, <<"ecosystemHealth", "enabled">>, <<"infoTickets", "enabled">>,
   <<"deviceTokens", "enabled">>, <<"updateCheck", "enabled">>, <<"discovery", "advertiseAddress">>}
CompanionSwitches == {"presence", "bridgeGateway", "push", "trustedNetworks", "rul"} \X {"enabled"}
AccessSwitches ==
  {<<"camera", "open">>, <<"camera", "credentialsViaEnv">>, <<"install", "newInstallTls">>, <<"websocket", "allowQueryToken">>,
   <<"logging", "redactSecrets">>, <<"safety", "publishGlobalStop">>}

\* On only with the exact word.
ExactOne ==
  InformationSwitches \cup CompanionSwitches \cup
  {<<"robots", "allowEnable">>, <<"jobDispatcher", "stopRelay">>, <<"safety", "publishGlobalStop">>, <<"voice", "includeHeardText">>,
   <<"voice", "requireSignature">>, <<"mavlink", "signingAllowUnsigned">>, <<"mqtt", "homeAssistant">>}

IngestSwitches ==
  {"ingest"} \X {"faultFeed", "scenario", "developerNode", "anomalyFeed", "anomalyVoiceRelay", "voiceChain", "proposalVerify"}

\* Only "1" and "0" count.
OneOrZero == IngestSwitches \cup {<<"auth", "serviceIdentity">>, <<"auth", "acceptHs256">>, <<"production", "rdpLevel">>}

UnlessOff ==
  {<<"ble", "requireEncryption">>, <<"logging", "redactSecrets">>, <<"camera", "credentialsViaEnv">>, <<"install", "newInstallTls">>}

CameraOpen == <<"camera", "open">>
QueryToken == <<"websocket", "allowQueryToken">>
Limits == <<"rateLimits", "enabled">>
AiAccess == <<"aiAccess", "aiAccess">>
InfoAuth == <<"infoAuth", "infoAuth">>
Tls == <<"tls", "enabled">>
Confidence == <<"voice", "minConfidence">>
BleMode == <<"ble", "mode">>
MqttMode == <<"mqtt", "mode">>
Algorithm == <<"auth", "jwtAlgorithm">>
LostAction == <<"presence", "action">>
Replan == <<"jobDispatcher", "replan">>
Switches == ExactOne \cup OneOrZero \cup UnlessOff \cup AccessSwitches \cup {Limits, InfoAuth, Tls}
LimitNumbers ==
  {"rateLimits"} \X {"loginMax", "loginWindowSeconds", "refreshMax", "apiMax", "sensitiveMax", "apiWindowSeconds", "stopAllMax", "stopAllWindowSeconds"}
KeyFiles == {<<"mavlink", "signingKeyFile">>, <<"ingest", "proposalKeysFile">>}
Addresses == {<<"mqtt", "url">>, <<"mqtt", "prefix">>}
BridgeSwitches ==
  {"bridges"} \X {"droids.globalStop", "droids.cutOnGlobalStop", "uav.missionUploadEnabled", "amr.publishState", "amr.publishOpcua",
                  "amr.zoneInterlock", "amr.zoneUnknown", "openpnp.boardCode"}

AllOptions ==
  Switches \cup LimitNumbers \cup KeyFiles \cup Addresses \cup BridgeSwitches
    \cup {AiAccess, Confidence, BleMode, MqttMode, Algorithm, LostAction, Replan}

\* What may be saved from the screen. Of a number, an address, a file or a switch of a bridge: two that differ.
Values(o) ==
  IF o \in Switches THEN {"on", "off"}
  ELSE IF o = AiAccess THEN {"open", "admin"}
  ELSE IF o \in {BleMode, MqttMode} THEN {"off", "state", "commands"}
  ELSE IF o = Algorithm THEN {"HS256", "EdDSA"}
  ELSE IF o = LostAction THEN {"slow", "pause", "notify", "stop"}
  ELSE {"usual", "other"}

Default(o) ==
  IF o \in UnlessOff \cup {<<"auth", "acceptHs256">>, Limits} THEN "on"
  ELSE IF o \in Switches \cup {BleMode, MqttMode} THEN "off"
  ELSE IF o = AiAccess THEN "open"
  ELSE IF o = Algorithm THEN "HS256"
  ELSE IF o = LostAction THEN "slow"
  ELSE "usual"

\* The words that have a meaning for the option. The number of a limit may be out of the range of the screen.
Understood(o) ==
  IF o \in ExactOne THEN {"1"}
  ELSE IF o \in OneOrZero THEN {"1", "0"}
  ELSE IF o \in UnlessOff THEN {"off"}
  ELSE IF o = CameraOpen THEN {"open", "off", "false", "0", "no", "allow"}
  ELSE IF o = QueryToken THEN {"allow", "true", "1", "yes", "on"}
  ELSE IF o = Limits THEN {"off", "false", "0", "no"}
  ELSE IF o = InfoAuth THEN {"required"}
  ELSE IF o = Tls THEN {"both files"}
  ELSE IF o \in LimitNumbers THEN {"usual", "other", "wild"}
  ELSE IF o \in BridgeSwitches THEN {}
  ELSE IF o = Replan THEN {"file", "file and address"}
  ELSE Values(o)

WordsOf(o) ==
  {""} \cup Understood(o) \cup IF o \in BridgeSwitches \cup KeyFiles \cup {Replan} THEN {} ELSE {"1", "0", "odd"}

Switch(on) == IF on THEN "on" ELSE "off"

\* Variant: a word that is not understood turns the switch on.
SaidLoosely(o, w) ==
  IF w = "" THEN None
  ELSE IF o \in ExactOne \cup {CameraOpen, QueryToken, InfoAuth} THEN Switch(w # "0")
  ELSE IF w \in Understood(o) THEN IF o \in Switches THEN "on" ELSE w
  ELSE None

\* What the environment says, or nothing.
Said(o, w) ==
  IF w = "" \/ o = Replan THEN None
  ELSE IF o \in ExactOne \cup {CameraOpen, QueryToken, InfoAuth} THEN Switch(w \in Understood(o))
  ELSE IF o \in UnlessOff \cup {Limits} THEN Switch(w \notin Understood(o))
  ELSE IF o \in OneOrZero THEN IF w \in Understood(o) THEN Switch(w = "1") ELSE None
  ELSE IF w \in Understood(o) THEN IF o = Tls THEN "on" ELSE w
  ELSE IF o \in {AiAccess, BleMode, MqttMode} THEN Default(o)
  ELSE None

Resolved(o, w, s) ==
  IF Said(o, w) # None THEN [value |-> Said(o, w), source |-> "env"]
  ELSE IF s \in Values(o) THEN [value |-> s, source |-> "config"]
  ELSE [value |-> Default(o), source |-> "default"]

\* The value in force when s is saved.
InForce(s) == Resolved(subject, word, s).value

-----------------------------------------------------------------------------
\* PUT /api/admin/server-config

section == subject[1]

\* The sections the route hands to the options when they come alone (wantsSecurity).
Forwarded == section \notin {"ingest", "production", "bridgeGateway"}

\* The sections that are written to the file.
Written == section \notin {"ingest", "production"}

\* The environment has it: it cannot be changed here. The dispatcher's file comes from the deployment.
Locked ==
  IF subject \in Addresses THEN word # ""
  ELSE IF subject = Replan THEN word = ""
  ELSE Said(subject, word) # None

Unconfirmed(value) ==
  \/ subject \in IngestSwitches \cup {<<"deviceTokens", "enabled">>} /\ value = "on" /\ InForce(saved) # "on"
  \/ subject = <<"ingest", "proposalKeysFile">> /\ value = "other" /\ saved # "other"
  \/ subject = <<"auth", "serviceIdentity">> /\ value = "on"

\* What has to work: the certificate, the key file, the account of the commands, the file of the dispatcher.
NeedsCheck(value) ==
  \/ subject = Tls /\ value = "on"
  \/ subject = <<"mavlink", "signingKeyFile">> /\ value = "other"
  \/ section = "mqtt" /\ (subject = MqttMode => value = "commands")
  \/ subject = Algorithm /\ value = "EdDSA"
  \/ subject = Replan

Refused(value, confirmed, works) ==
  \/ value \notin Values(subject)
  \/ Locked
  \/ Unconfirmed(value) /\ ~confirmed
  \/ NeedsCheck(value) /\ ~works

\* The port is looked at and saved before the options. One that is not a port refuses the request, and nothing changes.
Request ==
  /\ requests < MaxRequests
  /\ requests' = requests + 1
  /\ port' \in {port, TRUE}

\* Nobody looks at the section, and the answer is a success.
PutUnseen(value) ==
  /\ Request
  /\ ~Forwarded
  /\ promised' = value
  /\ UNCHANGED <<subject, word, saved, disk, touched, dispatcherVars, faults>>

\* This option or another one of the request is refused.
PutRefused ==
  /\ Request
  /\ UNCHANGED <<subject, word, saved, disk, touched, dispatcherVars, faults, promised>>

\* The dispatcher's file is written on the way: before the sections that follow and before the save.
WriteReplan == planned' = IF subject = Replan THEN requests + 1 ELSE planned

PutRefusedLater ==
  /\ Request
  /\ subject = Replan
  /\ WriteReplan
  /\ halved' = TRUE
  /\ UNCHANGED <<subject, word, saved, disk, touched, running, reload, asked, crossed, faults, promised>>

PutNotSaved ==
  /\ Request
  /\ faults < MaxFaults
  /\ faults' = faults + 1
  /\ WriteReplan
  /\ halved' = (halved \/ subject = Replan)
  /\ UNCHANGED <<subject, word, saved, disk, touched, running, reload, asked, crossed, promised>>

\* Does the server wait for an answer of the dispatcher?
Waits == \E i \in 1..MaxRequests : asked[i].waited

AskDispatcher ==
  IF subject = Replan /\ word = "file and address"
  THEN /\ reload' = "pending"
       /\ asked' = [asked EXCEPT ![requests + 1] = [stage |-> "sent", waited |-> TRUE]]
       /\ crossed' = (crossed \/ Waits)
  ELSE UNCHANGED <<reload, asked, crossed>>

\* Saved first, then in force, then announced.
PutSaved(value) ==
  /\ Request
  /\ WriteReplan
  /\ disk' = IF Written THEN value ELSE disk
  /\ saved' = value
  /\ AskDispatcher
  /\ touched' = (touched \/ section = "mavlink")
  /\ promised' = value
  /\ UNCHANGED <<subject, word, running, halved, faults>>

\* alone: no other section comes with it.
Put ==
  \E value \in Values(subject) \cup {"wrong"}, confirmed, works, alone \in BOOLEAN :
    IF alone /\ ~Forwarded THEN PutUnseen(value)
    ELSE IF Refused(value, confirmed, works) THEN PutRefused
    ELSE \/ ~alone /\ PutRefused
         \/ ~alone /\ PutRefusedLater
         \/ PutNotSaved
         \/ PutSaved(value)

-----------------------------------------------------------------------------
\* The dispatcher, and what the server hears from it

\* It reads its file and takes it, or refuses it and keeps what it had. It may do so after the server gave up.
DispatcherReads(i) ==
  /\ asked[i].stage = "sent"
  /\ \/ running' = planned /\ asked' = [asked EXCEPT ![i].stage = "took"]
     \/ running' = running /\ asked' = [asked EXCEPT ![i].stage = "refused"]
  /\ UNCHANGED <<subject, word, saved, disk, port, touched, planned, reload, halved, crossed, requests, faults, promised>>

\* Variant: every answer is a success.
AnyAnswerArrives(i) ==
  /\ asked[i].waited /\ asked[i].stage # "sent"
  /\ asked' = [asked EXCEPT ![i].waited = FALSE]
  /\ reload' = "applied"
  /\ UNCHANGED <<subject, word, saved, disk, port, touched, planned, running, halved, crossed, requests, faults, promised>>

\* The answers of two requests may come in any order; the last to come is shown.
AnswerArrives(i) ==
  /\ asked[i].waited /\ asked[i].stage # "sent"
  /\ asked' = [asked EXCEPT ![i].waited = FALSE]
  /\ reload' = IF asked[i].stage = "took" THEN "applied" ELSE "failed"
  /\ UNCHANGED <<subject, word, saved, disk, port, touched, planned, running, halved, crossed, requests, faults, promised>>

\* reload.timeoutMs is over, or the connection breaks.
NoAnswer(i) ==
  /\ asked[i].waited
  /\ asked' = [asked EXCEPT ![i].waited = FALSE]
  /\ reload' = "failed"
  /\ UNCHANGED <<subject, word, saved, disk, port, touched, planned, running, halved, crossed, requests, faults, promised>>

DispatcherRestarts ==
  /\ running # planned
  /\ running' = planned
  /\ UNCHANGED <<subject, word, saved, disk, port, touched, planned, reload, asked, halved, crossed, requests, faults, promised>>

ServerRestarts ==
  /\ faults < MaxFaults
  /\ faults' = faults + 1
  /\ saved' = disk
  /\ touched' = FALSE
  /\ reload' = "none"
  /\ asked' = [i \in 1..MaxRequests |-> [asked[i] EXCEPT !.waited = FALSE]]
  /\ UNCHANGED <<subject, word, disk, port, planned, running, halved, crossed, requests, promised>>

Init ==
  /\ subject \in AllOptions
  /\ word \in WordsOf(subject)
  /\ saved \in Values(subject) \cup {None}
  /\ disk = saved
  /\ port = FALSE /\ touched = FALSE
  /\ planned = 0 /\ running = 0 /\ reload = "none"
  /\ asked = [i \in 1..MaxRequests |-> [stage |-> "none", waited |-> FALSE]]
  /\ requests = 0 /\ faults = 0
  /\ promised = None /\ halved = FALSE /\ crossed = FALSE

Next ==
  \/ Put
  \/ \E i \in 1..MaxRequests : DispatcherReads(i) \/ AnswerArrives(i) \/ NoAnswer(i)
  \/ DispatcherRestarts
  \/ ServerRestarts

Spec == Init /\ [][Next]_vars

-----------------------------------------------------------------------------
\* Properties

TypeOK ==
  /\ subject \in AllOptions /\ word \in WordsOf(subject)
  /\ {saved, disk} \subseteq Values(subject) \cup {None}
  /\ promised \in Values(subject) \cup {None, "wrong"}
  /\ {port, touched, halved, crossed} \subseteq BOOLEAN
  /\ {planned, running} \subseteq 0..MaxRequests
  /\ reload \in {"none", "pending", "applied", "failed"}
  /\ asked \in [1..MaxRequests -> [stage : {"none", "sent", "took", "refused"}, waited : BOOLEAN]]
  /\ requests \in 0..MaxRequests /\ faults \in 0..MaxFaults

\* A change that was answered with success is in force, and is in force after a restart (routes/adminRoutes.ts, server.ts).
AnsweredIsKept == promised # None => InForce(saved) = promised /\ InForce(disk) = promised

\* The same of the options whose section both lists of the code name.
NamedIsKept == section \notin {"ingest", "production", "bridgeGateway"} => AnsweredIsKept

\* A word in the environment that means nothing leaves what is saved in force, or the default (the resolve functions).
OddWordsAreSafe == word \notin Understood(subject) => InForce(saved) \in {saved, Default(subject)}

\* The dispatcher works with the file when the screen says so, unless a refused request had changed the file or two
\* requests to read it crossed (dispatcherReload.ts).
AppliedIsRunning == reload = "applied" /\ ~halved /\ ~crossed => running = planned
=============================================================================

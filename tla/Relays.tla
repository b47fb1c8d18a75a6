------------------------------- MODULE Relays -------------------------------
(***************************************************************************)
(* What travels from the server to other services, phones, clients and     *)
(* cameras, side by side: the samples of the telemetry, the registrations  *)
(* of the phones and the session with their push service, the channel to   *)
(* the edge node, what the clients are told of a command, the switches of  *)
(* services, the spoken requests, a live picture and a camera that is      *)
(* asked. They share nothing; in a behaviour some of them move, in any     *)
(* order, and the others stay as they are at the start. The other parts of *)
(* Pictures and RobotCommands have their variables here and no steps.      *)
(***************************************************************************)
EXTENDS Integers, FiniteSets

CONSTANTS
  None,
  Moving, \* which parts may move in one behaviour
  \* Outbound: four parts
  Sources, MaxSources, MaxRecords,
  Tokens, Accounts, MaxDevices, MaxPushEvents, MaxOutFaults,
  Window, MaxReplies, MaxEdgeTime,
  TokenLife, TokenHour, MaxSessions, MaxSends, MaxQuarters,
  \* RobotCommands
  Arms, CombinedWith, Homed, Reach, LastOutput, Riders, MaxRiders, MaxCommands, MaxTreeSaves, MaxLostWrites, MaxInstants,
  \* ServiceSwitches: two parts
  Requests, Configured, Speakers, SafeNames, RequestIds, MaxTurns, MaxAsks, MaxVoiceFaults,
  \* Pictures
  MaxFrames, MaxBuffer, MaxRecordings, MaxStarts, Candidates

VARIABLE moving

\* Outbound: four parts
VARIABLES pending, sequences, outbox, posting, paused, recorded, collector
VARIABLES devices, stored, owed, dead, loops, notified, events, pushFaults
VARIABLES edgeNow, behind, book, theirs, channel, posed, replies, heldOut, seen, agreed, edgeFaults
VARIABLES quarter, files, credentials, current, sessions, token, tokensMade, notices
telemetryVars == <<pending, sequences, outbox, posting, paused, recorded, collector>>
pushVars == <<devices, stored, owed, dead, loops, notified, events, pushFaults>>
edgeVars == <<edgeNow, behind, book, theirs, channel, posed, replies, heldOut, seen, agreed, edgeFaults>>
apnsVars == <<quarter, files, credentials, current, sessions, token, tokensMade, notices>>
Out == INSTANCE Outbound WITH
  MaxTime <- MaxEdgeTime, MaxEvents <- MaxPushEvents, MaxFaults <- MaxOutFaults,
  now <- edgeNow, requests <- posed, answer <- heldOut, accepted <- agreed, made <- tokensMade, sends <- notices

\* RobotCommands
VARIABLES robotTree, underWay, shown, doubtful, brought, commands, savesOfTree, lostWrites
VARIABLES instant, every, lastStreamAudit, moved, clockSetBack
commandVars == <<robotTree, underWay, shown, doubtful, brought, commands, savesOfTree, lostWrites>>
RobotCommand == INSTANCE RobotCommands WITH
  Robots <- Arms, Keys <- Riders, MaxKeys <- MaxRiders, MaxSaves <- MaxTreeSaves, MaxFailures <- MaxLostWrites, MaxClock <- MaxInstants,
  tree <- robotTree, saves <- savesOfTree, failures <- lostWrites, clock <- instant, setBack <- clockSetBack

\* ServiceSwitches: two parts
VARIABLES switch, proposal, image, request, record, carried
VARIABLES spoken, signed, asking, confirmations, rule, asks, voiceFaults
serviceVars == <<switch, proposal, image, request, record, carried>>
voiceVars == <<spoken, signed, asking, confirmations, rule, asks, voiceFaults>>
Service == INSTANCE ServiceSwitches WITH Ids <- RequestIds, Users <- Speakers, made <- carried, told <- confirmations

\* Pictures: two parts of four
VARIABLES take, stream, whole, taken, filed, sidecar, photo
VARIABLES view, client, upstream, leftEarly
VARIABLES recording, recordings, starting, stopping, overlapped
VARIABLES camera, ptz, missed, turned, found, toldOfIt
viewVars == <<view, client, upstream, leftEarly>>
askVars == <<camera, ptz, missed, turned, found, toldOfIt>>
Picture == INSTANCE Pictures WITH
  Paths <- Candidates, MaxRequests <- MaxStarts, active <- recording, asked <- ptz, told <- toldOfIt

relayVars == <<moving, telemetryVars, pushVars, edgeVars, apnsVars, commandVars, serviceVars, voiceVars, viewVars, askVars>>

\* A request to another service, and what the Voice UI puts under a result.
Relayed == [what : Service!Kinds, to : BOOLEAN, confirm : BOOLEAN, stage : {"sent", "streaming", "replied", "answered", "closed"}, status : Nat,
            phase : {"unknown", "writing", "failed", "done"}, here : BOOLEAN]
Signatures == [key : {"shared", "another"}, status : {"confirmed"}, id : RequestIds, subject : Speakers]

\* What a camera is asked: to move in one of the conventions, or for its streams.
Asked ==
  [kind : {"turn"}, step : {"hi3510", "plain", "named", "done"}, user : BOOLEAN, first : {0, 404},
   move : [pan : -100..100, tilt : -100..100, zoom : -100..100],
   act : {"left", "right", "up", "down", "zoomin", "zoomout", "stop"}, speed : Int]
  \union [kind : {"streams"}, step : {"plain", "named", "done"}, user : BOOLEAN, path : Nat]

\* Bounds and numbers are what they are called; a provider token is renewed before the push service refuses it and not at each
\* send, and nothing is named None.
ASSUME RelaysAssumption ==
  /\ IsFiniteSet(Sources) /\ {MaxSources, MaxRecords, MaxDevices, MaxPushEvents, MaxOutFaults} \subseteq Nat
  /\ {Window, MaxReplies, MaxEdgeTime} \subseteq Nat
  /\ {TokenLife, TokenHour, MaxSessions, MaxSends, MaxQuarters} \subseteq Nat /\ 1 < TokenLife /\ TokenLife <= TokenHour
  /\ CombinedWith \in [Arms -> SUBSET Arms] /\ Reach \in [Arms -> Nat] /\ LastOutput \in Nat /\ {MaxCommands, MaxTreeSaves, MaxLostWrites} \subseteq Nat
  /\ {MaxTurns, MaxAsks, MaxVoiceFaults} \subseteq Nat /\ SafeNames \subseteq Speakers /\ Candidates \in Nat \ {0}
  /\ None \notin Int \union Speakers \union {"waiting"} \union Relayed \union Signatures \union Asked

RelaysInit ==
  /\ moving \in Moving
  /\ Out!TelemetryInit /\ Out!PushInit /\ Out!EdgeInit /\ Out!ApnsInit
  /\ RobotCommand!Init /\ Service!Init /\ Service!VoiceInit /\ Picture!ViewInit /\ Picture!AskInit

\* One part takes a step.
RelayStep(part) ==
  /\ IF part = "telemetry" THEN Out!TelemetryNext ELSE UNCHANGED telemetryVars
  /\ IF part = "push" THEN Out!PushNext ELSE UNCHANGED pushVars
  /\ IF part = "edge" THEN Out!EdgeNext ELSE UNCHANGED edgeVars
  /\ IF part = "apns" THEN Out!ApnsNext ELSE UNCHANGED apnsVars
  /\ IF part = "commands" THEN RobotCommand!Next ELSE UNCHANGED commandVars
  /\ IF part = "services" THEN Service!Next ELSE UNCHANGED serviceVars
  /\ IF part = "voice" THEN Service!VoiceNext ELSE UNCHANGED voiceVars
  /\ IF part = "view" THEN Picture!ViewNext ELSE UNCHANGED viewVars
  /\ IF part = "asking" THEN Picture!AskNext ELSE UNCHANGED askVars

RelaysNext ==
  /\ moving' = moving
  /\ \E part \in moving : RelayStep(part)

RelaysSpec == RelaysInit /\ [][RelaysNext]_relayVars

-----------------------------------------------------------------------------
\* What is said of a part is looked at when that part moves.
Moves(part) == part \in moving

\* What travels to other services, phones and cameras arrives as it was sent: samples are in order (telemetryProducer.ts), an answered
\* registration is kept and the service of the phones has one session and a fresh token (pushNotifications.ts), and a reply of the edge
\* node is its own and counts once (opsAgentChannel.ts); nothing risky is done at a service without its confirmation
\* (routes/upstreamRoutes.ts), and a confirmation that is told as verified is the user's own (voiceConfirm.ts); a picture nobody looks
\* at ends (routes/cameraRoutes.ts), and what is told of a camera that was asked is so (cameraProbe.ts); a client that merged what it
\* was told of a command sees the robot as it is (routes/commandRoutes.ts).
RelaysAreTrue ==
  /\ Moves("telemetry") => Out!SamplesInOrder
  /\ Moves("push") => Out!PhonesAreKept
  /\ Moves("apns") => Out!OneSession /\ Out!TokensAreFresh
  /\ Moves("edge") => Out!RepliesCountOnce
  /\ Moves("commands") => RobotCommand!ClientsSeeRobots
  /\ Moves("services") => Service!RiskIsConfirmed /\ Service!FlashIsTrue
  /\ Moves("voice") => Service!VerifiedIsTheirs
  /\ Moves("view") => Picture!ViewersClose
  /\ Moves("asking") => Picture!MovesAreTrue /\ Picture!StreamsAreFound
=============================================================================

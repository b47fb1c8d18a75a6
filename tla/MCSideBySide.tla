---------------------------- MODULE MCSideBySide ----------------------------
(***************************************************************************)
(* The settings core and the smaller components side by side: they share   *)
(* nothing here, so in each behaviour one of them moves and the others     *)
(* stay as they are at the start.                                          *)
(***************************************************************************)
EXTENDS SettingsCore, Relays

CONSTANTS arm, odd, bad, studio, app, watch, m1, m2, t1, t2, u1, u2, ada, oto, spoiled, r1, r2

MCMoving == {{part} : part \in {"settings", "options", "audit", "log", "feeds", "history", "telemetry", "push", "apns", "edge", "health",
  "alive", "updates", "services", "voice", "files", "edits", "life", "loops", "take", "view", "recordings", "asking", "works", "commands", "pace"}}

\* Relays: the first arm takes the second along, which has a home and less of a reach; odd has a name that is no subject.
MCSources == {m1, m2}
MCTokens == {t1, t2}
MCAccounts == {u1, u2}
MCArms == {r1, r2}
MCCombinedWith == [r \in MCArms |-> IF r = r1 THEN {r2} ELSE {}]
MCHomed == {r2}
MCReach == [r \in MCArms |-> IF r = r1 THEN 2 ELSE 1]
MCRiders == {ada, oto}
MCConfigured == {"gate", "proposal", "flash"}
MCSpeakers == {ada, oto, odd}

\* AuditLog: two parts
VARIABLES live, cut, rotated, lines, last, auditTaken, auditFaults
VARIABLES inodes, names, streams, newest, logged, mixed, diskFaults
logVars == <<inodes, names, streams, newest, logged, mixed, diskFaults>>
auditVars == <<live, cut, rotated, lines, last, auditTaken, auditFaults>>
Audit == INSTANCE AuditLog WITH
  MaxBytes <- 2, Keep <- 1, MaxEvents <- 9, MaxFaults <- 4, taken <- auditTaken, faults <- auditFaults,
  MaxLogLines <- 2, KeepWord <- 2, MaxLogged <- 7, MaxLogFaults <- 2, logFaults <- diskFaults

\* Feeds
VARIABLES logMemory, logFile, made, active, latest, alerts, relays, logTaken, logFaults
feedVars == <<logMemory, logFile, made, active, latest, alerts, relays, logTaken, logFaults>>
Feed == INSTANCE Feeds WITH
  Things <- {arm}, Verdicts <- {"normal", odd, bad}, MaxRecords <- 2, MaxMade <- 4, MaxRelays <- 1, MaxFaults <- 2,
  memory <- logMemory, file <- logFile, taken <- logTaken, faults <- logFaults

\* Connections
VARIABLES today, saved, dirty, historyFaults
historyVars == <<today, saved, dirty, historyFaults>>
History == INSTANCE Connections WITH
  Clients <- {studio, app, watch}, UserOf <- [c \in {studio, app, watch} |-> IF c = studio THEN ada ELSE IF c = app THEN oto ELSE None],
  EventCapacity <- 3, ClientCapacity <- 2, MaxEvents <- 5, MaxFaults <- 1,
  now <- today, file <- saved, faults <- historyFaults

\* Options
VARIABLES subject, word, option, optionFile, port, touched, planned, running, reload, asked, requests, optionFaults,
          promised, halved, crossed
optionVars == <<subject, word, option, optionFile, port, touched, planned, running, reload, asked, requests, optionFaults,
                promised, halved, crossed>>
Option == INSTANCE Options WITH
  MaxRequests <- 2, MaxFaults <- 1, saved <- option, disk <- optionFile, faults <- optionFaults

\* Health: two parts
VARIABLES moment, heardAt, unsaved, lastSave, heardFile, scan, heard, healthFaults
VARIABLES half, roster, stale, touches, elapsed, clockSet, news
aliveVars == <<half, roster, stale, touches, elapsed, clockSet, news>>
healthVars == <<moment, heardAt, unsaved, lastSave, heardFile, scan, heard, healthFaults>>
Healths == INSTANCE Health WITH
  Damaged <- spoiled, Ports <- {"cam"}, Units <- {"cam", "job"}, Limits <- {1, 2}, Interval <- 1, Ahead <- 0, MaxTime <- 2, MaxFaults <- 2,
  Robots <- {1, 2}, Rosters <- {<<1>>, <<2, 1>>, <<1, 1>>}, DefaultStale <- 1, MostStale <- 2, MaxHalves <- 3,
  now <- moment, seen <- heardAt, dirty <- unsaved, stored <- heardFile, faults <- healthFaults

\* Updates
VARIABLES hour, owner, report, look, looks, answer, owners
updateVars == <<hour, owner, report, look, looks, answer, owners>>
Update == INSTANCE Updates WITH
  Owners <- {"us", "them"}, Programs <- 2, Least <- 2, Keeps <- {3}, MaxTime <- 5, MaxLooks <- 3, MaxChanges <- 2,
  clock <- hour, cached <- report, changes <- owners

\* SettingsFiles
VARIABLES day, treeMem, treeFile, points, copies, times, hurt, treeFaults
fileVars == <<day, treeMem, treeFile, points, copies, times, hurt, treeFaults>>
Copy == INSTANCE SettingsFiles WITH
  Robots <- {r1, r2}, Segments <- [r \in {r1, r2} |-> "p"], Damaged <- spoiled, Keep <- 2, Interval <- 2, MaxTime <- 3, MaxWrites <- 2, MaxFaults <- 2,
  now <- day, mem <- treeMem, file <- treeFile, faults <- treeFaults

\* RobotEdits
VARIABLES robots, saving, limits, limitFile, changing, heat, loose, steps, twins
editVars == <<robots, saving, limits, limitFile, changing, heat, loose, steps, twins>>
Edit == INSTANCE RobotEdits WITH
  Robots <- {r1, r2}, Ids <- {1, 2}, Models <- {"a", "b"}, Odd <- 99, Hard <- 2, MaxCombined <- 1, MaxSteps <- 2,
  tree <- robots, owed <- heat

\* Lifecycle: two parts
VARIABLES loopOf, loopWords, loopRuns, loopTimer, loopPasses, loopFailures, loopShown, loopBegun, lastBegun
loopVars == <<loopOf, loopWords, loopRuns, loopTimer, loopPasses, loopFailures, loopShown, loopBegun, lastBegun>>
VARIABLES phase, starts, leaving, env, certs, config, savedConfig, settings, users, seeded, scheme, listener, signIns, kept, first, chosen, due
lifeVars == <<phase, starts, leaving, env, certs, config, savedConfig, settings, users, seeded, scheme, listener, signIns, kept, first, chosen, due>>
Life == INSTANCE Lifecycle WITH
  MaxStarts <- 2, MaxEvents <- 1, stage <- phase, file <- savedConfig, port <- listener, touched <- chosen, events <- signIns,
  MaxPasses <- 3, service <- loopOf, said <- loopWords, running <- loopRuns, timer <- loopTimer, passes <- loopPasses,
  failures <- loopFailures, shown <- loopShown, begun <- loopBegun

\* Pictures and RobotCommands: the parts that Relays leaves as they are
takeVars == <<take, stream, whole, taken, filed, sidecar, photo>>
recordingVars == <<recording, recordings, starting, stopping, overlapped>>
paceVars == <<instant, every, lastStreamAudit, moved, clockSetBack>>

\* Works
VARIABLES works, list, index, folder, rules, sends, workFaults, uploads, submissions, listHurt, indexHurt, torn
workVars == <<works, list, index, folder, rules, sends, workFaults, uploads, submissions, listHurt, indexHurt, torn>>
Work == INSTANCE Works WITH
  Files <- {"w"}, Models <- {m1, m2}, Descriptions <- {1, 2}, Meshes <- {"a"}, Credits <- {"c"}, MaxRequests <- 3, MaxFaults <- 1,
  Damaged <- spoiled, requests <- sends, faults <- workFaults, saved <- uploads, answered <- submissions

partVars == <<optionVars, auditVars, logVars, feedVars, historyVars, healthVars, aliveVars, updateVars, fileVars, editVars, lifeVars, loopVars,
              takeVars, recordingVars, workVars, paceVars>>

sideVars == <<vars, relayVars, partVars>>

Still == [hi3510 |-> "unknown", psia |-> "unknown", known |-> FALSE, paths |-> Picture!Deaf]

SideInit ==
  /\ moving \in Moving
  /\ IF Moves("apns") THEN TRUE ELSE files = [named |-> FALSE, wellFormed |-> FALSE, outside |-> FALSE, readable |-> FALSE]
  /\ IF Moves("edge") THEN TRUE ELSE behind = 0 /\ book = None
  /\ IF Moves("asking") THEN TRUE ELSE camera = Still
  /\ RelaysInit /\ Init
  /\ Option!Init /\ (~Moves("options") => subject = Option!CameraOpen /\ word = "" /\ option = None)
  /\ Audit!Init /\ Audit!LogInit /\ Feed!Init /\ History!Init
  /\ Healths!Init /\ Healths!LifeInit /\ (~Moves("alive") => roster = <<1>> /\ stale = None)
  /\ Update!Init /\ (~Moves("updates") => owner = "us")
  /\ Copy!Init /\ (~Moves("files") => DOMAIN treeFile.lists = {})
  /\ Edit!Init /\ (~Moves("edits") => robots[r1].id = 1 /\ robots[r2].id = 2 /\ robots[r1].model = "a")
  /\ Life!Init /\ (~Moves("life") => env = Life!Quiet /\ certs = "none" /\ config = Life!Nothing /\ ~savedConfig /\ ~settings)
  /\ IF Moves("loops") THEN Life!LoopInit ELSE Life!NotStarted /\ loopOf = None /\ loopWords = None
  /\ Picture!TakeInit /\ Picture!RecordingInit
  /\ Work!Init /\ RobotCommand!PaceInit

SideNext ==
  /\ RelaysNext
  /\ IF Moves("settings") THEN Next ELSE UNCHANGED vars
  /\ IF Moves("options") THEN Option!Next ELSE UNCHANGED optionVars
  /\ IF Moves("audit") THEN Audit!Next ELSE UNCHANGED auditVars
  /\ IF Moves("log") THEN Audit!LogNext ELSE UNCHANGED logVars
  /\ IF Moves("feeds") THEN Feed!Next ELSE UNCHANGED feedVars
  /\ IF Moves("history") THEN History!Next ELSE UNCHANGED historyVars
  /\ IF Moves("health") THEN Healths!Next ELSE UNCHANGED healthVars
  /\ IF Moves("alive") THEN Healths!LifeNext ELSE UNCHANGED aliveVars
  /\ IF Moves("updates") THEN Update!Next ELSE UNCHANGED updateVars
  /\ IF Moves("files") THEN Copy!Next ELSE UNCHANGED fileVars
  /\ IF Moves("edits") THEN Edit!Next ELSE UNCHANGED editVars
  /\ IF Moves("life") THEN Life!Next ELSE UNCHANGED lifeVars
  /\ IF Moves("loops") THEN Life!LoopNext ELSE UNCHANGED loopVars
  /\ IF Moves("take") THEN Picture!TakeNext ELSE UNCHANGED takeVars
  /\ IF Moves("recordings") THEN Picture!RecordingNext ELSE UNCHANGED recordingVars
  /\ IF Moves("works") THEN Work!Next ELSE UNCHANGED workVars
  /\ IF Moves("pace") THEN RobotCommand!PaceNext ELSE UNCHANGED paceVars

SideSpec == SideInit /\ [][SideNext]_sideVars

-----------------------------------------------------------------------------
(* What is said of a part is looked at when that part moves, what is said of no state only early on. *)

\* Every variable has its type, and no table, file, history, queue or set of devices exceeds its limit.
\* An audit record that verifies is whole (auditLog.ts), so is the log (runtime.ts), a feed is what its signed record says and a record
\* that was answered is kept (ingestLog.ts, ingestFeeds.ts, anomalyFeed.ts); the sign-ins counted for a client are those of its history,
\* which shows each user their own entries, each once (connections.ts, connectionRoutes.ts); a recording that is entered is being written
\* to a file that is there, one at a time, and listed so, the frames counted in it are its whole ones and a photo is one of them
\* (routes/cameraRoutes.ts); a service was last seen when it was heard (ecosystemHealth.ts), a robot that is called live had news
\* (robotLiveness.ts), and the audit lines of the relays say what the service did (routes/upstreamRoutes.ts); a movement is in the
\* record or soon after one that is (routes/commandRoutes.ts); a restart gives back what the queue wrote, also the recorded points, and
\* a damaged file costs no more than the time between two copies (settingsBackups.ts); a work or a model that was taken is there, whole
\* and with its credit (routes/worksRoutes.ts).
RecordsVerify ==
  /\ Moves("options") => Option!TypeOK
  /\ Moves("audit") => Audit!TypeOK
  /\ Moves("log") => Audit!LogTypeOK
  /\ Moves("feeds") => Feed!TypeOK
  /\ Moves("history") => History!TypeOK
  /\ Moves("telemetry") => Out!TelemetryTypeOK
  /\ Moves("push") => Out!PushTypeOK
  /\ Moves("apns") => Out!ApnsTypeOK
  /\ Moves("edge") => Out!EdgeTypeOK
  /\ Moves("health") => Healths!TypeOK
  /\ Moves("alive") => Healths!LifeTypeOK
  /\ Moves("updates") => Update!TypeOK
  /\ Moves("services") => Service!TypeOK
  /\ Moves("voice") => Service!VoiceTypeOK
  /\ Moves("files") => Copy!TypeOK
  /\ Moves("edits") => Edit!TypeOK
  /\ Moves("life") => Life!TypeOK
  /\ Moves("loops") => Life!LoopTypeOK
  /\ Moves("take") => Picture!TakeTypeOK
  /\ Moves("view") => Picture!ViewTypeOK
  /\ Moves("recordings") => Picture!RecordingTypeOK
  /\ Moves("asking") => Picture!AskTypeOK
  /\ Moves("works") => Work!TypeOK
  /\ Moves("commands") => RobotCommand!TypeOK
  /\ Moves("pace") => RobotCommand!PaceTypeOK
  /\ Moves("audit") => Audit!VerifiedIsWhole
  /\ Moves("log") => Audit!LogIsWhole
  /\ Moves("feeds") => Feed!FeedsAreTheirRecords /\ Feed!AnsweredAreKept
  /\ Moves("history") => History!HistoryAgrees /\ (today = History!Empty => History!ClientsStay)
  /\ Moves("recordings") => Picture!ActiveIsWritten /\ Picture!OneRecording /\ Picture!ListIsTrue
  /\ Moves("take") => Picture!FramesAreCounted /\ Picture!PhotosAreWhole
  /\ Moves("health") => Healths!SeenWasHeard /\ Healths!UnsavedIsDirty /\ (heard = {} => Healths!VerdictsAreTrue)
  /\ Moves("alive") => Healths!LifeIsTrue
  /\ Moves("services") => Service!RecordIsTrue /\ Service!MadeIsRecorded
  /\ Moves("pace") => RobotCommand!MotionIsRecorded
  /\ Moves("files") => Copy!RestartGivesBack /\ Copy!LittleIsLost /\ Copy!ComesBack
  /\ Moves("works") => Work!SavedIsListed /\ Work!SubmittedIsThere /\ Work!DownloadIsNewest

\* An answered change of an option is in force now and after a restart, an odd word of the environment opens nothing, and
\* what the screen says of the dispatcher is so (securityConfig.ts, routes/adminRoutes.ts, dispatcherReload.ts); a newest
\* version that is shown is fresh and of the owner who is set, and asking for it is spaced (updateCheck.ts);
\* an installation goes on serving as it did at first until somebody chooses (newInstallTls.ts), at its own port (listenPort.ts), nobody
\* before it has an account, and what had happened when it was told to end is in its history (server.ts);
\* the loops for the dispatcher go on only if they were asked for, in order and with nothing said wrong (jobStopRelay.ts,
\* orchestratorTakeover.ts); a robot in safe mode has every valve and pump off (routes/commandRoutes.ts); no change makes a robot id
\* ambiguous (robotIds.ts), and bed targets and tables stay within what they were held to (safetyLimits.ts, tableCommand.ts).
OptionsHold ==
  /\ Moves("options") => Option!NamedIsKept /\ Option!OddWordsAreSafe /\ Option!AppliedIsRunning
  /\ Moves("updates") => Update!LooksAreSpaced /\ Update!AnswersAreFresh /\ (hour = 0 => Update!VersionsAreOrdered)
  /\ Moves("life") => Life!SchemeStays /\ Life!PortsAreOwn /\ Life!AccountsFirst /\ Life!EndIsClean
  /\ Moves("loops") => Life!LoopsAreAskedFor /\ Life!LoopsAreOrderly
  /\ Moves("commands") => RobotCommand!SafeModeIsOff
  /\ Moves("edits") => Edit!NoNewTwins /\ Edit!BedsWereHeld /\ Edit!TablesInReach
=============================================================================

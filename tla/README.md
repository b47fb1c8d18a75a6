# HYDRA-UMC-SERVER: specifications, checks and proofs

TLA+ specifications of the robot server in `src/`, the TLC configurations that check them on small instances, and the
theorems that TLAPS proves about them. Every definition is translated from the TypeScript source; `PROJECT.json` names
the lines of each one (`map`), the question of each run, a mistake that each property notices (`mutants`), the
hazards of the code and where it departs from what its documentation says (`findings`).

## 1. The system

The server keeps one tree of settings (controllers, robots, points, cameras) for a plant of robots. Clients change it with
HTTP requests and follow it over WebSockets; timers move robots, watch operators, poll other services. It is one Node.js
process: a handler runs alone until its first `await`, and at each `await` anything else may run. What is hard is therefore
not data races but *state that is read before an await and used after it*, *answers that come in another order*, *writes
that fail after the memory was changed* and *cuts between two renames*.

| Component (sources) | State it keeps | Module | What makes it correct |
|---|---|---|---|
| Settings store (`transactionalFiles.ts`, `settingsStore.ts`) | files, `.txn/<id>` directories, promise chain | `TxnFiles`, `AtomicFiles` | a cut leaves all of a write or nothing; an answer stays true after a restart |
| Copies and points files (`settingsStore.ts`, `settingsBackups.ts`) | `settings.json`, points per robot, copies | `SettingsFiles` | a restart gives back the tree; a damaged file costs no more than an interval |
| Settings tree (`server.ts`, `routes/settings.ts`, `routes/commandRoutes.ts`) | tree in memory and on disk, write queue, pages | `SettingsCore` | nothing answered is lost; a stop, a disable, a reservation hold |
| Edits of a robot (`robotIds.ts`, `robotEdit.ts`, `tableCommand.ts`, `safetyLimits.ts`) | ids, limits, bed targets, tables | `RobotEdits` | no id becomes ambiguous; beds and tables stay within what they were held to |
| Commands of a robot (`routes/commandRoutes.ts`, `robotEdit.ts`) | fields of the robots, pictures of the clients, record of movements | `RobotCommands` | a robot in safe mode has everything off; clients see what a command changed; movements are on record |
| Robot control (`claimPolicy.ts`, `safetyLimits.ts`, `jogSequence.ts`, `routes/robotRoutes.ts`, `routes/safetyRoutes.ts`) | claims, arming, safe mode, marks of command numbers | `RobotControl` | a halt holds until armed again; no jog overtakes a stop |
| Playback (`playback.ts`, `ws.ts`) | playback state, timers, pictures of the clients | `Playback` | a stopped robot does not move; a playback ends; clients see the state of the server |
| Presence of the operator (`operatorPresence.ts`) | operators, lowered speeds | `OperatorPresence` | a silence holds the robots; trust is earned; speeds return |
| Stops and hand-over (`jobStopRelay.ts`, `orchestratorTakeover.ts`) | settled requests, proofs, replica, outage | `HandOver` | a mission is never worked on by two robots; proofs are true; outages are decided |
| Accounts and sessions (`users.ts`, `refresh_tokens.ts`, `deviceTokens.ts`, `routes/auth.ts`, `ws.ts`) | accounts, tokens, open connections | `Sessions` | a changed account opens nothing with what it had before |
| Second factor (`totp.ts`) | secret, used codes, wrong codes | `SecondFactor` | a code lets somebody in once |
| Keys of the tokens (`jwtKeys.ts`) | keys in memory and in a file | `JwtKeys` | one key signs; what was issued verifies until it expires |
| Limits, roles, places, tickets (`auth.ts`, `trustedNetworks.ts`, `mediaTickets.ts`, `infoTickets.ts`) | counts per address; signed tickets | `Requests` | only failures use up the sign-ins; no stop is held back; a ticket opens its own |
| History of sign-ins (`connections.ts`, `routes/connectionRoutes.ts`) | clients, events | `Connections` | counts and history agree; an update makes no other client; each user reads their own entries, each once |
| Audit record and log (`auditLog.ts`, `runtime.ts`, `logRotation.ts`) | chain of lines, streams, rotated files | `AuditLog` | what verifies is whole |
| Signed feeds (`ingestLog.ts`, `ingestFeeds.ts`, `anomalyFeed.ts`) | logs, active faults, verdicts | `Feeds` | a feed is what its record says |
| Cameras (`cameraSupervisor.ts`, `cameraHealth.ts`, `serverPolicy.ts`) | settings of a camera, processes, timers, pid file | `Cameras` | one process for each camera that is on, started with its settings, none for the others |
| Recordings and pictures (`routes/cameraRoutes.ts`, `cameraProbe.ts`) | files, open streams, what a camera answered | `Pictures` | frames are whole; a recording that is entered is written; a picture nobody looks at ends |
| MQTT bridge (`mqttBridge.ts`) | retained state, account, pace | `RetainedState`, `CommandRelays` | the broker shows the robots; a command is carried out once |
| Machine bridges (`bridgeGateway.ts`, `bridgeSettings*.ts`) | who waits for a verb, signed switches | `BridgeGateway`, `BridgeSwitches` | an answer goes to its request; switches never go back |
| Bluetooth (`ble/`) | frames, queue of notifications, helper | `BleGateway`, `CommandRelays` | messages are whole; phones hear the newest state |
| Outgoing (`telemetryProducer.ts`, `pushNotifications.ts`, `opsAgentChannel.ts`) | what waits, devices, session, nonces | `Outbound` | bounded, in order, no reply twice |
| Options (`securityConfig.ts`, `routes/adminRoutes.ts`, `dispatcher*.ts`) | option, file, dispatcher's file | `Options` | an answered change is in force |
| Start and end (`server.ts`, `newInstallTls.ts`, `listenPort.ts`, `jobStopRelay.ts`, `orchestratorTakeover.ts`) | phase, config, users, listener, the loops for the dispatcher | `Lifecycle` | nothing is lost by a clean end; TLS does not change by itself; a loop runs only if asked for, one pass at a time |
| Sibling services and signs of life (`ecosystemHealth.ts`, `robotLiveness.ts`, `updateCheck.ts`, `routes/upstreamRoutes.ts`, `voiceConfirm.ts`) | when heard, kept report, requests | `Health`, `Updates`, `ServiceSwitches` | nothing risky without its confirmation; the record says what was done |
| Works and models (`routes/worksRoutes.ts`) | files and their lists | `Works` | what was taken is there, whole |

How they meet: a command of `commandRoutes.ts` checks the claim and the arming (RobotControl), changes the tree and awaits
its write (SettingsCore), the write is a transaction (TxnFiles), its delta is broadcast when the write is done (Playback).
Commands of the broker and of the phones come to the same route over the loopback address (CommandRelays). The presence
and the relay change the same tree by callbacks (`stopRobot`, `server.ts:691`), which queue their writes without awaiting
them. A change of an account ends its sessions (Sessions); the second factor, the keys and the limits are asked on the way in.

## 2. The plan, and what is left of it

The modules were built in the order of what matters most to somebody beside a robot: the store, the tree, the control of a
robot, playback, presence, hand-over, sessions; then the processes and records around them; then what travels to other
programs; then the options and services. `SettingsCore` takes a write as one step because `TxnFiles` implements
`AtomicFiles`; `Playback` and `RobotControl` take the parts of a command that `SettingsCore` leaves abstract, so that no
module has the product of their states. What is left:

1. To prove: the invariants of the records and options of `side_by_side`, which stay with TLC.
2. To model: the plain mode of the store, the list of clients, the records of voice and trust.

## 3. The modules

Each handler is one action up to its first `await`, and what follows the `await` belongs to the action that ends it. A
definition commented *variant* is a plausible slip: `PROJECT.json` substitutes one for each property of a run, the others
were substituted by hand while the modules were written; no specification uses one. Bounds on counters are constants
commented *bound* (named `Max...`) and stand in the guards.

### The robots and their settings

**AtomicFiles** - what the store promises: a set of files is replaced in one step by a newer content.

**TxnFiles** - `commitFiles` step by step (stage each file, rename the manifest, rename each file, remove the directory),
the queue in front of it, faults of the file system, cuts at every await, and the recovery at the next start, itself cut
or failing. A file's content is the number of the write it is from. The refinement maps the disk to what an undisturbed
recovery would leave (`Recovered`), because the manifest is the commit point, and ends the promise once a rename was given up.
Assumed: the clock in the directory names does not go back; renames reach the disk in order. Only the journal mode is modelled.

**SettingsFiles** - what the files are made of: the tree split into `settings.json` and points files found by a safe path,
copies at intervals, the newest copy that parses taken when the file is damaged.

**SettingsCore** - the tree in memory, the tree on the disk and the queue of writes between them. Commands change the memory
at once and await the write; a save awaits the write and then replaces the memory. A tree carries the numbers of its last
changes, which stand for its revision. Claims neither lapse nor are forced here (RobotControl has that).

**RobotEdits** - what a command or a save may make of a robot: repeated ids, targets of the bed and moves of the table
within limits that change meanwhile, another model, combined robots.

**RobotCommands** - what each command of a robot changes, on it and on the robots combined with it: outputs, tool, speed, motion,
points, role and layout; the checks each has; the delta that waits for the write; a stop of all; a save that replaces the tree.
As a part of its own, which of the movements of a stream go into the audit record while the clock may be set back.

**RobotControl** - claims by account and controller, forced by administrators, lapsing; the arming of the jog; the
safe mode; `JogSequence` with its limit of marks; commands delivered in any order and twice. Times to live lapse at any
moment; a mark lapses (after an hour) only when nothing of its caller is under way.

**Playback** - the playback state of each robot with its timer; a command broadcasts when its write is done, a tick at once;
clients of schema 1 get the whole tree, those of schema 2 the part that changed.

**OperatorPresence** - `beat`, `tick`, `lose`, `enforce`, `hold`, `ramp`, with integer speeds rounded as `Math.round` and
`Math.ceil` do. Time is the age of the last heartbeat in seconds, cut off above the timeout. Commands, claims and settings
change in between. A restart is a new initial state (robots of any speed).

**HandOver** - the pass of the relay (read, stop, acknowledge, remember) and the tick of the takeover (health, replica,
delivery, retry), each call with an answer, a loss or a timeout. The dispatcher and the two orchestrators are external: one
registry stands for the dispatcher and the primary, since a mission has the id of its job. An acknowledgement whose
answer is lost was taken by the dispatcher before its timeout or never. The attempt counter of the registry is external too,
and so is the question whom a mission is given to: `SameAgain = FALSE` says that it goes to no robot it was with before (the history
`had`), with any number of attempts. The addresses, switches and timers of both loops are in Lifecycle.

### Who comes in

**Sessions** - accounts with an identity and a version, changed under a lock while passwords are hashed; sign-ins whose hash
is awaited between the look at the account and the token; refresh tokens with their limit and rotation, device tokens,
open connections with their heartbeat. **SecondFactor** - enrolment, codes, recovery codes, the wait after wrong ones,
each changed in memory and then saved. **JwtKeys** - rotation, overlap, the file and its failures, the policy of the algorithms.
**Requests** - the rule for requests from outside, fixed windows of requests with numbers that change, sign-ins that are
looked at while others come; as a part of its own, the tickets of pictures and of the read-only information. **Connections** - clients and history with their limits, saved from time to time; how a
request is told to be of a client; the pages of the history. **Access** puts what lets people, commands and switches in side by
side - SecondFactor, JwtKeys, both parts of Requests, CommandRelays, BridgeSwitches - under one set of constants with their
assumptions: in a behaviour the parts of one member of `Together` move. It is what section 5 proves about them.

### Records

**AuditLog** - the chain over rotations, cut lines and restarts; and the log of the server, whose lines wait in streams
while files are renamed under them. **Feeds** - records that go into the memory first and into the file afterwards, the
faults and verdicts made from them. **Pictures** - four parts: the bytes of a stream as a recording and a photograph take
them; a live picture whose client may leave; the table of recordings, whose starts wait for a connection and whose stops wait
for a loop, with the files and their deletion; and a camera that is asked to move or for its streams. **Works** - uploads and submissions with their lists, over writes that fail or are cut.

### Processes and links

**Cameras** - what the settings of a camera make of it (device, fingerprint, password), processes with the port they hold, health checks, scheduled respawns, saves of the tree, a kill of the server and
the pid file. **RetainedState** - what the bridge believes it published against what the broker keeps, with the last will.
**CommandRelays** - commands of the broker and of phones, the account of the bridge, the pace, one repetition.
**BridgeGateway** - who waits for a verb, answers without a name, timeouts, broken connections. **BridgeSwitches** -
signed retained switches, counters, clocks that go back. **BleGateway** - two parts: the queue of notifications,
acknowledgements before states, the helper that dies; and command messages cut into frames that are lost and joined.
**Links** puts Cameras, RetainedState, both parts of BleGateway and BridgeGateway side by side as Access does with its
parts: in a behaviour the parts of one member of `Moving` move.
**Outbound** - four parts: telemetry with its
pauses and limits; registrations of phones and their file; replies of the edge node; and the session with the push
service (credentials that change, a token of an hour, sessions that end).

### Options and services

**Options** - one option at a time through the environment, the file, a request with other sections beside it, and the
file of the dispatcher with its reload. **Lifecycle** - two parts: a life of the server (the first start, TLS, the port, the first account, the listener, the clean end
with its two seconds, an end asked for by an administrator, refusals, cuts); and the two loops for the dispatcher (words and
numbers of the environment and the file, passes, pauses that double, the signal that ends them). **Health** - two
scans over one memory; and the signal of life of the robots. **Updates** - the kept report and the look that is shared. **ServiceSwitches** - switches of
services with the line in the audit record, the flash of an image; and the voice relay, whose confirmed result is judged
by a key and rules that change meanwhile. **Relays** puts what travels to other programs side by side - the four parts of
Outbound, RobotCommands, both parts of ServiceSwitches, the live picture and the asked camera of Pictures - as Access and Links
do with theirs; `MCSideBySide` extends it and SettingsCore.

## 4. The runs

| Run | Instance | Distinct states | What it shows |
|---|---|---|---|
| `txn_files` | 2 files, 3 writes, 2 cuts, 2 faults | 114,448 | all or nothing, honest answers, files that never go back, every write answered, refinement of AtomicFiles |
| `control` | 2 robots moved together, 2 windows and an administrator, 2 numbered commands, 1 repeat, 1 restart; beside them the 6 parts of Access, one moving at a time | 635,760 | order of jogs and stops, halts, groups; codes, keys, limits, tickets, relayed commands and switches let in what they should |
| `playback` | 2 combined robots, 3 commands, 1 failure, 1 restart | 337,282 | a stop holds, a playback ends, schema 1 is right |
| `presence` | 2 operators, 1 robot, speeds 1 to 3, timeout 1 s, 2 heartbeats, ramp of 2 s | 269,136 | silence, trust, holding, smooth return, speeds given back |
| `handover` | 1 mission assigned twice, 2 robots, 1 outage, 2 deliveries, 1 restart | 135,048 | one robot for a mission, true proofs, requests and outages dealt with |
| `sessions` | 2 names, 2 passwords, 1 device, 2 accounts, 2 versions, 1 token, connection and sign-in at a time | 625,204 | what a change ended opens nothing again, and its connections are closed |
| `side_by_side` | 26 parts, one moving at a time; the tree with 4 changes, 1 failure, 1 restart; 2 robots, of which one is combined with the other, with 2 commands, 1 save, 1 failure; 3 passes of a loop | 1,485,027 | the settings tree, records, relays, options (below) |
| `settling` | 1 camera and 2 saves; 2 robots on the broker; 2 phones and their frames; 3 requests to a bridge | 187,301 | links show what they should while quiet, and everything settles once faults end |
| `core_saves` | 1 robot, an administrator and an operator | violation | a conditional save replaces a command applied while its write was awaited |
| `playback_parts` | as `playback` | violation | a late delta of a play leaves schema 2 wrong |
| `presence_left` | leftImmediate off | violation | a LEFT shortens the way back to trust |
| `options_kept` | one option and one request | violation | a section is answered with success and changes nothing |

*Side by side.* The smaller components share nothing, so `MCSideBySide`, `MCSettling` and `MCRobotControl` put them into one run each: in a
behaviour one part moves and the others stay at their start, which adds their states instead of multiplying them. Their
properties are conjunctions of "if this part moves, its property holds", so that an invariant is looked at only in the
states it speaks of; comparisons that no state can change (`VersionsAreOrdered`, the decisions) are looked at in the first
states of a part. The comment of each conjunction names the properties and the sources. `Access`, `Links` and `Relays` are the parts that section 5
proves something about: they have their own constants, assumptions and specification, and `MCRobotControl`, `MCSettling` and `MCSideBySide` extend or instantiate them. A history of the tree in which a save
replaced what its client had not read is not followed further: nothing is said of it (`Undisturbed`).

*Why the bounds are enough.* Each is the least at which the hazards happen: three writes let a leftover, a newer and a
newest write meet; two cuts put the second into the recovery of the first; four changes let a save, two commands and a
save overlap; two numbered commands and a repeat give every reordering of a jog and a stop; two robots give a group and two
operators a claim that passes between them; two assignments give a mission taken from one robot and given to another; two
versions of an account and two identities give every old token something it must not open; nine lines with two to a file
rotate past the files that are kept; frames numbered modulo three wrap within one message as they do modulo 256; two
moments of health scans let the one dated first end last. More would repeat these cases; the proofs of section 5 do not
depend on them. In `handover` a single mission never fills the proofs (`maxProofs`), so the removal of the oldest is
modelled but not exercised.

*Deadlock* is not checked: with the bounds used up, the models stop where the server would wait for the next request.

*Fairness.* `TxnFiles`: the promise chain goes on with a write under way and with a recovery; nothing is assumed of callers, faults or
cuts. `Playback`: an interval timer fires again (strong, because the bound of the queue, which the code has not, may
disable a tick in between) and a queued write is done. `OperatorPresence`: the clock runs and `setInterval` of
`server.ts:493` fires. `HandOver`: both loops set their next timer in `finally` whatever became of the last
pass, every call ends in an answer or its abort, and a read of the requests succeeds again. `Sessions`: the heartbeat of
the connections fires. `Cameras`: health checks and respawns fire, exits are told, a streamer that is told to end ends, and
one that is killed again and again before it opens does open in the end (strong: the camera answers). `RetainedState`,
`BleGateway`, `BridgeGateway`: timers fire, the client library reconnects and publishes, the network delivers what was
written to a connection that lives, the radio takes a frame. The other modules need none: their properties are safety.

*Conditions worth knowing.* The properties of the tree but `ConditionalSaveReadAll` speak of histories in which no save
replaced an unread change; `core_saves` shows that `If-Match` does not give this. `RequestIsDelivered` and `EvidenceIsTrue`
hold for `SameAgain = FALSE`: when a mission returns to a robot it was taken from, the second fails,
and so does the first, for a request that is closed and opened again between two reads. `OneRecording` speaks of starts
that do not overlap, `OptionsHold` of sections that the server forwards, `RestartGivesBack` of robots with a path of their
own, `OnlyFailuresCount` allows for the successes of an earlier window.

## 5. What is proved

`TxnFilesProofs` proves for every number of files, writes, cuts and faults: `TypeOK`, `CutIsAllOrNothing`,
`OutcomeIsHonest`, `IdleFilesMatch`, `DiskNeverGoesBack` and that `TxnFiles` implements `AtomicFiles`. The invariants are not
inductive alone. `Inv` adds that the write under way is newer than everything committed (`CurIsNew`), that nothing on
the disk is newer than the last write taken (`NothingFromTheFuture`), that while nothing was given up at most one
committed directory, the current one or the one a cut left, holds anything to apply (`OneToApply`), that what it holds is
the newest committed content and every other file is in place (`StagedIsNewest`), and that the answers agree with it
(`AnswersMatch`). Each part has a lemma with one step per action; the refinement follows because `Recovered` equals
`committed` under `Inv`, and only `Commit` changes `committed`.

`RobotControlProofs` proves five properties of `RobotControl`, for any accounts, controllers, groups, marks and numbers of
commands. `HaltHolds` and `DisabledIsDisarmed` speak of the checks of a jog and of the safe mode; what keeps them is that
whatever halts a robot takes its arming away (`HaltedIsDisarmed`), and that a robot in safe mode cannot be armed. For the
group (`HeldRobotsStay`), `JogIsAllowed` shows that nothing but a jog that passed its checks is ever added to the log;
that needs the shapes of the commands under way (`TrafficOK`). `JogsInOrder` needs `OrderInv`: a caller has one mark for each
robot (`KeysOK`), numbers under way were sent (`NumberedOK`), and whatever is under way is younger than what was carried out or refused
by a mark that is still there (`Marked`). The last holds while no mark is pushed out, which is the hypothesis `MarksFit` of `OrderCorrect`: fewer
pairs of a caller and a robot send numbers than the table holds. Without it the property is false (section 6).

`OutwardProofs` proves the types (the cursor never leaves the trajectory), `StoppedMovesNothing` and `WholePictureIsRight`
of `Playback`, for any combinations of robots. A timer runs only on a robot somebody wants to move (`TimersWanted`), because
each action that ends the wish clears the timer in the same step; and while no write failed, a picture that differs from the
robots has a write queued that will send it (`WillBeSent`): a tick sends its own delta alone, so a queued tick is not enough.

`OperatorPresenceProofs` proves the five safety properties of `OperatorPresence`, for any operators, robots, speeds and settings.

- `SilentCorrect` (`SilentIsLost`): the property says nothing while the presence is switched off, so it is not inductive:
  the switch could come on again over an operator that is silent. `SilenceInv` says more: once the tick of a second has
  run, whoever is silent is lost *whether the presence is on or off* (off, the tick forgets everybody), and an operator
  nobody has heard of has no running clock.
- `TrustCorrect` (`TrustIsEarned`), under the assumption `LeftImmediate`, the default: `TrustInv` ties the counter
  `goodBeats` to the history: it is never ahead of the heartbeats in a row (`Earned`). `EvaluatedEarned`, `HeardEarned`
  and `LeftEarned` show it of one operator, and the steps of the module follow. Without the assumption it is false, as the
  run `presence_left` shows.
- `TypeCorrect`, `HeldCorrect` (`LostIsHeld`) and `ReturnCorrect` (`ReturnIsSmooth`): these rest on arithmetic. `DivBounds`,
  `DivGrows` and `ShareGrows` say that the rounded share of a speed is no more than the speed and grows with it, by no more
  than it; `RobotsFit` that a held robot keeps as its cap the share of the speed it had; `Lowers` that holding starts
  and raises nothing; `RampStepFacts` that a step of the ramp is at most that of the highest speed.

`HandOverProofs` proves the types of `HandOver` and, when no mission returns to a robot it was with, `OneRobotWorks` and
`EvidenceIsTrue`, for any missions, robots, attempts, outages and restarts. `StopInv` follows a stop from hand to hand:
the registry's holder had the mission (`HolderHadIt`), whoever works is the holder (`WorkIsAssigned`), the stop is asked of the
holder (`AskedIsHolder`), and from the stop on the relay (`RelayIsTrue`), the proofs (`ProofsAreTrue`) and what was sent
(`SentIsTrue`) speak of a robot that is *gone* from the mission. That something is gone stays so (`GoneStays`) is where
`~SameAgain` is used. It is not enough that a mission does not return to the robot it was just taken from: with a third
assignment the proof of the first would count again, and the invariant is not inductive.

`SessionsProofs` proves the types, `SessionsAreTrue` and `EndedStaysEnded` of `Sessions`, for any names, passwords, devices
and limits. What matters is not only the accounts file but what a change under way *will* write: every session that is
carried anywhere (token, refresh token, connection, sign-in whose hash is awaited) is `Honest` towards the file and towards
the file each change is about to save (`CarriedInv`), likewise the role of a connection (`SocketsInv`). A change may raise
versions and end accounts, but what is dead stays dead and identities are never given out twice (`Follows`, `IdsFit`).

`SideBySideProofs` proves `TypeOK` and `AnswersStay` of `SettingsCore` for any robots and clients and any number of changes,
failed writes and restarts; it assumes that administrators are clients and that nobody is not one (`ConstantsFit`). A
*pledge* is a command and what ends it (a stop and a move, a disable and a move or an enable, a claim and a release).
`PledgeInv` says that what was answered holds in the memory, in the file *and in every tree that a command has queued*
(`ToldHolds`), that what is still to be answered holds in each tree written with it or later (`QueuedHolds`), and that
a save changes no robot of the page it was made from (`Numbered`). Trees of saves are left out of the first two: one reaches the
file only together with the memory, and when the memory was not its page the history is disturbed. `CommandKeeps` and
`CommandGives` show it of one command, `AppendPledges` and `TailPledges` of the queue.

It also proves `RestartsLoseNothing` (`DiskCorrect`): what was answered is stored (`AnsweredIsStored`) and the disk catches up
with the memory (`DiskCatchesUp`), both by `StoreInv`. The queue is in
the order of the numbers and a save is numbered after all its page holds (`Ordered`, `Stamped`). While nothing is disturbed,
the memory, the file and each tree a command has queued *cover* the answers, and what is still to be answered is covered by
each such tree from its own on (`TreesCover`); the last of them is the memory, or the file is when there is none
(`LastIsMemory`). Neither says anything of the trees of saves, which may be old; `NoneBehind` closes the gap: behind a save that finds
the memory as its page no command is queued, for it would be in the memory and not in the page. The theorem is about
servers with a robot (`Robots # {}`): without one they are false (section 6).

`AccessProofs` proves `AccessTypeOK`, `SignInsAreTrue` and `CommandsComeOnce` of `Access` for any limits, lives, overlaps and
numbers of codes, keys, requests, tickets, commands and messages, and for parts that move in any order together. Each part has
an inductive invariant of its own; a step of one leaves the others as they are, so the theorems put six proofs side by side:

- *Second factor* (`FactorInv`): no code that worked is taken by the record in memory *or by the one on the disk* (`Unused`), and a
  code belongs to an enrolment that was begun: a code used before a failed save or a restart is not taken again.
- *Keys of the tokens* (`KeyInv`): the keys in memory and in the file have different names, none of them is newer than the last one
  made, and at most one of each is active (`Keyring`); and for every token that must still verify, both hold its key for as
  long as it lives (`Covers`). It is assumed that `Lifetime <= Overlap`, as by default (30 days each): nothing in the code
  enforces it, and with a shorter overlap the property is false (section 6).
- *Limits* (`LimitInv`): the count of sign-ins is the failures plus those that are still looked at, less at most the successes
  that began in an earlier window (`Counted`). The induction is over finite sets of sign-ins under way, by cardinality.
- *Tickets* (`TicketInv`): a ticket ends no later than its life after it was issued, to half a second, whatever the secret,
  the configuration and the request said (`Halves`), and opens the kind it was issued for.
- *Relayed commands* (`RelayInv`): what was carried out, how often it was tried and what the reply says belong together in each
  stage of a command (`Relayed`), so that the one repetition follows only an answer that says it was not carried out.
- *Switches of a bridge* (`SwitchInv`): versions grow along file, retained message, network and bridge; and *until the clock is set
  back* the counters of the signed messages say the same as the versions.

`OutwardProofs` also proves `LinksAreTrue` of `Links`, types and limits included, for any cameras, robots, phones, lengths and
numbers of frames, requests, verbs and bounds, again with the parts moving in any order together:

- *Cameras* (`CamerasInv`): each camera is as its settings ask for (`Captures`). Its entry carries the fingerprint of those settings
  and tracks a process that was started with their device and not told to end (`Suits`); every other process is gone or
  told to end. A scheduled respawn may outlive a save, so each remembers the device *of every configuration with its
  fingerprint* (`TimersTell`): firing late, it starts the wanted process or none. The pid file lists the tracked process and
  no other. `FingerprintsTell` is why that is enough: settings with one fingerprint make one device.
- *Broker* (`BrokerInv`): what is on the way *ends with* what the bridge believes of a robot, of its own status and of the stop,
  or says nothing of it and the broker already shows it (`Ends`). `EndsAfter`, `EndsTaken` and `EndsPicked` carry this over
  a publication, a delivery and a break of the connection that drops the messages without QoS.
- *Phones* (`RadioInv`): what waits is acknowledgements in order and then at most one state (`Waiting`), all of them later than what
  was heard; the message that is cut into frames meanwhile has left the queue (`InTurn`).
- *Frames* (`FrameInv`): the frames on the way are the rest of one message (`Remains`), and what is joined is a beginning of it, as long
  as fewer frames than the modulus were lost in a row (`JoinedUpTo`): a frame that carries the awaited number is then the
  awaited frame, because two numbers less than a modulus apart and with the same remainder are equal (`SameRemainder`).
- *Machine bridges* (`GatewayInv`): whoever is entered for a verb is waiting, has a timer and no answer, and whoever has a timer is entered unless it was
  displaced or failed (`Entered`); what is on the way was given to nobody (`OnTheWay`), so no answer is given twice.

`SideBySideProofs` also proves `RelaysAreTrue` of `Relays` (`RelaysCorrect`), for any sources, devices, robots, requests, users, paths and
bounds. It is assumed that a provider token is renewed before the push service refuses it (`TokenLife <= TokenHour`: 45
minutes in the code, and the hour of Apple), that a camera offers a path to try, and that nothing is named `None`. The parts of `RelaysInv`:

- *Telemetry* (`SamplesInv`): whatever was collected of a source is before all that waits of it, and each is in its order.
- *Push service* (`PhonesInv`, `SessionInv`): what a registration is owed is on the disk; the token in use is the last one made,
  tokens were made more than a quarter of an hour apart, and each notification went with one of its hour.
- *Edge node* (`ChannelInv`): a reply that was accepted was signed with the secret of the open channel, and either its nonce is still remembered
  or it is too old for the window by now (`Kept`), so that it is not accepted again; what waits was asked with that secret (`Posed`).
- *Clients* (`CommandsInv`): a field that nobody is still to be told of is shown as it is; where a delta waits, the *last* one that
  tells of the field tells it as it is. An earlier one may tell of an older value, because a later one repairs it. A
  save replaces the tree under the deltas that wait: those tell of a tree that is gone (`~ofTree`), and what they tell of is in doubt.
- *Services* (`ServicesInv`): what is carried out had the confirmation its kind needs, and a refused request is over at once; at
  most one decision on a proposal was carried out, after which it waits no more.
- *Voice* (`VoiceInv`): every result that is signed with the key belongs to a spoken request that was used, an answer that a user
  waits for is worth what its signature says (`Honest`), so a confirmation told as verified names a request of their own.
- *Cameras* (`ViewInv`, `AskingInv`): a client that leaves before there is a connection is remembered; a search has found every
  path already tried that opens, except those it is known to miss, in order and once each (`Searching`); a movement is told as what the camera did (`TurnIsTold`).

Facts about sequences (an element removed, put at the end, taken from the front) are lemmas by position in the module that
needs them: the provers cannot use `SelectSeq`. Where the code filters a queue, the models choose the positions and count them
(`At` of BleGateway, `Kept` of RetainedState), and `PickedFacts` says what that gives.

Only model-checked: liveness (`EveryWriteAnswered`, `PlaybackEnds`, `SpeedsReturn`, `RequestIsDelivered`,
`OutageIsDecided`, `EndedCloses`, `PartsSettle`), which is out of the prover's reach, and the invariants `RecordsVerify`
and `OptionsHold` of `side_by_side`: conjunctions over the smaller parts, each of which needs an invariant of its own that is
not worked out.
`IdleFilesMatch` and `DisabledIsDisarmed` are proved and have no run of their own. Assumptions on constants are named
in each module and evaluated by TLC in the run that uses it.

## 6. Findings

Four runs end in a violation that a line of the code or of its documentation denies: `core_saves`, `playback_parts`,
`presence_left`, `options_kept`. `PROJECT.json` quotes the lines and says what each counterexample does.

Met while modelling, without a run of their own (the models follow the code, the properties leave the case out by name):

- *Tree.* A stop of all robots that is asked for while a save is written takes the tree from before the save, and is written after it
  (`commandRoutes.ts:203`): the file loses the saved configuration until the next write. With robots the save is seen to replace
  the stop (the case of `core_saves`); on a server without robots the stop changes nothing, and nothing shows it.
- *Files.* A rename given up, a later write and a restart leave two moments side by side (`transactionalFiles.ts:83`). A cut
  between the two steps of a restore leaves no `settings.json` although copies exist (`settingsStore.ts:180`). A damaged file
  is itself copied as the newest copy. Two ids with the same safe path share one points file. A damaged list of submitted models
  reads as empty, and the next submission forgets the others.
- *Robots.* A stop of one robot of a group leaves the arming of the others (`routes/commandRoutes.ts:365`). A command on a
  robot combined with a repeated id moves every robot of that id (`:244`, `:269`). The ramp takes a speed changed back to its last
  step for untouched (`operatorPresence.ts:301`), and a restart forgets who was lost (`:117`). A pause sets `isPlaying` on a robot
  that was never started. A full table of marks drops the one that is needed (`jogSequence.ts:38`). Overlapping changes of limits
  lose one another, and one that is given up after its commit is in force at the next start (`safetyLimits.ts:184`).
- *Hand-over.* The proof of an earlier attempt is sent for a later one (`orchestratorTakeover.ts:230`); a request closed and
  opened again between two reads is taken for the old one (`jobStopRelay.ts:198`).
- *Who comes in.* A renewal refused by the rule for outside has already rotated the token (`routes/auth.ts:169`). Revoking a device
  token closes no open connection (`routes/deviceRoutes.ts:65`, against `deviceTokens.ts:37`). A success begun in an earlier
  window takes a failure of the new one off the count. Tickets survive a removed account until they expire. An overlap of keys shorter
  than the life of the tokens (`keyOverlapSeconds` may be 60 s) ends tokens at a rotation (`jwtKeys.ts:52`, against `:15`).
- *Records.* Overlapping starts of a recording leave one that cannot be stopped (`routes/cameraRoutes.ts:267`); the frame count is
  written before the file is finished (against `:330`). The numbering of the audit record starts again at 0 after a rotation,
  a failed append and a restart. The audit line of a switched service is written on `finish` and lost when the client leaves
  (`routes/upstreamRoutes.ts:241`, against `:221`). Lines of a log stream that broke are lost until the next rotation.
- *Links.* A late answer to a command that timed out is taken for the next with the same verb, and a failed publication removes
  another's entry (`bridgeGateway.ts:274`). Frames of the radio carry no number of their message: losing sixteen in a row goes
  unnoticed. A clock set back makes signed switches be refused until it has caught up. An older outcome of a reload overwrites a
  newer one (`server.ts:377`).
- *Start and end.* A damaged `server-config.json` reads as empty, which turns TLS off. A pid file of before a reboot may name another
  process (`cameraSupervisor.ts:111`). A save during the two seconds of the end starts a camera again.
- *Signal of life.* The age is rounded: news just older than the limit still counts as live (`robotLiveness.ts:71`, against `:8`).

## 7. What is not modelled

Formatting, logging, the audit events of most modelled handlers, and the components marked `not_modelled` in `PROJECT.json`: the
kinematics (floating-point arithmetic), the record of a command and the relays of identity (derived from one request; no
step of another actor changes them), sentences and plain relays, metrics and information (reads), static files, the
records of voice and trust (one more chained log, signatures), the adapters of Bluetooth (commands of the operating system), the admin
panel (a client) and what is not part of the running server. Signatures, hashes, passwords and the brokers, push services and
sibling programs are external: they are modelled by how the code uses them. In the modelled components the notes of
`PROJECT.json` name what is left out.

## 8. Running it

    tlc -workers 2 -config TxnFiles.cfg TxnFiles
    tlc -workers 2 -config MCSideBySide.cfg MCSideBySide
    tlapm TxnFilesProofs.tla
    tlapm RobotControlProofs.tla
    tlapm OperatorPresenceProofs.tla
    tlapm SideBySideProofs.tla
    tlapm OutwardProofs.tla
    tlapm HandOverProofs.tla
    tlapm SessionsProofs.tla
    tlapm AccessProofs.tla

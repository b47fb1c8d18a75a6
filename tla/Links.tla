-------------------------------- MODULE Links --------------------------------
(***************************************************************************)
(* What the server keeps up with things outside, side by side: the         *)
(* processes of the cameras, the retained state on the broker, the         *)
(* notifications and frames over Bluetooth and the commands to the machine *)
(* bridges. They share nothing; in a behaviour some of them move, in any   *)
(* order, and the others stay as they are at the start.                    *)
(***************************************************************************)
EXTENDS Integers, FiniteSets

CONSTANTS
  None,
  Moving, \* which parts may move in one behaviour
  \* Cameras
  CameraKeys, CameraConfigs, Misses, Slots, MaxCameraSaves, MaxCameraFaults,
  \* RetainedState
  Arms, MaxChanges, MaxHalts, MaxBrokerFaults,
  \* BleGateway: two parts
  Phones, Frames, MaxVersions, MaxAcks, MaxHelperFaults,
  Modulus, Lengths, MaxSize, MaxMessages, MaxRadioFaults,
  \* BridgeGateway
  Requests, Verbs, Rate, MaxGatewayFaults

VARIABLE moving

\* Cameras
VARIABLES asked, entry, procs, respawns, pidFile, installed, viaEnv, saves, cameraFaults
cameraVars == <<asked, entry, procs, respawns, pidFile, installed, viaEnv, saves, cameraFaults>>
Camera == INSTANCE Cameras WITH
  Keys <- CameraKeys, Configs <- CameraConfigs, MaxSaves <- MaxCameraSaves, MaxFaults <- MaxCameraFaults,
  wanted <- asked, timers <- respawns, faults <- cameraFaults

\* RetainedState
VARIABLES tree, changes, link, linked, lastPublished, flush, wire, retained, safety, announced, status, said, brokerFaults
brokerVars == <<tree, changes, link, linked, lastPublished, flush, wire, retained, safety, announced, status, said, brokerFaults>>
Broker == INSTANCE RetainedState WITH
  Robots <- Arms, MaxStops <- MaxHalts, MaxFaults <- MaxBrokerFaults,
  connected <- linked, timer <- flush, stopped <- said, faults <- brokerFaults

\* BleGateway: two parts
VARIABLES state, subscribers, notices, current, pendingState, coalesce, helper, acks, told, heard, ended, helperFaults
VARIABLES sending, sent, open, next, pieces, handed, skipped, run, radioFaults
radioVars == <<state, subscribers, notices, current, pendingState, coalesce, helper, acks, told, heard, ended, helperFaults>>
frameVars == <<sending, sent, open, next, pieces, handed, skipped, run, radioFaults>>
Radio == INSTANCE BleGateway WITH
  MaxFaults <- MaxHelperFaults, queue <- notices, timer <- coalesce, stopped <- ended, faults <- helperFaults, parts <- pieces

\* BridgeGateway
VARIABLES verb, phase, given, pending, waits, known, on, connected, window, toBridge, answers, displaced, gatewayFaults
gatewayVars == <<verb, phase, given, pending, waits, known, on, connected, window, toBridge, answers, displaced, gatewayFaults>>
Gateway == INSTANCE BridgeGateway WITH
  MaxFaults <- MaxGatewayFaults, timers <- waits, faults <- gatewayFaults

linkVars == <<moving, cameraVars, brokerVars, radioVars, frameVars, gatewayVars>>

\* Bounds and numbers are what they are called; the settings of a camera are such settings, and nothing is named None.
ASSUME LinksAssumption ==
  /\ CameraConfigs \subseteq Camera!CameraSettings /\ None \notin CameraConfigs
  /\ None \notin Camera!Entries /\ None \notin Camera!Processes
  /\ None \notin Slots /\ Slots # {} /\ Misses \in Nat \ {0} /\ {MaxCameraSaves, MaxCameraFaults} \subseteq Nat
  /\ IsFiniteSet(Arms) /\ MaxChanges \in Nat \ {0} /\ {MaxHalts, MaxBrokerFaults} \subseteq Nat
  /\ {Frames, MaxVersions} \subseteq Nat \ {0} /\ {MaxAcks, MaxHelperFaults} \subseteq Nat
  /\ Lengths \subseteq Nat \ {0} /\ Modulus \in Nat \ {0} /\ {MaxSize, MaxMessages, MaxRadioFaults} \subseteq Nat
  /\ None \notin Requests /\ {Rate, MaxGatewayFaults} \subseteq Nat

LinksInit ==
  /\ moving \in Moving
  /\ Camera!Init /\ Broker!Init /\ Radio!Init /\ Radio!FrameInit /\ Gateway!Init

\* One part takes a step.
LinkStep(part) ==
  /\ IF part = "cameras" THEN Camera!Next ELSE UNCHANGED cameraVars
  /\ IF part = "broker" THEN Broker!Next ELSE UNCHANGED brokerVars
  /\ IF part = "radio" THEN Radio!Next ELSE UNCHANGED radioVars
  /\ IF part = "frames" THEN Radio!FrameNext ELSE UNCHANGED frameVars
  /\ IF part = "gateway" THEN Gateway!Next ELSE UNCHANGED gatewayVars

LinksNext ==
  /\ moving' = moving
  /\ \E part \in moving : LinkStep(part)

LinksSpec == LinksInit /\ [][LinksNext]_linkVars

-----------------------------------------------------------------------------
\* Every variable has its type, and no queue or table exceeds its limit.
LinksTypeOK ==
  /\ Camera!TypeOK /\ Broker!TypeOK /\ Radio!TypeOK /\ Radio!FrameTypeOK /\ Gateway!TypeOK

\* A process of a camera that nobody told to end is the wanted one (cameraSupervisor.ts); the broker shows what the
\* bridge believes it shows (mqttBridge.ts); acknowledgements go out in order and before any state
\* (ble/bleGateway.ts), and a command message is handed on whole (ble/framing.ts); a client is given the answer to its own
\* command, or a late one that nobody waits for, and no verb stays busy (bridgeGateway.ts). And every variable has its type.
LinksAreTrue ==
  /\ LinksTypeOK
  /\ Camera!OnlyTheWanted
  /\ Broker!QuietIsTrue
  /\ Radio!AcksInOrder /\ Radio!MessagesAreWhole
  /\ Gateway!AnswersMatch /\ Gateway!BusyEnds
=============================================================================

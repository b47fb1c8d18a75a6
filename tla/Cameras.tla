------------------------------ MODULE Cameras ------------------------------
(***************************************************************************)
(* The processes that capture the cameras.                                 *)
(*                                                                         *)
(* A camera that is switched on has a streamer process on the port of its  *)
(* id. Saves of the tree start, replace and stop processes; a health check *)
(* kills one that sends no frames, and a timer starts it again. A process  *)
(* that was told to end goes on holding its port for a while, also into    *)
(* the next life of the server, which knows it from a file of pids.        *)
(*                                                                         *)
(* Each camera has its port (the ids of the cameras of a tree are taken    *)
(* to differ), its timers and its line of the pid file. A handler runs     *)
(* alone: the server is cut between two handlers. Delays are left out,     *)
(* so timers of one camera and configuration are one.                      *)
(***************************************************************************)
EXTENDS Integers, FiniteSets

CONSTANTS Keys,       \* cameras: controller and camera id
          Configs,    \* bound: the settings a camera may have
          None,
          Misses,     \* HEALTH_CHECK_FAILURE_THRESHOLD
          Slots,      \* bound: processes of a camera alive at a time
          MaxSaves,   \* bound: saves of the tree
          MaxFaults   \* bound: processes that end or hang by themselves, spawns that find no streamer, cuts

VARIABLES
  wanted,    \* the tree: what each camera should be
  entry,     \* cameraProcesses
  procs,     \* the processes of each camera, as the operating system has them
  timers,    \* the configurations of each camera a respawn is scheduled for
  pidFile,   \* data/camera-process-pids.json
  installed, \* is the executable of the streamer there?
  viaEnv,    \* does a password go to the streamer through its environment? The environment of the server says so, or not
  saves, faults

vars == <<wanted, entry, procs, timers, pidFile, installed, viaEnv, saves, faults>>

-----------------------------------------------------------------------------
(* The settings of a camera, and what its streamer is started with         *)

\* A camera of the network or one of this machine; without a source it is one of this machine. Both kinds of settings stay when the other
\* is in use. Paths differ by their first slash, and a password goes with a name or alone.
CameraSettings ==
  [connected : BOOLEAN, source : {None, "usb", "ip"}, hardware : {None, "0", "/dev/video0", "USB_DEV_0", "other"},
   host : {None, "h"}, port : {None, 0, 554, 8554}, path : {None, "live", "/live"}, user : {None, "u"}, pass : {None, "p"}]

LocalDevice(raw) == IF raw = "USB_DEV_0" THEN [local |-> "0"] ELSE IF raw \in {"0", "/dev/video0"} THEN [local |-> raw] ELSE None

\* The address of a stream, or the local device, or none if the settings are incomplete.
ComputeDeviceArg(c) ==
  IF c.source # "ip" THEN LocalDevice(c.hardware)
  ELSE IF c.host = None THEN None
  ELSE [host |-> c.host, port |-> IF c.port \in {None, 0} THEN 554 ELSE c.port,
        path |-> IF c.path = None THEN "/" ELSE "/live", user |-> c.user, pass |-> c.pass]

\* What decides whether a running process is started again: the settings as they are written, of the source in use.
CameraFingerprint(c) ==
  IF c.source = "ip" THEN <<"ip", c.host, c.port, c.path, c.user, c.pass>> ELSE <<"usb", c.hardware>>

DeviceCarriesCredentials(device) == "host" \in DOMAIN device /\ (device.user # None \/ device.pass # None)

\* The device is in the command line of the process, which everybody sees, or in its environment.
CameraSpawnSpec(device) ==
  IF viaEnv /\ DeviceCarriesCredentials(device) THEN [line |-> None, env |-> device] ELSE [line |-> device, env |-> None]

Wanted == Configs \cup {None} \* None: the camera was deleted
Fingerprints == {CameraFingerprint(c) : c \in Configs}
Devices == {ComputeDeviceArg(c) : c \in Configs} \ {None}
Entries == [proc : Slots \cup {None}, print : Fingerprints, status : {"starting", "running", "error", "stopped"}]
\* signal: the last one sent; "reaped" is a SIGTERM that no SIGKILL follows.
Processes == [line : Devices \cup {None}, env : Devices \cup {None}, life : {"starting", "serving", "gone"}, hung : BOOLEAN,
              signal : {"none", "term", "reaped", "kill"}, misses : 0..Misses]
\* A timer starts its camera again as it was.
Timers == [device : Devices, print : Fingerprints]

TypeOK ==
  /\ wanted \in [Keys -> Wanted]
  /\ entry \in [Keys -> Entries \cup {None}]
  /\ procs \in [Keys -> [Slots -> Processes \cup {None}]]
  /\ timers \in [Keys -> SUBSET Timers]
  /\ pidFile \in [Keys -> SUBSET Slots]
  /\ installed \in BOOLEAN /\ viaEnv \in BOOLEAN /\ saves \in 0..MaxSaves /\ faults \in 0..MaxFaults

Alive(k, s) == procs[k][s] # None /\ procs[k][s].life # "gone"
Tracked(k) == IF entry[k] = None THEN None ELSE entry[k].proc
FreeSlot(ps) == CHOOSE s \in Slots : ps[s] = None

-----------------------------------------------------------------------------
(* What a camera becomes, as a record of its part of the state.            *)

Camera(k) == [entry |-> entry[k], procs |-> procs[k], timers |-> timers[k]]

Fresh(device) ==
  LET spec == CameraSpawnSpec(device) IN
  [line |-> spec.line, env |-> spec.env, life |-> "starting", hung |-> FALSE, signal |-> "none", misses |-> 0]

DeviceOf(process) == IF process.line # None THEN process.line ELSE process.env

\* SIGTERM now and SIGKILL after two seconds; the process is no longer the one of the camera.
Stopped(cam) ==
  IF cam.entry = None \/ (cam.entry # None /\ cam.entry.proc = None) THEN cam
  ELSE [cam EXCEPT !.procs[cam.entry.proc].signal = "term", !.entry.proc = None]

Started(cam, device, print) ==
  IF installed
  THEN LET s == FreeSlot(cam.procs) IN
       [cam EXCEPT !.procs[s] = Fresh(device), !.entry = [proc |-> s, print |-> print, status |-> "starting"]]
  ELSE [cam EXCEPT !.entry = [proc |-> None, print |-> print, status |-> "error"]]

\* Variant: an error that schedules nothing.
LostForever(cam) == [cam EXCEPT !.entry = [@ EXCEPT !.proc = None, !.status = "error"]]

\* An ended or killed process leaves its camera in error, to be started again.
Lost(cam) ==
  [cam EXCEPT !.entry = [@ EXCEPT !.proc = None, !.status = "error"],
              !.timers = @ \cup {[device |-> DeviceOf(cam.procs[cam.entry.proc]), print |-> cam.entry.print]}]

Reconciled(cam, w) ==
  LET stopped == Stopped(cam)
      without(print, status) == [stopped EXCEPT !.entry = [proc |-> None, print |-> print, status |-> status]]
  IN  IF w = None THEN [stopped EXCEPT !.entry = None]
      ELSE IF ~w.connected THEN without(CameraFingerprint(w), "stopped")
      ELSE IF cam.entry # None /\ cam.entry.print = CameraFingerprint(w) /\ cam.entry.proc # None THEN cam
      ELSE IF ComputeDeviceArg(w) = None THEN without(CameraFingerprint(w), "error")
      ELSE Started(stopped, ComputeDeviceArg(w), CameraFingerprint(w))

\* The file lists the processes of the cameras only.
Listed(cam) == IF cam.entry = None THEN {} ELSE {cam.entry.proc} \ {None}

\* Variant: a timer that starts whatever has stopped.
RespawnAlways(cam, timer) == cam.entry # None /\ cam.entry.proc = None

\* A timer starts its camera only while that has stopped in error with the same connection.
RespawnIsDue(cam, timer) ==
  cam.entry # None /\ cam.entry.proc = None /\ cam.entry.print = timer.print /\ cam.entry.status = "error"

Become(k, cam) ==
  /\ entry' = [entry EXCEPT ![k] = cam.entry]
  /\ procs' = [procs EXCEPT ![k] = cam.procs]
  /\ timers' = [timers EXCEPT ![k] = cam.timers]
  /\ pidFile' = [pidFile EXCEPT ![k] = Listed(cam)]

\* A process that ended: its exit is yet to be told if it is the camera's, and says nothing otherwise.
Ended(k, s) == IF Tracked(k) = s THEN [procs[k][s] EXCEPT !.life = "gone"] ELSE None

HasRoom == \A k \in Keys : \E s \in Slots : procs[k][s] = None

-----------------------------------------------------------------------------
(* The server                                                              *)

\* A save reconciles every camera, so it also starts those that wait for their timer.
Save(k, w) ==
  /\ saves < MaxSaves /\ HasRoom
  /\ saves' = saves + 1
  /\ wanted' = [wanted EXCEPT ![k] = w]
  /\ LET after == [j \in Keys |-> Reconciled(Camera(j), wanted'[j])] IN
       /\ entry' = [j \in Keys |-> after[j].entry]
       /\ procs' = [j \in Keys |-> after[j].procs]
       /\ timers' = [j \in Keys |-> after[j].timers]
       /\ pidFile' = [j \in Keys |-> Listed(after[j])]
  /\ UNCHANGED <<installed, viaEnv, faults>>

\* What the port says: frames arrive if a process that is not stuck serves it, whichever it is.
PortIsHealthy(k) == \E s \in Slots : Alive(k, s) /\ procs[k][s].life = "serving" /\ ~procs[k][s].hung

HealthCheck(k) ==
  /\ Tracked(k) # None
  /\ LET s == Tracked(k)
         cam == Camera(k)
         missed == procs[k][s].misses + 1
     IN  IF PortIsHealthy(k)
         THEN Become(k, [cam EXCEPT !.entry.status = "running", !.procs[s].misses = 0])
         ELSE IF missed < Misses
              THEN Become(k, [cam EXCEPT !.procs[s].misses = missed])
              ELSE Become(k, Lost([cam EXCEPT !.procs[s].misses = 0, !.procs[s].signal = "term"]))
  /\ UNCHANGED <<wanted, installed, viaEnv, saves, faults>>

Respawn(k, timer) ==
  /\ timer \in timers[k] /\ HasRoom
  /\ LET cam == [Camera(k) EXCEPT !.timers = @ \ {timer}] IN
       IF RespawnIsDue(cam, timer)
       THEN Become(k, Started(cam, timer.device, timer.print))
       ELSE timers' = [timers EXCEPT ![k] = @ \ {timer}] /\ UNCHANGED <<entry, procs, pidFile>>
  /\ UNCHANGED <<wanted, installed, viaEnv, saves, faults>>

\* The exit of a process is told; of one that is no longer the camera's it changes nothing.
ExitEvent(k, s) ==
  /\ procs[k][s] # None /\ procs[k][s].life = "gone"
  /\ Become(k, [(IF Tracked(k) = s THEN Lost(Camera(k)) ELSE Camera(k)) EXCEPT !.procs[s] = None])
  /\ UNCHANGED <<wanted, installed, viaEnv, saves, faults>>

KillTimer(k, s) ==
  /\ Alive(k, s) /\ procs[k][s].signal = "term"
  /\ procs' = [procs EXCEPT ![k][s].signal = "kill"]
  /\ UNCHANGED <<wanted, entry, timers, pidFile, installed, viaEnv, saves, faults>>

\* The process of the server ends and is started again: its timers are gone. In order, it stops its processes
\* first, and its file is empty; cut off, its file is read and what lives is told to end.
Restart(orderly) ==
  /\ faults < MaxFaults /\ HasRoom
  /\ faults' = faults + 1
  /\ LET left(j) == IF orderly THEN Listed(Camera(j)) ELSE pidFile[j]
         ended(j) == [s \in Slots |->
           IF procs[j][s] = None THEN None
           ELSE IF s \in left(j) \/ procs[j][s].signal = "term" THEN [procs[j][s] EXCEPT !.signal = "reaped"]
           ELSE procs[j][s]]
         after == [j \in Keys |-> Reconciled([entry |-> None, procs |-> ended(j), timers |-> {}], wanted[j])]
     IN  /\ entry' = [j \in Keys |-> after[j].entry]
         /\ procs' = [j \in Keys |-> after[j].procs]
         /\ timers' = [j \in Keys |-> after[j].timers]
         /\ pidFile' = [j \in Keys |-> Listed(after[j])]
  /\ UNCHANGED <<wanted, installed, viaEnv, saves>>

-----------------------------------------------------------------------------
(* The streamer, another program: it serves its port, or ends when another *)
(* one holds it; it ends on SIGTERM unless it is stuck, and on SIGKILL.    *)

Open(k, s) ==
  /\ Alive(k, s) /\ procs[k][s].life = "starting" /\ procs[k][s].signal = "none" /\ ~procs[k][s].hung
  /\ procs' = [procs EXCEPT ![k][s] =
       IF \E o \in Slots \ {s} : Alive(k, o) /\ procs[k][o].life = "serving"
       THEN Ended(k, s) ELSE [@ EXCEPT !.life = "serving"]]
  /\ UNCHANGED <<wanted, entry, timers, pidFile, installed, viaEnv, saves, faults>>

Terminate(k, s) ==
  /\ Alive(k, s) /\ procs[k][s].signal # "none" /\ (procs[k][s].hung => procs[k][s].signal = "kill")
  /\ procs' = [procs EXCEPT ![k][s] = Ended(k, s)]
  /\ UNCHANGED <<wanted, entry, timers, pidFile, installed, viaEnv, saves, faults>>

Fail(k, s) ==
  /\ Alive(k, s) /\ faults < MaxFaults
  /\ faults' = faults + 1
  /\ \/ procs' = [procs EXCEPT ![k][s] = Ended(k, s)]
     \/ procs' = [procs EXCEPT ![k][s].hung = TRUE]
  /\ UNCHANGED <<wanted, entry, timers, pidFile, installed, viaEnv, saves>>

Reinstall ==
  /\ faults < MaxFaults
  /\ faults' = faults + 1 /\ installed' = ~installed
  /\ UNCHANGED <<wanted, entry, procs, timers, pidFile, viaEnv, saves>>

-----------------------------------------------------------------------------
\* The first start: no process, and each camera as the tree has it.
Init ==
  /\ installed = TRUE /\ viaEnv \in BOOLEAN /\ saves = 0 /\ faults = 0
  /\ wanted \in [Keys -> Wanted]
  /\ LET new == [entry |-> None, procs |-> [s \in Slots |-> None], timers |-> {}]
         after == [k \in Keys |-> Reconciled(new, wanted[k])]
     IN  /\ entry = [k \in Keys |-> after[k].entry]
         /\ procs = [k \in Keys |-> after[k].procs]
         /\ timers = [k \in Keys |-> {}]
         /\ pidFile = [k \in Keys |-> Listed(after[k])]

OfProcess(k, s) ==
  ExitEvent(k, s) \/ KillTimer(k, s) \/ Open(k, s) \/ Terminate(k, s)

Next ==
  \/ \E k \in Keys : \/ \E w \in Wanted : Save(k, w)
                     \/ HealthCheck(k)
                     \/ \E timer \in Timers : Respawn(k, timer)
                     \/ \E s \in Slots : OfProcess(k, s) \/ Fail(k, s)
  \/ \E orderly \in BOOLEAN : Restart(orderly)
  \/ Reinstall

\* The interval of the health check fires again, timers fire, exits are told, and a streamer that is told to end
\* ends. One that is killed before it had the time to open does open in the end (strong): the camera answers.
Fairness ==
  \A k \in Keys : /\ WF_vars(HealthCheck(k))
                  /\ \A timer \in Timers : WF_vars(Respawn(k, timer))
                  /\ \A s \in Slots : WF_vars(OfProcess(k, s)) /\ SF_vars(Open(k, s))

Spec == Init /\ [][Next]_vars /\ Fairness

-----------------------------------------------------------------------------
(* Properties                                                              *)

\* Whatever saves, respawns, exits and restarts come together, a process that nobody told to end is the one of
\* its camera, has the connection the tree asks for, and is in the file the next server reads. No password is in the list of processes
\* unless that was asked for.
OnlyTheWanted ==
  \A k \in Keys, s \in Slots :
    Alive(k, s) /\ procs[k][s].signal = "none" =>
      /\ Tracked(k) = s /\ s \in pidFile[k]
      /\ wanted[k] # None /\ wanted[k].connected /\ DeviceOf(procs[k][s]) = ComputeDeviceArg(wanted[k])
      /\ viaEnv /\ procs[k][s].line # None => ~DeviceCarriesCredentials(procs[k][s].line)

\* A camera comes to what the tree asks for once saves and faults end: on, one process, which serves its port;
\* otherwise none. It is said while the streamer stays installed (a spawn that does not find it is not tried
\* again) and no stuck process of an earlier server is left (it gets no SIGKILL, cameraSupervisor.ts:116).
Served(k) ==
  IF wanted[k] # None /\ wanted[k].connected /\ ComputeDeviceArg(wanted[k]) # None
  THEN \E s \in Slots : /\ Tracked(k) = s /\ procs[k][s].life = "serving" /\ DeviceOf(procs[k][s]) = ComputeDeviceArg(wanted[k])
                        /\ entry[k].status = "running"
                        /\ \A o \in Slots \ {s} : ~Alive(k, o)
  ELSE \A s \in Slots : ~Alive(k, s)
StuckOrphan == \E k \in Keys, s \in Slots : Alive(k, s) /\ procs[k][s].hung /\ procs[k][s].signal = "reaped"
CamerasSettle == [](installed /\ ~StuckOrphan) => \A k \in Keys : <>[]Served(k)

=============================================================================

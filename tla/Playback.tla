----------------------------- MODULE Playback -----------------------------
(***************************************************************************)
(* The playback engine of the server and what the clients see of it.       *)
(*                                                                         *)
(* A command changes the playback state of its robot and of the robots     *)
(* combined with it, starts or clears their timers, queues a write and     *)
(* broadcasts its deltas when that write is done. A tick of a timer does   *)
(* the same for one robot, but it broadcasts at once and does not wait for *)
(* its write. A client of the first schema gets the whole state of the     *)
(* moment with every delta, one of the second only the part that changed,  *)
(* as it was when the change was made.                                     *)
(***************************************************************************)
EXTENDS Integers, Sequences

CONSTANTS Robots,
          CombinedWith, \* the robots that a play, a pause or a stop of each robot also affects
          MaxPoints,    \* bound: points of a trajectory
          MaxCommands,  \* bound: commands
          MaxQueue,     \* bound: writes that wait
          MaxFailures,  \* bound: writes that fail
          MaxRestarts   \* bound: restarts of the server

ASSUME ConstantsAssumption ==
  /\ CombinedWith \in [Robots -> SUBSET Robots]
  /\ MaxPoints \in Nat
  /\ MaxCommands \in Nat
  /\ MaxQueue \in Nat \ {0}
  /\ MaxFailures \in Nat
  /\ MaxRestarts \in Nat

VARIABLES
  pb,      \* playbackState of each robot in memory
  points,  \* the number of recordedPoints of each robot
  timer,   \* the robots with a timer
  queue,   \* the writes queued, each with what is broadcast when it is done
  disk,    \* what the files hold of pb and points
  full,    \* what the clients of schema 1 show
  parts,   \* what the clients of schema 2 show
  commands, failures, restarts,
  wanted   \* history: the robots whose last play was not followed by a stop

vars == <<pb, points, timer, queue, disk, full, parts, commands, failures, restarts, wanted>>

\* isPlaying, isPaused (with requestPause), requestStop, isFinished, isLooping and activeStep.
States == [playing : BOOLEAN, paused : BOOLEAN, stopping : BOOLEAN, finished : BOOLEAN,
           looping : BOOLEAN, step : -1..MaxPoints]
Tree == [pb : [Robots -> States], points : [Robots -> 0..MaxPoints]]

\* A delta names the robots it is about and carries their state as it was when the change was
\* made. A tick has broadcast already and a stop of all does so even if its write fails.
Deltas == UNION {[rs -> States] : rs \in SUBSET Robots}
Entries == [tree : Tree, kind : {"command", "stop-all", "tick"}, delta : Deltas]

TypeOK ==
  /\ pb \in [Robots -> States]
  /\ points \in [Robots -> 0..MaxPoints]
  /\ timer \in SUBSET Robots
  /\ Len(queue) <= MaxQueue
  /\ \A i \in DOMAIN queue : queue[i] \in Entries
  /\ disk \in Tree
  /\ full \in [Robots -> States]
  /\ parts \in [Robots -> States]
  /\ commands \in 0..MaxCommands
  /\ failures \in 0..MaxFailures
  /\ restarts \in 0..MaxRestarts
  /\ wanted \in SUBSET Robots

Idle == [playing |-> FALSE, paused |-> FALSE, stopping |-> FALSE, finished |-> FALSE,
         looping |-> FALSE, step |-> -1]

Init ==
  /\ pb = [r \in Robots |-> Idle]
  /\ points \in [Robots -> 0..MaxPoints]
  /\ timer = {}
  /\ queue = <<>>
  /\ disk = [pb |-> pb, points |-> points]
  /\ full = pb
  /\ parts = pb
  /\ commands = 0
  /\ failures = 0
  /\ restarts = 0
  /\ wanted = {}

-----------------------------------------------------------------------------
(* Broadcasts and writes. The definitions called variants are mistakes that the checks must
   notice; no specification uses them. *)

\* A client of schema 2 merges the delta into what it shows.
Merged(shown, delta) == [r \in Robots |-> IF r \in DOMAIN delta THEN delta[r] ELSE shown[r]]

\* queueSettingsWrite: the tree is copied when it is queued.
Queue(kind, delta) ==
  /\ Len(queue) < MaxQueue
  /\ queue' = Append(queue, [tree |-> [pb |-> pb', points |-> points'],
                             kind |-> kind, delta |-> delta])

\* Variant: what is broadcast is the tree that was written.
WriteDoneOldTree ==
  /\ queue # <<>>
  /\ LET e == Head(queue)
     IN /\ disk' = e.tree
        /\ \/ e.kind = "tick" /\ UNCHANGED <<full, parts>>
           \/ e.kind # "tick" /\ full' = e.tree.pb /\ parts' = Merged(parts, e.delta)
  /\ queue' = Tail(queue)
  /\ UNCHANGED <<pb, points, timer, commands, failures, restarts, wanted>>

\* The oldest write is done; what waited for it is broadcast.
WriteDone ==
  /\ queue # <<>>
  /\ LET e == Head(queue)
     IN /\ disk' = e.tree
        /\ \/ e.kind = "tick" /\ UNCHANGED <<full, parts>>
           \/ e.kind # "tick" /\ full' = pb /\ parts' = Merged(parts, e.delta)
  /\ queue' = Tail(queue)
  /\ UNCHANGED <<pb, points, timer, commands, failures, restarts, wanted>>

\* The oldest write fails: a command ends with the error and is not broadcast.
WriteFails ==
  /\ queue # <<>>
  /\ failures < MaxFailures
  /\ failures' = failures + 1
  /\ LET e == Head(queue)
     IN \/ e.kind # "stop-all" /\ UNCHANGED <<full, parts>>
        \/ e.kind = "stop-all" /\ full' = pb /\ parts' = Merged(parts, e.delta)
  /\ queue' = Tail(queue)
  /\ UNCHANGED <<pb, points, timer, disk, commands, restarts, wanted>>

-----------------------------------------------------------------------------
(* Commands *)

Group(r) == {r} \cup CombinedWith[r]

\* A command on rs is applied, and its write is queued with the delta.
Apply(kind, rs) ==
  /\ commands < MaxCommands
  /\ commands' = commands + 1
  /\ Queue(kind, [r \in rs |-> pb'[r]])
  /\ UNCHANGED <<disk, full, parts, failures, restarts>>

\* play and startServerPlayback: a robot without points is not playing after all.
Started(r) ==
  [pb[r] EXCEPT !.playing = points[r] > 0, !.paused = FALSE, !.stopping = FALSE,
                !.finished = FALSE, !.step = IF points[r] > 0 THEN 0 ELSE -1]

Play(r) ==
  /\ pb' = Merged(pb, [s \in Group(r) |-> Started(s)])
  /\ timer' = (timer \ Group(r)) \cup {s \in Group(r) : points[s] > 0}
  /\ wanted' = wanted \cup Group(r)
  /\ UNCHANGED points
  /\ Apply("command", Group(r))

\* pause: one wish for the whole group, the opposite of the robot's own state when the
\* command does not say.
Pause(r, paused) ==
  LET Paused(s) == [pb[s] EXCEPT !.playing = TRUE, !.paused = paused, !.stopping = FALSE,
                                 !.finished = FALSE]
  IN /\ pb' = Merged(pb, [s \in Group(r) |-> Paused(s)])
     /\ UNCHANGED <<points, timer, wanted>>
     /\ Apply("command", Group(r))

\* stoppedPlaybackState
Stopped(r) == [pb[r] EXCEPT !.playing = FALSE, !.paused = FALSE, !.stopping = TRUE,
                            !.finished = FALSE, !.step = -1]

\* Variant: the timers of the group go on and their robots keep playing.
StopOne(r) ==
  /\ pb' = [pb EXCEPT ![r] = Stopped(r)]
  /\ timer' = timer \ {r}
  /\ wanted' = wanted \ Group(r)
  /\ UNCHANGED points
  /\ Apply("command", Group(r))

Stop(r) ==
  /\ pb' = Merged(pb, [s \in Group(r) |-> Stopped(s)])
  /\ timer' = timer \ Group(r)
  /\ wanted' = wanted \ Group(r)
  /\ UNCHANGED points
  /\ Apply("command", Group(r))

\* disable stops its own robot only; that it then refuses to play is in RobotControl.
Disable(r) ==
  /\ pb' = [pb EXCEPT ![r] = Stopped(r)]
  /\ timer' = timer \ {r}
  /\ wanted' = wanted \ {r}
  /\ UNCHANGED points
  /\ Apply("command", {r})

StopAll ==
  /\ pb' = [r \in Robots |-> Stopped(r)]
  /\ timer' = {}
  /\ wanted' = {}
  /\ UNCHANGED points
  /\ Apply("stop-all", Robots)

\* trajectory: new points and the cursor before the first, for one robot; the timer is left.
Trajectory(r, n) ==
  LET Loaded == [pb[r] EXCEPT !.playing = FALSE, !.paused = FALSE, !.stopping = FALSE,
                              !.finished = FALSE, !.step = -1]
  IN /\ n > 0
     /\ pb' = [pb EXCEPT ![r] = Loaded]
     /\ points' = [points EXCEPT ![r] = n]
     /\ UNCHANGED <<timer, wanted>>
     /\ Apply("command", {r})

\* points: other points for a robot that is not playing; its delta has no playback state.
Points(r, n) ==
  /\ ~pb[r].playing
  /\ points' = [points EXCEPT ![r] = n]
  /\ UNCHANGED <<pb, timer, wanted>>
  /\ Apply("command", {})

\* loop
Loop(r, value) ==
  LET Looped == [pb[r] EXCEPT !.looping = value]
  IN /\ pb' = [pb EXCEPT ![r] = Looped]
     /\ UNCHANGED <<points, timer, wanted>>
     /\ Apply("command", {r})

Command ==
  \/ \E r \in Robots : Play(r)
  \/ \E r \in Robots, paused \in BOOLEAN : Pause(r, paused)
  \/ \E r \in Robots : Stop(r) \/ Disable(r)
  \/ StopAll
  \/ \E r \in Robots, n \in 0..MaxPoints : Trajectory(r, n)
  \/ \E r \in Robots, n \in 0..MaxPoints : Points(r, n)
  \/ \E r \in Robots, value \in BOOLEAN : Loop(r, value)

-----------------------------------------------------------------------------
(* A tick of the timer of a robot *)

Cursor(r) == IF pb[r].step >= 0 THEN pb[r].step ELSE 0
Runs(r) == r \in timer /\ pb[r].playing /\ ~pb[r].stopping /\ ~pb[r].paused

\* The robot was stopped without its timer: the timer goes.
TickEnds(r) ==
  /\ r \in timer
  /\ ~pb[r].playing \/ pb[r].stopping
  /\ timer' = timer \ {r}
  /\ UNCHANGED <<pb, points, queue, disk, full, parts, commands, failures, restarts, wanted>>

\* What the ticks that change something have in common: the write is queued and nobody waits
\* for it; the delta is broadcast at once.
Ticked(r) ==
  /\ UNCHANGED points
  /\ Queue("tick", <<>>)
  /\ full' = pb'
  /\ parts' = Merged(parts, [s \in {r} |-> pb'[s]])
  /\ UNCHANGED <<disk, commands, failures, restarts, wanted>>

\* Variant: a point after the last one.
MoveOneMore(r) ==
  /\ Runs(r)
  /\ Cursor(r) <= points[r]
  /\ pb' = [pb EXCEPT ![r].step = Cursor(r) + 1]
  /\ Ticked(r)
  /\ UNCHANGED timer

\* The next point is applied to the robot.
Move(r) ==
  /\ Runs(r)
  /\ Cursor(r) < points[r]
  /\ pb' = [pb EXCEPT ![r].step = Cursor(r) + 1]
  /\ Ticked(r)
  /\ UNCHANGED timer

\* After the last point: around again, or finished.
LapEnds(r) ==
  /\ Runs(r)
  /\ Cursor(r) >= points[r]
  /\ pb[r].looping /\ points[r] > 0
  /\ pb' = [pb EXCEPT ![r].step = 0]
  /\ Ticked(r)
  /\ UNCHANGED timer

\* Variant: a finished robot goes on playing.
FinishesPlaying(r) ==
  /\ Runs(r)
  /\ Cursor(r) >= points[r]
  /\ ~(pb[r].looping /\ points[r] > 0)
  /\ pb' = [pb EXCEPT ![r].finished = TRUE, ![r].step = -1]
  /\ UNCHANGED timer
  /\ Ticked(r)

Finishes(r) ==
  /\ Runs(r)
  /\ Cursor(r) >= points[r]
  /\ ~(pb[r].looping /\ points[r] > 0)
  /\ pb' = [pb EXCEPT ![r].playing = FALSE, ![r].finished = TRUE, ![r].step = -1]
  /\ timer' = timer \ {r}
  /\ Ticked(r)

Tick(r) == TickEnds(r) \/ Move(r) \/ LapEnds(r) \/ Finishes(r)

\* The server starts again: no timers, what the files hold, and every client connects again
\* and gets the whole tree.
Restart ==
  /\ restarts < MaxRestarts
  /\ restarts' = restarts + 1
  /\ pb' = disk.pb
  /\ points' = disk.points
  /\ timer' = {}
  /\ queue' = <<>>
  /\ full' = disk.pb
  /\ parts' = disk.pb
  /\ wanted' = {}
  /\ UNCHANGED <<disk, commands, failures>>

-----------------------------------------------------------------------------
Next == Command \/ (\E r \in Robots : Tick(r)) \/ WriteDone \/ WriteFails \/ Restart

\* An interval timer goes on firing, and a write that was queued is done. The fairness of a
\* tick is strong because only the bound of the queue, which the code has not, ever stops one.
Fairness == (\A r \in Robots : SF_vars(Tick(r))) /\ WF_vars(WriteDone)

Spec == Init /\ [][Next]_vars /\ Fairness

-----------------------------------------------------------------------------
(* Properties *)

\* A robot that was stopped, alone, with its group or with all, moves no further before the
\* next play, and a restart moves nothing (stop and stopServerPlayback).
StoppedMovesNothing == [][\A r \in Robots : Move(r) => r \in wanted]_vars

\* The clients that get the whole tree show what the server works on once nothing waits to be
\* written, unless a command failed.
WholePictureIsRight == queue = <<>> /\ failures = 0 => full = pb

\* The clients that get only the changes show the same in the end, when nothing is left to be
\* written and no timer to move a robot (broadcastRobotDelta).
PartsMakeTheWhole == queue = <<>> /\ failures = 0 /\ timer = {} => parts = full

\* A playback comes to an end, unless it is paused or goes around.
PlaybackEnds ==
  \A r \in Robots : r \in timer ~> r \notin timer \/ pb[r].paused \/ pb[r].looping
=============================================================================

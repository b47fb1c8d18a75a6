--------------------------- MODULE OutwardProofs ---------------------------
(***************************************************************************)
(* Proofs about what the server keeps others informed of. Playback: the    *)
(* types, that a stopped robot stays where it is, and that the clients of  *)
(* the whole tree end with what the server works on, for any robots,       *)
(* combinations, trajectories and queues. Links: what the cameras, the     *)
(* broker, the phones and the machine bridges see, for any number of them  *)
(* and any bounds.                                                         *)
(*                                                                         *)
(* The two share no variable; each part has an inductive invariant of its  *)
(* own. What the parts of Links promise together is the last theorem.      *)
(***************************************************************************)
EXTENDS Playback, Links, SequenceTheorems, FiniteSetTheorems, FunctionTheorems, TLAPS

-----------------------------------------------------------------------------
(* The invariant *)

Fits == TypeOK /\ queue \in Seq(Entries)

\* A robot that has a timer was played and not stopped since.
TimersWanted == timer \subseteq wanted

\* What changed since the whole tree was sent waits to be written, and is sent then.
WillBeSent == failures = 0 /\ full # pb => \E i \in DOMAIN queue : queue[i].kind # "tick"

IInv == Fits /\ TimersWanted /\ WillBeSent

-----------------------------------------------------------------------------
(* Types *)

\* What a client shows after it merged a patch is a picture of all robots.
LEMMA MergedType ==
  ASSUME NEW shown \in [Robots -> States], NEW delta \in Deltas
  PROVE  Merged(shown, delta) \in [Robots -> States]
<1>1. PICK rs \in SUBSET Robots : delta \in [rs -> States]
  BY DEF Deltas
<1> HIDE DEF States
<1> QED  BY <1>1 DEF Merged

\* A patch of some robots is a patch.
LEMMA DeltaType ==
  ASSUME NEW rs \in SUBSET Robots, NEW f \in [rs -> States]
  PROVE  f \in Deltas
  BY DEF Deltas

\* The states the commands and the ticks make.
LEMMA StateType ==
  ASSUME ConstantsAssumption, TypeOK, NEW r \in Robots
  PROVE  /\ Started(r) \in States /\ Stopped(r) \in States
         /\ \A paused \in BOOLEAN :
              [pb[r] EXCEPT !.playing = TRUE, !.paused = paused, !.stopping = FALSE, !.finished = FALSE] \in States
         /\ [pb[r] EXCEPT !.playing = FALSE, !.paused = FALSE, !.stopping = FALSE,
                          !.finished = FALSE, !.step = -1] \in States
         /\ \A value \in BOOLEAN : [pb[r] EXCEPT !.looping = value] \in States
         /\ \A k \in 0..MaxPoints : [pb[r] EXCEPT !.step = k] \in States
         /\ [pb[r] EXCEPT !.playing = FALSE, !.finished = TRUE, !.step = -1] \in States
<1>1. pb[r] \in States /\ points[r] \in 0..MaxPoints /\ MaxPoints \in Nat
  BY DEF TypeOK, ConstantsAssumption
<1>2. -1 \in -1..MaxPoints /\ 0 \in -1..MaxPoints
  BY <1>1
<1>3. Started(r) \in States
  <2> DEFINE moves == points[r] > 0
             at == IF moves THEN 0 ELSE -1
  <2>1. moves \in BOOLEAN /\ at \in -1..MaxPoints
    BY <1>1, <1>2
  <2>2. Started(r) = [pb[r] EXCEPT !.playing = moves, !.paused = FALSE, !.stopping = FALSE,
                                   !.finished = FALSE, !.step = at]
    BY DEF Started
  <2> HIDE DEF moves, at
  <2> QED  BY <1>1, <2>1, <2>2 DEF States
<1>4. Stopped(r) \in States
  BY <1>1, <1>2 DEF Stopped, States
<1>5. \A paused \in BOOLEAN :
        [pb[r] EXCEPT !.playing = TRUE, !.paused = paused, !.stopping = FALSE, !.finished = FALSE] \in States
  BY <1>1 DEF States
<1>6. [pb[r] EXCEPT !.playing = FALSE, !.paused = FALSE, !.stopping = FALSE,
                    !.finished = FALSE, !.step = -1] \in States
  BY <1>1, <1>2 DEF States
<1>7. \A value \in BOOLEAN : [pb[r] EXCEPT !.looping = value] \in States
  BY <1>1 DEF States
<1>8. \A k \in 0..MaxPoints : [pb[r] EXCEPT !.step = k] \in States
  <2>1. \A k \in 0..MaxPoints : k \in -1..MaxPoints
    BY <1>1
  <2> QED  BY <1>1, <2>1 DEF States
<1>9. [pb[r] EXCEPT !.playing = FALSE, !.finished = TRUE, !.step = -1] \in States
  BY <1>1, <1>2 DEF States
<1> QED  BY <1>3, <1>4, <1>5, <1>6, <1>7, <1>8, <1>9

\* One more write is queued.
LEMMA QueueKeeps ==
  ASSUME ConstantsAssumption, Fits, NEW kind \in {"command", "stop-all", "tick"}, NEW delta \in Deltas,
         pb' \in [Robots -> States], points' \in [Robots -> 0..MaxPoints], Queue(kind, delta)
  PROVE  /\ queue' \in Seq(Entries) /\ Len(queue') <= MaxQueue
         /\ kind # "tick" => \E i \in DOMAIN queue' : queue'[i].kind # "tick"
<1> DEFINE e == [tree |-> [pb |-> pb', points |-> points'], kind |-> kind, delta |-> delta]
<1>1. e \in Entries /\ e.kind = kind
  <2>1. [pb |-> pb', points |-> points'] \in Tree
    BY DEF Tree
  <2> QED  BY <2>1 DEF Entries
<1>2. queue' = Append(queue, e) /\ Len(queue) < MaxQueue
  BY DEF Queue
<1>3. queue \in Seq(Entries) /\ MaxQueue \in Nat
  BY DEF Fits, ConstantsAssumption
<1> HIDE DEF e
<1>4. /\ queue' \in Seq(Entries) /\ Len(queue') = Len(queue) + 1
      /\ queue'[Len(queue) + 1] = e /\ Len(queue) + 1 \in DOMAIN queue'
  BY <1>1, <1>2, <1>3
<1> QED  BY <1>1, <1>2, <1>3, <1>4

-----------------------------------------------------------------------------
(* Each operation keeps the invariant *)

\* A command that changes the playback states of some robots, with the timers it clears or sets.
LEMMA ApplyKeeps ==
  ASSUME ConstantsAssumption, IInv, NEW kind \in {"command", "stop-all"}, NEW rs \in SUBSET Robots,
         pb' \in [Robots -> States], points' \in [Robots -> 0..MaxPoints], Apply(kind, rs),
         timer' \subseteq wanted', wanted' \subseteq Robots
  PROVE  IInv'
<1> DEFINE delta == [r \in rs |-> pb'[r]]
<1>1. delta \in Deltas
  <2>1. delta \in [rs -> States]
    <3> HIDE DEF States
    <3> QED  OBVIOUS
  <2> QED  BY <2>1, DeltaType
<1>2. Queue(kind, delta) /\ commands < MaxCommands /\ commands' = commands + 1
      /\ UNCHANGED <<disk, full, parts, failures, restarts>>
  BY DEF Apply
<1> HIDE DEF delta
<1>3. /\ queue' \in Seq(Entries) /\ Len(queue') <= MaxQueue
      /\ \E i \in DOMAIN queue' : queue'[i].kind # "tick"
  BY <1>1, <1>2, QueueKeeps DEF IInv
<1>4. commands' \in 0..MaxCommands
  BY <1>2 DEF IInv, Fits, TypeOK, ConstantsAssumption
<1>5. Fits'
  BY <1>2, <1>3, <1>4 DEF IInv, Fits, TypeOK
<1> QED  BY <1>3, <1>5 DEF IInv, TimersWanted, WillBeSent

\* A robot is in its own group.
LEMMA GroupType == ASSUME ConstantsAssumption, NEW r \in Robots PROVE Group(r) \subseteq Robots /\ r \in Group(r)
  BY DEF Group, ConstantsAssumption

\* Each command of a client (POST /api/robot/:id/command, /api/stop-all).
LEMMA CommandKeeps ==
  ASSUME ConstantsAssumption, IInv, Command
  PROVE  IInv'
<1>1. /\ pb \in [Robots -> States] /\ points \in [Robots -> 0..MaxPoints]
      /\ timer \subseteq wanted /\ wanted \subseteq Robots /\ TypeOK
  BY DEF IInv, Fits, TypeOK, TimersWanted
<1>2. ASSUME NEW r \in Robots, Play(r) PROVE IInv'
  <2> DEFINE delta == [s \in Group(r) |-> Started(s)]
  <2>1. delta \in Deltas
    <3>1. \A s \in Group(r) : Started(s) \in States
      BY <1>1, GroupType, StateType
    <3>2. delta \in [Group(r) -> States]
      BY <3>1
    <3> HIDE DEF delta
    <3> QED  BY <3>2, GroupType, DeltaType
  <2>2. pb' = Merged(pb, delta) /\ points' = points
        /\ timer' \subseteq wanted' /\ wanted' \subseteq Robots /\ Apply("command", Group(r))
    BY <1>1, <1>2, GroupType DEF Play
  <2> HIDE DEF delta
  <2>3. pb' \in [Robots -> States]
    BY <1>1, <2>1, <2>2, MergedType
  <2> QED  BY <1>1, <2>2, <2>3, GroupType, ApplyKeeps
<1>3. ASSUME NEW r \in Robots, NEW paused \in BOOLEAN, Pause(r, paused) PROVE IInv'
  <2> DEFINE Paused(s) == [pb[s] EXCEPT !.playing = TRUE, !.paused = paused, !.stopping = FALSE,
                                        !.finished = FALSE]
             delta == [s \in Group(r) |-> Paused(s)]
  <2>1. delta \in Deltas
    <3>1. \A s \in Group(r) : Paused(s) \in States
      BY <1>1, GroupType, StateType
    <3>2. delta \in [Group(r) -> States]
      <4> HIDE DEF Paused
      <4> QED  BY <3>1
    <3> HIDE DEF delta
    <3> QED  BY <3>2, GroupType, DeltaType
  <2>2. pb' = Merged(pb, delta) /\ UNCHANGED <<points, timer, wanted>> /\ Apply("command", Group(r))
    BY <1>3 DEF Pause
  <2> HIDE DEF delta
  <2>3. pb' \in [Robots -> States]
    BY <1>1, <2>1, <2>2, MergedType
  <2> QED  BY <1>1, <2>2, <2>3, GroupType, ApplyKeeps
<1>4. ASSUME NEW r \in Robots, Stop(r) PROVE IInv'
  <2> DEFINE delta == [s \in Group(r) |-> Stopped(s)]
  <2>1. delta \in Deltas
    <3>1. \A s \in Group(r) : Stopped(s) \in States
      BY <1>1, GroupType, StateType
    <3>2. delta \in [Group(r) -> States]
      BY <3>1
    <3> HIDE DEF delta
    <3> QED  BY <3>2, GroupType, DeltaType
  <2>2. pb' = Merged(pb, delta) /\ points' = points
        /\ timer' \subseteq wanted' /\ wanted' \subseteq Robots /\ Apply("command", Group(r))
    BY <1>1, <1>4, GroupType DEF Stop
  <2> HIDE DEF delta
  <2>3. pb' \in [Robots -> States]
    BY <1>1, <2>1, <2>2, MergedType
  <2> QED  BY <1>1, <2>2, <2>3, GroupType, ApplyKeeps
<1>5. ASSUME NEW r \in Robots, Disable(r) PROVE IInv'
  <2>1. pb' \in [Robots -> States]
    BY <1>1, <1>5, StateType DEF Disable
  <2>2. points' = points /\ timer' \subseteq wanted' /\ wanted' \subseteq Robots /\ Apply("command", {r})
    BY <1>1, <1>5 DEF Disable
  <2> QED  BY <1>1, <2>1, <2>2, ApplyKeeps
<1>6. ASSUME StopAll PROVE IInv'
  <2>1. pb' \in [Robots -> States]
    BY <1>1, <1>6, StateType DEF StopAll
  <2>2. points' = points /\ timer' \subseteq wanted' /\ wanted' \subseteq Robots /\ Apply("stop-all", Robots)
    BY <1>1, <1>6 DEF StopAll
  <2> QED  BY <1>1, <2>1, <2>2, ApplyKeeps
<1>7. ASSUME NEW r \in Robots, NEW n \in 0..MaxPoints, Trajectory(r, n) PROVE IInv'
  <2>1. pb' \in [Robots -> States]
    BY <1>1, <1>7, StateType DEF Trajectory
  <2>2. points' \in [Robots -> 0..MaxPoints] /\ UNCHANGED <<timer, wanted>> /\ Apply("command", {r})
    BY <1>1, <1>7 DEF Trajectory
  <2> QED  BY <1>1, <2>1, <2>2, ApplyKeeps
<1>8. ASSUME NEW r \in Robots, NEW n \in 0..MaxPoints, Points(r, n) PROVE IInv'
  <2>1. points' \in [Robots -> 0..MaxPoints] /\ UNCHANGED <<pb, timer, wanted>> /\ Apply("command", {})
    BY <1>1, <1>8 DEF Points
  <2> QED  BY <1>1, <2>1, ApplyKeeps
<1>9. ASSUME NEW r \in Robots, NEW value \in BOOLEAN, Loop(r, value) PROVE IInv'
  <2>1. pb' \in [Robots -> States]
    BY <1>1, <1>9, StateType DEF Loop
  <2>2. UNCHANGED <<points, timer, wanted>> /\ Apply("command", {r})
    BY <1>9 DEF Loop
  <2> QED  BY <1>1, <2>1, <2>2, ApplyKeeps
<1> QED  BY <1>2, <1>3, <1>4, <1>5, <1>6, <1>7, <1>8, <1>9 DEF Command

\* The next point of a trajectory is one of its points, or none.
LEMMA CursorType ==
  ASSUME ConstantsAssumption, TypeOK, NEW r \in Robots
  PROVE  Cursor(r) \in 0..MaxPoints
<1>1. pb[r].step \in -1..MaxPoints /\ MaxPoints \in Nat
  BY DEF TypeOK, States, ConstantsAssumption
<1> QED  BY <1>1 DEF Cursor

\* A tick of a timer, which moves a robot, ends its lap or its playback (startServerPlayback).
LEMMA TickKeeps ==
  ASSUME ConstantsAssumption, IInv, NEW r \in Robots, Tick(r)
  PROVE  IInv'
<1>1. /\ pb \in [Robots -> States] /\ points \in [Robots -> 0..MaxPoints]
      /\ timer \subseteq wanted /\ wanted \subseteq Robots /\ TypeOK /\ MaxPoints \in Nat
  BY DEF IInv, Fits, TypeOK, TimersWanted, ConstantsAssumption
<1>2. CASE TickEnds(r)
  BY <1>2 DEF TickEnds, IInv, Fits, TypeOK, TimersWanted, WillBeSent
<1>3. ASSUME NEW new \in States, pb' = [pb EXCEPT ![r] = new], Ticked(r), timer' \subseteq timer
      PROVE  IInv'
  <2>1. pb' \in [Robots -> States] /\ points' = points
    BY <1>1, <1>3 DEF Ticked
  <2>2. <<>> \in Deltas
    <3>1. <<>> \in [{} -> States]
      <4>1. <<>> \in Seq(States) /\ Len(<<>>) = 0 /\ 1..0 = {}
        OBVIOUS
      <4>2. \A q \in Seq(States) : q \in [1..Len(q) -> States]
        OBVIOUS
      <4> QED  BY <4>1, <4>2
    <3> QED  BY <3>1 DEF Deltas
  <2>3. queue' \in Seq(Entries) /\ Len(queue') <= MaxQueue
    BY <1>1, <1>3, <2>1, <2>2, QueueKeeps DEF IInv, Ticked
  <2>4. parts' \in [Robots -> States]
    <3> DEFINE delta == [s \in {r} |-> pb'[s]]
    <3>1. delta \in [{r} -> States]
      BY <2>1
    <3>2. parts' = Merged(parts, delta)
      BY <1>3 DEF Ticked
    <3> HIDE DEF delta
    <3>3. delta \in Deltas
      BY <3>1, DeltaType
    <3>4. parts \in [Robots -> States]
      BY <1>1 DEF TypeOK
    <3> QED  BY <3>2, <3>3, <3>4, MergedType
  <2>5. full' = pb' /\ UNCHANGED <<disk, commands, failures, restarts, wanted>>
    BY <1>3 DEF Ticked
  <2>6. Fits'
    BY <1>1, <1>3, <2>1, <2>3, <2>4, <2>5 DEF Fits, TypeOK
  <2> QED  BY <1>1, <1>3, <2>5, <2>6 DEF IInv, TimersWanted, WillBeSent
<1>4. CASE Move(r)
  <2>1. Cursor(r) + 1 \in 0..MaxPoints
    BY <1>1, <1>4, CursorType DEF Move
  <2> QED  BY <1>1, <1>3, <1>4, <2>1, StateType DEF Move
<1>5. CASE LapEnds(r)
  <2>1. 0 \in 0..MaxPoints
    BY <1>1
  <2> QED  BY <1>1, <1>3, <1>5, <2>1, StateType DEF LapEnds
<1>6. CASE Finishes(r)
  BY <1>1, <1>3, <1>6, StateType DEF Finishes
<1> QED  BY <1>2, <1>4, <1>5, <1>6 DEF Tick

\* What is left of the queue once its first entry is gone.
LEMMA HeadTail ==
  ASSUME ConstantsAssumption, Fits, queue # <<>>
  PROVE  /\ Head(queue) \in Entries /\ Head(queue).tree \in Tree /\ Head(queue).delta \in Deltas
         /\ Tail(queue) \in Seq(Entries) /\ Len(Tail(queue)) <= MaxQueue
         /\ \A i \in DOMAIN queue : queue[i] = Head(queue) \/ \E j \in DOMAIN Tail(queue) : Tail(queue)[j] = queue[i]
<1>1. queue \in Seq(Entries) /\ Len(queue) <= MaxQueue /\ MaxQueue \in Nat
  BY DEF Fits, TypeOK, ConstantsAssumption
<1>2. Head(queue) \in Entries /\ Head(queue) = queue[1]
  BY <1>1
<1>3. Tail(queue) \in Seq(Entries) /\ Len(Tail(queue)) = Len(queue) - 1 /\ Len(queue) \in Nat
  BY <1>1
<1>4. Head(queue).tree \in Tree /\ Head(queue).delta \in Deltas
  BY <1>2 DEF Entries
<1>5. ASSUME NEW i \in DOMAIN queue, i # 1
      PROVE  i - 1 \in DOMAIN Tail(queue) /\ Tail(queue)[i - 1] = queue[i]
  BY <1>1, <1>3, <1>5
<1>6. Len(Tail(queue)) <= MaxQueue
  BY <1>1, <1>3
<1>7. \A i \in DOMAIN queue : queue[i] = Head(queue) \/ \E j \in DOMAIN Tail(queue) : Tail(queue)[j] = queue[i]
  BY <1>2, <1>5
<1> QED  BY <1>2, <1>3, <1>4, <1>6, <1>7

\* The end of the oldest write, done or failed, with what is broadcast then.
LEMMA WriteKeeps ==
  ASSUME ConstantsAssumption, IInv, WriteDone \/ WriteFails
  PROVE  IInv'
<1> DEFINE e == Head(queue)
<1>1. /\ pb \in [Robots -> States] /\ full \in [Robots -> States] /\ parts \in [Robots -> States]
      /\ disk \in Tree /\ failures \in 0..MaxFailures
  BY DEF IInv, Fits, TypeOK
<1>2. queue # <<>> /\ queue' = Tail(queue)
      /\ UNCHANGED <<pb, points, timer, commands, restarts, wanted>>
  BY DEF WriteDone, WriteFails
<1>3. /\ e.tree \in Tree /\ e.delta \in Deltas
      /\ queue' \in Seq(Entries) /\ Len(queue') <= MaxQueue
      /\ \A i \in DOMAIN queue : queue[i] = e \/ \E j \in DOMAIN queue' : queue'[j] = queue[i]
  BY <1>2, HeadTail DEF IInv
<1>4. /\ \/ disk' = e.tree /\ failures' = failures
         \/ disk' = disk /\ failures' = failures + 1 /\ failures < MaxFailures
      /\ \/ full' = full /\ parts' = parts
         \/ full' = pb /\ parts' = Merged(parts, e.delta)
      /\ failures' = failures /\ e.kind # "tick" => full' = pb
  BY <1>1 DEF WriteDone, WriteFails
<1> HIDE DEF e
<1>5. disk' \in Tree /\ failures' \in 0..MaxFailures
  BY <1>1, <1>3, <1>4 DEF ConstantsAssumption
<1>6. full' \in [Robots -> States] /\ parts' \in [Robots -> States]
  BY <1>1, <1>3, <1>4, MergedType
<1>7. Fits'
  BY <1>2, <1>3, <1>5, <1>6 DEF IInv, Fits, TypeOK
<1>8. WillBeSent'
  <2> SUFFICES ASSUME failures' = 0, full' # pb PROVE \E i \in DOMAIN queue' : queue'[i].kind # "tick"
    BY <1>2 DEF WillBeSent
  <2>1. failures' = failures /\ failures = 0 /\ e.kind = "tick" /\ full' = full
    BY <1>1, <1>4
  <2>2. PICK i \in DOMAIN queue : queue[i].kind # "tick"
    BY <2>1 DEF IInv, WillBeSent
  <2> QED  BY <1>3, <2>1, <2>2
<1> QED  BY <1>2, <1>7, <1>8 DEF IInv, TimersWanted

\* A restart, which forgets the timers and what was queued.
LEMMA RestartKeeps ==
  ASSUME ConstantsAssumption, IInv, Restart
  PROVE  IInv'
<1>1. disk.pb \in [Robots -> States] /\ disk.points \in [Robots -> 0..MaxPoints]
  BY DEF IInv, Fits, TypeOK, Tree
<1>2. restarts' \in 0..MaxRestarts
  BY DEF Restart, IInv, Fits, TypeOK, ConstantsAssumption
<1>3. queue' = <<>> /\ Len(queue') <= MaxQueue /\ queue' \in Seq(Entries)
  BY DEF Restart, ConstantsAssumption
<1>4. Fits'
  BY <1>1, <1>2, <1>3 DEF Restart, IInv, Fits, TypeOK
<1> QED  BY <1>4 DEF Restart, IInv, TimersWanted, WillBeSent

\* The invariant is inductive.
LEMMA NextKeeps == ConstantsAssumption /\ IInv /\ [Next]_vars => IInv'
<1> SUFFICES ASSUME ConstantsAssumption, IInv, [Next]_vars PROVE IInv'
  OBVIOUS
<1>1. CASE UNCHANGED vars
  BY <1>1 DEF vars, IInv, Fits, TypeOK, TimersWanted, WillBeSent
<1> QED  BY <1>1, CommandKeeps, TickKeeps, WriteKeeps, RestartKeeps DEF Next

\* It holds at the start.
LEMMA InitHolds == ConstantsAssumption /\ Init => IInv
<1> SUFFICES ASSUME ConstantsAssumption, Init PROVE IInv
  OBVIOUS
<1>1. Idle \in States
  BY DEF Idle, States, ConstantsAssumption
<1>2. pb \in [Robots -> States] /\ full = pb /\ parts = pb
  BY <1>1 DEF Init
<1>3. disk \in Tree /\ points \in [Robots -> 0..MaxPoints]
  BY <1>2 DEF Init, Tree
<1>4. queue = <<>> /\ queue \in Seq(Entries) /\ Len(queue) <= MaxQueue
  BY DEF Init, ConstantsAssumption
<1>5. commands \in 0..MaxCommands /\ failures \in 0..MaxFailures /\ restarts \in 0..MaxRestarts
  BY DEF Init, ConstantsAssumption
<1>6. Fits
  BY <1>2, <1>3, <1>4, <1>5 DEF Init, Fits, TypeOK
<1> QED  BY <1>2, <1>6 DEF Init, IInv, TimersWanted, WillBeSent

\* So it holds always.
LEMMA Invariant == Spec => []IInv
  BY InitHolds, NextKeeps, ConstantsAssumption, PTL DEF Spec

-----------------------------------------------------------------------------
(* Theorems *)

\* Every state of a robot, of a queued write and of a client stays one the code can make: the
\* cursor never leaves the trajectory (startServerPlayback).
THEOREM TypeCorrect == Spec => []TypeOK
<1>1. IInv => TypeOK
  BY DEF IInv, Fits
<1> QED  BY <1>1, Invariant, PTL

\* A robot that was stopped, alone, with its group or with all, moves no further before the
\* next play: its timer went with the stop, and no write or tick brings it back
\* (stop and startServerPlayback).
THEOREM StopCorrect == Spec => StoppedMovesNothing
<1>1. IInv /\ [Next]_vars => [\A r \in Robots : Move(r) => r \in wanted]_vars
  BY DEF IInv, TimersWanted, Move, Runs
<1> QED  BY <1>1, Invariant, PTL DEF Spec, StoppedMovesNothing

\* The clients that get the whole tree show what the server works on once nothing waits to be
\* written, unless a write failed: whatever changed is sent with a write that is still queued
\* (broadcastRobotDelta).
THEOREM WholePictureCorrect == Spec => []WholePictureIsRight
<1>1. IInv => WholePictureIsRight
  BY DEF IInv, WillBeSent, WholePictureIsRight
<1> QED  BY <1>1, Invariant, PTL

-----------------------------------------------------------------------------
(* Commands to a machine bridge *)

\* Whoever is entered as waiting for a verb sent it, waits and has no answer; one that waits in time and was not displaced is entered.
Entered ==
  /\ \A v \in Verbs : pending[v] # None =>
       /\ verb[pending[v]] = v /\ phase[pending[v]] \in {"publishing", "waiting"}
       /\ pending[v] \in waits /\ given[pending[v]] = None
  /\ \A r \in waits : phase[r] # "failed" /\ r \notin displaced => pending[verb[r]] = r

\* A timer is of a request that was sent and has no answer; what was not sent has none either.
Timed ==
  /\ \A r \in waits : phase[r] \in {"publishing", "waiting", "failed"} /\ given[r] = None
  /\ \A r \in Requests : phase[r] = "idle" => given[r] = None

\* What is on the way to the bridge or back was published, and nobody was given its answer.
OnTheWay ==
  /\ \A q \in toBridge \union answers :
       phase[q] \in {"waiting", "answered"} /\ \A r \in Requests : given[r] # q
  /\ toBridge \intersect answers = {}

\* An answer was given to one request, of its verb; the request it belongs to had ended or was given up.
Given == \A r \in Requests : given[r] # None =>
  /\ verb[given[r]] = verb[r] /\ phase[given[r]] \in {"waiting", "answered"}
  /\ given[r] # r => Gateway!GivenUp(given[r])
  /\ \A s \in Requests : given[s] = given[r] => s = r

GatewayInv == Gateway!TypeOK /\ Entered /\ Timed /\ OnTheWay /\ Given

\* Nobody waits at the start.
LEMMA GatewayStarts == Gateway!Init => GatewayInv
BY LinksAssumption DEF LinksAssumption, Gateway!Init, GatewayInv, Gateway!TypeOK, Gateway!Phases, Entered, Timed, OnTheWay, Given

\* Each step of a request, a timer, the network and the bridge.
LEMMA GatewaySteps == GatewayInv /\ Gateway!Next => GatewayInv'
<1> SUFFICES ASSUME GatewayInv, Gateway!Next PROVE GatewayInv'
  OBVIOUS
<1>c. None \notin Requests /\ Rate \in Nat
  BY LinksAssumption DEF LinksAssumption
<1>t. Gateway!TypeOK /\ Entered /\ Timed /\ OnTheWay /\ Given
  BY DEF GatewayInv
<1> USE DEF Gateway!TypeOK, Gateway!Phases, Gateway!End
<1>1. ASSUME NEW r \in Requests, Gateway!Send(r) PROVE GatewayInv'
  <2> USE DEF Gateway!Send
  <2>0. phase[r] = "idle" /\ r \notin waits /\ r \notin toBridge \union answers /\ UNCHANGED <<on, verb, given, known, connected, toBridge, answers, displaced>>
        /\ \A v \in Verbs : pending[v] # r
    BY <1>1, <1>t, <1>c DEF Timed, OnTheWay, Entered
  <2>1. CASE phase'[r] # "publishing"
    <3>1. phase' = [phase EXCEPT ![r] = phase'[r]] /\ phase'[r] \in {"refused", "unavailable", "rate-limited", "busy"} /\ UNCHANGED <<pending, waits>>
          /\ window' \in 0..(Rate + 1)
      BY <1>1, <1>t, <1>c, <2>1 DEF Gateway!CountedIn, Gateway!Paced
    <3>2. Gateway!TypeOK'
      BY <1>t, <2>0, <3>1
    <3>3. Entered' /\ Timed' /\ OnTheWay'
      BY <1>t, <2>0, <3>1 DEF Entered, Timed, OnTheWay
    <3>4. \A q \in Requests : given[q] # r
      BY <1>t, <1>c, <2>0 DEF Given
    <3>5. Given'
      BY <1>t, <2>0, <3>1, <3>4 DEF Given, Gateway!GivenUp
    <3> QED  BY <3>2, <3>3, <3>5 DEF GatewayInv
  <2>2. CASE phase'[r] = "publishing"
    <3>1. phase' = [phase EXCEPT ![r] = "publishing"] /\ pending[verb[r]] = None /\ pending' = [pending EXCEPT ![verb[r]] = r]
          /\ waits' = waits \union {r} /\ window' \in 0..(Rate + 1)
      BY <1>1, <1>t, <1>c, <2>2 DEF Gateway!CountedIn, Gateway!Paced
    <3>2. Gateway!TypeOK'
      BY <1>t, <2>0, <3>1
    <3>4. \A q \in Requests : given[q] # r
      BY <1>t, <1>c, <2>0 DEF Given
    <3>3. Timed' /\ OnTheWay'
      BY <1>t, <1>c, <2>0, <3>1 DEF Timed, OnTheWay
    <3>6. Entered'
      <4>1. \A v \in Verbs \ {verb[r]} : pending'[v] = pending[v] /\ pending[v] # r
        BY <1>t, <2>0, <3>1
      <4>2. given[r] = None
        BY <1>t, <2>0 DEF Timed
      <4>3. \A s \in waits : s # r /\ (verb[s] = verb[r] => phase[s] = "failed" \/ s \in displaced)
        BY <1>t, <1>c, <2>0, <3>1 DEF Entered
      <4>4. \A v \in Verbs : pending'[v] # None =>
              /\ verb'[pending'[v]] = v /\ phase'[pending'[v]] \in {"publishing", "waiting"}
              /\ pending'[v] \in waits' /\ given'[pending'[v]] = None
        BY <1>t, <2>0, <3>1, <4>1, <4>2 DEF Entered
      <4>5. \A s \in waits' : phase'[s] # "failed" /\ s \notin displaced' => pending'[verb'[s]] = s
        BY <1>t, <2>0, <3>1, <4>3 DEF Entered
      <4> QED  BY <4>4, <4>5 DEF Entered
    <3>5. Given'
      BY <1>t, <2>0, <3>1, <3>4 DEF Given, Gateway!GivenUp
    <3> QED  BY <3>2, <3>3, <3>5, <3>6 DEF GatewayInv
  <2> QED  BY <2>1, <2>2
<1>2. ASSUME NEW r \in Requests, Gateway!Published(r) PROVE GatewayInv'
  <2>1. /\ phase[r] = "publishing" /\ toBridge' = toBridge \union {r}
        /\ phase' = [phase EXCEPT ![r] = IF given[r] # None \/ r \notin waits THEN "answered" ELSE "waiting"]
        /\ UNCHANGED <<on, verb, given, pending, waits, known, connected, window, answers, displaced>>
    BY <1>2 DEF Gateway!Published
  <2>2. Gateway!TypeOK'
    BY <1>t, <2>1
  <2>6. r \notin toBridge \union answers /\ \A s \in Requests : given[s] # r
    BY <1>t, <1>c, <2>1 DEF OnTheWay, Given
  <2>7. Timed'
    BY <1>t, <2>1 DEF Timed
  <2>3. OnTheWay'
    BY <1>t, <2>1, <2>6 DEF OnTheWay
  <2>4. Entered'
    <3>1. \A v \in Verbs : pending[v] = r => r \in waits /\ given[r] = None
      BY <1>t, <1>c DEF Entered
    <3>2. \A v \in Verbs : pending'[v] # None => phase'[pending[v]] \in {"publishing", "waiting"}
      BY <1>t, <2>1, <3>1 DEF Entered
    <3>3. \A s \in waits' : phase'[s] # "failed" /\ s \notin displaced' => pending'[verb[s]] = s
      BY <1>t, <2>1 DEF Entered
    <3> QED  BY <1>t, <2>1, <3>2, <3>3 DEF Entered
  <2>5. Given'
    BY <1>t, <2>1 DEF Given, Gateway!GivenUp
  <2> QED  BY <2>2, <2>3, <2>4, <2>5, <2>7 DEF GatewayInv
<1>3. ASSUME NEW r \in Requests, Gateway!NotPublished(r) PROVE GatewayInv'
  <2>1. /\ phase[r] = "publishing" /\ phase' = [phase EXCEPT ![r] = "failed"] /\ pending' = [pending EXCEPT ![verb[r]] = None]
        /\ displaced' = displaced \union ({pending[verb[r]]} \ {r, None})
        /\ UNCHANGED <<on, verb, given, waits, known, connected, window, toBridge, answers>>
    BY <1>3 DEF Gateway!NotPublished
  <2>2. Gateway!TypeOK'
    BY <1>t, <2>1
  <2>3. Timed' /\ OnTheWay'
    BY <1>t, <2>1 DEF Timed, OnTheWay, Given
  <2>4. Entered'
    BY <1>t, <2>1 DEF Entered
  <2>5. Given'
    BY <1>t, <2>1 DEF Given, Gateway!GivenUp
  <2> QED  BY <2>2, <2>3, <2>4, <2>5 DEF GatewayInv
<1>4. ASSUME NEW r \in Requests, Gateway!TimeOut(r) PROVE GatewayInv'
  <2>1. /\ r \in waits /\ waits' = waits \ {r} /\ pending' = Gateway!Forgotten(r)
        /\ phase' = IF phase[r] = "waiting" THEN [phase EXCEPT ![r] = "answered"] ELSE phase
        /\ UNCHANGED <<on, verb, given, known, connected, window, toBridge, answers, displaced>>
    BY <1>4 DEF Gateway!TimeOut
  <2> USE DEF Gateway!Forgotten
  <2>2. Gateway!TypeOK'
    BY <1>t, <2>1
  <2>3. Timed' /\ OnTheWay'
    BY <1>t, <2>1 DEF Timed, OnTheWay, Given
  <2>4. Entered'
    BY <1>t, <2>1, <1>c DEF Entered
  <2>5. Given'
    BY <1>t, <2>1 DEF Given, Gateway!GivenUp
  <2> QED  BY <2>2, <2>3, <2>4, <2>5 DEF GatewayInv
<1>5. ASSUME NEW r \in Requests, Gateway!AtBridge(r) PROVE GatewayInv'
  <2>1. /\ r \in toBridge /\ toBridge' = toBridge \ {r} /\ answers' \in {answers, answers \union {r}}
        /\ UNCHANGED <<on, verb, phase, given, pending, waits, known, connected, window, displaced>>
    BY <1>5 DEF Gateway!AtBridge
  <2>2. Gateway!TypeOK' /\ Timed' /\ OnTheWay' /\ Entered'
    BY <1>t, <2>1 DEF Timed, OnTheWay, Entered
  <2>3. Given'
    BY <1>t, <2>1 DEF Given, Gateway!GivenUp
  <2> QED  BY <2>2, <2>3 DEF GatewayInv
<1>6. ASSUME NEW q \in Requests, Gateway!Result(q) PROVE GatewayInv'
  <2> DEFINE w == pending[verb[q]]
  <2>1. q \in answers /\ answers' = answers \ {q} /\ UNCHANGED <<on, verb, known, connected, window, toBridge, displaced>>
    BY <1>6 DEF Gateway!Result
  <2>2. CASE w = None
    <3>1. UNCHANGED <<phase, given, pending, waits>>
      BY <1>6, <2>2 DEF Gateway!Result
    <3>2. Gateway!TypeOK' /\ Timed' /\ OnTheWay' /\ Entered'
      BY <1>t, <2>1, <3>1 DEF Timed, OnTheWay, Entered
    <3>3. Given'
      BY <1>t, <2>1, <3>1 DEF Given, Gateway!GivenUp
    <3> QED  BY <3>2, <3>3 DEF GatewayInv
  <2>3. CASE w # None
    <3>1. /\ pending' = [pending EXCEPT ![verb[q]] = None] /\ waits' = waits \ {w} /\ given' = [given EXCEPT ![w] = q]
          /\ phase' = IF phase[w] = "waiting" THEN [phase EXCEPT ![w] = "answered"] ELSE phase
      BY <1>6, <2>3 DEF Gateway!Result, Gateway!Taken
    <3>2. /\ w \in Requests /\ verb[w] = verb[q] /\ phase[w] \in {"publishing", "waiting"} /\ w \in waits /\ given[w] = None
      BY <1>t, <2>1, <2>3 DEF Entered
    <3>3. /\ phase[q] \in {"waiting", "answered"} /\ q \notin toBridge /\ \A r \in Requests : given[r] # q
      BY <1>t, <2>1 DEF OnTheWay
    <3> HIDE DEF w
    <3>4. Gateway!TypeOK'
      BY <1>t, <2>1, <3>1, <3>2, <3>3
    <3>5. Timed' /\ OnTheWay'
      BY <1>t, <2>1, <3>1, <3>2, <3>3 DEF Timed, OnTheWay
    <3>6. Entered'
      <4>1. \A v \in Verbs : pending'[v] # None => pending'[v] = pending[v] /\ pending[v] # w
        BY <1>t, <2>1, <3>1, <3>2 DEF Entered, w
      <4>2. \A v \in Verbs : pending'[v] # None =>
              /\ verb'[pending'[v]] = v /\ phase'[pending'[v]] \in {"publishing", "waiting"}
              /\ pending'[v] \in waits' /\ given'[pending'[v]] = None
        BY <1>t, <2>1, <3>1, <3>2, <3>3, <4>1 DEF Entered
      <4>3. \A s \in waits' : phase'[s] # "failed" /\ s \notin displaced' => pending'[verb'[s]] = s
        BY <1>t, <2>1, <3>1, <3>2, <3>3 DEF Entered, Timed, w
      <4> QED  BY <4>2, <4>3 DEF Entered
    <3>7. q # w => Gateway!GivenUp(q)'
      <4> SUFFICES ASSUME q # w, phase[q] = "waiting", q \in waits, q \notin displaced PROVE FALSE
        BY <1>t, <2>1, <3>1, <3>2, <3>3 DEF Gateway!GivenUp
      <4> QED  BY <1>t, <2>1 DEF Entered, w
    <3>8. ASSUME NEW p \in Requests, Gateway!GivenUp(p), p # q PROVE Gateway!GivenUp(p)'
      BY <1>t, <2>1, <3>1, <3>2, <3>3, <3>8 DEF Gateway!GivenUp
    <3>9. Given'
      <4> SUFFICES ASSUME NEW r \in Requests, given'[r] # None
                   PROVE  /\ verb'[given'[r]] = verb'[r] /\ phase'[given'[r]] \in {"waiting", "answered"}
                          /\ given'[r] # r => Gateway!GivenUp(given[r])'
                          /\ \A s \in Requests : given'[s] = given'[r] => s = r
        BY DEF Given
      <4>1. CASE r = w
        BY <1>t, <2>1, <3>1, <3>2, <3>3, <3>7, <4>1
      <4>2. CASE r # w
        <5>1. given'[r] = given[r] /\ given[r] \in Requests /\ given[r] # q
          BY <1>t, <3>1, <3>2, <3>3, <4>2
        <5>2. /\ verb[given[r]] = verb[r] /\ phase[given[r]] \in {"waiting", "answered"}
              /\ given[r] # r => Gateway!GivenUp(given[r])
              /\ \A s \in Requests : given[s] = given[r] => s = r
          BY <1>t, <5>1, <1>c DEF Given
        <5>3. given[r] # r => Gateway!GivenUp(given[r])'
          BY <3>8, <5>1, <5>2
        <5> QED  BY <1>t, <2>1, <3>1, <3>2, <3>3, <4>2, <5>1, <5>2, <5>3
      <4> QED  BY <4>1, <4>2
    <3> QED  BY <3>4, <3>5, <3>6, <3>9 DEF GatewayInv
  <2> QED  BY <2>2, <2>3
<1>7. ASSUME Gateway!Seen \/ Gateway!Connect \/ Gateway!Break \/ Gateway!Second PROVE GatewayInv'
  <2>1. /\ UNCHANGED <<on, verb, phase, given, pending, waits, toBridge, answers, displaced>>
        /\ window' \in 0..(Rate + 1)
    BY <1>7, <1>t, <1>c DEF Gateway!Seen, Gateway!Connect, Gateway!Break, Gateway!Second
  <2> QED  BY <1>t, <2>1 DEF GatewayInv, Entered, Timed, OnTheWay, Given, Gateway!GivenUp
<1> QED  BY <1>1, <1>2, <1>3, <1>4, <1>5, <1>6, <1>7 DEF Gateway!Next

\* What the invariant promises to the clients.
LEMMA GatewayHolds == GatewayInv => Gateway!TypeOK /\ Gateway!AnswersMatch /\ Gateway!BusyEnds
BY DEF GatewayInv, Entered, Given, Gateway!AnswersMatch, Gateway!BusyEnds

\* A step of another part.
LEMMA GatewayStays == GatewayInv /\ UNCHANGED gatewayVars => GatewayInv'
BY DEF gatewayVars, GatewayInv, Gateway!TypeOK, Entered, Timed, OnTheWay, Given, Gateway!GivenUp
-----------------------------------------------------------------------------
(* The chosen elements of a sequence *)

\* The place among the chosen positions, and the position of a place.
Rank(at, i) == Cardinality(at \cap 1..i)
Nth(at, n) == CHOOSE i \in at : Rank(at, i) = n

\* The places of a sequence that are chosen are counted from 1, in order.
LEMMA RankFacts ==
  ASSUME NEW l \in Nat, NEW at \in SUBSET (1..l)
  PROVE  /\ Cardinality(at) \in Nat /\ (Cardinality(at) = 0 <=> at = {})
         /\ \A i \in at : Rank(at, i) \in 1..Cardinality(at)
         /\ \A i, j \in at : i < j => Rank(at, i) < Rank(at, j)
<1>1. IsFiniteSet(at) /\ Cardinality(at) \in Nat /\ (Cardinality(at) = 0 <=> at = {})
  <2>1. IsFiniteSet(1..l)
    BY FS_Interval
  <2>2. IsFiniteSet(at)
    BY <2>1, FS_Subset
  <2> QED  BY <2>2, FS_CardinalityType, FS_EmptySet
<1>2. ASSUME NEW i \in Nat
      PROVE  IsFiniteSet(at \cap 1..i) /\ Rank(at, i) \in 0..Cardinality(at) /\ (Rank(at, i) = 0 <=> at \cap 1..i = {})
  <2>1. at \cap 1..i \in SUBSET at
    OBVIOUS
  <2>2. IsFiniteSet(at \cap 1..i) /\ Cardinality(at \cap 1..i) <= Cardinality(at)
    BY <1>1, <2>1, FS_Subset
  <2>3. Cardinality(at \cap 1..i) \in Nat
    BY <2>2, FS_CardinalityType
  <2> QED  BY <1>1, <2>2, <2>3, FS_EmptySet DEF Rank
<1>3. ASSUME NEW i \in at PROVE Rank(at, i) \in 1..Cardinality(at)
  <2>1. i \in at \cap 1..i /\ i \in Nat
    OBVIOUS
  <2>2. Rank(at, i) \in 0..Cardinality(at) /\ Rank(at, i) # 0
    BY <1>2, <2>1
  <2> QED  BY <1>1, <2>2
<1>4. ASSUME NEW i \in at, NEW j \in at, i < j PROVE Rank(at, i) < Rank(at, j)
  <2> DEFINE up == at \cap 1..j
  <2>1. IsFiniteSet(up) /\ Cardinality(up) = Rank(at, j) /\ j \in up /\ Cardinality(up) \in Nat
    BY <1>2 DEF Rank
  <2>2. IsFiniteSet(up \ {j}) /\ Cardinality(up \ {j}) = Cardinality(up) - 1
    BY <2>1, FS_RemoveElement
  <2>3. at \cap 1..i \in SUBSET (up \ {j})
    BY <1>4
  <2>4. Rank(at, i) <= Cardinality(up \ {j}) /\ Rank(at, i) \in Nat
    BY <1>2, <2>2, <2>3, FS_Subset DEF Rank
  <2> QED  BY <2>1, <2>2, <2>4
<1> QED  BY <1>1, <1>3, <1>4

\* The place that is counted as n is there, and is the only one.
LEMMA NthFacts ==
  ASSUME NEW l \in Nat, NEW at \in SUBSET (1..l)
  PROVE  /\ \A n \in 1..Cardinality(at) : Nth(at, n) \in at /\ Rank(at, Nth(at, n)) = n
         /\ \A i \in at : Nth(at, Rank(at, i)) = i
<1> DEFINE count == Cardinality(at)
           f == [i \in at |-> Rank(at, i)]
<1>1. /\ count \in Nat /\ \A i \in at : Rank(at, i) \in 1..count
      /\ \A i, j \in at : i < j => Rank(at, i) < Rank(at, j)
  BY RankFacts
<1>2. \A i, j \in at : Rank(at, i) = Rank(at, j) => i = j
  <2> SUFFICES ASSUME NEW i \in at, NEW j \in at, Rank(at, i) = Rank(at, j), i # j PROVE FALSE
    OBVIOUS
  <2>1. i < j \/ j < i
    OBVIOUS
  <2> QED  BY <2>1, <1>1
<1>3. f \in Injection(at, 1..count)
  BY <1>1, <1>2 DEF Injection, IsInjective
<1>4. IsFiniteSet(1..count) /\ Cardinality(1..count) = count
  BY <1>1, FS_Interval
<1>5. f \in Surjection(at, 1..count)
  BY <1>3, <1>4, FS_Injection
<1>6. \A n \in 1..count : \E i \in at : Rank(at, i) = n
  BY <1>5 DEF Surjection
<1>7. \A n \in 1..count : Nth(at, n) \in at /\ Rank(at, Nth(at, n)) = n
  BY <1>6 DEF Nth
<1>8. \A i \in at : Nth(at, Rank(at, i)) = i
  BY <1>1, <1>2, <1>7
<1> QED  BY <1>7, <1>8

\* The chosen elements of a sequence, in order.
Picked(s, at) == [n \in 1..Cardinality(at) |-> s[CHOOSE i \in at : Cardinality(at \cap 1..i) = n]]

\* The chosen elements of a sequence are a sequence, in the same order, and nothing else.
LEMMA PickedFacts ==
  ASSUME NEW S, NEW s \in Seq(S), NEW at \in SUBSET (1..Len(s))
  PROVE  /\ Picked(s, at) \in Seq(S) /\ Len(Picked(s, at)) = Cardinality(at) /\ Cardinality(at) \in Nat
         /\ \A n \in 1..Cardinality(at) : Nth(at, n) \in at /\ Picked(s, at)[n] = s[Nth(at, n)]
         /\ \A m, n \in 1..Cardinality(at) : m < n => Nth(at, m) < Nth(at, n)
         /\ \A i \in at : Rank(at, i) \in 1..Cardinality(at) /\ Nth(at, Rank(at, i)) = i
<1> DEFINE picked == [n \in 1..Cardinality(at) |-> s[Nth(at, n)]]
<1>0. Len(s) \in Nat
  OBVIOUS
<1>1. Picked(s, at) = picked
  BY DEF Picked, Nth, Rank
<1>2. /\ Cardinality(at) \in Nat /\ \A i \in at : Rank(at, i) \in 1..Cardinality(at)
      /\ \A i, j \in at : i < j => Rank(at, i) < Rank(at, j)
  BY <1>0, RankFacts
<1>3. /\ \A n \in 1..Cardinality(at) : Nth(at, n) \in at /\ Rank(at, Nth(at, n)) = n
      /\ \A i \in at : Nth(at, Rank(at, i)) = i
  BY <1>0, NthFacts
<1>4. \A m, n \in 1..Cardinality(at) : m < n => Nth(at, m) < Nth(at, n)
  <2> SUFFICES ASSUME NEW m \in 1..Cardinality(at), NEW n \in 1..Cardinality(at), m < n PROVE Nth(at, m) < Nth(at, n)
    OBVIOUS
  <2>1. Nth(at, m) \in 1..Len(s) /\ Nth(at, n) \in 1..Len(s)
    BY <1>3
  <2>2. Nth(at, n) < Nth(at, m) => n < m
    BY <1>2, <1>3
  <2>3. Nth(at, n) # Nth(at, m)
    BY <1>3
  <2> QED  BY <1>2, <2>1, <2>2, <2>3
<1>5. picked \in Seq(S) /\ Len(picked) = Cardinality(at) /\ \A n \in 1..Cardinality(at) : picked[n] = s[Nth(at, n)]
  <2> DEFINE e(n) == s[Nth(at, n)]
  <2>1. ASSUME NEW n \in 1..Cardinality(at) PROVE e(n) \in S
    <3>1. Nth(at, n) \in 1..Len(s)
      BY <1>3
    <3> QED  BY <3>1
  <2>2. Cardinality(at) \in Nat
    BY <1>2
  <2> HIDE DEF e
  <2>3. [n \in 1..Cardinality(at) |-> e(n)] \in Seq(S)
    BY <2>1, <2>2
  <2> QED  BY <2>2, <2>3 DEF e
<1> QED  BY <1>1, <1>2, <1>3, <1>4, <1>5

\* What replaces a queued state keeps the others by this definition.
LEMMA RadioPicks == ASSUME NEW q, NEW at PROVE Radio!At(q, at) = Picked(q, at)
BY DEF Radio!At, Picked, Radio!Cardinality, Cardinality

\* So does what is repeated of the retained messages.
LEMMA BrokerPicks == ASSUME NEW q PROVE Broker!Kept(q) = Picked(q, {i \in DOMAIN q : Broker!Repeated(q[i])})
BY DEF Broker!Kept, Picked, Broker!Cardinality, Cardinality

\* The last element of s that is in `of` is in `right`, or there is none and x is in `kept`.
Ends(s, of, right, x, kept) ==
  \/ \E i \in DOMAIN s : s[i] \in right /\ \A j \in DOMAIN s : j > i => s[j] \notin of
  \/ x \in kept /\ \A j \in DOMAIN s : s[j] \notin of

\* What is sent after s either says nothing of the matter or ends with what is right.
LEMMA EndsAfter ==
  ASSUME NEW S, NEW s \in Seq(S), NEW t \in Seq(S), NEW of, NEW right, NEW x, NEW kept,
         \/ Ends(s, of, right, x, kept) /\ \A j \in DOMAIN t : t[j] \notin of
         \/ \E i \in DOMAIN t : t[i] \in right /\ \A j \in DOMAIN t : j > i => t[j] \notin of
  PROVE  Ends(s \o t, of, right, x, kept)
<1> DEFINE u == s \o t
<1>1. /\ Len(s) \in Nat /\ Len(t) \in Nat /\ DOMAIN s = 1..Len(s) /\ DOMAIN t = 1..Len(t)
      /\ DOMAIN u = 1..Len(s) + Len(t)
      /\ \A i \in 1..Len(s) + Len(t) : u[i] = IF i <= Len(s) THEN s[i] ELSE t[i - Len(s)]
  BY ConcatProperties, LenProperties
<1> HIDE DEF u
<1>2. CASE Ends(s, of, right, x, kept) /\ \A j \in DOMAIN t : t[j] \notin of
  <2>1. \A j \in DOMAIN u : j > Len(s) => u[j] \notin of
    <3> SUFFICES ASSUME NEW j \in DOMAIN u, j > Len(s) PROVE u[j] \notin of
      OBVIOUS
    <3>1. u[j] = t[j - Len(s)] /\ j - Len(s) \in DOMAIN t
      BY <1>1
    <3> QED  BY <1>2, <3>1
  <2>2. CASE \E i \in DOMAIN s : s[i] \in right /\ \A j \in DOMAIN s : j > i => s[j] \notin of
    <3>1. PICK i \in DOMAIN s : s[i] \in right /\ \A j \in DOMAIN s : j > i => s[j] \notin of
      BY <2>2
    <3>2. i \in DOMAIN u /\ u[i] \in right
      BY <1>1, <3>1
    <3>3. \A j \in DOMAIN u : j > i => u[j] \notin of
      BY <1>1, <2>1, <3>1
    <3> QED  BY <3>2, <3>3 DEF Ends, u
  <2>3. CASE x \in kept /\ \A j \in DOMAIN s : s[j] \notin of
    <3>1. \A j \in DOMAIN u : u[j] \notin of
      BY <1>1, <2>1, <2>3
    <3> QED  BY <2>3, <3>1 DEF Ends, u
  <2> QED  BY <1>2, <2>2, <2>3 DEF Ends
<1>3. CASE \E i \in DOMAIN t : t[i] \in right /\ \A j \in DOMAIN t : j > i => t[j] \notin of
  <2>1. PICK i \in DOMAIN t : t[i] \in right /\ \A j \in DOMAIN t : j > i => t[j] \notin of
    BY <1>3
  <2>2. Len(s) + i \in DOMAIN u /\ u[Len(s) + i] = t[i]
    BY <1>1
  <2>3. ASSUME NEW j \in DOMAIN u, j > Len(s) + i PROVE u[j] \notin of
    <3>1. u[j] = t[j - Len(s)] /\ j - Len(s) \in DOMAIN t /\ j - Len(s) > i
      BY <1>1, <2>3
    <3> QED  BY <2>1, <3>1
  <2> QED  BY <2>1, <2>2, <2>3 DEF Ends, u
<1> QED  BY <1>2, <1>3

\* The first of s is taken by the broker, which keeps what it says.
LEMMA EndsTaken ==
  ASSUME NEW S, NEW s \in Seq(S), s # <<>>, NEW of, NEW right, NEW x, NEW kept, NEW y,
         Ends(s, of, right, x, kept), Head(s) \in right => y \in kept, Head(s) \notin of => y = x, right \subseteq of
  PROVE  Ends(Tail(s), of, right, y, kept)
<1>1. /\ Len(s) \in Nat \ {0} /\ DOMAIN s = 1..Len(s) /\ DOMAIN Tail(s) = 1..Len(s) - 1
      /\ \A i \in 1..Len(s) - 1 : Tail(s)[i] = s[i + 1]
      /\ Head(s) = s[1]
  BY HeadTailProperties, LenProperties, EmptySeq
<1>2. CASE x \in kept /\ \A j \in DOMAIN s : s[j] \notin of
  <2>1. y = x
    BY <1>1, <1>2
  <2>2. \A j \in DOMAIN Tail(s) : Tail(s)[j] \notin of
    BY <1>1, <1>2
  <2> QED  BY <1>2, <2>1, <2>2 DEF Ends
<1>3. ASSUME NEW i \in DOMAIN s, s[i] \in right, \A j \in DOMAIN s : j > i => s[j] \notin of
      PROVE  Ends(Tail(s), of, right, y, kept)
  <2>1. \A j \in DOMAIN Tail(s) : j > i - 1 => Tail(s)[j] \notin of
    BY <1>1, <1>3
  <2>2. CASE i = 1
    <3>1. \A j \in DOMAIN Tail(s) : Tail(s)[j] \notin of
      BY <1>1, <2>1, <2>2
    <3> QED  BY <1>1, <1>3, <2>2, <3>1 DEF Ends
  <2>3. CASE i # 1
    <3>1. i - 1 \in DOMAIN Tail(s) /\ Tail(s)[i - 1] = s[i]
      BY <1>1, <2>3
    <3> QED  BY <1>3, <2>1, <3>1 DEF Ends
  <2> QED  BY <2>2, <2>3
<1> QED  BY <1>2, <1>3 DEF Ends

\* Leaving out what says nothing of the matter changes nothing.
LEMMA EndsPicked ==
  ASSUME NEW S, NEW s \in Seq(S), NEW at \in SUBSET (1..Len(s)), NEW of, NEW right, NEW x, NEW kept,
         Ends(s, of, right, x, kept), right \subseteq of, \A i \in DOMAIN s : s[i] \in of => i \in at
  PROVE  Ends(Picked(s, at), of, right, x, kept)
<1> DEFINE u == Picked(s, at)
<1>1. /\ Cardinality(at) \in Nat /\ DOMAIN u = 1..Cardinality(at) /\ DOMAIN s = 1..Len(s)
      /\ \A n \in 1..Cardinality(at) : Nth(at, n) \in at /\ u[n] = s[Nth(at, n)]
      /\ \A m, n \in 1..Cardinality(at) : m < n => Nth(at, m) < Nth(at, n)
      /\ \A i \in at : Rank(at, i) \in 1..Cardinality(at) /\ Nth(at, Rank(at, i)) = i
  BY PickedFacts, LenProperties
<1> HIDE DEF u
<1>2. CASE x \in kept /\ \A j \in DOMAIN s : s[j] \notin of
  <2>1. \A n \in DOMAIN u : u[n] \notin of
    BY <1>1, <1>2
  <2> QED  BY <1>2, <2>1 DEF Ends, u
<1>3. ASSUME NEW i \in DOMAIN s, s[i] \in right, \A j \in DOMAIN s : j > i => s[j] \notin of
      PROVE  Ends(Picked(s, at), of, right, x, kept)
  <2>1. i \in at
    BY <1>3
  <2>2. Rank(at, i) \in DOMAIN u /\ u[Rank(at, i)] = s[i]
    BY <1>1, <2>1
  <2>3. ASSUME NEW n \in DOMAIN u, n > Rank(at, i) PROVE u[n] \notin of
    <3>1. Nth(at, n) > i /\ Nth(at, n) \in DOMAIN s /\ u[n] = s[Nth(at, n)]
      BY <1>1, <2>1, <2>2, <2>3
    <3> QED  BY <1>3, <3>1
  <2> QED  BY <1>3, <2>2, <2>3 DEF Ends, u
<1> QED  BY <1>2, <1>3 DEF Ends

-----------------------------------------------------------------------------
(* The retained state on the broker *)

AboutRobot(r) == {m \in Broker!Messages : Broker!IsRobot(m) /\ m.robot = r}
AboutStatus == {m \in Broker!Messages : "status" \in DOMAIN m}
AboutSafety == {m \in Broker!Messages : Broker!IsSafety(m)}

BrokerTypes ==
  /\ Broker!TypeOK /\ announced \in [state : Broker!Safety \union {"none"}, count : 0..MaxHalts]
  /\ link => linked

\* What is not scheduled went out.
SentIsAll == linked /\ ~flush /\ ~said => \A r \in Arms : tree[r] # 0 => lastPublished[r] = tree[r]

\* What went out on this connection is there or on the way, the newest at the end.
Arrives ==
  /\ link => \A r \in Arms : lastPublished[r] # 0 =>
       Ends(wire, AboutRobot(r), {[robot |-> r, version |-> lastPublished[r]]}, retained[r], {lastPublished[r]})
  /\ link /\ ~said => Ends(wire, AboutStatus, {[status |-> "online"]}, status, {"online"})
  /\ Ends(wire, AboutSafety, {[safety |-> announced.state]}, safety, {announced.state, "lost"})

BrokerInv == BrokerTypes /\ SentIsAll /\ Arrives

\* The assumptions on this part.
LEMMA BrokerConstants == IsFiniteSet(Arms) /\ MaxChanges \in Nat \ {0} /\ MaxHalts \in Nat
BY LinksAssumption DEF LinksAssumption

\* A message is of one kind.
LEMMA MessageKinds ==
  /\ \A r \in Arms, v \in 1..MaxChanges :
       LET m == [robot |-> r, version |-> v] IN
       /\ m \in Broker!Messages /\ Broker!IsRobot(m) /\ ~Broker!IsSafety(m) /\ "status" \notin DOMAIN m
       /\ m.robot = r /\ m.version = v
  /\ \A s \in {"online", "offline"} :
       LET m == [status |-> s] IN
       /\ m \in Broker!Messages /\ ~Broker!IsRobot(m) /\ ~Broker!IsSafety(m) /\ "status" \in DOMAIN m /\ m.status = s
  /\ \A s \in Broker!Safety :
       LET m == [safety |-> s] IN
       /\ m \in Broker!Messages /\ ~Broker!IsRobot(m) /\ Broker!IsSafety(m) /\ "status" \notin DOMAIN m /\ m.safety = s
  /\ \A m \in Broker!Messages :
       \/ \E r \in Arms, v \in 1..MaxChanges : m = [robot |-> r, version |-> v]
       \/ \E s \in {"online", "offline"} : m = [status |-> s]
       \/ \E s \in Broker!Safety : m = [safety |-> s]
<1> USE DEF Broker!Messages, Broker!IsRobot, Broker!IsSafety
<1>1. ASSUME NEW r \in Arms, NEW v \in 1..MaxChanges
      PROVE  LET m == [robot |-> r, version |-> v] IN
             /\ m \in Broker!Messages /\ Broker!IsRobot(m) /\ ~Broker!IsSafety(m) /\ "status" \notin DOMAIN m
             /\ m.robot = r /\ m.version = v
  OBVIOUS
<1>2. ASSUME NEW s \in {"online", "offline"}
      PROVE  LET m == [status |-> s] IN
             /\ m \in Broker!Messages /\ ~Broker!IsRobot(m) /\ ~Broker!IsSafety(m) /\ "status" \in DOMAIN m /\ m.status = s
  OBVIOUS
<1>3. ASSUME NEW s \in Broker!Safety
      PROVE  LET m == [safety |-> s] IN
             /\ m \in Broker!Messages /\ ~Broker!IsRobot(m) /\ Broker!IsSafety(m) /\ "status" \notin DOMAIN m /\ m.safety = s
  OBVIOUS
<1>4. ASSUME NEW m \in Broker!Messages
      PROVE  \/ \E r \in Arms, v \in 1..MaxChanges : m = [robot |-> r, version |-> v]
             \/ \E s \in {"online", "offline"} : m = [status |-> s]
             \/ \E s \in Broker!Safety : m = [safety |-> s]
  <2>1. CASE m \in [robot : Arms, version : 1..MaxChanges]
    <3>1. m = [robot |-> m.robot, version |-> m.version] /\ m.robot \in Arms /\ m.version \in 1..MaxChanges
      BY <2>1
    <3> QED  BY <3>1
  <2>2. CASE m \in [status : {"online", "offline"}]
    <3>1. m = [status |-> m.status] /\ m.status \in {"online", "offline"}
      BY <2>2
    <3> QED  BY <3>1
  <2>3. CASE m \in [safety : Broker!Safety]
    <3>1. m = [safety |-> m.safety] /\ m.safety \in Broker!Safety
      BY <2>3
    <3> QED  BY <3>1
  <2> QED  BY <2>1, <2>2, <2>3
<1> QED  BY <1>1, <1>2, <1>3, <1>4

\* The robots that are sent are each sent once, as they are.
LEMMA InOrderFacts ==
  ASSUME NEW t \in [Arms -> 0..MaxChanges], NEW rs \in SUBSET Arms, \A r \in rs : t[r] # 0
  PROVE  /\ Broker!InOrder(t, rs) \in Seq(Broker!Messages)
         /\ \A i \in DOMAIN Broker!InOrder(t, rs) : \E r \in rs : Broker!InOrder(t, rs)[i] = [robot |-> r, version |-> t[r]]
         /\ \A r \in rs : \E i \in DOMAIN Broker!InOrder(t, rs) :
              /\ Broker!InOrder(t, rs)[i] = [robot |-> r, version |-> t[r]]
              /\ \A j \in DOMAIN Broker!InOrder(t, rs) : j > i => Broker!InOrder(t, rs)[j] \notin AboutRobot(r)
<1> DEFINE count == Cardinality(rs)
           ids == Broker!SetToSeq(rs)
           e(i) == [robot |-> ids[i], version |-> t[ids[i]]]
           ordered == [i \in 1..count |-> e(i)]
<1>1. IsFiniteSet(rs) /\ count \in Nat /\ ExistsBijection(1..count, rs)
  BY BrokerConstants, FS_Subset, FS_CardinalityType
<1>2. ids = CHOOSE f \in [1..count -> rs] : Broker!IsInjective(f)
  BY DEF Broker!SetToSeq, Broker!Cardinality, Cardinality
<1>3. \E f \in [1..count -> rs] : Broker!IsInjective(f)
  BY <1>1 DEF ExistsBijection, Bijection, Injection, IsInjective, Broker!IsInjective
<1>4. ids \in [1..count -> rs] /\ Broker!IsInjective(ids)
  BY <1>2, <1>3
<1> HIDE DEF ids
<1>5. ids \in Injection(1..count, rs)
  BY <1>4 DEF Injection, IsInjective, Broker!IsInjective
<1>6. IsFiniteSet(1..count) /\ Cardinality(1..count) = count
  BY <1>1, FS_Interval
<1>7. ids \in Surjection(1..count, rs)
  BY <1>1, <1>5, <1>6, FS_Injection
<1>8. \A r \in rs : \E i \in 1..count : ids[i] = r
  BY <1>7 DEF Surjection
<1>9. Broker!InOrder(t, rs) = ordered
  BY <1>4 DEF Broker!InOrder, ids
<1>10. ASSUME NEW i \in 1..count PROVE e(i) \in Broker!Messages /\ ids[i] \in rs
  <2>1. ids[i] \in rs /\ ids[i] \in Arms /\ t[ids[i]] \in 1..MaxChanges
    BY <1>4, BrokerConstants
  <2> QED  BY <2>1, MessageKinds
<1> HIDE DEF e
<1>11. ordered \in Seq(Broker!Messages) /\ DOMAIN ordered = 1..count /\ \A i \in 1..count : ordered[i] = e(i)
  BY <1>1, <1>10
<1>12. ASSUME NEW r \in rs
       PROVE  \E i \in 1..count : ordered[i] = [robot |-> r, version |-> t[r]] /\ \A j \in 1..count : j > i => ordered[j] \notin AboutRobot(r)
  <2>1. PICK i \in 1..count : ids[i] = r
    BY <1>8
  <2>2. ASSUME NEW j \in 1..count, j > i PROVE ordered[j] \notin AboutRobot(r)
    <3>1. ids[j] # r
      BY <1>4, <2>1, <2>2 DEF Broker!IsInjective
    <3>2. ordered[j].robot = ids[j]
      BY <1>11 DEF e
    <3> QED  BY <3>1, <3>2 DEF AboutRobot
  <2> QED  BY <1>11, <2>1, <2>2 DEF e
<1>13. \A i \in 1..count : \E r \in rs : ordered[i] = [robot |-> r, version |-> t[r]]
  BY <1>10, <1>11 DEF e
<1> HIDE DEF ordered
<1> QED  BY <1>9, <1>11, <1>12, <1>13

\* What is repeated of the messages that waited ends with the same word on the stop.
LEMMA KeptFacts ==
  ASSUME NEW s \in Seq(Broker!Messages)
  PROVE  /\ Broker!Kept(s) \in Seq(Broker!Messages)
         /\ \A n \in DOMAIN Broker!Kept(s) : \E i \in DOMAIN s : Broker!Kept(s)[n] = s[i] /\ Broker!Repeated(s[i])
         /\ \A x, right, kept : right \subseteq AboutSafety /\ Ends(s, AboutSafety, right, x, kept)
              => Ends(Broker!Kept(s), AboutSafety, right, x, kept)
<1> DEFINE at == {i \in DOMAIN s : Broker!Repeated(s[i])}
<1>1. Broker!Kept(s) = Picked(s, at) /\ at \in SUBSET (1..Len(s)) /\ DOMAIN s = 1..Len(s)
  BY BrokerPicks, LenProperties
<1>2. /\ Picked(s, at) \in Seq(Broker!Messages) /\ DOMAIN Picked(s, at) = 1..Cardinality(at)
      /\ \A n \in 1..Cardinality(at) : Nth(at, n) \in at /\ Picked(s, at)[n] = s[Nth(at, n)]
  BY <1>1, PickedFacts, LenProperties
<1>3. \A n \in DOMAIN Picked(s, at) : \E i \in DOMAIN s : Picked(s, at)[n] = s[i] /\ Broker!Repeated(s[i])
  BY <1>2
<1>4. \A i \in DOMAIN s : s[i] \in AboutSafety => i \in at
  BY MessageKinds DEF AboutSafety, Broker!Repeated
<1>5. ASSUME NEW x, NEW right, NEW kept, right \subseteq AboutSafety, Ends(s, AboutSafety, right, x, kept)
      PROVE  Ends(Picked(s, at), AboutSafety, right, x, kept)
  <2> HIDE DEF at
  <2> QED  BY <1>1, <1>4, <1>5, EndsPicked
<1> HIDE DEF at
<1> QED  BY <1>1, <1>2, <1>3, <1>5

\* A bridge that was not started believes nothing.
LEMMA BrokerStarts == Broker!Init => BrokerInv
<1> SUFFICES ASSUME Broker!Init PROVE BrokerInv
  OBVIOUS
<1>1. wire = <<>> /\ wire \in Seq(Broker!Messages)
  BY DEF Broker!Init
<1>2. tree \in [Arms -> 0..MaxChanges] /\ Broker!Nothing \in [Arms -> 0..MaxChanges]
  BY BrokerConstants DEF Broker!Init, Broker!Nothing
<1>3. BrokerTypes
  <2>1. announced = [state |-> "none", count |-> 0] /\ 0 \in 0..MaxHalts /\ 1 \in 1..MaxChanges
    BY BrokerConstants DEF Broker!Init
  <2>2. announced \in [state : Broker!Safety \union {"none"}, count : 0..MaxHalts] /\ announced.count \in 0..MaxHalts
    BY <2>1
  <2>3. {link, linked, flush, said} \subseteq BOOLEAN /\ link = FALSE /\ status = "offline" /\ safety = "none" /\ changes = 1
    BY DEF Broker!Init
  <2>4. lastPublished = Broker!Nothing /\ retained = Broker!Nothing
    BY DEF Broker!Init
  <2> QED  BY <1>1, <1>2, <2>1, <2>2, <2>3, <2>4 DEF BrokerTypes, Broker!TypeOK
<1> QED  BY <1>1, <1>3 DEF Broker!Init, BrokerInv, SentIsAll, Arrives, Ends

\* What is written changes nothing about the safety state unless it is about it.
LEMMA WrittenSafety ==
  ASSUME NEW s \in Seq(Broker!Messages), NEW t \in Seq(Broker!Messages),
         Ends(s, AboutSafety, {[safety |-> announced.state]}, safety, {announced.state, "lost"}),
         \A j \in DOMAIN t : t[j] \notin AboutSafety
  PROVE  Ends(s \o t, AboutSafety, {[safety |-> announced.state]}, safety, {announced.state, "lost"})
BY EndsAfter

\* Each step of the tree, the bridge, the connection and the broker.
LEMMA BrokerSteps == BrokerInv /\ Broker!Next => BrokerInv'
<1> SUFFICES ASSUME BrokerInv, Broker!Next PROVE BrokerInv'
  OBVIOUS
<1>c. MaxChanges \in Nat \ {0} /\ MaxHalts \in Nat
  BY BrokerConstants
<1>t. /\ tree \in [Arms -> 0..MaxChanges] /\ changes \in 1..MaxChanges
      /\ lastPublished \in [Arms -> 0..MaxChanges] /\ retained \in [Arms -> 0..MaxChanges]
      /\ wire \in Seq(Broker!Messages) /\ status \in {"online", "offline", "none"}
      /\ safety \in Broker!Safety \union {"none", "lost"}
      /\ announced \in [state : Broker!Safety \union {"none"}, count : 0..MaxHalts]
      /\ link \in BOOLEAN /\ linked \in BOOLEAN /\ flush \in BOOLEAN /\ said \in BOOLEAN /\ (link => linked)
  BY DEF BrokerInv, BrokerTypes, Broker!TypeOK
<1>i. SentIsAll /\ Arrives
  BY DEF BrokerInv
<1>p. ASSUME /\ tree' \in [Arms -> 0..MaxChanges] /\ changes' \in 1..MaxChanges
             /\ lastPublished' \in [Arms -> 0..MaxChanges] /\ retained' \in [Arms -> 0..MaxChanges]
             /\ wire' \in Seq(Broker!Messages) /\ status' \in {"online", "offline", "none"}
             /\ safety' \in Broker!Safety \union {"none", "lost"}
             /\ announced' \in [state : Broker!Safety \union {"none"}, count : 0..MaxHalts]
             /\ link' \in BOOLEAN /\ linked' \in BOOLEAN /\ flush' \in BOOLEAN /\ said' \in BOOLEAN /\ (link' => linked'),
             SentIsAll', Arrives'
      PROVE  BrokerInv'
  BY <1>p DEF BrokerInv, BrokerTypes, Broker!TypeOK
<1>s. Ends(wire, AboutSafety, {[safety |-> announced.state]}, safety, {announced.state, "lost"})
  BY <1>i DEF Arrives
<1>1. ASSUME Broker!Flush PROVE BrokerInv'
  <2> DEFINE ms == Broker!InOrder(tree, Broker!Differs(tree, lastPublished))
             t == IF link THEN ms ELSE Broker!Kept(ms)
  <2>1. /\ flush /\ flush' = FALSE
        /\ UNCHANGED <<tree, changes, link, linked, retained, safety, announced, status, said, brokerFaults>>
    BY <1>1 DEF Broker!Flush
  <2>2. CASE ~linked
    <3>1. UNCHANGED <<wire, lastPublished>> /\ ~link
      BY <1>1, <1>t, <2>2 DEF Broker!Flush
    <3>2. SentIsAll' /\ Arrives'
      BY <1>i, <2>1, <2>2, <3>1 DEF SentIsAll, Arrives
    <3> QED  BY <1>p, <1>t, <2>1, <3>1, <3>2
  <2>3. CASE linked
    <3>1. wire' = wire \o t /\ lastPublished' = Broker!Sent(tree, lastPublished)
      BY <1>1, <2>3 DEF Broker!Flush, Broker!Write
    <3>2. Broker!Differs(tree, lastPublished) \in SUBSET Arms /\ \A r \in Broker!Differs(tree, lastPublished) : tree[r] # 0
      BY DEF Broker!Differs
    <3>3. /\ ms \in Seq(Broker!Messages)
          /\ \A i \in DOMAIN ms : \E r \in Broker!Differs(tree, lastPublished) : ms[i] = [robot |-> r, version |-> tree[r]]
          /\ \A r \in Broker!Differs(tree, lastPublished) : \E i \in DOMAIN ms :
               ms[i] = [robot |-> r, version |-> tree[r]] /\ \A j \in DOMAIN ms : j > i => ms[j] \notin AboutRobot(r)
      BY <1>t, <3>2, InOrderFacts
    <3>4. lastPublished' \in [Arms -> 0..MaxChanges] /\ \A r \in Arms : lastPublished'[r] = IF tree[r] # 0 THEN tree[r] ELSE lastPublished[r]
      BY <1>t, <3>1 DEF Broker!Sent
    <3> HIDE DEF ms
    <3>5. \A i \in DOMAIN ms : ms[i] \notin AboutSafety /\ ms[i] \notin AboutStatus
      <4> SUFFICES ASSUME NEW i \in DOMAIN ms PROVE ms[i] \notin AboutSafety /\ ms[i] \notin AboutStatus
        OBVIOUS
      <4>1. PICK r \in Broker!Differs(tree, lastPublished) : ms[i] = [robot |-> r, version |-> tree[r]]
        BY <3>3
      <4>2. r \in Arms /\ tree[r] \in 1..MaxChanges
        BY <1>t, <1>c, <3>2
      <4> QED  BY <4>1, <4>2, MessageKinds DEF AboutSafety, AboutStatus
    <3>6. t \in Seq(Broker!Messages) /\ \A i \in DOMAIN t : t[i] \notin AboutSafety
      BY <3>3, <3>5, KeptFacts
    <3>7. wire' \in Seq(Broker!Messages)
      BY <1>t, <3>1, <3>6
    <3>8. ASSUME link', NEW r \in Arms, lastPublished'[r] # 0
          PROVE  Ends(wire', AboutRobot(r), {[robot |-> r, version |-> lastPublished'[r]]}, retained'[r], {lastPublished'[r]})
      <4>1. link /\ t = ms
        BY <2>1, <3>8
      <4>2. CASE r \in Broker!Differs(tree, lastPublished)
        <5>1. lastPublished'[r] = tree[r]
          BY <3>2, <3>4, <4>2
        <5> QED  BY <1>t, <3>1, <3>3, <4>1, <4>2, <5>1, EndsAfter
      <4>3. CASE r \notin Broker!Differs(tree, lastPublished)
        <5>1. lastPublished'[r] = lastPublished[r]
          BY <3>4, <4>3 DEF Broker!Differs
        <5>2. \A i \in DOMAIN ms : ms[i] \notin AboutRobot(r)
          BY <1>t, <1>c, <3>2, <3>3, <4>3, MessageKinds DEF AboutRobot
        <5>3. Ends(wire, AboutRobot(r), {[robot |-> r, version |-> lastPublished[r]]}, retained[r], {lastPublished[r]})
          BY <1>i, <3>8, <4>1, <5>1 DEF Arrives
        <5> QED  BY <1>t, <2>1, <3>1, <3>3, <4>1, <5>1, <5>2, <5>3, EndsAfter
      <4> QED  BY <4>2, <4>3
    <3>9. ASSUME link', ~said' PROVE Ends(wire', AboutStatus, {[status |-> "online"]}, status', {"online"})
      <4>1. Ends(wire, AboutStatus, {[status |-> "online"]}, status, {"online"}) /\ t = ms
        BY <1>i, <2>1, <3>9 DEF Arrives
      <4> QED  BY <1>t, <2>1, <3>1, <3>3, <3>5, <4>1, EndsAfter
    <3>10. Ends(wire', AboutSafety, {[safety |-> announced'.state]}, safety', {announced'.state, "lost"})
      BY <1>t, <1>s, <2>1, <3>1, <3>6, WrittenSafety
    <3>11. Arrives'
      BY <3>8, <3>9, <3>10 DEF Arrives, AboutRobot, AboutStatus, AboutSafety, Ends
    <3>12. SentIsAll'
      BY <2>1, <3>4 DEF SentIsAll
    <3> HIDE DEF t
    <3> QED  BY <1>p, <1>t, <2>1, <3>4, <3>7, <3>11, <3>12
  <2> QED  BY <1>t, <2>2, <2>3
<1>2. ASSUME Broker!Connect PROVE BrokerInv'
  <2> DEFINE ms == Broker!InOrder(tree, Broker!Differs(tree, Broker!Nothing))
             online == <<[status |-> "online"]>>
  <2>1. /\ ~link /\ ~linked /\ ~said /\ link' = TRUE /\ linked' = TRUE
        /\ wire' = (wire \o online) \o ms /\ lastPublished' = Broker!Sent(tree, Broker!Nothing)
        /\ UNCHANGED <<tree, changes, flush, retained, safety, announced, status, said, brokerFaults>>
    BY <1>2 DEF Broker!Connect
  <2>2. /\ Broker!Differs(tree, Broker!Nothing) \in SUBSET Arms
        /\ \A r \in Arms : r \in Broker!Differs(tree, Broker!Nothing) <=> tree[r] # 0
    BY DEF Broker!Differs, Broker!Nothing
  <2>3. /\ ms \in Seq(Broker!Messages)
        /\ \A i \in DOMAIN ms : \E r \in Broker!Differs(tree, Broker!Nothing) : ms[i] = [robot |-> r, version |-> tree[r]]
        /\ \A r \in Broker!Differs(tree, Broker!Nothing) : \E i \in DOMAIN ms :
             ms[i] = [robot |-> r, version |-> tree[r]] /\ \A j \in DOMAIN ms : j > i => ms[j] \notin AboutRobot(r)
    BY <1>t, <2>2, InOrderFacts
  <2>4. lastPublished' \in [Arms -> 0..MaxChanges] /\ \A r \in Arms : lastPublished'[r] = tree[r]
    BY <1>t, <1>c, <2>1 DEF Broker!Sent, Broker!Nothing
  <2> HIDE DEF ms
  <2>5. \A i \in DOMAIN ms : ms[i] \notin AboutSafety /\ ms[i] \notin AboutStatus
    <3> SUFFICES ASSUME NEW i \in DOMAIN ms PROVE ms[i] \notin AboutSafety /\ ms[i] \notin AboutStatus
      OBVIOUS
    <3>1. PICK r \in Broker!Differs(tree, Broker!Nothing) : ms[i] = [robot |-> r, version |-> tree[r]]
      BY <2>3
    <3>2. r \in Arms /\ tree[r] \in 1..MaxChanges
      BY <1>t, <1>c, <2>2
    <3> QED  BY <3>1, <3>2, MessageKinds DEF AboutSafety, AboutStatus
  <2>6. /\ [status |-> "online"] \in Broker!Messages /\ [status |-> "online"] \notin AboutSafety
    BY MessageKinds DEF AboutSafety
  <2>7. online \in Seq(Broker!Messages) /\ DOMAIN online = 1..1 /\ online[1] = [status |-> "online"]
    BY <2>6
  <2> HIDE DEF online
  <2>8. wire \o online \in Seq(Broker!Messages) /\ wire' \in Seq(Broker!Messages)
    BY <1>t, <2>1, <2>3, <2>7, ConcatProperties
  <2>9. Ends(wire \o online, AboutSafety, {[safety |-> announced.state]}, safety, {announced.state, "lost"})
    <3>1. \A j \in DOMAIN online : online[j] \notin AboutSafety
      BY <2>6, <2>7
    <3> QED  BY <1>t, <1>s, <2>7, <3>1, WrittenSafety
  <2>10. Ends(wire', AboutSafety, {[safety |-> announced'.state]}, safety', {announced'.state, "lost"})
    BY <2>1, <2>3, <2>5, <2>8, <2>9, WrittenSafety
  <2>11. Ends(wire', AboutStatus, {[status |-> "online"]}, status', {"online"})
    <3>1. online[1] \in {[status |-> "online"]} /\ \A j \in DOMAIN online : j > 1 => online[j] \notin AboutStatus
      BY <2>7
    <3>2. Ends(wire \o online, AboutStatus, {[status |-> "online"]}, status, {"online"})
      BY <1>t, <2>7, <3>1, EndsAfter
    <3> QED  BY <2>1, <2>3, <2>5, <2>8, <3>2, EndsAfter
  <2>12. ASSUME NEW r \in Arms, lastPublished'[r] # 0
         PROVE  Ends(wire', AboutRobot(r), {[robot |-> r, version |-> lastPublished'[r]]}, retained'[r], {lastPublished'[r]})
    <3>1. r \in Broker!Differs(tree, Broker!Nothing) /\ lastPublished'[r] = tree[r]
      BY <2>2, <2>4, <2>12
    <3> QED  BY <2>1, <2>3, <2>8, <3>1, EndsAfter
  <2>13. Arrives'
    BY <2>10, <2>11, <2>12 DEF Arrives, AboutRobot, AboutStatus, AboutSafety, Ends
  <2>14. SentIsAll'
    BY <2>1, <2>4 DEF SentIsAll
  <2> QED  BY <1>p, <1>t, <2>1, <2>4, <2>8, <2>13, <2>14
<1>3. ASSUME Broker!Deliver PROVE BrokerInv'
  <2> DEFINE m == Head(wire)
  <2>1. /\ link /\ wire # <<>> /\ wire' = Tail(wire)
        /\ retained' = (IF Broker!IsRobot(m) THEN [retained EXCEPT ![m.robot] = m.version] ELSE retained)
        /\ status' = (IF "status" \in DOMAIN m THEN m.status ELSE status)
        /\ safety' = (IF Broker!IsSafety(m) THEN m.safety ELSE safety)
        /\ UNCHANGED <<tree, changes, link, linked, lastPublished, flush, announced, said, brokerFaults>>
    BY <1>3 DEF Broker!Deliver
  <2>2. m \in Broker!Messages /\ Tail(wire) \in Seq(Broker!Messages)
    BY <1>t, <2>1
  <2> HIDE DEF m
  <2>3. /\ Broker!IsRobot(m) => m.robot \in Arms /\ m.version \in 1..MaxChanges
        /\ "status" \in DOMAIN m => m.status \in {"online", "offline"}
        /\ Broker!IsSafety(m) => m.safety \in Broker!Safety
    BY <2>2, MessageKinds
  <2>4. /\ retained' \in [Arms -> 0..MaxChanges] /\ status' \in {"online", "offline", "none"}
        /\ safety' \in Broker!Safety \union {"none", "lost"}
    BY <1>t, <2>1, <2>3
  <2>5. ASSUME NEW r \in Arms, lastPublished[r] # 0
        PROVE  Ends(Tail(wire), AboutRobot(r), {[robot |-> r, version |-> lastPublished[r]]}, retained'[r], {lastPublished[r]})
    <3>1. Ends(wire, AboutRobot(r), {[robot |-> r, version |-> lastPublished[r]]}, retained[r], {lastPublished[r]})
      BY <1>i, <2>1, <2>5 DEF Arrives
    <3>2. lastPublished[r] \in 1..MaxChanges
      BY <1>t, <2>5
    <3>3. [robot |-> r, version |-> lastPublished[r]] \in AboutRobot(r)
      BY <3>2, MessageKinds DEF AboutRobot
    <3>4. m = [robot |-> r, version |-> lastPublished[r]] => retained'[r] = lastPublished[r]
      BY <1>t, <2>1, <3>2, MessageKinds
    <3>5. m \notin AboutRobot(r) => retained'[r] = retained[r]
      BY <1>t, <2>1, <2>2, <2>3 DEF AboutRobot
    <3> QED  BY <1>t, <2>1, <3>1, <3>3, <3>4, <3>5, EndsTaken DEF m
  <2>6. ASSUME ~said PROVE Ends(Tail(wire), AboutStatus, {[status |-> "online"]}, status', {"online"})
    <3>1. Ends(wire, AboutStatus, {[status |-> "online"]}, status, {"online"})
      BY <1>i, <2>1, <2>6 DEF Arrives
    <3>2. [status |-> "online"] \in AboutStatus /\ (m = [status |-> "online"] => status' = "online")
      BY <2>1, MessageKinds DEF AboutStatus
    <3>3. m \notin AboutStatus => status' = status
      BY <2>1, <2>2 DEF AboutStatus
    <3> QED  BY <1>t, <2>1, <3>1, <3>2, <3>3, EndsTaken DEF m
  <2>7. Ends(Tail(wire), AboutSafety, {[safety |-> announced.state]}, safety', {announced.state, "lost"})
    <3>1. m = [safety |-> announced.state] => m \in AboutSafety /\ safety' = announced.state
      BY <2>1, <2>2 DEF AboutSafety, Broker!IsSafety
    <3>2. m \notin AboutSafety => safety' = safety
      BY <2>1, <2>2 DEF AboutSafety
    <3>3. CASE announced.state \in Broker!Safety
      <4>1. [safety |-> announced.state] \in AboutSafety
        BY <3>3, MessageKinds DEF AboutSafety
      <4> QED  BY <1>t, <1>s, <2>1, <3>1, <3>2, <4>1, EndsTaken DEF m
    <3>4. CASE announced.state \notin Broker!Safety
      <4>1. \A i \in DOMAIN wire : wire[i] # [safety |-> announced.state]
        <5> SUFFICES ASSUME NEW i \in DOMAIN wire, wire[i] = [safety |-> announced.state] PROVE FALSE
          OBVIOUS
        <5>1. wire[i] \in Broker!Messages
          BY <1>t
        <5>2. wire[i] \in AboutSafety /\ wire[i].safety = announced.state
          BY <5>1 DEF AboutSafety, Broker!IsSafety
        <5> QED  BY <3>4, <5>2, MessageKinds DEF AboutSafety
      <4>2. safety \in {announced.state, "lost"} /\ \A j \in DOMAIN wire : wire[j] \notin AboutSafety
        BY <1>s, <4>1 DEF Ends
      <4>3. Ends(wire, AboutSafety, {}, safety, {announced.state, "lost"})
        BY <4>2 DEF Ends
      <4>4. Ends(Tail(wire), AboutSafety, {}, safety', {announced.state, "lost"})
        BY <1>t, <2>1, <3>2, <4>3, EndsTaken DEF m
      <4> QED  BY <4>4 DEF Ends
    <3> QED  BY <3>3, <3>4
  <2>8. Arrives'
    BY <2>1, <2>5, <2>6, <2>7 DEF Arrives, AboutRobot, AboutStatus, AboutSafety, Ends
  <2>9. SentIsAll'
    BY <1>i, <2>1 DEF SentIsAll
  <2> QED  BY <1>p, <1>t, <2>1, <2>2, <2>4, <2>8, <2>9
<1>4. ASSUME Broker!Break PROVE BrokerInv'
  <2>1. /\ link' = FALSE /\ wire' = Broker!Kept(wire)
        /\ UNCHANGED <<tree, changes, linked, lastPublished, flush, announced, said>>
        /\ \/ status' = "offline" /\ UNCHANGED <<retained, safety>>
           \/ status' = "none" /\ retained' = Broker!Nothing /\ safety' = "lost"
    BY <1>4 DEF Broker!Break
  <2>2. retained' \in [Arms -> 0..MaxChanges] /\ status' \in {"offline", "none"} /\ safety' \in Broker!Safety \union {"none", "lost"}
    BY <1>t, <1>c, <2>1 DEF Broker!Nothing
  <2>3. wire' \in Seq(Broker!Messages)
    BY <1>t, <2>1, KeptFacts
  <2>4. announced.state \notin Broker!Safety => Ends(wire', AboutSafety, {[safety |-> announced.state]}, safety, {announced.state, "lost"})
    <3> SUFFICES ASSUME announced.state \notin Broker!Safety
                 PROVE  Ends(wire', AboutSafety, {[safety |-> announced.state]}, safety, {announced.state, "lost"})
      OBVIOUS
    <3>1. \A i \in DOMAIN wire : wire[i] # [safety |-> announced.state]
      <4> SUFFICES ASSUME NEW i \in DOMAIN wire, wire[i] = [safety |-> announced.state] PROVE FALSE
        OBVIOUS
      <4>1. wire[i] \in Broker!Messages
        BY <1>t
      <4>2. wire[i] \in AboutSafety /\ wire[i].safety = announced.state
        BY <4>1 DEF AboutSafety, Broker!IsSafety
      <4> QED  BY <4>2, MessageKinds DEF AboutSafety
    <3>2. Ends(wire, AboutSafety, {}, safety, {announced.state, "lost"})
      BY <1>s, <3>1 DEF Ends
    <3>3. Ends(wire', AboutSafety, {}, safety, {announced.state, "lost"})
      BY <1>t, <2>1, <3>2, KeptFacts
    <3> QED  BY <3>3 DEF Ends
  <2>5. announced.state \in Broker!Safety => Ends(wire', AboutSafety, {[safety |-> announced.state]}, safety, {announced.state, "lost"})
    <3>1. announced.state \in Broker!Safety => {[safety |-> announced.state]} \subseteq AboutSafety
      BY MessageKinds DEF AboutSafety
    <3> QED  BY <1>t, <1>s, <2>1, <3>1, KeptFacts
  <2>6. Ends(wire', AboutSafety, {[safety |-> announced.state]}, safety', {announced.state, "lost"})
    BY <2>1, <2>4, <2>5 DEF Ends
  <2>7. Arrives'
    BY <2>1, <2>6 DEF Arrives, AboutRobot, AboutStatus, AboutSafety, Ends
  <2>8. SentIsAll'
    BY <1>i, <2>1 DEF SentIsAll
  <2> QED  BY <1>p, <1>t, <2>1, <2>2, <2>3, <2>7, <2>8
<1>5. ASSUME Broker!Closed PROVE BrokerInv'
  <2>1. /\ ~link /\ linked' = FALSE
        /\ UNCHANGED <<tree, changes, link, lastPublished, flush, wire, retained, safety, announced, status, said, brokerFaults>>
    BY <1>5 DEF Broker!Closed
  <2>2. Arrives' /\ SentIsAll'
    BY <1>i, <2>1 DEF Arrives, SentIsAll
  <2> QED  BY <1>p, <1>t, <2>1, <2>2
<1>6. ASSUME Broker!Stop PROVE BrokerInv'
  <2> DEFINE bye == <<[status |-> "offline"]>>
             t == IF link THEN bye ELSE Broker!Kept(bye)
  <2>1. /\ said' = TRUE /\ flush' = FALSE /\ wire' = wire \o t
        /\ UNCHANGED <<tree, changes, link, linked, lastPublished, retained, safety, announced, status, brokerFaults>>
    BY <1>6 DEF Broker!Stop, Broker!Write
  <2>2. [status |-> "offline"] \in Broker!Messages /\ [status |-> "offline"] \notin AboutSafety /\ \A r \in Arms : [status |-> "offline"] \notin AboutRobot(r)
    BY MessageKinds DEF AboutSafety, AboutRobot
  <2>3. bye \in Seq(Broker!Messages) /\ \A i \in DOMAIN bye : bye[i] = [status |-> "offline"]
    BY <2>2
  <2> HIDE DEF bye
  <2>4. t \in Seq(Broker!Messages) /\ \A i \in DOMAIN t : t[i] = [status |-> "offline"]
    BY <2>3, KeptFacts
  <2> HIDE DEF t
  <2>5. wire' \in Seq(Broker!Messages)
    BY <1>t, <2>1, <2>4
  <2>6. ASSUME link, NEW r \in Arms, lastPublished[r] # 0
        PROVE  Ends(wire', AboutRobot(r), {[robot |-> r, version |-> lastPublished[r]]}, retained[r], {lastPublished[r]})
    <3>1. Ends(wire, AboutRobot(r), {[robot |-> r, version |-> lastPublished[r]]}, retained[r], {lastPublished[r]})
      BY <1>i, <2>6 DEF Arrives
    <3> QED  BY <1>t, <2>1, <2>2, <2>4, <3>1, EndsAfter
  <2>7. Ends(wire', AboutSafety, {[safety |-> announced.state]}, safety, {announced.state, "lost"})
    BY <1>t, <1>s, <2>1, <2>2, <2>4, WrittenSafety
  <2>8. Arrives'
    BY <2>1, <2>6, <2>7 DEF Arrives, AboutRobot, AboutStatus, AboutSafety, Ends
  <2>9. SentIsAll'
    BY <2>1 DEF SentIsAll
  <2> QED  BY <1>p, <1>t, <2>1, <2>5, <2>8, <2>9
<1>7. ASSUME NEW r \in Arms, Broker!Change(r) PROVE BrokerInv'
  <2>1. PICK v \in {0, changes + 1} : tree' = [tree EXCEPT ![r] = v]
    BY <1>7 DEF Broker!Change
  <2>2. /\ changes < MaxChanges /\ changes' = changes + 1 /\ flush' = (flush \/ linked)
        /\ UNCHANGED <<link, linked, lastPublished, wire, retained, safety, announced, status, said, brokerFaults>>
    BY <1>7 DEF Broker!Change
  <2>3. tree' \in [Arms -> 0..MaxChanges] /\ changes' \in 1..MaxChanges
    BY <1>t, <1>c, <2>1, <2>2
  <2>4. Arrives' /\ SentIsAll'
    BY <1>i, <2>2 DEF Arrives, SentIsAll
  <2>5. flush' \in BOOLEAN
    BY <2>2
  <2> QED  BY <1>p, <1>t, <2>2, <2>3, <2>4, <2>5
<1>8. ASSUME NEW s \in Broker!Safety, Broker!Announce(s) PROVE BrokerInv'
  <2> DEFINE note == <<[safety |-> s]>>
             t == IF link THEN note ELSE Broker!Kept(note)
  <2>1. /\ announced.count < MaxHalts /\ announced' = [state |-> s, count |-> announced.count + 1] /\ wire' = wire \o t
        /\ UNCHANGED <<tree, changes, link, linked, lastPublished, flush, retained, safety, status, said, brokerFaults>>
    BY <1>8 DEF Broker!Announce, Broker!Write
  <2>2. /\ [safety |-> s] \in Broker!Messages /\ [safety |-> s] \in AboutSafety /\ [safety |-> s] \notin AboutStatus
        /\ \A r \in Arms : [safety |-> s] \notin AboutRobot(r)
    BY MessageKinds DEF AboutSafety, AboutStatus, AboutRobot
  <2>3. /\ note \in Seq(Broker!Messages) /\ \A i \in DOMAIN note : note[i] = [safety |-> s]
        /\ Ends(note, AboutSafety, {[safety |-> s]}, safety, {})
    <3>1. note \in Seq(Broker!Messages) /\ DOMAIN note = 1..1 /\ note[1] = [safety |-> s]
      BY <2>2
    <3> HIDE DEF note
    <3> QED  BY <3>1 DEF Ends
  <2> HIDE DEF note
  <2>4. /\ t \in Seq(Broker!Messages) /\ \A i \in DOMAIN t : t[i] = [safety |-> s]
        /\ Ends(t, AboutSafety, {[safety |-> s]}, safety, {})
    BY <2>2, <2>3, KeptFacts
  <2> HIDE DEF t
  <2>5. wire' \in Seq(Broker!Messages) /\ announced' \in [state : Broker!Safety \union {"none"}, count : 0..MaxHalts]
    BY <1>t, <1>c, <2>1, <2>4
  <2>6. ASSUME link, NEW r \in Arms, lastPublished[r] # 0
        PROVE  Ends(wire', AboutRobot(r), {[robot |-> r, version |-> lastPublished[r]]}, retained[r], {lastPublished[r]})
    <3>1. Ends(wire, AboutRobot(r), {[robot |-> r, version |-> lastPublished[r]]}, retained[r], {lastPublished[r]})
      BY <1>i, <2>6 DEF Arrives
    <3> QED  BY <1>t, <2>1, <2>2, <2>4, <3>1, EndsAfter
  <2>7. ASSUME link, ~said PROVE Ends(wire', AboutStatus, {[status |-> "online"]}, status, {"online"})
    <3>1. Ends(wire, AboutStatus, {[status |-> "online"]}, status, {"online"})
      BY <1>i, <2>7 DEF Arrives
    <3> QED  BY <1>t, <2>1, <2>2, <2>4, <3>1, EndsAfter
  <2>8. Ends(wire', AboutSafety, {[safety |-> s]}, safety, {s, "lost"})
    <3>1. \E i \in DOMAIN t : t[i] \in {[safety |-> s]} /\ \A j \in DOMAIN t : j > i => t[j] \notin AboutSafety
      BY <2>4 DEF Ends
    <3> QED  BY <1>t, <2>1, <2>4, <3>1, EndsAfter
  <2>9. Arrives'
    BY <2>1, <2>6, <2>7, <2>8 DEF Arrives, AboutRobot, AboutStatus, AboutSafety, Ends
  <2>10. SentIsAll'
    BY <1>i, <2>1 DEF SentIsAll
  <2> QED  BY <1>p, <1>t, <2>1, <2>5, <2>9, <2>10
<1> QED  BY <1>1, <1>2, <1>3, <1>4, <1>5, <1>6, <1>7, <1>8 DEF Broker!Next

\* While nothing is scheduled or on the way, the broker shows the robots of the tree.
LEMMA BrokerHolds == BrokerInv => Broker!TypeOK /\ Broker!QuietIsTrue
<1> SUFFICES ASSUME BrokerInv PROVE Broker!QuietIsTrue
  BY DEF BrokerInv, BrokerTypes
<1> SUFFICES ASSUME link, linked, ~flush, wire = <<>>, ~said
             PROVE  status = "online" /\ (\A r \in Broker!Here : retained[r] = tree[r]) /\ safety \in {announced.state, "lost"}
  BY DEF Broker!QuietIsTrue
<1>1. DOMAIN wire = {}
  OBVIOUS
<1> QED  BY <1>1 DEF BrokerInv, SentIsAll, Arrives, Ends, Broker!Here

\* A step of another part.
LEMMA BrokerStays == BrokerInv /\ UNCHANGED brokerVars => BrokerInv'
<1> SUFFICES ASSUME BrokerInv, UNCHANGED brokerVars PROVE BrokerInv'
  OBVIOUS
<1>1. BrokerTypes'
  BY DEF brokerVars, BrokerInv, BrokerTypes, Broker!TypeOK
<1>2. SentIsAll' /\ Arrives'
  BY DEF brokerVars, BrokerInv, SentIsAll, Arrives
<1> QED  BY <1>1, <1>2 DEF BrokerInv

-----------------------------------------------------------------------------
(* What the phones are told *)

Notices == [ack : 1..MaxAcks] \union [state : 1..MaxVersions]

RadioTypes ==
  /\ state \in 1..MaxVersions /\ subscribers \subseteq Phones /\ told \in [Phones -> 0..MaxVersions]
  /\ acks \in 0..MaxAcks /\ notices \in Seq(Notices) /\ heard \in Seq(1..MaxAcks)
  /\ current \in [message : Notices \union {<<>>}, left : 0..Frames, to : SUBSET Phones]
  /\ current.left > 0 => current.message \in Notices

\* The first n of q are the acknowledgements up to the last, and at most one state waits behind them.
Waiting(q, n, last) ==
  /\ n \in 0..last /\ Len(q) \in {n, n + 1}
  /\ \A i \in 1..n : q[i] = [ack |-> last - n + i]
  /\ Len(q) = n + 1 => Radio!IsState(q[n + 1])

\* What was heard, what is being sent and what waits are in order.
InTurn(n) ==
  /\ \A i \in DOMAIN heard : heard[i] <= acks - n
  /\ current.left > 0 /\ ~Radio!IsState(current.message) =>
       /\ current.message.ack <= acks - n
       /\ \A i \in DOMAIN heard : heard[i] < current.message.ack
  /\ \A i, j \in DOMAIN heard : i < j => heard[i] < heard[j]

RadioInv == RadioTypes /\ \E n \in Nat : Waiting(notices, n, acks) /\ InTurn(n)

\* The assumptions on this part.
LEMMA RadioConstants ==
  /\ Frames \in Nat \ {0} /\ MaxVersions \in Nat \ {0} /\ MaxAcks \in Nat
BY LinksAssumption DEF LinksAssumption

\* A notification is a state or an acknowledgement.
LEMMA NoticeKinds ==
  /\ \A v \in 1..MaxVersions : [state |-> v] \in Notices /\ Radio!IsState([state |-> v])
  /\ \A k \in 1..MaxAcks : [ack |-> k] \in Notices /\ ~Radio!IsState([ack |-> k])
  /\ \A m \in Notices : IF Radio!IsState(m) THEN m.state \in 1..MaxVersions ELSE m.ack \in 1..MaxAcks
<1>1. \A v \in 1..MaxVersions : [state |-> v] \in Notices /\ Radio!IsState([state |-> v])
  BY DEF Notices, Radio!IsState
<1>2. \A k \in 1..MaxAcks : [ack |-> k] \in Notices /\ ~Radio!IsState([ack |-> k])
  BY DEF Notices, Radio!IsState
<1>3. ASSUME NEW m \in Notices
      PROVE  IF Radio!IsState(m) THEN m.state \in 1..MaxVersions ELSE m.ack \in 1..MaxAcks
  <2>1. CASE m \in [ack : 1..MaxAcks]
    BY <2>1 DEF Radio!IsState
  <2>2. CASE m \in [state : 1..MaxVersions]
    BY <2>2 DEF Radio!IsState
  <2> QED  BY <2>1, <2>2 DEF Notices
<1> QED  BY <1>1, <1>2, <1>3

\* Which elements are states.
LEMMA StatesLast ==
  ASSUME NEW q \in Seq(Notices), NEW n \in Nat, NEW last \in 0..MaxAcks, Waiting(q, n, last)
  PROVE  /\ DOMAIN q = 1..Len(q) /\ Len(q) \in Nat
         /\ \A i \in DOMAIN q : Radio!IsState(q[i]) <=> i = n + 1
         /\ {i \in DOMAIN q : Radio!NotState(q[i])} = 1..n
         /\ {i \in DOMAIN q : Radio!IsState(q[i])} = IF Len(q) = n + 1 THEN {n + 1} ELSE {}
<1>1. DOMAIN q = 1..Len(q) /\ Len(q) \in Nat
  BY LenProperties
<1>3. n <= last /\ last <= MaxAcks /\ last \in Nat /\ MaxAcks \in Nat /\ Len(q) \in {n, n + 1}
  BY RadioConstants DEF Waiting
<1>2. ASSUME NEW i \in DOMAIN q PROVE Radio!IsState(q[i]) <=> i = n + 1
  <2>1. CASE i \in 1..n
    <3>1. q[i] = [ack |-> last - n + i]
      BY <2>1 DEF Waiting
    <3>2. last - n + i \in 1..MaxAcks /\ i # n + 1
      BY <1>3, <2>1
    <3> HIDE DEF Waiting
    <3> QED  BY <3>1, <3>2, NoticeKinds
  <2>2. CASE i = n + 1
    <3>1. Len(q) = n + 1
      <4>1. CASE Len(q) = n
        BY <1>1, <2>2, <4>1
      <4> QED  BY <1>3, <4>1
    <3> QED  BY <2>2, <3>1 DEF Waiting
  <2>3. i \in 1..n \/ i = n + 1
    <3>1. CASE Len(q) = n
      BY <1>1, <3>1
    <3>2. CASE Len(q) = n + 1
      BY <1>1, <3>2
    <3> QED  BY <1>3, <3>1, <3>2
  <2> QED  BY <2>1, <2>2, <2>3
<1>4. CASE Len(q) = n
  <2>1. DOMAIN q = 1..n /\ \A i \in 1..n : i # n + 1
    BY <1>1, <1>4
  <2> QED  BY <1>1, <1>2, <1>4, <2>1 DEF Radio!NotState
<1>5. CASE Len(q) = n + 1
  <2>1. DOMAIN q = 1..n \union {n + 1} /\ \A i \in 1..n : i # n + 1
    BY <1>1, <1>5
  <2> QED  BY <1>1, <1>2, <1>5, <2>1 DEF Radio!NotState
<1> QED  BY <1>3, <1>4, <1>5

\* A waiting state is taken out; the acknowledgements stay.
LEMMA ReplacedFacts ==
  ASSUME NEW q \in Seq(Notices), NEW n \in Nat, NEW last \in 0..MaxAcks, Waiting(q, n, last)
  PROVE  /\ Radio!Replaced(q) \in Seq(Notices) /\ Len(Radio!Replaced(q)) = n
         /\ \A i \in 1..n : Radio!Replaced(q)[i] = [ack |-> last - n + i]
<1> DEFINE at == 1..n
<1>1. Radio!Replaced(q) = Picked(q, at) /\ at \in SUBSET (1..Len(q))
  <2>1. {i \in DOMAIN q : Radio!NotState(q[i])} = at /\ Len(q) \in Nat
    BY StatesLast
  <2>2. Radio!Replaced(q) = Picked(q, at)
    BY <2>1, RadioPicks DEF Radio!Replaced
  <2>3. n <= Len(q)
    BY <2>1 DEF Waiting
  <2> QED  BY <2>1, <2>2, <2>3
<1>2. Cardinality(at) = n /\ \A i \in at : Rank(at, i) = i
  <2>1. Cardinality(at) = n
    BY FS_Interval
  <2>2. ASSUME NEW i \in at PROVE Rank(at, i) = i
    <3>1. at \intersect 1..i = 1..i
      OBVIOUS
    <3>2. Cardinality(1..i) = i
      BY FS_Interval
    <3> QED  BY <3>1, <3>2 DEF Rank
  <2> QED  BY <2>1, <2>2
<1>3. /\ Picked(q, at) \in Seq(Notices) /\ Len(Picked(q, at)) = Cardinality(at)
      /\ \A m \in 1..Cardinality(at) : Picked(q, at)[m] = q[Nth(at, m)]
      /\ \A i \in at : Nth(at, Rank(at, i)) = i
  BY <1>1, PickedFacts
<1>4. \A i \in 1..n : Picked(q, at)[i] = q[i]
  BY <1>2, <1>3
<1> HIDE DEF at
<1> QED  BY <1>1, <1>2, <1>3, <1>4 DEF Waiting

\* The waiting state alone.
LEMMA StateAlone ==
  ASSUME NEW q \in Seq(Notices), NEW n \in Nat, NEW last \in 0..MaxAcks, Waiting(q, n, last)
  PROVE  LET rest == Radio!At(q, {i \in DOMAIN q : Radio!IsState(q[i])}) IN
         /\ rest \in Seq(Notices) /\ Len(rest) = Len(q) - n
         /\ Len(q) = n + 1 => rest[1] = q[n + 1]
<1> DEFINE at == {i \in DOMAIN q : Radio!IsState(q[i])}
<1>1. Radio!At(q, at) = Picked(q, at) /\ at \in SUBSET (1..Len(q)) /\ at = IF Len(q) = n + 1 THEN {n + 1} ELSE {}
  BY StatesLast, RadioPicks
<1> HIDE DEF at
<1>2. Cardinality(at) = Len(q) - n
  <2>1. Cardinality({n + 1}) = 1 /\ Cardinality({}) = 0
    BY FS_Singleton, FS_EmptySet
  <2>2. Len(q) \in {n, n + 1}
    BY DEF Waiting
  <2>3. CASE Len(q) = n + 1
    BY <1>1, <2>1, <2>3
  <2>4. CASE Len(q) = n
    BY <1>1, <2>1, <2>4
  <2> QED  BY <2>2, <2>3, <2>4
<1>3. /\ Picked(q, at) \in Seq(Notices) /\ Len(Picked(q, at)) = Cardinality(at)
      /\ \A m \in 1..Cardinality(at) : Nth(at, m) \in at /\ Picked(q, at)[m] = q[Nth(at, m)]
  BY <1>1, PickedFacts
<1>4. Len(q) = n + 1 => Picked(q, at)[1] = q[n + 1]
  <2> SUFFICES ASSUME Len(q) = n + 1 PROVE Picked(q, at)[1] = q[n + 1]
    OBVIOUS
  <2>1. at = {n + 1} /\ 1 \in 1..Cardinality(at)
    BY <1>1, <1>2
  <2>2. Nth(at, 1) \in at /\ Picked(q, at)[1] = q[Nth(at, 1)]
    BY <1>3, <2>1
  <2> QED  BY <2>1, <2>2
<1> QED  BY <1>1, <1>2, <1>3, <1>4 DEF at

\* A new state waits last.
LEMMA StateQueued ==
  ASSUME NEW q \in Seq(Notices), NEW n \in Nat, NEW last \in 0..MaxAcks, Waiting(q, n, last), NEW v \in 1..MaxVersions
  PROVE  LET new == Append(Radio!Replaced(q), [state |-> v]) IN
         new \in Seq(Notices) /\ Waiting(new, n, last)
<1> DEFINE rest == Radio!Replaced(q)
           new == Append(rest, [state |-> v])
<1>1. rest \in Seq(Notices) /\ Len(rest) = n /\ \A i \in 1..n : rest[i] = [ack |-> last - n + i]
  BY ReplacedFacts
<1>2. [state |-> v] \in Notices /\ Radio!IsState([state |-> v])
  BY NoticeKinds
<1> HIDE DEF rest
<1>3. new \in Seq(Notices) /\ Len(new) = n + 1 /\ new[n + 1] = [state |-> v] /\ \A i \in 1..n : new[i] = rest[i]
  BY <1>1, <1>2
<1> HIDE DEF new
<1>4. Waiting(new, n, last)
  BY <1>1, <1>2, <1>3 DEF Waiting
<1> QED  BY <1>3, <1>4 DEF new, rest

\* An acknowledgement goes before a waiting state.
LEMMA AckQueued ==
  ASSUME NEW q \in Seq(Notices), NEW n \in Nat, NEW last \in 0..MaxAcks, last < MaxAcks, Waiting(q, n, last)
  PROVE  LET new == Radio!Before(q, [ack |-> last + 1]) IN
         new \in Seq(Notices) /\ Waiting(new, n + 1, last + 1)
<1> DEFINE first == Radio!Replaced(q)
           mid == <<[ack |-> last + 1]>>
           back == Radio!At(q, {i \in DOMAIN q : Radio!IsState(q[i])})
           new == (first \o mid) \o back
<1>1. first \in Seq(Notices) /\ Len(first) = n /\ \A i \in 1..n : first[i] = [ack |-> last - n + i]
  BY ReplacedFacts
<1>2. mid \in Seq(Notices) /\ Len(mid) = 1 /\ mid[1] = [ack |-> last + 1]
  BY RadioConstants, NoticeKinds
<1>3. /\ back \in Seq(Notices) /\ Len(back) = Len(q) - n
      /\ Len(q) = n + 1 => back[1] = q[n + 1]
  BY StateAlone
<1>4. Radio!Before(q, [ack |-> last + 1]) = new
  BY DEF Radio!Before
<1> HIDE DEF first, mid, back
<1> DEFINE pre == first \o mid
<1>5. /\ pre \in Seq(Notices) /\ Len(pre) = n + 1
      /\ \A i \in 1..n : pre[i] = first[i]
      /\ pre[n + 1] = mid[1]
  <2>1. /\ pre \in Seq(Notices) /\ Len(pre) = n + 1
        /\ \A i \in 1..n + 1 : pre[i] = IF i <= n THEN first[i] ELSE mid[i - n]
    <3>1. /\ first \o mid \in Seq(Notices) /\ Len(first \o mid) = Len(first) + Len(mid)
          /\ \A i \in 1..Len(first) + Len(mid) : (first \o mid)[i] = IF i <= Len(first) THEN first[i] ELSE mid[i - Len(first)]
      BY <1>1, <1>2, ConcatProperties, Zenon
    <3> QED  BY <1>1, <1>2, <3>1
  <2>2. n + 1 \in 1..n + 1 /\ ~(n + 1 <= n) /\ n + 1 - n = 1 /\ \A i \in 1..n : i \in 1..n + 1 /\ i <= n
    OBVIOUS
  <2> HIDE DEF pre
  <2> QED  BY <2>1, <2>2
<1> HIDE DEF pre
<1>6. /\ pre \o back \in Seq(Notices) /\ Len(pre \o back) = n + 1 + Len(back)
      /\ \A i \in 1..n + 1 : (pre \o back)[i] = pre[i]
      /\ Len(back) = 1 => (pre \o back)[n + 2] = back[1]
  BY <1>3, <1>5
<1>11. new = pre \o back
  BY DEF pre
<1> HIDE DEF new
<1>7. Len(back) \in {0, 1} /\ (Len(back) = 1 => Radio!IsState(back[1]))
  BY <1>3 DEF Waiting
<1>8. \A i \in 1..n + 1 : new[i] = [ack |-> last + 1 - (n + 1) + i]
  <2> SUFFICES ASSUME NEW i \in 1..n + 1 PROVE new[i] = [ack |-> last + 1 - (n + 1) + i]
    OBVIOUS
  <2>1. CASE i <= n
    <3>0. i \in 1..n
      BY <2>1
    <3>1. new[i] = first[i]
      BY <1>5, <1>6, <1>11, <3>0
    <3>2. last - n + i = last + 1 - (n + 1) + i
      OBVIOUS
    <3> QED  BY <1>1, <3>0, <3>1, <3>2
  <2>2. CASE i = n + 1
    <3>1. new[i] = mid[1]
      BY <1>5, <1>6, <1>11, <2>2
    <3>2. last + 1 = last + 1 - (n + 1) + i
      BY <2>2
    <3> QED  BY <1>2, <3>1, <3>2
  <2> QED  BY <2>1, <2>2
<1>9. Len(new) = n + 2 => Radio!IsState(new[n + 2])
  <2> SUFFICES ASSUME Len(new) = n + 2 PROVE Radio!IsState(new[n + 2])
    OBVIOUS
  <2>1. Len(back) = 1 /\ new[n + 2] = back[1]
    BY <1>6, <1>7, <1>11
  <2> QED  BY <1>7, <2>1
<1>10. Waiting(new, n + 1, last + 1)
  <2>1. n + 1 \in 0..(last + 1) /\ n + 1 + 1 = n + 2 /\ n + 1 + 0 = n + 1
    BY DEF Waiting
  <2>2. Len(new) \in {n + 1, n + 1 + 1}
    BY <1>6, <1>7, <1>11, <2>1
  <2> QED  BY <1>8, <1>9, <2>1, <2>2 DEF Waiting
<1> QED  BY <1>4, <1>6, <1>10, <1>11

\* Nothing waits at the start.
LEMMA RadioStarts == Radio!Init => RadioInv
<1> SUFFICES ASSUME Radio!Init PROVE RadioInv
  OBVIOUS
<1> USE RadioConstants
<1>1. state = 1 /\ subscribers = {} /\ notices = <<>> /\ current = Radio!Idle /\ acks = 0 /\ told = [p \in Phones |-> 0] /\ heard = <<>>
  BY DEF Radio!Init
<1>2. RadioTypes
  BY <1>1 DEF RadioTypes, Radio!Idle
<1>3. Waiting(notices, 0, acks)
  <2>1. Len(notices) = 0 /\ 0 # 0 + 1
    BY <1>1
  <2> QED  BY <1>1, <2>1 DEF Waiting
<1>4. InTurn(0)
  BY <1>1 DEF InTurn, Radio!Idle
<1> QED  BY <1>2, <1>3, <1>4 DEF RadioInv

\* What waits is only replaced by a newer state; nothing else of the order moves.
LEMMA RadioKept ==
  ASSUME RadioInv, UNCHANGED <<acks, heard, current>>,
         notices' = notices \/ \E v \in 1..MaxVersions : notices' = Append(Radio!Replaced(notices), [state |-> v])
  PROVE  notices' \in Seq(Notices) /\ \E n \in Nat : Waiting(notices', n, acks') /\ InTurn(n)'
<1>1. PICK n \in Nat : Waiting(notices, n, acks) /\ InTurn(n)
  BY DEF RadioInv
<1>2. notices \in Seq(Notices) /\ acks \in 0..MaxAcks /\ acks' = acks
  BY DEF RadioInv, RadioTypes
<1>3. notices' \in Seq(Notices) /\ Waiting(notices', n, acks)
  <2>1. CASE notices' = notices
    BY <1>1, <1>2, <2>1
  <2>2. ASSUME NEW v \in 1..MaxVersions, notices' = Append(Radio!Replaced(notices), [state |-> v])
        PROVE  notices' \in Seq(Notices) /\ Waiting(notices', n, acks)
    BY <1>1, <1>2, <2>2, StateQueued
  <2> QED  BY <2>1, <2>2
<1>4. InTurn(n)'
  BY <1>1 DEF InTurn
<1> QED  BY <1>2, <1>3, <1>4

\* Each step of the commands, the states, the timer and the helper process.
LEMMA RadioSteps == RadioInv /\ Radio!Next => RadioInv'
<1> SUFFICES ASSUME RadioInv, Radio!Next PROVE RadioInv'
  OBVIOUS
<1> USE RadioConstants
<1>t. RadioTypes
  BY DEF RadioInv
<1>n. PICK n \in Nat : Waiting(notices, n, acks) /\ InTurn(n)
  BY DEF RadioInv
<1>k. ASSUME UNCHANGED <<acks, heard, current>>,
             notices' = notices \/ \E v \in 1..MaxVersions : notices' = Append(Radio!Replaced(notices), [state |-> v]),
             state' \in 1..MaxVersions, subscribers' \subseteq Phones, told' \in [Phones -> 0..MaxVersions]
      PROVE  RadioInv'
  <2>1. notices' \in Seq(Notices) /\ \E k \in Nat : Waiting(notices', k, acks') /\ InTurn(k)'
    BY <1>k, RadioKept
  <2>2. RadioTypes'
    BY <1>t, <1>k, <2>1 DEF RadioTypes
  <2> QED  BY <2>1, <2>2 DEF RadioInv
<1>1. CASE Radio!Change
  <2>1. state' \in 1..MaxVersions
    BY <1>1, <1>t DEF Radio!Change, RadioTypes
  <2>2. notices' = notices \/ notices' = Append(Radio!Replaced(notices), [state |-> state'])
    BY <1>1 DEF Radio!Change, Radio!Publish, Radio!QueueState
  <2> QED  BY <1>1, <1>k, <1>t, <2>1, <2>2 DEF Radio!Change, RadioTypes
<1>2. CASE Radio!TimerFires
  <2>1. state \in 1..MaxVersions /\ state' = state
    BY <1>2, <1>t DEF Radio!TimerFires, RadioTypes
  <2>2. notices' = notices \/ notices' = Append(Radio!Replaced(notices), [state |-> state])
    BY <1>2 DEF Radio!TimerFires
  <2> QED  BY <1>2, <1>k, <1>t, <2>1, <2>2 DEF Radio!TimerFires, RadioTypes
<1>3. ASSUME NEW p \in Phones, Radio!Subscribe(p) PROVE RadioInv'
  <2>1. state \in 1..MaxVersions /\ state' = state /\ subscribers' \subseteq Phones /\ told' \in [Phones -> 0..MaxVersions]
    BY <1>3, <1>t DEF Radio!Subscribe, RadioTypes
  <2>2. notices' = notices \/ notices' = Append(Radio!Replaced(notices), [state |-> state'])
    BY <1>3 DEF Radio!Subscribe, Radio!Publish, Radio!QueueState
  <2> QED  BY <1>3, <1>k, <2>1, <2>2 DEF Radio!Subscribe
<1>4. ASSUME NEW p \in Phones, Radio!Leave(p) PROVE RadioInv'
  BY <1>4, <1>k, <1>t DEF Radio!Leave, RadioTypes
<1>5. CASE Radio!HelperDies \/ Radio!Relaunch \/ Radio!Ready \/ Radio!Stop
  BY <1>5, <1>k, <1>t DEF Radio!HelperDies, Radio!Relaunch, Radio!Ready, Radio!Stop, RadioTypes
<1>6. CASE Radio!Ack
  <2>1. acks < MaxAcks /\ acks' = acks + 1 /\ notices' = Radio!Before(notices, [ack |-> acks + 1])
        /\ UNCHANGED <<state, subscribers, current, told, heard>>
    BY <1>6 DEF Radio!Ack
  <2>2. notices \in Seq(Notices) /\ acks \in 0..MaxAcks
    BY <1>t DEF RadioTypes
  <2>3. notices' \in Seq(Notices) /\ Waiting(notices', n + 1, acks')
    BY <1>n, <2>1, <2>2, AckQueued
  <2>4. InTurn(n + 1)'
    <3>1. acks' - (n + 1) = acks - n
      BY <2>1, <2>2
    <3> QED  BY <1>n, <2>1, <3>1 DEF InTurn
  <2>5. RadioTypes'
    BY <1>t, <2>1, <2>3 DEF RadioTypes
  <2> QED  BY <2>3, <2>4, <2>5 DEF RadioInv
<1>7. CASE Radio!Take
  <2>1. /\ current.left = 0 /\ notices # <<>>
        /\ current' = [message |-> Head(notices), left |-> Frames, to |-> subscribers] /\ notices' = Tail(notices)
        /\ UNCHANGED <<state, subscribers, acks, told, heard>>
    BY <1>7 DEF Radio!Take
  <2>2. notices \in Seq(Notices) /\ acks \in 0..MaxAcks /\ subscribers \subseteq Phones
    BY <1>t DEF RadioTypes
  <2>3. /\ Head(notices) = notices[1] /\ Head(notices) \in Notices /\ notices' \in Seq(Notices)
        /\ Len(notices') = Len(notices) - 1 /\ \A i \in 1..Len(notices') : notices'[i] = notices[i + 1]
        /\ 1 \in DOMAIN notices
    BY <2>1, <2>2
  <2>4. RadioTypes'
    <3>1. current' \in [message : Notices \union {<<>>}, left : 0..Frames, to : SUBSET Phones]
      BY <2>1, <2>2, <2>3
    <3> QED  BY <1>t, <2>1, <2>3, <3>1 DEF RadioTypes
  <2>5. \A i \in DOMAIN notices : Radio!IsState(notices[i]) <=> i = n + 1
    BY <1>n, <2>2, StatesLast
  <2>6. CASE n = 0
    <3>1. Len(notices) = 1
      <4>1. Len(notices) \in {0, 0 + 1} /\ DOMAIN notices = 1..Len(notices)
        BY <1>n, <2>2, <2>6 DEF Waiting
      <4> QED  BY <2>3, <4>1
    <3>2. Waiting(notices', 0, acks')
      BY <2>1, <2>2, <2>3, <3>1 DEF Waiting
    <3>3. Radio!IsState(current'.message)
      BY <2>1, <2>3, <2>5, <2>6
    <3>4. InTurn(0)'
      BY <1>n, <2>1, <2>6, <3>3 DEF InTurn
    <3> QED  BY <2>4, <3>2, <3>4 DEF RadioInv
  <2>7. CASE n # 0
    <3>0. n - 1 \in Nat /\ n - 1 \in 0..acks /\ n - 1 + 1 = n /\ 1 \in 1..n /\ acks - n + 1 = acks - (n - 1)
      BY <1>n, <2>2, <2>7 DEF Waiting
    <3>1. current'.message = [ack |-> acks - n + 1] /\ ~Radio!IsState(current'.message)
      <4>1. notices[1] = [ack |-> acks - n + 1]
        BY <1>n, <3>0 DEF Waiting
      <4>2. acks - n + 1 \in 1..MaxAcks
        BY <1>n, <2>2, <3>0 DEF Waiting
      <4> QED  BY <2>1, <2>3, <4>1, <4>2, NoticeKinds
    <3>2. Len(notices') \in {n - 1, n}
      <4>1. Len(notices) \in {n, n + 1}
        BY <1>n DEF Waiting
      <4> QED  BY <2>3, <4>1
    <3>3. \A i \in 1..n - 1 : notices'[i] = [ack |-> acks - (n - 1) + i]
      <4> SUFFICES ASSUME NEW i \in 1..n - 1 PROVE notices'[i] = [ack |-> acks - (n - 1) + i]
        OBVIOUS
      <4>1. i \in 1..Len(notices') /\ i + 1 \in 1..n /\ acks - n + (i + 1) = acks - (n - 1) + i
        BY <2>2, <2>3, <3>2
      <4>2. notices'[i] = notices[i + 1] /\ notices[i + 1] = [ack |-> acks - n + (i + 1)]
        BY <1>n, <2>3, <4>1 DEF Waiting
      <4> QED  BY <4>1, <4>2
    <3>4. Len(notices') = n => Radio!IsState(notices'[n])
      <4> SUFFICES ASSUME Len(notices') = n PROVE Radio!IsState(notices'[n])
        OBVIOUS
      <4>1. Len(notices) = n + 1 /\ n \in 1..Len(notices')
        BY <2>3, <2>7
      <4>2. notices'[n] = notices[n + 1] /\ Radio!IsState(notices[n + 1])
        BY <1>n, <2>3, <4>1 DEF Waiting
      <4> QED  BY <4>2
    <3>5. Waiting(notices', n - 1, acks')
      BY <2>1, <3>0, <3>2, <3>3, <3>4 DEF Waiting
    <3>6. InTurn(n - 1)'
      <4>1. \A i \in DOMAIN heard : heard[i] \in 1..MaxAcks /\ heard[i] <= acks - n
        BY <1>n, <1>t DEF InTurn, RadioTypes
      <4>2. \A i \in DOMAIN heard : heard[i] <= acks - (n - 1) /\ heard[i] < acks - n + 1
        BY <2>2, <3>0, <4>1
      <4>3. current'.message.ack = acks - (n - 1) /\ acks - (n - 1) <= acks - (n - 1)
        BY <2>2, <3>0, <3>1
      <4> QED  BY <1>n, <2>1, <3>0, <3>1, <4>2, <4>3 DEF InTurn
    <3> QED  BY <2>4, <3>0, <3>5, <3>6 DEF RadioInv
  <2> QED  BY <2>6, <2>7
<1>8. CASE Radio!Frame
  <2>1. current.left > 0 /\ UNCHANGED <<state, subscribers, notices, acks>>
    BY <1>8 DEF Radio!Frame
  <2>2. Waiting(notices', n, acks')
    BY <1>n, <2>1
  <2>3. current.message \in Notices /\ current.left \in 1..Frames
    BY <1>t, <2>1 DEF RadioTypes
  <2>4. /\ current' = Radio!Idle \/ (current.left > 1 /\ current' = [current EXCEPT !.left = @ - 1])
        /\ current' \in [message : Notices \union {<<>>}, left : 0..Frames, to : SUBSET Phones]
        /\ current'.left > 0 => current'.message = current.message /\ UNCHANGED <<told, heard>>
    <3>1. current \in [message : Notices \union {<<>>}, left : 0..Frames, to : SUBSET Phones]
      BY <1>t DEF RadioTypes
    <3>2. /\ current' = Radio!Idle \/ (current.left > 1 /\ current' = [current EXCEPT !.left = current.left - 1])
          /\ ~(helper = "up" /\ current.left = 1) => UNCHANGED <<told, heard>>
          /\ helper = "up" /\ current.left = 1 => current' = Radio!Idle
      BY <1>8, <2>3 DEF Radio!Frame
    <3>3. CASE current' = Radio!Idle
      BY <3>3, <2>3, <3>1 DEF Radio!Idle
    <3>4. CASE current.left > 1 /\ current' = [current EXCEPT !.left = current.left - 1]
      <4>1. /\ current' \in [message : Notices \union {<<>>}, left : 0..Frames, to : SUBSET Phones]
            /\ current'.message = current.message
        BY <2>3, <3>1, <3>4
      <4> QED  BY <3>2, <3>4, <4>1
    <3> QED  BY <3>2, <3>3, <3>4
  <2>5. CASE UNCHANGED <<told, heard>>
    <3>1. RadioTypes'
      BY <1>t, <2>1, <2>3, <2>4, <2>5 DEF RadioTypes
    <3>2. InTurn(n)'
      BY <1>n, <2>1, <2>4, <2>5 DEF InTurn
    <3> QED  BY <2>2, <3>1, <3>2 DEF RadioInv
  <2>6. CASE Radio!IsState(current.message) /\ ~UNCHANGED <<told, heard>>
    <3>1. heard' = heard /\ told' = [p \in Phones |-> IF p \in current.to \cap subscribers THEN current.message.state ELSE told[p]]
      BY <1>8, <2>6 DEF Radio!Frame
    <3>2. current.message.state \in 1..MaxVersions
      BY <2>3, <2>6, NoticeKinds
    <3>3. told' \in [Phones -> 0..MaxVersions]
      BY <1>t, <3>1, <3>2 DEF RadioTypes
    <3>4. RadioTypes'
      BY <1>t, <2>1, <2>3, <2>4, <3>1, <3>3 DEF RadioTypes
    <3>5. InTurn(n)'
      BY <1>n, <2>1, <2>4, <2>6, <3>1 DEF InTurn
    <3> QED  BY <2>2, <3>4, <3>5 DEF RadioInv
  <2>7. CASE ~Radio!IsState(current.message) /\ ~UNCHANGED <<told, heard>>
    <3>1. told' = told /\ heard' = Append(heard, current.message.ack)
      BY <1>8, <2>7 DEF Radio!Frame
    <3>2. current.message.ack \in 1..MaxAcks
      BY <2>3, <2>7, NoticeKinds
    <3> DEFINE a == current.message.ack
    <3>3. a <= acks - n /\ \A i \in DOMAIN heard : heard[i] < a /\ heard[i] <= acks - n
      BY <1>n, <2>1, <2>7 DEF InTurn
    <3>4. heard \in Seq(1..MaxAcks) /\ DOMAIN heard = 1..Len(heard) /\ Len(heard) \in Nat
      BY <1>t DEF RadioTypes
    <3>5. \A i, j \in DOMAIN heard : i < j => heard[i] < heard[j]
      BY <1>n DEF InTurn
    <3> HIDE DEF a
    <3>6. /\ heard' \in Seq(1..MaxAcks) /\ DOMAIN heard' = 1..Len(heard) + 1
          /\ heard'[Len(heard) + 1] = a /\ \A i \in 1..Len(heard) : heard'[i] = heard[i]
      BY <3>1, <3>2, <3>4 DEF a
    <3>7. \A i \in DOMAIN heard' : heard'[i] <= acks - n
      BY <3>3, <3>4, <3>6
    <3>8. \A i, j \in DOMAIN heard' : i < j => heard'[i] < heard'[j]
      <4> SUFFICES ASSUME NEW i \in DOMAIN heard', NEW j \in DOMAIN heard', i < j PROVE heard'[i] < heard'[j]
        OBVIOUS
      <4>1. i \in DOMAIN heard /\ heard'[i] = heard[i]
        BY <3>4, <3>6
      <4>2. CASE j = Len(heard) + 1
        BY <3>3, <3>6, <4>1, <4>2
      <4>3. CASE j # Len(heard) + 1
        <5>1. j \in DOMAIN heard /\ heard'[j] = heard[j]
          BY <3>4, <3>6, <4>3
        <5> QED  BY <3>5, <4>1, <5>1
      <4> QED  BY <4>2, <4>3
    <3>9. RadioTypes'
      BY <1>t, <2>1, <2>3, <2>4, <3>1, <3>6 DEF RadioTypes
    <3>10. ~(current'.left > 0)
      BY <2>4, <2>7
    <3>11. InTurn(n)'
      BY <2>1, <3>7, <3>8, <3>10 DEF InTurn
    <3> QED  BY <2>2, <3>9, <3>11 DEF RadioInv
  <2> QED  BY <2>5, <2>6, <2>7
<1> QED  BY <1>1, <1>2, <1>3, <1>4, <1>5, <1>6, <1>7, <1>8 DEF Radio!Next

\* The acknowledgements go out as their commands came, and before any state.
LEMMA RadioHolds == RadioInv => Radio!TypeOK /\ Radio!AcksInOrder
<1> SUFFICES ASSUME RadioInv PROVE Radio!TypeOK /\ Radio!AcksInOrder
  OBVIOUS
<1> USE RadioConstants
<1>1. PICK n \in Nat : Waiting(notices, n, acks) /\ InTurn(n)
  BY DEF RadioInv
<1>2. RadioTypes /\ notices \in Seq(Notices) /\ acks \in 0..MaxAcks
  BY DEF RadioInv, RadioTypes
<1>3. /\ DOMAIN notices = 1..Len(notices) /\ Len(notices) \in Nat
      /\ \A i \in DOMAIN notices : Radio!IsState(notices[i]) <=> i = n + 1
      /\ {i \in DOMAIN notices : Radio!IsState(notices[i])} = IF Len(notices) = n + 1 THEN {n + 1} ELSE {}
  BY <1>1, <1>2, StatesLast
<1>4. n \in 0..acks /\ Len(notices) \in {n, n + 1}
  BY <1>1 DEF Waiting
<1>5. Len(notices) <= MaxAcks + 1
  BY <1>2, <1>4
<1>6. Cardinality({n + 1}) = 1 /\ Cardinality({}) = 0
  BY FS_Singleton, FS_EmptySet
<1>7. Cardinality({i \in DOMAIN notices : Radio!IsState(notices[i])}) <= 1
  <2> DEFINE states == {i \in DOMAIN notices : Radio!IsState(notices[i])}
  <2>1. states = {n + 1} \/ states = {}
    BY <1>3
  <2> HIDE DEF states
  <2>2. Cardinality(states) = 1 \/ Cardinality(states) = 0
    BY <1>6, <2>1
  <2>3. Cardinality(states) <= 1
    BY <2>2
  <2> QED  BY <2>3 DEF states
<1>8. Radio!TypeOK
  BY <1>2, <1>5, <1>7 DEF RadioTypes, Radio!TypeOK, Radio!Cardinality, Cardinality
<1>9. \A i, j \in DOMAIN notices : i < j => ~Radio!IsState(notices[i])
  <2> SUFFICES ASSUME NEW i \in DOMAIN notices, NEW j \in DOMAIN notices, i < j PROVE i # n + 1
    BY <1>3
  <2>1. j <= n + 1
    <3>1. CASE Len(notices) = n
      BY <1>3, <3>1
    <3>2. CASE Len(notices) = n + 1
      BY <1>3, <3>2
    <3> QED  BY <1>4, <3>1, <3>2
  <2>2. i \in Nat /\ j \in Nat
    <3>1. i \in 1..Len(notices) /\ j \in 1..Len(notices)
      BY <1>3, Zenon
    <3> QED  BY <3>1
  <2> QED  BY <2>1, <2>2
<1> QED  BY <1>1, <1>8, <1>9 DEF Radio!AcksInOrder, InTurn

\* A step of another part.
LEMMA RadioStays == RadioInv /\ UNCHANGED radioVars => RadioInv'
BY DEF radioVars, RadioInv, RadioTypes, InTurn, Waiting

-----------------------------------------------------------------------------
(* What the phones say *)

\* A number is its quotient and its remainder.
LEMMA DivMod ==
  ASSUME NEW x \in Nat, NEW m \in Nat \ {0}
  PROVE  x = m * (x \div m) + (x % m) /\ (x % m) \in 0..(m - 1) /\ x \div m \in Int
OBVIOUS

\* Multiples of m that are less than m apart are the same.
LEMMA SameMultiple ==
  ASSUME NEW m \in Nat \ {0}, NEW a \in Int, NEW b \in Int, m * a - m * b < m, m * b - m * a < m
  PROVE  a = b
<1>1. a >= b + 1 => m * a >= m * b + m
  <2> SUFFICES ASSUME a >= b + 1 PROVE m * a >= m * b + m
    OBVIOUS
  <2>1. m * (a - b) >= m * 1
    OBVIOUS
  <2> QED  BY <2>1
<1>2. b >= a + 1 => m * b >= m * a + m
  <2> SUFFICES ASSUME b >= a + 1 PROVE m * b >= m * a + m
    OBVIOUS
  <2>1. m * (b - a) >= m * 1
    OBVIOUS
  <2> QED  BY <2>1
<1> QED  BY <1>1, <1>2

\* Numbers less than m apart that leave the same remainder are the same.
LEMMA SameRemainder ==
  ASSUME NEW m \in Nat \ {0}, NEW x \in Nat, NEW d \in 0..(m - 1), d <= x, (x % m) = ((x - d) % m)
  PROVE  d = 0
<1>1. x = m * (x \div m) + (x % m) /\ x \div m \in Int
  BY DivMod
<1>2. x - d = m * ((x - d) \div m) + ((x - d) % m) /\ (x - d) \div m \in Int
  BY x - d \in Nat, DivMod
<1> DEFINE a == x \div m
           b == (x - d) \div m
<1>3. d = m * a - m * b /\ (x % m) \in Int
  BY <1>1, <1>2, DivMod
<1> HIDE DEF a, b
<1>4. a \in Int /\ b \in Int
  BY <1>1, <1>2 DEF a, b
<1>5. a = b
  BY <1>3, <1>4, SameMultiple
<1> QED  BY <1>3, <1>4, <1>5

\* The number after a remainder.
LEMMA NextRemainder ==
  ASSUME NEW m \in Nat \ {0}, NEW x \in Nat
  PROVE  (((x % m) + 1) % m) = ((x + 1) % m)
<1> DEFINE a == x \div m
           r == x % m
           c == (r + 1) \div m
           s == (r + 1) % m
           e == (x + 1) \div m
           t == (x + 1) % m
<1>1. x = m * a + r /\ r \in 0..(m - 1) /\ a \in Int
  BY DivMod
<1>2. x + 1 = m * e + t /\ t \in 0..(m - 1) /\ e \in Int
  BY x + 1 \in Nat, DivMod
<1>3. r + 1 = m * c + s /\ s \in 0..(m - 1) /\ c \in Int
  BY <1>1, r + 1 \in Nat, DivMod
<1> HIDE DEF a, r, c, s, e, t
<1>4. m * e + t = m * (a + c) + s
  <2>1. m * (a + c) = m * a + m * c
    BY <1>1, <1>3
  <2> QED  BY <1>1, <1>2, <1>3, <2>1
<1>5. e = a + c
  <2>1. m * e \in Int /\ m * (a + c) \in Int /\ a + c \in Int
    BY <1>1, <1>2, <1>3
  <2> QED  BY <1>2, <1>3, <1>4, <2>1, SameMultiple
<1>6. m * e = m * (a + c) /\ m * e \in Int
  BY <1>2, <1>5
<1>7. t = s
  BY <1>2, <1>3, <1>4, <1>6
<1> QED  BY <1>7 DEF t, s, r

Pieces == Nat \X Nat

\* The frame at place i of the message, of n frames, that is being sent.
Piece(n, i) == [first |-> i = 1, last |-> i = n, seq |-> (i - 1) % Modulus, piece |-> <<sent, i>>]

\* The phone has still to write the frames from the one at place at.
Remains(n, at) ==
  /\ sent >= 1
  /\ sending \in Seq([first : BOOLEAN, last : BOOLEAN, seq : 0..(Modulus - 1), piece : Pieces])
  /\ Len(sending) = n - at + 1
  /\ \A i \in 1..(n - at + 1) : sending[i] = Piece(n, at - 1 + i)

\* What the receiver has joined so far is the beginning of the message, up to the frames lost since.
JoinedUpTo(at) == skipped < Modulus =>
  /\ run <= skipped
  /\ open /\ at > 1 =>
       at - 1 - run >= 1 /\ pieces = Radio!Whole(sent, at - 1 - run) /\ next = (at - 1 - run) % Modulus

FrameTypes ==
  /\ sent \in 0..MaxMessages /\ open \in BOOLEAN /\ next \in 0..(Modulus - 1) /\ radioFaults \in 0..MaxRadioFaults
  /\ pieces \in Seq(Pieces) /\ Len(pieces) <= MaxSize
  /\ skipped \in 0..Modulus /\ run \in Nat

FrameInv ==
  /\ FrameTypes /\ Radio!MessagesAreWhole
  /\ sending = <<>> \/ \E n \in Lengths : \E at \in 1..n : Remains(n, at) /\ JoinedUpTo(at)

\* The assumptions on this part.
LEMMA FrameConstants ==
  /\ Lengths \subseteq Nat \ {0} /\ Modulus \in Nat \ {0} /\ MaxSize \in Nat /\ MaxMessages \in Nat /\ MaxRadioFaults \in Nat
BY LinksAssumption DEF LinksAssumption

\* Nothing is on the way at the start.
LEMMA FrameStarts == Radio!FrameInit => FrameInv
<1> SUFFICES ASSUME Radio!FrameInit PROVE FrameInv
  OBVIOUS
<1>1. FrameTypes
  <2>1. 0 \in 0..(Modulus - 1) /\ 0 \in 0..Modulus /\ 0 \in 0..MaxMessages /\ 0 \in 0..MaxRadioFaults /\ 0 <= MaxSize
    BY FrameConstants
  <2>2. <<>> \in Seq(Pieces) /\ Len(<<>>) = 0
    OBVIOUS
  <2> QED  BY <2>1, <2>2 DEF Radio!FrameInit, FrameTypes
<1> QED  BY <1>1 DEF Radio!FrameInit, FrameInv, Radio!MessagesAreWhole

\* The beginning of a message, and one piece more.
LEMMA WholeFacts ==
  ASSUME NEW m \in Nat, NEW k \in Nat
  PROVE  /\ Radio!Whole(m, k) \in Seq(Pieces) /\ Len(Radio!Whole(m, k)) = k
         /\ Append(Radio!Whole(m, k), <<m, k + 1>>) = Radio!Whole(m, k + 1)
<1> DEFINE w == Radio!Whole(m, k)
           x == Radio!Whole(m, k + 1)
           y == Append(w, <<m, k + 1>>)
<1>1. w \in Seq(Pieces) /\ Len(w) = k /\ \A i \in 1..k : w[i] = <<m, i>>
  BY DEF Radio!Whole, Pieces
<1>2. x \in Seq(Pieces) /\ Len(x) = k + 1 /\ \A i \in 1..k + 1 : x[i] = <<m, i>>
  BY DEF Radio!Whole, Pieces
<1>3. <<m, k + 1>> \in Pieces
  BY DEF Pieces
<1> HIDE DEF w, x
<1>4. y \in Seq(Pieces) /\ Len(y) = k + 1 /\ y[k + 1] = <<m, k + 1>> /\ \A i \in 1..k : y[i] = w[i]
  BY <1>1, <1>3
<1> HIDE DEF y
<1>5. \A i \in 1..k + 1 : y[i] = x[i]
  <2> SUFFICES ASSUME NEW i \in 1..k + 1 PROVE y[i] = x[i]
    OBVIOUS
  <2>1. i \in 1..k \/ i = k + 1
    OBVIOUS
  <2> QED  BY <1>1, <1>2, <1>4, <2>1
<1>6. y = x
  <2>1. \A i \in 1..Len(y) : y[i] = x[i]
    BY <1>4, <1>5
  <2> QED  BY <1>2, <1>4, <2>1, SeqEqual
<1> QED  BY <1>1, <1>6 DEF w, x, y

\* A message that begins.
LEMMA Begun ==
  ASSUME FrameInv, NEW n \in Lengths, Radio!MessageBegins(n)
  PROVE  FrameInv'
<1> USE FrameConstants
<1>1. /\ sent < MaxMessages /\ sent' = sent + 1 /\ sending' = Radio!Split(sent + 1, n) /\ run' = 0
      /\ UNCHANGED <<open, next, pieces, handed, skipped, radioFaults>>
  BY DEF Radio!MessageBegins
<1>2. FrameTypes'
  BY <1>1 DEF FrameInv, FrameTypes
<1>3. n \in Nat \ {0} /\ sent \in Nat /\ skipped \in Nat /\ 1 \in 1..n
  BY DEF FrameInv, FrameTypes
<1>4. \A i \in 1..n : Piece(n, i)' \in [first : BOOLEAN, last : BOOLEAN, seq : 0..(Modulus - 1), piece : Pieces]
  <2> SUFFICES ASSUME NEW i \in 1..n
               PROVE  Piece(n, i)' \in [first : BOOLEAN, last : BOOLEAN, seq : 0..(Modulus - 1), piece : Pieces]
    OBVIOUS
  <2>1. i - 1 \in Nat /\ i \in Nat /\ sent' \in Nat
    BY <1>1, <1>3
  <2>2. ((i - 1) % Modulus) \in 0..(Modulus - 1)
    BY <2>1, DivMod
  <2>3. <<sent', i>> \in Pieces
    BY <2>1 DEF Pieces
  <2> QED  BY <2>2, <2>3 DEF Piece
<1>5. sending' = [i \in 1..n |-> Piece(n, i)']
  BY <1>1 DEF Radio!Split, Piece
<1>6. Remains(n, 1)'
  <2>1. /\ sending' \in Seq([first : BOOLEAN, last : BOOLEAN, seq : 0..(Modulus - 1), piece : Pieces]) /\ Len(sending') = n
        /\ \A i \in 1..n : sending'[i] = Piece(n, i)'
    <3> DEFINE P(i) == Piece(n, i)'
               S == [first : BOOLEAN, last : BOOLEAN, seq : 0..(Modulus - 1), piece : Pieces]
    <3>1. sending' = [i \in 1..n |-> P(i)] /\ \A i \in 1..n : P(i) \in S
      BY <1>4, <1>5
    <3> HIDE DEF P, S
    <3>2. sending' \in [1..n -> S] /\ \A i \in 1..n : sending'[i] = P(i)
      BY <3>1
    <3>3. sending' \in Seq(S) /\ Len(sending') = n
      BY <1>3, <3>2
    <3> QED  BY <3>2, <3>3 DEF P, S
  <2>2. n - 1 + 1 = n /\ \A i \in 1..n : 1 - 1 + i = i
    BY <1>3
  <2>3. sent' >= 1
    BY <1>1, <1>3
  <2> QED  BY <2>1, <2>2, <2>3 DEF Remains, Piece
<1>7. JoinedUpTo(1)'
  BY <1>1, <1>3 DEF JoinedUpTo
<1>8. Radio!MessagesAreWhole'
  <2>1. \A m \in 1..sent : m \in 1..sent'
    BY <1>1, <1>3
  <2> QED  BY <1>1, <2>1 DEF FrameInv, Radio!MessagesAreWhole
<1> QED  BY <1>2, <1>3, <1>6, <1>7, <1>8 DEF FrameInv

\* What is left to write when a frame is written.
LEMMA Written ==
  ASSUME FrameInv, sending # <<>>, sending' = Tail(sending), sent' = sent,
         NEW n \in Lengths, NEW at \in 1..n, Remains(n, at)
  PROVE  /\ Head(sending) = Piece(n, at)
         /\ IF at = n THEN sending' = <<>> ELSE at + 1 \in 1..n /\ Remains(n, at + 1)'
<1> DEFINE S == [first : BOOLEAN, last : BOOLEAN, seq : 0..(Modulus - 1), piece : Pieces]
<1>1. n \in Nat \ {0} /\ at \in Nat \ {0} /\ at <= n
  BY FrameConstants
<1>2. sending \in Seq(S) /\ Len(sending) = n - at + 1 /\ \A i \in 1..(n - at + 1) : sending[i] = Piece(n, at - 1 + i)
  BY DEF Remains
<1> HIDE DEF S
<1>3. /\ Head(sending) = sending[1] /\ sending' \in Seq(S) /\ Len(sending') = Len(sending) - 1
      /\ \A i \in 1..Len(sending') : sending'[i] = sending[i + 1]
  BY <1>2
<1>4. Head(sending) = Piece(n, at)
  <2>1. 1 \in 1..(n - at + 1) /\ at - 1 + 1 = at
    BY <1>1
  <2>2. Head(sending) = sending[1] /\ sending[1] = Piece(n, at - 1 + 1)
    BY <1>2, <1>3, <2>1
  <2> QED  BY <2>1, <2>2
<1>5. CASE at = n
  <2>1. Len(sending') = 0
    BY <1>1, <1>2, <1>3, <1>5
  <2>2. sending' = <<>>
    BY <1>3, <2>1, EmptySeq
  <2> QED  BY <1>4, <1>5, <2>2
<1>6. CASE at # n
  <2>1. at + 1 \in 1..n /\ n - (at + 1) + 1 = n - at /\ n - at + 1 - 1 = n - at
    BY <1>1, <1>6
  <2>2. Len(sending') = n - (at + 1) + 1
    BY <1>1, <1>2, <1>3, <2>1
  <2>3. \A i \in 1..(n - (at + 1) + 1) : sending'[i] = Piece(n, at + 1 - 1 + i)
    <3> SUFFICES ASSUME NEW i \in 1..(n - (at + 1) + 1) PROVE sending'[i] = Piece(n, at + 1 - 1 + i)
      OBVIOUS
    <3>1. i \in 1..Len(sending') /\ i + 1 \in 1..(n - at + 1) /\ at - 1 + (i + 1) = at + 1 - 1 + i
      BY <1>1, <2>2
    <3>2. sending'[i] = sending[i + 1] /\ sending[i + 1] = Piece(n, at - 1 + (i + 1))
      BY <1>2, <1>3, <3>1
    <3> QED  BY <3>1, <3>2
  <2>4. \A i \in 1..(n - (at + 1) + 1) : sending'[i] = Piece(n, at + 1 - 1 + i)'
    BY <2>3 DEF Piece
  <2>5. Remains(n, at + 1)'
    BY <1>3, <2>2, <2>4 DEF Remains, S
  <2> QED  BY <1>4, <1>6, <2>1, <2>5
<1> QED  BY <1>5, <1>6

\* What is joined when a frame fits.
LEMMA Fitting ==
  ASSUME FrameInv, NEW n \in Lengths, NEW at \in 1..n, JoinedUpTo(at), skipped < Modulus,
         at # 1 => Radio!Expected(Piece(n, at))
  PROVE  Append(IF at = 1 THEN <<>> ELSE pieces, <<sent, at>>) = Radio!Whole(sent, at)
<1>1. n \in Nat \ {0} /\ at \in Nat \ {0} /\ sent \in Nat /\ Modulus \in Nat \ {0} /\ skipped \in Nat /\ run \in Nat
  BY FrameConstants DEF FrameInv, FrameTypes
<1>2. CASE at = 1
  <2>1. Radio!Whole(sent, 0) \in Seq(Pieces) /\ Len(Radio!Whole(sent, 0)) = 0
    BY <1>1, WholeFacts
  <2>2. Radio!Whole(sent, 0) = <<>>
    BY <2>1, EmptySeq
  <2>3. Append(Radio!Whole(sent, 0), <<sent, 0 + 1>>) = Radio!Whole(sent, 0 + 1)
    BY <1>1, WholeFacts
  <2>4. 0 + 1 = at
    BY <1>2
  <2>5. Append(<<>>, <<sent, at>>) = Radio!Whole(sent, at)
    BY <2>2, <2>3, <2>4, Zenon
  <2> QED  BY <1>2, <2>5
<1>3. CASE at # 1
  <2>1. /\ open /\ next = (at - 1) % Modulus
        /\ run <= skipped /\ at - 1 - run >= 1 /\ pieces = Radio!Whole(sent, at - 1 - run) /\ next = (at - 1 - run) % Modulus
    BY <1>1, <1>3 DEF JoinedUpTo, Radio!Expected, Piece
  <2>2. at - 1 \in Nat /\ run \in 0..(Modulus - 1) /\ run <= at - 1
    BY <1>1, <2>1
  <2>3. run = 0
    BY <1>1, <2>1, <2>2, SameRemainder
  <2>4. at - 1 - run = at - 1 /\ at - 1 + 1 = at
    BY <1>1, <2>3
  <2>5. Append(Radio!Whole(sent, at - 1), <<sent, at - 1 + 1>>) = Radio!Whole(sent, at - 1 + 1)
    BY <1>1, <2>2, WholeFacts
  <2>6. pieces = Radio!Whole(sent, at - 1)
    BY <2>1, <2>4
  <2>7. Append(pieces, <<sent, at>>) = Radio!Whole(sent, at)
    BY <2>4, <2>5, <2>6
  <2> QED  BY <1>3, <2>7
<1> QED  BY <1>2, <1>3

\* A frame that arrives.
LEMMA Arrived ==
  ASSUME FrameInv, Radio!FrameArrives, NEW n \in Lengths, NEW at \in 1..n, Remains(n, at), JoinedUpTo(at)
  PROVE  FrameInv'
<1> USE FrameConstants
<1>1. sending # <<>> /\ sending' = Tail(sending) /\ run' = 0 /\ Radio!Push(Head(sending)) /\ UNCHANGED <<sent, skipped, radioFaults>>
  BY DEF Radio!FrameArrives
<1>2. Head(sending) = Piece(n, at) /\ IF at = n THEN sending' = <<>> ELSE at + 1 \in 1..n /\ Remains(n, at + 1)'
  BY <1>1, Written
<1>3. /\ n \in Nat \ {0} /\ at \in Nat \ {0} /\ at <= n /\ sent \in Nat /\ Modulus \in Nat \ {0} /\ skipped \in Nat /\ run \in Nat /\ MaxSize \in Nat
      /\ pieces \in Seq(Pieces) /\ Len(pieces) <= MaxSize /\ open \in BOOLEAN /\ next \in 0..(Modulus - 1)
  BY DEF FrameInv, FrameTypes
<1> DEFINE f == Piece(n, at)
           joined == Append(IF at = 1 THEN <<>> ELSE pieces, <<sent, at>>)
           good == IF at = 1 THEN f.seq = 0 ELSE Radio!Expected(f)
<1>4. /\ f.first = (at = 1) /\ f.last = (at = n) /\ f.seq = (at - 1) % Modulus /\ f.piece = <<sent, at>>
  BY DEF Piece
<1>5. joined \in Seq(Pieces)
  <2>1. <<sent, at>> \in Pieces /\ <<>> \in Seq(Pieces)
    BY <1>3 DEF Pieces
  <2> QED  BY <1>3, <2>1
<1>6. IF ~good \/ Len(joined) > MaxSize THEN Radio!Reset /\ UNCHANGED handed
      ELSE IF at = n THEN Radio!Reset /\ handed' = handed \union {joined}
      ELSE open' = TRUE /\ next' = (f.seq + 1) % Modulus /\ pieces' = joined /\ UNCHANGED handed
  <2>1. Radio!Push(f)
    BY <1>1, <1>2
  <2> HIDE DEF f
  <2> QED  BY <1>4, <2>1 DEF Radio!Push
<1>7. skipped < Modulus /\ good => joined = Radio!Whole(sent, at)
  BY Fitting
<1>8. 0 <= MaxSize /\ 0 \in 0..(Modulus - 1) /\ <<>> \in Seq(Pieces) /\ Len(<<>>) = 0 /\ Len(joined) \in Nat
  <2>1. Len(joined) \in Nat
    BY <1>5, LenProperties
  <2> QED  BY <1>3, <2>1
<1>9. at - 1 \in Nat /\ (at - 1) + 1 = at /\ f.seq = (at - 1) % Modulus /\ f.seq \in Nat
  <2>1. at - 1 \in Nat /\ (at - 1) + 1 = at
    BY <1>3
  <2>2. ((at - 1) % Modulus) \in 0..(Modulus - 1)
    BY <1>3, <2>1, DivMod
  <2>3. ((at - 1) % Modulus) \in Nat
    BY <1>3, <2>2
  <2> QED  BY <1>4, <2>1, <2>3
<1>10. (f.seq + 1) % Modulus = at % Modulus /\ ((f.seq + 1) % Modulus) \in 0..(Modulus - 1)
  <2>1. (f.seq + 1) % Modulus = at % Modulus
    BY <1>3, <1>9, NextRemainder
  <2>2. f.seq + 1 \in Nat
    BY <1>9
  <2> QED  BY <1>3, <2>1, <2>2, DivMod
<1> HIDE DEF f, joined, good
<1>11. FrameTypes'
  <2>1. /\ open' \in BOOLEAN /\ next' \in 0..(Modulus - 1) /\ pieces' \in Seq(Pieces) /\ Len(pieces') <= MaxSize
    <3>1. CASE ~good \/ Len(joined) > MaxSize \/ at = n
      BY <1>6, <1>8, <3>1 DEF Radio!Reset
    <3>2. CASE ~(~good \/ Len(joined) > MaxSize \/ at = n)
      <4>1. Len(joined) <= MaxSize
        BY <1>3, <1>8, <3>2
      <4>2. open' = TRUE /\ next' = (f.seq + 1) % Modulus /\ pieces' = joined
        BY <1>6, <3>2
      <4> QED  BY <1>5, <1>10, <4>1, <4>2
    <3> QED  BY <3>1, <3>2
  <2> QED  BY <1>1, <2>1 DEF FrameInv, FrameTypes
<1>12. Radio!MessagesAreWhole'
  <2>0. skipped < Modulus => \A h \in handed : \E m \in 1..sent, l \in Lengths : l <= MaxSize /\ h = Radio!Whole(m, l)
    BY DEF FrameInv, Radio!MessagesAreWhole
  <2>1. CASE handed' = handed
    BY <1>1, <2>0, <2>1 DEF Radio!MessagesAreWhole
  <2>2. CASE handed' # handed
    <3>1. good /\ Len(joined) <= MaxSize /\ at = n /\ handed' = handed \union {joined}
      BY <1>3, <1>6, <1>8, <2>2
    <3>2. skipped < Modulus => joined = Radio!Whole(sent, n) /\ n <= MaxSize
      <4>1. Len(Radio!Whole(sent, n)) = n
        BY <1>3, WholeFacts
      <4> QED  BY <1>7, <3>1, <4>1
    <3>3. sent >= 1
      BY DEF Remains
    <3>4. sent \in 1..sent
      BY <1>3, <3>3
    <3> QED  BY <1>1, <2>0, <3>1, <3>2, <3>4 DEF Radio!MessagesAreWhole
  <2> QED  BY <2>1, <2>2
<1>13. CASE at = n
  BY <1>2, <1>11, <1>12, <1>13 DEF FrameInv
<1>14. CASE at # n
  <2>1. JoinedUpTo(at + 1)'
    <3> SUFFICES ASSUME skipped < Modulus
                 PROVE  /\ run' <= skipped'
                        /\ open' => at + 1 - 1 - run' >= 1 /\ pieces' = Radio!Whole(sent', at + 1 - 1 - run')
                                    /\ next' = (at + 1 - 1 - run') % Modulus
      BY <1>1 DEF JoinedUpTo
    <3>1. at + 1 - 1 - run' = at /\ at >= 1 /\ run' <= skipped'
      BY <1>1, <1>3
    <3>2. open' => good /\ pieces' = joined /\ next' = (f.seq + 1) % Modulus
      BY <1>6, <1>14 DEF Radio!Reset
    <3> QED  BY <1>1, <1>7, <1>10, <3>1, <3>2
  <2> QED  BY <1>2, <1>11, <1>12, <1>14, <2>1 DEF FrameInv
<1> QED  BY <1>13, <1>14

\* A frame that is lost.
LEMMA FrameLost ==
  ASSUME FrameInv, Radio!FrameIsLost, NEW n \in Lengths, NEW at \in 1..n, Remains(n, at), JoinedUpTo(at)
  PROVE  FrameInv'
<1> USE FrameConstants
<1>1. /\ sending # <<>> /\ sending' = Tail(sending) /\ (run > 0 \/ radioFaults < MaxRadioFaults) /\ run' = run + 1
      /\ radioFaults' = IF run > 0 THEN radioFaults ELSE radioFaults + 1
      /\ skipped' = IF Head(sending).first \/ run' > Modulus THEN Modulus ELSE IF run' > skipped THEN run' ELSE skipped
      /\ UNCHANGED <<sent, open, next, pieces, handed>>
  BY DEF Radio!FrameIsLost
<1>2. Head(sending) = Piece(n, at) /\ IF at = n THEN sending' = <<>> ELSE at + 1 \in 1..n /\ Remains(n, at + 1)'
  BY <1>1, Written
<1>3. Head(sending).first = (at = 1)
  BY <1>2 DEF Piece
<1>4. /\ n \in Nat \ {0} /\ at \in Nat \ {0} /\ Modulus \in Nat \ {0} /\ skipped \in 0..Modulus /\ run \in Nat
      /\ radioFaults \in 0..MaxRadioFaults
  BY DEF FrameInv, FrameTypes
<1>5. /\ run' \in Nat /\ skipped' \in 0..Modulus /\ radioFaults' \in 0..MaxRadioFaults
      /\ skipped' < Modulus => skipped < Modulus /\ run' <= skipped' /\ at # 1
  <2>1. skipped' = IF at = 1 \/ run' > Modulus THEN Modulus ELSE IF run' > skipped THEN run' ELSE skipped
    BY <1>1, <1>3
  <2>2. run' \in Nat
    BY <1>1, <1>4
  <2>3. radioFaults' \in 0..MaxRadioFaults
    BY <1>1, <1>4
  <2>4. CASE at = 1 \/ run' > Modulus
    BY <1>4, <2>1, <2>2, <2>3, <2>4
  <2>5. CASE ~(at = 1 \/ run' > Modulus)
    BY <1>4, <2>1, <2>2, <2>3, <2>5
  <2> QED  BY <2>4, <2>5
<1>6. FrameTypes'
  BY <1>1, <1>5 DEF FrameInv, FrameTypes
<1>7. Radio!MessagesAreWhole'
  BY <1>1, <1>5 DEF FrameInv, Radio!MessagesAreWhole
<1>8. CASE at = n
  BY <1>2, <1>6, <1>7, <1>8 DEF FrameInv
<1>9. CASE at # n
  <2>1. at + 1 - 1 - run' = at - 1 - run
    BY <1>1, <1>4
  <2>2. JoinedUpTo(at + 1)'
    <3>1. skipped' < Modulus =>
            /\ run' <= skipped'
            /\ open' => at - 1 - run >= 1 /\ pieces' = Radio!Whole(sent', at - 1 - run) /\ next' = (at - 1 - run) % Modulus
      <4>1. at # 1 => at > 1
        BY <1>4
      <4> QED  BY <1>1, <1>5, <4>1 DEF JoinedUpTo
    <3>2. ASSUME NEW then \in Nat, then = at + 1 PROVE JoinedUpTo(then)'
      <4>1. then - 1 - run' = at - 1 - run
        BY <1>1, <1>4, <3>2
      <4> QED  BY <1>4, <3>1, <4>1 DEF JoinedUpTo
    <3> QED  BY <1>4, <3>2
  <2> QED  BY <1>2, <1>6, <1>7, <1>9, <2>2 DEF FrameInv
<1> QED  BY <1>8, <1>9

\* Each step of a phone and the radio.
LEMMA FrameSteps == FrameInv /\ Radio!FrameNext => FrameInv'
<1> SUFFICES ASSUME FrameInv, Radio!FrameNext PROVE FrameInv'
  OBVIOUS
<1> USE FrameConstants
<1>1. CASE Radio!FrameArrives \/ Radio!FrameIsLost
  <2>1. sending # <<>>
    BY <1>1 DEF Radio!FrameArrives, Radio!FrameIsLost
  <2>2. PICK n \in Lengths : \E at \in 1..n : Remains(n, at) /\ JoinedUpTo(at)
    BY <2>1 DEF FrameInv
  <2>3. PICK at \in 1..n : Remains(n, at) /\ JoinedUpTo(at)
    BY <2>2
  <2> QED  BY <1>1, <2>3, Arrived, FrameLost
<1>2. ASSUME NEW n \in Lengths, Radio!MessageBegins(n) PROVE FrameInv'
  BY <1>2, Begun
<1>3. CASE Radio!FrameDamaged \/ Radio!LinkDropped
  <2>1. 0 <= MaxSize /\ 0 \in 0..(Modulus - 1) /\ <<>> \in Seq(Pieces) /\ Len(<<>>) = 0 /\ 0 \in Nat
    OBVIOUS
  <2>2. /\ open' = FALSE /\ next' = 0 /\ pieces' = <<>> /\ radioFaults < MaxRadioFaults /\ radioFaults' = radioFaults + 1
        /\ UNCHANGED <<sent, handed, skipped>> /\ run' \in {run, 0}
        /\ (sending' = sending /\ run' = run) \/ sending' = <<>>
    BY <1>3 DEF Radio!FrameDamaged, Radio!LinkDropped, Radio!Reset
  <2>3. FrameTypes'
    <3>1. radioFaults' \in 0..MaxRadioFaults
      BY <2>2 DEF FrameInv, FrameTypes
    <3> QED  BY <2>1, <2>2, <3>1 DEF FrameInv, FrameTypes
  <2>4. Radio!MessagesAreWhole'
    BY <2>2 DEF FrameInv, Radio!MessagesAreWhole
  <2>5. sending' = <<>> \/ \E n \in Lengths : \E at \in 1..n : Remains(n, at)' /\ JoinedUpTo(at)'
    <3> SUFFICES ASSUME sending' # <<>>
                 PROVE  \E n \in Lengths : \E at \in 1..n : Remains(n, at)' /\ JoinedUpTo(at)'
      OBVIOUS
    <3>1. sending # <<>> /\ sending' = sending /\ run' = run
      BY <2>2
    <3>2. PICK n \in Lengths : \E at \in 1..n : Remains(n, at) /\ JoinedUpTo(at)
      BY <3>1 DEF FrameInv
    <3>4. PICK at \in 1..n : Remains(n, at) /\ JoinedUpTo(at)
      BY <3>2
    <3>3. Remains(n, at)' /\ JoinedUpTo(at)'
      BY <2>2, <3>1, <3>4 DEF Remains, Piece, JoinedUpTo
    <3> QED  BY <3>3
  <2> QED  BY <2>3, <2>4, <2>5 DEF FrameInv
<1> QED  BY <1>1, <1>2, <1>3 DEF Radio!FrameNext

\* A message that is handed on is the one that was sent, unless a first frame or a whole turn of
\* the numbers was lost in a row.
LEMMA FrameHolds == FrameInv => Radio!FrameTypeOK /\ Radio!MessagesAreWhole
BY DEF FrameInv, FrameTypes, Radio!FrameTypeOK

\* A step of another part.
LEMMA FrameStays == FrameInv /\ UNCHANGED frameVars => FrameInv'
<1> SUFFICES ASSUME FrameInv, UNCHANGED frameVars PROVE FrameInv'
  OBVIOUS
<1>1. UNCHANGED <<sending, sent, open, next, pieces, handed, skipped, run, radioFaults>>
  BY DEF frameVars
<1>2. FrameTypes' /\ Radio!MessagesAreWhole'
  BY <1>1 DEF FrameInv, FrameTypes, Radio!MessagesAreWhole
<1>3. sending' = <<>> \/ \E n \in Lengths : \E at \in 1..n : Remains(n, at)' /\ JoinedUpTo(at)'
  BY <1>1 DEF FrameInv, Remains, Piece, JoinedUpTo
<1> QED  BY <1>2, <1>3 DEF FrameInv

-----------------------------------------------------------------------------
(* The processes of the cameras *)

Cams == [entry : Camera!Entries \union {None}, procs : [Slots -> Camera!Processes \union {None}], timers : SUBSET Camera!Timers]

\* A timer has the device of every configuration that has its fingerprint.
TimersTell(ts) == \A t \in ts : \A c \in CameraConfigs :
  Camera!CameraFingerprint(c) = t.print => Camera!ComputeDeviceArg(c) = t.device

NoSecrets(ps) == \A s \in Slots :
  ps[s] # None /\ viaEnv /\ ps[s].line # None => ~Camera!DeviceCarriesCredentials(ps[s].line)

\* A process that ended or was told to.
Ending(process) == process = None \/ process.life = "gone" \/ process.signal # "none"
Its(cam, s) == cam.entry # None /\ cam.entry.proc = s

\* The entry of a camera is of the settings w, and its process has the device of w and was not told to end.
Suits(cam, w) == cam.entry # None =>
  /\ w # None /\ cam.entry.print = Camera!CameraFingerprint(w) /\ (cam.entry.status # "stopped" => w.connected)
  /\ cam.entry.proc # None =>
       /\ w.connected /\ cam.procs[cam.entry.proc] # None /\ cam.procs[cam.entry.proc].signal = "none"
       /\ Camera!DeviceOf(cam.procs[cam.entry.proc]) = Camera!ComputeDeviceArg(w)
       /\ Camera!ComputeDeviceArg(w) # None

Captures(cam, w) ==
  /\ cam \in Cams /\ TimersTell(cam.timers) /\ NoSecrets(cam.procs) /\ Suits(cam, w)
  /\ \A s \in Slots : Ending(cam.procs[s]) \/ Its(cam, s)

CamerasTypes ==
  /\ asked \in [CameraKeys -> Camera!Wanted] /\ entry \in [CameraKeys -> Camera!Entries \union {None}]
  /\ procs \in [CameraKeys -> [Slots -> Camera!Processes \union {None}]] /\ respawns \in [CameraKeys -> SUBSET Camera!Timers]
  /\ pidFile \in [CameraKeys -> SUBSET Slots]
  /\ installed \in BOOLEAN /\ viaEnv \in BOOLEAN /\ saves \in 0..MaxCameraSaves /\ cameraFaults \in 0..MaxCameraFaults

CamerasInv ==
  /\ CamerasTypes
  /\ \A k \in CameraKeys : Captures(Camera!Camera(k), asked[k]) /\ pidFile[k] = Camera!Listed(Camera!Camera(k))

\* The assumptions on this part.
LEMMA CameraConstants ==
  /\ CameraConfigs \subseteq Camera!CameraSettings /\ None \notin CameraConfigs /\ None \notin Slots /\ Slots # {}
  /\ None \notin Camera!Entries /\ None \notin Camera!Processes
  /\ Misses \in Nat \ {0} /\ MaxCameraSaves \in Nat /\ MaxCameraFaults \in Nat
BY LinksAssumption DEF LinksAssumption

\* Settings with the same fingerprint have the same device.
LEMMA FingerprintsTell ==
  ASSUME NEW c \in CameraConfigs, NEW d \in CameraConfigs, Camera!CameraFingerprint(c) = Camera!CameraFingerprint(d)
  PROVE  Camera!ComputeDeviceArg(c) = Camera!ComputeDeviceArg(d)
<1>1. CASE c.source = "ip" /\ d.source = "ip"
  BY <1>1 DEF Camera!CameraFingerprint, Camera!ComputeDeviceArg
<1>2. CASE c.source # "ip" /\ d.source # "ip"
  BY <1>2 DEF Camera!CameraFingerprint, Camera!ComputeDeviceArg
<1>3. CASE c.source = "ip" /\ d.source # "ip"
  <2>1. Camera!CameraFingerprint(c)[1] = "ip" /\ Camera!CameraFingerprint(d)[1] = "usb"
    BY <1>3 DEF Camera!CameraFingerprint
  <2> QED  BY <2>1
<1>4. CASE c.source # "ip" /\ d.source = "ip"
  <2>1. Camera!CameraFingerprint(d)[1] = "ip" /\ Camera!CameraFingerprint(c)[1] = "usb"
    BY <1>4 DEF Camera!CameraFingerprint
  <2> QED  BY <2>1
<1> QED  BY <1>1, <1>2, <1>3, <1>4

\* A process that is started has its device, in its command line only if that may be seen.
LEMMA FreshFacts ==
  ASSUME NEW device \in Camera!Devices
  PROVE  /\ Camera!Fresh(device) \in Camera!Processes /\ Camera!Fresh(device) # None
         /\ Camera!Fresh(device).signal = "none" /\ Camera!DeviceOf(Camera!Fresh(device)) = device
         /\ viaEnv /\ Camera!Fresh(device).line # None => ~Camera!DeviceCarriesCredentials(Camera!Fresh(device).line)
<1>1. device # None
  BY DEF Camera!Devices
<1>2. PICK l \in {device, None}, e \in {device, None} :
        /\ Camera!Fresh(device) = [line |-> l, env |-> e, life |-> "starting", hung |-> FALSE, signal |-> "none", misses |-> 0]
        /\ l # None => l = device /\ (viaEnv => ~Camera!DeviceCarriesCredentials(device))
        /\ l = None => e = device
  BY <1>1 DEF Camera!Fresh, Camera!CameraSpawnSpec
<1>3. 0 \in 0..Misses
  BY CameraConstants
<1>4. Camera!Fresh(device) \in Camera!Processes
  BY <1>2, <1>3 DEF Camera!Processes
<1>5. Camera!Fresh(device) # None
  BY <1>4, CameraConstants
<1>6. Camera!Fresh(device).signal = "none" /\ Camera!Fresh(device).line = l /\ Camera!Fresh(device).env = e
  BY <1>2
<1>7. Camera!DeviceOf(Camera!Fresh(device)) = device
  BY <1>1, <1>2, <1>6 DEF Camera!DeviceOf
<1>8. viaEnv /\ l # None => ~Camera!DeviceCarriesCredentials(l)
  BY <1>2, Zenon
<1> QED  BY <1>4, <1>5, <1>6, <1>7, <1>8, Zenon

\* One process of a camera changes: its device stays, it stays the one of its camera while nobody told it to end, or ends.
LEMMA ProcessChanged ==
  ASSUME NEW cam, NEW w, Captures(cam, w), NEW s \in Slots, NEW process \in Camera!Processes \union {None},
         process # None => cam.procs[s] # None /\ process.line = cam.procs[s].line /\ process.env = cam.procs[s].env,
         IF Its(cam, s) THEN process # None /\ process.signal = "none" ELSE Ending(process)
  PROVE  Captures([cam EXCEPT !.procs[s] = process], w)
<1> DEFINE new == [cam EXCEPT !.procs[s] = process]
<1>1. cam \in Cams
  BY DEF Captures
<1>2. /\ new \in Cams /\ new.entry = cam.entry /\ new.timers = cam.timers
      /\ new.procs[s] = process /\ \A o \in Slots \ {s} : new.procs[o] = cam.procs[o]
  BY <1>1 DEF Cams
<1> HIDE DEF new
<1>3. TimersTell(new.timers)
  BY <1>2 DEF Captures
<1>4. NoSecrets(new.procs)
  <2> SUFFICES ASSUME NEW o \in Slots, new.procs[o] # None, viaEnv, new.procs[o].line # None
               PROVE  ~Camera!DeviceCarriesCredentials(new.procs[o].line)
    BY DEF NoSecrets
  <2>1. cam.procs[o] # None /\ new.procs[o].line = cam.procs[o].line
    BY <1>2
  <2> QED  BY <2>1 DEF Captures, NoSecrets
<1>5. Suits(new, w)
  <2>1. CASE Its(cam, s)
    <3>1. Camera!DeviceOf(process) = Camera!DeviceOf(cam.procs[s])
      BY <2>1 DEF Camera!DeviceOf
    <3> QED  BY <1>2, <2>1, <3>1, CameraConstants DEF Captures, Suits, Its
  <2>2. CASE ~Its(cam, s)
    <3>1. cam.entry # None /\ cam.entry.proc # None => cam.entry.proc \in Slots \ {s}
      BY <1>1, <2>2 DEF Its, Cams, Camera!Entries
    <3> QED  BY <1>2, <3>1 DEF Captures, Suits
  <2> QED  BY <2>1, <2>2
<1>6. \A o \in Slots : Ending(new.procs[o]) \/ Its(new, o)
  BY <1>2 DEF Captures, Its, Ending
<1> QED  BY <1>2, <1>3, <1>4, <1>5, <1>6 DEF Captures, new

\* The process of a camera is told to end.
LEMMA StoppedFacts ==
  ASSUME NEW cam, NEW w, Captures(cam, w)
  PROVE  LET stopped == Camera!Stopped(cam) IN
         /\ stopped \in Cams /\ TimersTell(stopped.timers) /\ NoSecrets(stopped.procs)
         /\ \A s \in Slots : Ending(stopped.procs[s]) /\ (cam.procs[s] = None => stopped.procs[s] = None)
<1> DEFINE stopped == Camera!Stopped(cam)
<1>1. cam \in Cams /\ TimersTell(cam.timers) /\ NoSecrets(cam.procs)
  BY DEF Captures
<1>2. CASE cam.entry = None \/ cam.entry.proc = None
  <2>1. stopped = cam
    BY <1>2 DEF Camera!Stopped
  <2>2. \A s \in Slots : Ending(cam.procs[s])
    BY <1>2, CameraConstants DEF Captures, Its
  <2> QED  BY <1>1, <2>1, <2>2
<1>3. CASE cam.entry # None /\ cam.entry.proc # None
  <2> DEFINE p == cam.entry.proc
             termed == [cam.procs[p] EXCEPT !.signal = "term"]
  <2>1. p \in Slots /\ cam.entry \in Camera!Entries
    BY <1>1, <1>3 DEF Cams, Camera!Entries
  <2>2. cam.procs[p] # None /\ cam.procs[p] \in Camera!Processes
    BY <1>1, <1>3, <2>1 DEF Captures, Suits, Cams
  <2>3. termed \in Camera!Processes /\ termed.line = cam.procs[p].line /\ termed.signal = "term"
    BY <2>2 DEF Camera!Processes
  <2>4. stopped = [cam EXCEPT !.procs[p].signal = "term", !.entry.proc = None]
    BY <1>3 DEF Camera!Stopped
  <2>5. stopped.timers = cam.timers /\ stopped.procs = [cam.procs EXCEPT ![p] = termed] /\ stopped.entry = [cam.entry EXCEPT !.proc = None]
        /\ stopped = [entry |-> stopped.entry, procs |-> stopped.procs, timers |-> stopped.timers]
    BY <1>1, <2>4 DEF Cams
  <2> HIDE DEF stopped, termed
  <2>6. stopped.entry \in Camera!Entries
    BY <2>1, <2>5 DEF Camera!Entries
  <2>7. stopped.procs \in [Slots -> Camera!Processes \union {None}] /\ stopped.procs[p] = termed
        /\ \A s \in Slots \ {p} : stopped.procs[s] = cam.procs[s]
    BY <1>1, <2>1, <2>3, <2>5 DEF Cams
  <2>8. stopped \in Cams
    BY <1>1, <2>5, <2>6, <2>7 DEF Cams
  <2>9. NoSecrets(stopped.procs)
    BY <1>1, <2>2, <2>3, <2>7 DEF NoSecrets
  <2>10. \A s \in Slots : Ending(stopped.procs[s]) /\ (cam.procs[s] = None => stopped.procs[s] = None)
    BY <1>3, <2>2, <2>3, <2>7 DEF Captures, Its, Ending
  <2> QED  BY <1>1, <2>5, <2>8, <2>9, <2>10 DEF stopped
<1> QED  BY <1>2, <1>3

\* A camera that is started.
LEMMA StartedFacts ==
  ASSUME NEW cam \in Cams, TimersTell(cam.timers), NoSecrets(cam.procs), \A s \in Slots : Ending(cam.procs[s]),
         \E s \in Slots : cam.procs[s] = None,
         NEW w \in CameraConfigs, w.connected, Camera!ComputeDeviceArg(w) # None
  PROVE  Captures(Camera!Started(cam, Camera!ComputeDeviceArg(w), Camera!CameraFingerprint(w)), w)
<1> DEFINE device == Camera!ComputeDeviceArg(w)
           print == Camera!CameraFingerprint(w)
           new == Camera!Started(cam, device, print)
<1>1. device \in Camera!Devices /\ print \in Camera!Fingerprints /\ w # None
  BY CameraConstants DEF Camera!Devices, Camera!Fingerprints
<1> HIDE DEF device, print
<1>2. CASE installed
  <2> DEFINE s == Camera!FreeSlot(cam.procs)
             fresh == Camera!Fresh(device)
             e == [proc |-> s, print |-> print, status |-> "starting"]
  <2>1. s \in Slots /\ cam.procs[s] = None
    BY DEF Camera!FreeSlot
  <2>2. new = [cam EXCEPT !.procs[s] = fresh, !.entry = e]
    BY <1>2 DEF Camera!Started
  <2>3. /\ fresh \in Camera!Processes /\ fresh # None /\ fresh.signal = "none" /\ Camera!DeviceOf(fresh) = device
        /\ viaEnv /\ fresh.line # None => ~Camera!DeviceCarriesCredentials(fresh.line)
    BY <1>1, FreshFacts
  <2> HIDE DEF s, fresh
  <2>4. e \in Camera!Entries /\ e # None /\ e.proc = s /\ e.print = print /\ s # None
    <3>1. e \in Camera!Entries
      BY <1>1, <2>1 DEF Camera!Entries
    <3> QED  BY <2>1, <3>1, CameraConstants
  <2> HIDE DEF e
  <2>5. /\ new \in Cams /\ new.entry = e /\ new.timers = cam.timers /\ new.procs[s] = fresh
        /\ \A o \in Slots \ {s} : new.procs[o] = cam.procs[o]
    <3>1. new = [entry |-> e, procs |-> [cam.procs EXCEPT ![s] = fresh], timers |-> cam.timers]
      BY <2>2 DEF Cams
    <3>2. [cam.procs EXCEPT ![s] = fresh] \in [Slots -> Camera!Processes \union {None}] /\ cam.timers \in SUBSET Camera!Timers
      BY <2>1, <2>3 DEF Cams
    <3> HIDE DEF new
    <3>3. new \in Cams
      BY <2>4, <3>1, <3>2 DEF Cams
    <3>4. cam.procs \in [Slots -> Camera!Processes \union {None}]
      BY DEF Cams
    <3> QED  BY <2>1, <3>1, <3>3, <3>4
  <2> HIDE DEF new
  <2>6. NoSecrets(new.procs)
    BY <2>3, <2>5 DEF NoSecrets
  <2>7. Suits(new, w)
    BY <1>1, <2>3, <2>4, <2>5 DEF Suits, device, print
  <2>8. \A o \in Slots : Ending(new.procs[o]) \/ Its(new, o)
    BY <2>4, <2>5 DEF Its
  <2> QED  BY <2>5, <2>6, <2>7, <2>8 DEF Captures, new, device, print
<1>3. CASE ~installed
  <2> DEFINE e == [proc |-> None, print |-> print, status |-> "error"]
  <2>1. e \in Camera!Entries /\ e # None /\ e.proc = None /\ e.print = print
    <3>1. e \in Camera!Entries
      BY <1>1 DEF Camera!Entries
    <3> QED  BY <3>1, CameraConstants
  <2>2. new = [cam EXCEPT !.entry = e]
    BY <1>3 DEF Camera!Started
  <2> HIDE DEF e
  <2>3. new \in Cams /\ new.entry = e /\ new.timers = cam.timers /\ new.procs = cam.procs
    BY <2>1, <2>2 DEF Cams
  <2> HIDE DEF new
  <2> QED  BY <1>1, <2>1, <2>3 DEF Captures, Suits, new, device, print
<1> QED  BY <1>2, <1>3

\* A camera without a process, with an entry that says why.
LEMMA WithoutFacts ==
  ASSUME NEW cam \in Cams, TimersTell(cam.timers), NoSecrets(cam.procs), \A s \in Slots : Ending(cam.procs[s]),
         NEW w \in CameraConfigs, NEW why \in {"error", "stopped"}, w.connected \/ why = "stopped"
  PROVE  Captures([cam EXCEPT !.entry = [proc |-> None, print |-> Camera!CameraFingerprint(w), status |-> why]], w)
<1> DEFINE e == [proc |-> None, print |-> Camera!CameraFingerprint(w), status |-> why]
           new == [cam EXCEPT !.entry = e]
<1>1. e \in Camera!Entries
  BY DEF Camera!Entries, Camera!Fingerprints
<1>2. e # None /\ e.proc = None /\ e.print = Camera!CameraFingerprint(w) /\ e.status = why /\ w # None
  BY <1>1, CameraConstants
<1> HIDE DEF e
<1>3. new \in Cams /\ new.entry = e /\ new.timers = cam.timers /\ new.procs = cam.procs
  BY <1>1 DEF Cams
<1> HIDE DEF new
<1>4. Captures(new, w)
  BY <1>2, <1>3 DEF Captures, Suits
<1> QED  BY <1>4 DEF new, e

\* A save makes of a camera what the tree asks for.
LEMMA ReconciledFacts ==
  ASSUME NEW cam, NEW v \in Camera!Wanted, Captures(cam, v), \E s \in Slots : cam.procs[s] = None, NEW w \in Camera!Wanted
  PROVE  Captures(Camera!Reconciled(cam, w), w)
<1> DEFINE stopped == Camera!Stopped(cam)
           new == Camera!Reconciled(cam, w)
<1>1. /\ stopped \in Cams /\ TimersTell(stopped.timers) /\ NoSecrets(stopped.procs)
      /\ \A s \in Slots : Ending(stopped.procs[s]) /\ (cam.procs[s] = None => stopped.procs[s] = None)
  BY StoppedFacts
<1>2. \E s \in Slots : stopped.procs[s] = None
  BY <1>1
<1>3. CASE w = None
  <2>1. new = [stopped EXCEPT !.entry = None]
    BY <1>3 DEF Camera!Reconciled
  <2> HIDE DEF stopped
  <2>2. new \in Cams /\ new.entry = None /\ new.procs = stopped.procs /\ new.timers = stopped.timers
    BY <1>1, <2>1 DEF Cams
  <2> HIDE DEF new
  <2>3. Captures(new, w)
    BY <1>1, <2>2 DEF Captures, Suits
  <2> QED  BY <2>3 DEF new
<1>4. ASSUME w # None PROVE w \in CameraConfigs
  BY <1>4 DEF Camera!Wanted
<1>5. CASE w # None /\ ~w.connected
  <2>1. new = [stopped EXCEPT !.entry = [proc |-> None, print |-> Camera!CameraFingerprint(w), status |-> "stopped"]]
    BY <1>5 DEF Camera!Reconciled
  <2> HIDE DEF stopped, new
  <2>2. Captures(new, w)
    BY <1>1, <1>4, <1>5, <2>1, WithoutFacts
  <2> QED  BY <2>2 DEF new
<1>6. CASE w # None /\ w.connected /\ cam.entry # None /\ cam.entry.print = Camera!CameraFingerprint(w) /\ cam.entry.proc # None
  <2>1. new = cam
    BY <1>6 DEF Camera!Reconciled
  <2>2. v \in CameraConfigs /\ Camera!CameraFingerprint(v) = Camera!CameraFingerprint(w)
    BY <1>6 DEF Captures, Suits, Camera!Wanted
  <2>3. Camera!ComputeDeviceArg(v) = Camera!ComputeDeviceArg(w)
    BY <1>4, <1>6, <2>2, FingerprintsTell
  <2>4. Captures(cam, w)
    BY <1>6, <2>2, <2>3 DEF Captures, Suits
  <2> QED  BY <2>1, <2>4
<1>7. CASE w # None /\ w.connected /\ ~(cam.entry # None /\ cam.entry.print = Camera!CameraFingerprint(w) /\ cam.entry.proc # None)
           /\ Camera!ComputeDeviceArg(w) = None
  <2>1. new = [stopped EXCEPT !.entry = [proc |-> None, print |-> Camera!CameraFingerprint(w), status |-> "error"]]
    BY <1>7 DEF Camera!Reconciled
  <2> HIDE DEF stopped, new
  <2>2. Captures(new, w)
    BY <1>1, <1>4, <1>7, <2>1, WithoutFacts
  <2> QED  BY <2>2 DEF new
<1>8. CASE w # None /\ w.connected /\ ~(cam.entry # None /\ cam.entry.print = Camera!CameraFingerprint(w) /\ cam.entry.proc # None)
           /\ Camera!ComputeDeviceArg(w) # None
  <2>1. new = Camera!Started(stopped, Camera!ComputeDeviceArg(w), Camera!CameraFingerprint(w))
    BY <1>8 DEF Camera!Reconciled
  <2> HIDE DEF stopped, new
  <2>2. Captures(new, w)
    BY <1>1, <1>2, <1>4, <1>8, <2>1, StartedFacts
  <2> QED  BY <2>2 DEF new
<1> QED  BY <1>3, <1>5, <1>6, <1>7, <1>8

\* A process ended or was told to end by the health check: its camera is in error, with a timer of what it had.
LEMMA LostFacts ==
  ASSUME NEW cam \in Cams, TimersTell(cam.timers), NoSecrets(cam.procs), NEW s \in Slots, Its(cam, s),
         cam.procs[s] # None, NEW w \in CameraConfigs, w.connected, cam.entry.print = Camera!CameraFingerprint(w),
         Camera!DeviceOf(cam.procs[s]) = Camera!ComputeDeviceArg(w), Camera!DeviceOf(cam.procs[s]) # None,
         \A o \in Slots : Ending(cam.procs[o])
  PROVE  Captures(Camera!Lost(cam), w)
<1> DEFINE e == [cam.entry EXCEPT !.proc = None, !.status = "error"]
           due == [device |-> Camera!DeviceOf(cam.procs[s]), print |-> cam.entry.print]
           new == Camera!Lost(cam)
<1>1. cam.entry \in Camera!Entries /\ cam.entry # None /\ cam.entry.proc = s
  BY DEF Cams, Its
<1>2. e \in Camera!Entries /\ e.proc = None /\ e.print = cam.entry.print
  BY <1>1 DEF Camera!Entries
<1>3. e # None /\ w # None
  BY <1>2, CameraConstants
<1>4. due \in Camera!Timers /\ due.device = Camera!ComputeDeviceArg(w) /\ due.print = Camera!CameraFingerprint(w)
  BY DEF Camera!Timers, Camera!Devices, Camera!Fingerprints
<1>5. new = [cam EXCEPT !.entry = e, !.timers = cam.timers \union {due}]
  BY <1>1 DEF Camera!Lost
<1> HIDE DEF e, due
<1>6. new \in Cams /\ new.entry = e /\ new.timers = cam.timers \union {due} /\ new.procs = cam.procs
  BY <1>2, <1>4, <1>5 DEF Cams
<1> HIDE DEF new
<1>7. TimersTell(new.timers)
  <2>1. \A c \in CameraConfigs : Camera!CameraFingerprint(c) = due.print => Camera!ComputeDeviceArg(c) = due.device
    BY <1>4, FingerprintsTell
  <2> QED  BY <1>6, <2>1 DEF TimersTell
<1>8. Suits(new, w)
  BY <1>2, <1>3, <1>6 DEF Suits
<1>9. Captures(new, w)
  BY <1>6, <1>7, <1>8 DEF Captures
<1> QED  BY <1>9 DEF new

\* What a camera is, in the state.
LEMMA CameraFacts ==
  ASSUME CamerasInv, NEW k \in CameraKeys
  PROVE  LET cam == Camera!Camera(k) IN
         /\ Captures(cam, asked[k]) /\ asked[k] \in Camera!Wanted /\ cam \in Cams /\ Camera!Listed(cam) = pidFile[k]
         /\ cam.entry = entry[k] /\ cam.procs = procs[k] /\ cam.timers = respawns[k]
         /\ \A s \in Slots : Camera!Tracked(k) = s <=> Its(cam, s)
         /\ Camera!Tracked(k) # None => Camera!Tracked(k) \in Slots
<1> DEFINE cam == Camera!Camera(k)
<1>1. cam = [entry |-> entry[k], procs |-> procs[k], timers |-> respawns[k]]
  BY DEF Camera!Camera
<1>2. Captures(cam, asked[k]) /\ Camera!Listed(cam) = pidFile[k] /\ asked[k] \in Camera!Wanted
  BY DEF CamerasInv, CamerasTypes
<1>3. cam \in Cams /\ cam.entry = entry[k] /\ cam.procs = procs[k] /\ cam.timers = respawns[k]
  BY <1>1, <1>2 DEF Captures
<1>4. entry[k] # None => entry[k] \in Camera!Entries
  BY DEF CamerasInv, CamerasTypes
<1> HIDE DEF cam
<1>5. \A s \in Slots : Camera!Tracked(k) = s <=> Its(cam, s)
  BY <1>3, CameraConstants DEF Camera!Tracked, Its
<1>6. Camera!Tracked(k) # None => Camera!Tracked(k) \in Slots
  BY <1>4 DEF Camera!Tracked, Camera!Entries
<1> QED  BY <1>2, <1>3, <1>5, <1>6 DEF cam

\* The file lists processes.
LEMMA ListedFacts ==
  ASSUME NEW cam \in Cams
  PROVE  /\ Camera!Listed(cam) \in SUBSET Slots
         /\ \A s \in Slots : Its(cam, s) => s \in Camera!Listed(cam)
<1>1. cam.entry = None \/ cam.entry \in Camera!Entries
  BY DEF Cams
<1> QED  BY <1>1, CameraConstants DEF Camera!Listed, Camera!Entries, Its

\* When every camera becomes what it should.
LEMMA AllBecome ==
  ASSUME CamerasInv, NEW after, \A k \in CameraKeys : Captures(after[k], asked'[k]),
         entry' = [k \in CameraKeys |-> after[k].entry], procs' = [k \in CameraKeys |-> after[k].procs],
         respawns' = [k \in CameraKeys |-> after[k].timers], pidFile' = [k \in CameraKeys |-> Camera!Listed(after[k])],
         asked' \in [CameraKeys -> Camera!Wanted], UNCHANGED viaEnv, installed' \in BOOLEAN,
         saves' \in 0..MaxCameraSaves, cameraFaults' \in 0..MaxCameraFaults
  PROVE  CamerasInv'
<1>1. ASSUME NEW k \in CameraKeys
      PROVE  /\ after[k].entry \in Camera!Entries \union {None} /\ after[k].procs \in [Slots -> Camera!Processes \union {None}]
             /\ after[k].timers \in SUBSET Camera!Timers /\ Camera!Listed(after[k]) \in SUBSET Slots
             /\ after[k] = [entry |-> after[k].entry, procs |-> after[k].procs, timers |-> after[k].timers]
  <2>1. after[k] \in Cams
    BY DEF Captures
  <2> QED  BY <2>1, ListedFacts DEF Cams
<1>2. CamerasTypes'
  <2>1. entry' \in [CameraKeys -> Camera!Entries \union {None}] /\ procs' \in [CameraKeys -> [Slots -> Camera!Processes \union {None}]]
    BY <1>1
  <2>2. respawns' \in [CameraKeys -> SUBSET Camera!Timers] /\ pidFile' \in [CameraKeys -> SUBSET Slots]
    BY <1>1
  <2>3. viaEnv' \in BOOLEAN
    BY DEF CamerasInv, CamerasTypes
  <2> QED  BY <2>1, <2>2, <2>3 DEF CamerasTypes, Camera!Wanted, Camera!Entries, Camera!Fingerprints, Camera!Processes, Camera!Devices, Camera!Timers
<1>3. ASSUME NEW k \in CameraKeys PROVE Captures(Camera!Camera(k), asked[k])' /\ (pidFile[k] = Camera!Listed(Camera!Camera(k)))'
  <2>1. Camera!Camera(k)' = after[k]
    <3>1. entry'[k] = after[k].entry /\ procs'[k] = after[k].procs /\ respawns'[k] = after[k].timers
      OBVIOUS
    <3> QED  BY <1>1, <3>1 DEF Camera!Camera
  <2>2. pidFile'[k] = Camera!Listed(after[k])
    OBVIOUS
  <2>3. ASSUME NEW cam, NEW w, Captures(cam, w), cam = Camera!Camera(k)', w = asked'[k]
        PROVE  Captures(Camera!Camera(k), asked[k])'
    <3>1. (Camera!Camera(k) \in Cams)'
      BY <2>3 DEF Captures, Cams, Camera!Entries, Camera!Processes, Camera!Timers, Camera!Devices, Camera!Fingerprints
    <3>2. TimersTell(Camera!Camera(k).timers)'
      BY <2>3 DEF Captures, TimersTell
    <3>3. NoSecrets(Camera!Camera(k).procs)'
      BY <2>3 DEF Captures, NoSecrets
    <3>4. Suits(Camera!Camera(k), asked[k])'
      BY <2>3 DEF Captures, Suits
    <3>5. \A s \in Slots : (Ending(Camera!Camera(k).procs[s]) \/ Its(Camera!Camera(k), s))'
      BY <2>3 DEF Captures, Ending, Its
    <3> QED  BY <3>1, <3>2, <3>3, <3>4, <3>5 DEF Captures
  <2>4. Captures(Camera!Camera(k), asked[k])'
    BY <2>1, <2>3
  <2>5. (pidFile[k] = Camera!Listed(Camera!Camera(k)))'
    BY <2>1, <2>2 DEF Camera!Listed
  <2> QED  BY <2>4, <2>5
<1> QED  BY <1>2, <1>3 DEF CamerasInv

\* One camera becomes another, and the others stay.
LEMMA OneBecomes ==
  ASSUME CamerasInv, NEW k \in CameraKeys, NEW cam, Captures(cam, asked[k]), Camera!Become(k, cam),
         UNCHANGED <<asked, viaEnv, installed, saves, cameraFaults>>
  PROVE  CamerasInv'
<1> DEFINE after == [j \in CameraKeys |-> IF j = k THEN cam ELSE Camera!Camera(j)]
<1>1. /\ entry' = [entry EXCEPT ![k] = cam.entry] /\ procs' = [procs EXCEPT ![k] = cam.procs]
      /\ respawns' = [respawns EXCEPT ![k] = cam.timers] /\ pidFile' = [pidFile EXCEPT ![k] = Camera!Listed(cam)]
  BY DEF Camera!Become
<1>2. \A j \in CameraKeys : Captures(after[j], asked'[j])
  BY CameraFacts
<1>3. ASSUME NEW j \in CameraKeys, j # k
      PROVE  after[j].entry = entry[j] /\ after[j].procs = procs[j] /\ after[j].timers = respawns[j] /\ Camera!Listed(after[j]) = pidFile[j]
  BY <1>3, CameraFacts
<1>4. after[k] = cam
  OBVIOUS
<1> HIDE DEF after
<1>5. CamerasTypes
  BY DEF CamerasInv
<1>6. /\ entry' = [j \in CameraKeys |-> after[j].entry] /\ procs' = [j \in CameraKeys |-> after[j].procs]
      /\ respawns' = [j \in CameraKeys |-> after[j].timers] /\ pidFile' = [j \in CameraKeys |-> Camera!Listed(after[j])]
  BY <1>1, <1>3, <1>4, <1>5 DEF CamerasTypes
<1> QED  BY <1>2, <1>5, <1>6, AllBecome DEF CamerasTypes

\* One process changes.
LEMMA OneProcess ==
  ASSUME CamerasInv, NEW k \in CameraKeys, NEW s \in Slots, NEW process \in Camera!Processes \union {None},
         procs' = [procs EXCEPT ![k][s] = process], procs[k][s] # None,
         process # None => process.line = procs[k][s].line /\ process.env = procs[k][s].env,
         IF Its(Camera!Camera(k), s) THEN process # None /\ process.signal = "none" ELSE Ending(process),
         UNCHANGED <<asked, entry, respawns, pidFile, installed, viaEnv, saves>>, cameraFaults' \in 0..MaxCameraFaults
  PROVE  CamerasInv'
<1> DEFINE cam == Camera!Camera(k)
           new == [cam EXCEPT !.procs[s] = process]
           after == [j \in CameraKeys |-> IF j = k THEN new ELSE Camera!Camera(j)]
<1>1. /\ Captures(cam, asked[k]) /\ cam \in Cams /\ Camera!Listed(cam) = pidFile[k]
      /\ cam.entry = entry[k] /\ cam.procs = procs[k] /\ cam.timers = respawns[k]
  BY CameraFacts
<1>2. Captures(new, asked[k])
  BY <1>1, ProcessChanged
<1>3. new.entry = entry[k] /\ new.procs = [procs[k] EXCEPT ![s] = process] /\ new.timers = respawns[k]
  BY <1>1 DEF Cams
<1>4. Camera!Listed(new) = pidFile[k]
  BY <1>1, <1>3 DEF Camera!Listed
<1>5. \A j \in CameraKeys : Captures(after[j], asked'[j])
  BY <1>2, CameraFacts
<1>6. ASSUME NEW j \in CameraKeys, j # k
      PROVE  after[j].entry = entry[j] /\ after[j].procs = procs[j] /\ after[j].timers = respawns[j] /\ Camera!Listed(after[j]) = pidFile[j]
  BY <1>6, CameraFacts
<1>7. after[k] = new
  OBVIOUS
<1> HIDE DEF after, new, cam
<1>8. CamerasTypes
  BY DEF CamerasInv
<1>9. procs' = [j \in CameraKeys |-> after[j].procs]
  BY <1>3, <1>6, <1>7, <1>8 DEF CamerasTypes
<1>10. /\ entry' = [j \in CameraKeys |-> after[j].entry] /\ respawns' = [j \in CameraKeys |-> after[j].timers]
       /\ pidFile' = [j \in CameraKeys |-> Camera!Listed(after[j])]
  BY <1>3, <1>4, <1>6, <1>7, <1>8 DEF CamerasTypes
<1> QED  BY <1>5, <1>8, <1>9, <1>10, AllBecome DEF CamerasTypes

\* The server starts a process for each camera of the tree that is on, and no other runs.
LEMMA CamerasStart == Camera!Init => CamerasInv
<1> SUFFICES ASSUME Camera!Init PROVE CamerasInv
  OBVIOUS
<1> DEFINE new == [entry |-> None, procs |-> [s \in Slots |-> None], timers |-> {}]
           after == [k \in CameraKeys |-> Camera!Reconciled(new, asked[k])]
<1>1. /\ installed = TRUE /\ viaEnv \in BOOLEAN /\ saves = 0 /\ cameraFaults = 0 /\ asked \in [CameraKeys -> Camera!Wanted]
      /\ entry = [k \in CameraKeys |-> after[k].entry] /\ procs = [k \in CameraKeys |-> after[k].procs]
      /\ respawns = [k \in CameraKeys |-> {}] /\ pidFile = [k \in CameraKeys |-> Camera!Listed(after[k])]
  BY DEF Camera!Init
<1>2. Captures(new, None)
  BY DEF Captures, Cams, TimersTell, NoSecrets, Suits, Ending
<1>3. \E s \in Slots : new.procs[s] = None
  BY CameraConstants
<1>4. new.timers = {} /\ new.entry = None
  OBVIOUS
<1> HIDE DEF new
<1>5. ASSUME NEW k \in CameraKeys PROVE Captures(after[k], asked[k]) /\ after[k].timers = {}
  <2>1. Captures(after[k], asked[k])
    BY <1>1, <1>2, <1>3, ReconciledFacts DEF Camera!Wanted
  <2>2. new \in Cams
    BY <1>2 DEF Captures
  <2>3. Camera!Stopped(new) = new
    BY <1>4 DEF Camera!Stopped
  <2>4. after[k].timers = {}
    BY <1>4, <2>2, <2>3 DEF Camera!Reconciled, Camera!Started, Cams
  <2> QED  BY <2>1, <2>4
<1> HIDE DEF after
<1>6. ASSUME NEW k \in CameraKeys
      PROVE  /\ after[k].entry \in Camera!Entries \union {None} /\ after[k].procs \in [Slots -> Camera!Processes \union {None}]
             /\ Camera!Listed(after[k]) \in SUBSET Slots
             /\ Camera!Camera(k) = after[k]
  <2>1. after[k] \in Cams
    BY <1>5 DEF Captures
  <2> QED  BY <1>1, <1>5, <2>1, ListedFacts DEF Cams, Camera!Camera
<1>7. 0 \in 0..MaxCameraSaves /\ 0 \in 0..MaxCameraFaults
  BY CameraConstants
<1>8. CamerasTypes
  BY <1>1, <1>6, <1>7 DEF CamerasTypes
<1> QED  BY <1>1, <1>5, <1>6, <1>8 DEF CamerasInv

\* A save reconciles every camera.
LEMMA CamerasSaved ==
  ASSUME CamerasInv, NEW k \in CameraKeys, NEW w \in Camera!Wanted, Camera!Save(k, w)
  PROVE  CamerasInv'
<1> DEFINE after == [j \in CameraKeys |-> Camera!Reconciled(Camera!Camera(j), asked'[j])]
<1>1. /\ saves < MaxCameraSaves /\ Camera!HasRoom /\ saves' = saves + 1 /\ asked' = [asked EXCEPT ![k] = w]
      /\ entry' = [j \in CameraKeys |-> after[j].entry] /\ procs' = [j \in CameraKeys |-> after[j].procs]
      /\ respawns' = [j \in CameraKeys |-> after[j].timers] /\ pidFile' = [j \in CameraKeys |-> Camera!Listed(after[j])]
      /\ UNCHANGED <<installed, viaEnv, cameraFaults>>
  BY DEF Camera!Save
<1>2. CamerasTypes
  BY DEF CamerasInv
<1>3. asked' \in [CameraKeys -> Camera!Wanted] /\ saves' \in 0..MaxCameraSaves
  <2>1. saves' \in 0..MaxCameraSaves
    BY <1>1, <1>2, CameraConstants DEF CamerasTypes
  <2> QED  BY <1>1, <1>2, <2>1 DEF CamerasTypes
<1>4. ASSUME NEW j \in CameraKeys PROVE Captures(after[j], asked'[j])
  <2>1. Captures(Camera!Camera(j), asked[j]) /\ asked[j] \in Camera!Wanted /\ Camera!Camera(j).procs = procs[j]
    BY CameraFacts
  <2>2. asked'[j] \in Camera!Wanted
    BY <1>3
  <2>3. \E s \in Slots : procs[j][s] = None
    BY <1>1 DEF Camera!HasRoom
  <2> QED  BY <2>1, <2>2, <2>3, ReconciledFacts
<1> HIDE DEF after
<1> QED  BY <1>1, <1>2, <1>3, <1>4, AllBecome DEF CamerasTypes

\* The server starts again: what an earlier one left is told to end.
LEMMA CamerasRestarted ==
  ASSUME CamerasInv, NEW orderly \in BOOLEAN, Camera!Restart(orderly)
  PROVE  CamerasInv'
<1> DEFINE left(j) == IF orderly THEN Camera!Listed(Camera!Camera(j)) ELSE pidFile[j]
           found(j) == [s \in Slots |->
             IF procs[j][s] = None THEN None
             ELSE IF s \in left(j) \/ procs[j][s].signal = "term" THEN [procs[j][s] EXCEPT !.signal = "reaped"]
             ELSE procs[j][s]]
           before(j) == [entry |-> None, procs |-> found(j), timers |-> {}]
           after == [j \in CameraKeys |-> Camera!Reconciled(before(j), asked[j])]
<1>1. /\ cameraFaults < MaxCameraFaults /\ Camera!HasRoom /\ cameraFaults' = cameraFaults + 1
      /\ entry' = [j \in CameraKeys |-> after[j].entry] /\ procs' = [j \in CameraKeys |-> after[j].procs]
      /\ respawns' = [j \in CameraKeys |-> after[j].timers] /\ pidFile' = [j \in CameraKeys |-> Camera!Listed(after[j])]
      /\ UNCHANGED <<asked, installed, viaEnv, saves>>
  BY DEF Camera!Restart
<1>2. CamerasTypes
  BY DEF CamerasInv
<1>3. cameraFaults' \in 0..MaxCameraFaults
  BY <1>1, <1>2, CameraConstants DEF CamerasTypes
<1>4. ASSUME NEW j \in CameraKeys PROVE Captures(after[j], asked'[j])
  <2>1. /\ Captures(Camera!Camera(j), asked[j]) /\ asked[j] \in Camera!Wanted /\ Camera!Camera(j).procs = procs[j]
        /\ Camera!Camera(j) \in Cams /\ Camera!Listed(Camera!Camera(j)) = pidFile[j]
    BY CameraFacts
  <2>2. \A s \in Slots : Ending(procs[j][s]) \/ s \in left(j)
    BY <2>1, ListedFacts DEF Captures
  <2>3. NoSecrets(procs[j]) /\ procs[j] \in [Slots -> Camera!Processes \union {None}]
    BY <2>1 DEF Captures, Cams
  <2> HIDE DEF left
  <2>4. ASSUME NEW s \in Slots
        PROVE  /\ found(j)[s] \in Camera!Processes \union {None} /\ Ending(found(j)[s]) /\ (procs[j][s] = None => found(j)[s] = None)
               /\ found(j)[s] # None => procs[j][s] # None /\ found(j)[s].line = procs[j][s].line
    <3>1. CASE procs[j][s] = None
      BY <3>1 DEF Ending
    <3>2. CASE procs[j][s] # None /\ (s \in left(j) \/ procs[j][s].signal = "term")
      <4>1. found(j)[s] = [procs[j][s] EXCEPT !.signal = "reaped"] /\ procs[j][s] \in Camera!Processes
        BY <2>3, <3>2
      <4> QED  BY <3>2, <4>1 DEF Camera!Processes, Ending
    <3>3. CASE procs[j][s] # None /\ ~(s \in left(j) \/ procs[j][s].signal = "term")
      <4>1. found(j)[s] = procs[j][s]
        BY <3>3
      <4> QED  BY <2>2, <2>3, <3>3, <4>1
    <3> QED  BY <3>1, <3>2, <3>3
  <2>5. found(j) \in [Slots -> Camera!Processes \union {None}]
    BY <2>4
  <2>6. NoSecrets(found(j))
    BY <2>3, <2>4 DEF NoSecrets
  <2>7. before(j).procs = found(j) /\ before(j).entry = None /\ before(j).timers = {}
    OBVIOUS
  <2> HIDE DEF found
  <2>8. before(j) \in Cams
    BY <2>5 DEF Cams
  <2> HIDE DEF before
  <2>9. Captures(before(j), asked[j])
    BY <2>4, <2>6, <2>7, <2>8 DEF Captures, Suits, TimersTell
  <2>10. \E s \in Slots : before(j).procs[s] = None
    BY <1>1, <2>4, <2>7 DEF Camera!HasRoom
  <2> QED  BY <1>1, <2>1, <2>9, <2>10, ReconciledFacts
<1> HIDE DEF after
<1> QED  BY <1>1, <1>2, <1>3, <1>4, AllBecome DEF CamerasTypes

\* What a camera becomes whose process answers, or is killed.
LEMMA CheckedParts ==
  ASSUME NEW cam \in Cams, NEW s \in Slots, NEW new, new = [cam EXCEPT !.entry.status = "running", !.procs[s].misses = 0]
  PROVE  /\ new = [entry |-> new.entry, procs |-> new.procs, timers |-> new.timers]
         /\ new.entry = [cam.entry EXCEPT !.status = "running"] /\ new.timers = cam.timers
         /\ new.procs = [cam.procs EXCEPT ![s] = [cam.procs[s] EXCEPT !.misses = 0]]
BY DEF Cams
\* A process that is told to end, after too many misses, changes nothing else of its camera.
LEMMA KilledParts ==
  ASSUME NEW cam \in Cams, NEW s \in Slots, NEW new, new = [cam EXCEPT !.procs[s].misses = 0, !.procs[s].signal = "term"]
  PROVE  /\ new = [entry |-> new.entry, procs |-> new.procs, timers |-> new.timers]
         /\ new.entry = cam.entry /\ new.timers = cam.timers
         /\ new.procs = [cam.procs EXCEPT ![s] = [cam.procs[s] EXCEPT !.misses = 0, !.signal = "term"]]
BY DEF Cams

\* The health check of a camera.
LEMMA CameraChecked ==
  ASSUME CamerasInv, NEW k \in CameraKeys, Camera!HealthCheck(k)
  PROVE  CamerasInv'
<1> DEFINE s == Camera!Tracked(k)
           cam == Camera!Camera(k)
           process == cam.procs[s]
           missed == process.misses + 1
           w == asked[k]
<1>1. /\ Captures(cam, w) /\ w \in Camera!Wanted /\ cam \in Cams /\ cam.procs = procs[k]
      /\ s \in Slots /\ Its(cam, s)
  BY CameraFacts DEF Camera!HealthCheck
<1>2. UNCHANGED <<asked, viaEnv, installed, saves, cameraFaults>>
  BY DEF Camera!HealthCheck
<1>3. /\ process \in Camera!Processes /\ process # None /\ process.signal = "none" /\ Camera!DeviceOf(process) = Camera!ComputeDeviceArg(w)
      /\ w # None /\ w.connected /\ cam.entry.print = Camera!CameraFingerprint(w) /\ w \in CameraConfigs /\ Camera!ComputeDeviceArg(w) # None
      /\ cam.entry \in Camera!Entries /\ cam.entry.proc = s /\ s # None
  BY <1>1, CameraConstants DEF Captures, Suits, Its, Cams, Camera!Wanted
<1>4. cam = [entry |-> cam.entry, procs |-> cam.procs, timers |-> cam.timers]
      /\ cam.procs \in [Slots -> Camera!Processes \union {None}] /\ cam.timers \in SUBSET Camera!Timers
  BY <1>1 DEF Cams
<1>5. IF Camera!PortIsHealthy(k)
      THEN Camera!Become(k, [cam EXCEPT !.entry.status = "running", !.procs[s].misses = 0])
      ELSE IF missed < Misses
           THEN Camera!Become(k, [cam EXCEPT !.procs[s].misses = missed])
           ELSE Camera!Become(k, Camera!Lost([cam EXCEPT !.procs[s].misses = 0, !.procs[s].signal = "term"]))
  BY <1>1 DEF Camera!HealthCheck
<1> HIDE DEF s, cam, w
<1>6. CASE Camera!PortIsHealthy(k)
  <2> DEFINE counted == [process EXCEPT !.misses = 0]
             checked == [cam EXCEPT !.procs[s] = counted]
             e == [cam.entry EXCEPT !.status = "running"]
             new == [cam EXCEPT !.entry.status = "running", !.procs[s].misses = 0]
  <2>1. counted \in Camera!Processes /\ counted.line = process.line /\ counted.env = process.env /\ counted.signal = "none"
    BY <1>3, CameraConstants DEF Camera!Processes
  <2>2. counted # None
    BY <2>1, CameraConstants
  <2>3. Captures(checked, w)
    BY <1>1, <1>3, <2>1, <2>2, ProcessChanged
  <2>4. checked.entry = cam.entry /\ checked.timers = cam.timers
    BY <1>4
  <2>5. new = [entry |-> e, procs |-> checked.procs, timers |-> checked.timers]
    <3>1. checked.procs = [cam.procs EXCEPT ![s] = [cam.procs[s] EXCEPT !.misses = 0]]
      BY <1>4
    <3> HIDE DEF checked
    <3>2. /\ new = [entry |-> new.entry, procs |-> new.procs, timers |-> new.timers]
          /\ new.entry = e /\ new.timers = cam.timers
          /\ new.procs = [cam.procs EXCEPT ![s] = [cam.procs[s] EXCEPT !.misses = 0]]
      BY <1>1, CheckedParts
    <3> HIDE DEF new
    <3> QED  BY <2>4, <3>1, <3>2
  <2>6. e \in Camera!Entries /\ e.proc = s /\ e.print = cam.entry.print
    BY <1>3 DEF Camera!Entries
  <2>7. e # None
    BY <2>6, CameraConstants
  <2> HIDE DEF e, checked, counted
  <2>8. new \in Cams /\ new.entry = e /\ new.procs = checked.procs /\ new.timers = checked.timers
    BY <2>3, <2>5, <2>6 DEF Captures, Cams
  <2> HIDE DEF new
  <2>9. Captures(new, w)
    BY <1>1, <1>3, <2>3, <2>4, <2>6, <2>7, <2>8 DEF Captures, Suits, Its
  <2>10. Camera!Become(k, new)
    BY <1>5, <1>6 DEF new
  <2> QED  BY <1>2, <2>9, <2>10, OneBecomes DEF w
<1>7. CASE ~Camera!PortIsHealthy(k) /\ missed < Misses
  <2> DEFINE counted == [process EXCEPT !.misses = missed]
  <2>1. missed \in 0..Misses
    BY <1>3, <1>7, CameraConstants DEF Camera!Processes
  <2> HIDE DEF missed
  <2>2. counted \in Camera!Processes /\ counted.line = process.line /\ counted.env = process.env /\ counted.signal = "none"
    BY <1>3, <2>1 DEF Camera!Processes
  <2>3. counted # None
    BY <2>2, CameraConstants
  <2>4. [cam EXCEPT !.procs[s].misses = missed] = [cam EXCEPT !.procs[s] = counted]
    OBVIOUS
  <2> HIDE DEF counted
  <2>5. Captures([cam EXCEPT !.procs[s] = counted], w)
    BY <1>1, <1>3, <2>2, <2>3, ProcessChanged
  <2> QED  BY <1>2, <1>5, <1>7, <2>4, <2>5, OneBecomes DEF w
<1>8. CASE ~Camera!PortIsHealthy(k) /\ ~(missed < Misses)
  <2> DEFINE termed == [process EXCEPT !.misses = 0, !.signal = "term"]
             killed == [cam EXCEPT !.procs[s].misses = 0, !.procs[s].signal = "term"]
  <2>1. termed \in Camera!Processes /\ termed.line = process.line /\ termed.env = process.env /\ termed.signal = "term"
    <3>1. 0 \in 0..Misses
      BY CameraConstants
    <3> DEFINE counted == [process EXCEPT !.misses = 0]
    <3>2. counted \in Camera!Processes /\ counted.line = process.line /\ counted.env = process.env
      BY <1>3, <3>1 DEF Camera!Processes
    <3>3. termed = [counted EXCEPT !.signal = "term"]
      OBVIOUS
    <3> HIDE DEF counted, termed
    <3> QED  BY <3>2, <3>3 DEF Camera!Processes
  <2>2. termed # None
    BY <2>1, CameraConstants
  <2>3. killed = [entry |-> cam.entry, procs |-> [cam.procs EXCEPT ![s] = termed], timers |-> cam.timers]
    <3>1. /\ killed = [entry |-> killed.entry, procs |-> killed.procs, timers |-> killed.timers]
          /\ killed.entry = cam.entry /\ killed.timers = cam.timers
          /\ killed.procs = [cam.procs EXCEPT ![s] = termed]
      BY <1>1, KilledParts
    <3> HIDE DEF killed, termed
    <3> QED  BY <3>1
  <2> HIDE DEF termed
  <2>4. /\ killed \in Cams /\ killed.entry = cam.entry /\ killed.timers = cam.timers /\ killed.procs[s] = termed
        /\ \A o \in Slots \ {s} : killed.procs[o] = cam.procs[o]
    <3>1. [cam.procs EXCEPT ![s] = termed] \in [Slots -> Camera!Processes \union {None}]
      BY <1>1, <1>4, <2>1
    <3>2. killed \in Cams
      BY <1>1, <1>4, <2>3, <3>1 DEF Cams
    <3> HIDE DEF killed
    <3> QED  BY <1>1, <1>4, <2>3, <3>2
  <2> HIDE DEF killed
  <2>5. NoSecrets(killed.procs)
    BY <1>1, <1>3, <2>1, <2>4 DEF Captures, NoSecrets
  <2>6. \A o \in Slots : Ending(killed.procs[o])
    BY <1>1, <2>1, <2>4 DEF Captures, Its, Ending
  <2>7. Camera!DeviceOf(killed.procs[s]) = Camera!ComputeDeviceArg(w) /\ Camera!DeviceOf(killed.procs[s]) # None
    <3>1. Camera!DeviceOf(termed) = Camera!DeviceOf(process)
      BY <2>1 DEF Camera!DeviceOf
    <3> QED  BY <1>3, <2>4, <3>1
  <2>8. Captures(Camera!Lost(killed), w)
    BY <1>1, <1>3, <2>2, <2>4, <2>5, <2>6, <2>7, LostFacts DEF Captures, Its
  <2> QED  BY <1>2, <1>5, <1>8, <2>8, OneBecomes DEF w, killed
<1> QED  BY <1>6, <1>7, <1>8

\* A timer fires.
LEMMA CameraRespawned ==
  ASSUME CamerasInv, NEW k \in CameraKeys, NEW due \in Camera!Timers, Camera!Respawn(k, due)
  PROVE  CamerasInv'
<1> DEFINE was == Camera!Camera(k)
           cam == [was EXCEPT !.timers = @ \ {due}]
           w == asked[k]
<1>1. /\ Captures(was, w) /\ w \in Camera!Wanted /\ was \in Cams /\ Camera!Listed(was) = pidFile[k]
      /\ was.entry = entry[k] /\ was.procs = procs[k] /\ was.timers = respawns[k]
  BY CameraFacts
<1>2. due \in respawns[k] /\ Camera!HasRoom /\ UNCHANGED <<asked, viaEnv, installed, saves, cameraFaults>>
  BY DEF Camera!Respawn
<1>3. IF Camera!RespawnIsDue(cam, due)
      THEN Camera!Become(k, Camera!Started(cam, due.device, due.print))
      ELSE respawns' = [respawns EXCEPT ![k] = @ \ {due}] /\ UNCHANGED <<entry, procs, pidFile>>
  BY DEF Camera!Respawn
<1> HIDE DEF was, w
<1>4. cam \in Cams /\ cam.entry = was.entry /\ cam.procs = was.procs /\ cam.timers = was.timers \ {due}
  BY <1>1 DEF Cams
<1> HIDE DEF cam
<1>5. TimersTell(cam.timers) /\ NoSecrets(cam.procs) /\ Captures(cam, w)
  BY <1>1, <1>4 DEF Captures, TimersTell, Suits, Its
<1>6. CASE Camera!RespawnIsDue(cam, due)
  <2>1. cam.entry # None /\ cam.entry.proc = None /\ cam.entry.print = due.print /\ cam.entry.status = "error"
    BY <1>6 DEF Camera!RespawnIsDue
  <2>2. w \in CameraConfigs /\ w.connected /\ Camera!CameraFingerprint(w) = due.print
    BY <1>1, <1>5, <2>1 DEF Captures, Suits, Camera!Wanted
  <2>3. due.device = Camera!ComputeDeviceArg(w) /\ due.device # None
    BY <1>1, <1>2, <2>2 DEF Captures, TimersTell, Camera!Timers, Camera!Devices
  <2>4. \A s \in Slots : Ending(cam.procs[s])
    BY <1>5, <2>1, CameraConstants DEF Captures, Its
  <2>5. \E s \in Slots : cam.procs[s] = None
    BY <1>1, <1>2, <1>4 DEF Camera!HasRoom
  <2>6. Captures(Camera!Started(cam, Camera!ComputeDeviceArg(w), Camera!CameraFingerprint(w)), w)
    BY <1>4, <1>5, <2>2, <2>3, <2>4, <2>5, StartedFacts
  <2>7. Camera!Become(k, Camera!Started(cam, Camera!ComputeDeviceArg(w), Camera!CameraFingerprint(w)))
    BY <1>3, <1>6, <2>2, <2>3
  <2> QED  BY <1>2, <2>6, <2>7, OneBecomes DEF w
<1>7. CASE ~Camera!RespawnIsDue(cam, due)
  <2>1. CamerasTypes
    BY DEF CamerasInv
  <2>2. Camera!Listed(cam) = pidFile[k]
    BY <1>1, <1>4 DEF Camera!Listed
  <2>3. Camera!Become(k, cam)
    BY <1>1, <1>3, <1>4, <1>7, <2>1, <2>2 DEF Camera!Become, CamerasTypes
  <2> QED  BY <1>2, <1>5, <2>3, OneBecomes DEF w
<1> QED  BY <1>6, <1>7

\* The exit of a process is told.
LEMMA ExitTold ==
  ASSUME CamerasInv, NEW k \in CameraKeys, NEW s \in Slots, Camera!ExitEvent(k, s)
  PROVE  CamerasInv'
<1> DEFINE cam == Camera!Camera(k)
           w == asked[k]
           lost == IF Camera!Tracked(k) = s THEN Camera!Lost(cam) ELSE cam
<1>1. /\ Captures(cam, w) /\ w \in Camera!Wanted /\ cam \in Cams /\ cam.procs = procs[k]
      /\ Camera!Tracked(k) = s <=> Its(cam, s)
  BY CameraFacts
<1>2. /\ procs[k][s] # None /\ procs[k][s].life = "gone" /\ Camera!Become(k, [lost EXCEPT !.procs[s] = None])
      /\ UNCHANGED <<asked, viaEnv, installed, saves, cameraFaults>>
  BY DEF Camera!ExitEvent
<1> HIDE DEF cam, w
<1>3. Captures(lost, w) /\ ~Its(lost, s)
  <2>1. CASE Its(cam, s)
    <3>1. /\ cam.procs[s] # None /\ Camera!DeviceOf(cam.procs[s]) = Camera!ComputeDeviceArg(w) /\ Camera!ComputeDeviceArg(w) # None
          /\ w \in CameraConfigs /\ w.connected /\ cam.entry.print = Camera!CameraFingerprint(w)
      BY <1>1, <2>1, CameraConstants DEF Captures, Suits, Its, Camera!Wanted
    <3>2. \A o \in Slots : Ending(cam.procs[o])
      BY <1>1, <1>2, <2>1 DEF Captures, Its, Ending
    <3>3. Captures(Camera!Lost(cam), w)
      BY <1>1, <2>1, <3>1, <3>2, LostFacts DEF Captures
    <3>4. ~Its(Camera!Lost(cam), s)
      <4>1. cam.entry \in Camera!Entries
        BY <1>1, <2>1 DEF Its, Cams
      <4>2. Camera!Lost(cam).entry = [cam.entry EXCEPT !.proc = None, !.status = "error"]
        BY <1>1 DEF Camera!Lost, Cams
      <4>3. Camera!Lost(cam).entry.proc = None
        BY <4>1, <4>2 DEF Camera!Entries
      <4> QED  BY <4>3, CameraConstants DEF Its
    <3> QED  BY <1>1, <2>1, <3>3, <3>4
  <2>2. CASE ~Its(cam, s)
    BY <1>1, <2>2
  <2> QED  BY <2>1, <2>2
<1> HIDE DEF lost
<1>4. Captures([lost EXCEPT !.procs[s] = None], w)
  BY <1>3, ProcessChanged DEF Ending
<1> QED  BY <1>2, <1>4, OneBecomes DEF w

\* A process changes by itself, or is killed: it keeps its device.
LEMMA ProcessMoves ==
  ASSUME CamerasInv, NEW k \in CameraKeys, NEW s \in Slots,
         Camera!KillTimer(k, s) \/ Camera!Open(k, s) \/ Camera!Terminate(k, s) \/ Camera!Fail(k, s)
  PROVE  CamerasInv'
<1> DEFINE cam == Camera!Camera(k)
           process == procs[k][s]
<1>1. /\ Captures(cam, asked[k]) /\ cam \in Cams /\ cam.procs = procs[k]
      /\ Camera!Tracked(k) = s <=> Its(cam, s)
  BY CameraFacts
<1>2. process # None /\ process \in Camera!Processes /\ process.life # "gone"
  BY <1>1 DEF Cams, Camera!KillTimer, Camera!Open, Camera!Terminate, Camera!Fail, Camera!Alive
<1>3. (Its(cam, s) => process.signal = "none") /\ (~Its(cam, s) => process.signal # "none")
  BY <1>1, <1>2, CameraConstants DEF Captures, Suits, Its, Ending
<1>4. UNCHANGED <<asked, entry, respawns, pidFile, installed, viaEnv, saves>> /\ cameraFaults' \in 0..MaxCameraFaults
  <2>1. cameraFaults \in 0..MaxCameraFaults
    BY DEF CamerasInv, CamerasTypes
  <2> QED  BY <2>1, CameraConstants DEF Camera!KillTimer, Camera!Open, Camera!Terminate, Camera!Fail
<1>5. PICK new : procs' = [procs EXCEPT ![k][s] = new] /\
        \/ new = Camera!Ended(k, s)
        \/ new = [process EXCEPT !.life = "serving"]
        \/ new = [process EXCEPT !.hung = TRUE]
        \/ new = [process EXCEPT !.signal = "kill"] /\ process.signal = "term"
  <2>1. CASE Camera!KillTimer(k, s)
    <3>1. procs' = [procs EXCEPT ![k][s] = [process EXCEPT !.signal = "kill"]] /\ process.signal = "term"
      BY <2>1 DEF Camera!KillTimer
    <3> QED  BY <3>1
  <2>2. CASE Camera!Open(k, s)
    <3>1. procs' = [procs EXCEPT ![k][s] = Camera!Ended(k, s)] \/ procs' = [procs EXCEPT ![k][s] = [process EXCEPT !.life = "serving"]]
      BY <2>2 DEF Camera!Open
    <3> QED  BY <3>1
  <2>3. CASE Camera!Terminate(k, s)
    BY <2>3 DEF Camera!Terminate
  <2>4. CASE Camera!Fail(k, s)
    <3>1. procs' = [procs EXCEPT ![k][s] = Camera!Ended(k, s)] \/ procs' = [procs EXCEPT ![k][s] = [process EXCEPT !.hung = TRUE]]
      BY <2>4 DEF Camera!Fail
    <3> QED  BY <3>1
  <2> QED  BY <2>1, <2>2, <2>3, <2>4
<1> HIDE DEF process, cam
<1>6. CASE new = Camera!Ended(k, s)
  <2>1. CASE Its(cam, s)
    <3>1. new = [process EXCEPT !.life = "gone"]
      BY <1>1, <1>6, <2>1 DEF Camera!Ended, process
    <3>2. new \in Camera!Processes /\ new.line = process.line /\ new.env = process.env /\ new.signal = process.signal
      BY <1>2, <3>1 DEF Camera!Processes
    <3>3. new # None
      BY <3>2, CameraConstants
    <3> QED  BY <1>2, <1>3, <1>4, <1>5, <2>1, <3>2, <3>3, OneProcess DEF process, cam
  <2>2. CASE ~Its(cam, s)
    <3>1. new = None
      BY <1>1, <1>6, <2>2 DEF Camera!Ended
    <3> QED  BY <1>2, <1>4, <1>5, <2>2, <3>1, OneProcess DEF process, cam, Ending
  <2> QED  BY <2>1, <2>2
<1>7. CASE new = [process EXCEPT !.life = "serving"] \/ new = [process EXCEPT !.hung = TRUE]
  <2>1. new \in Camera!Processes /\ new.line = process.line /\ new.env = process.env /\ new.signal = process.signal
    BY <1>2, <1>7 DEF Camera!Processes
  <2>2. new # None
    BY <2>1, CameraConstants
  <2> QED  BY <1>2, <1>3, <1>4, <1>5, <2>1, <2>2, OneProcess DEF process, cam, Ending
<1>8. CASE new = [process EXCEPT !.signal = "kill"] /\ process.signal = "term"
  <2>1. new \in Camera!Processes /\ new.line = process.line /\ new.env = process.env /\ new.signal = "kill"
    BY <1>2, <1>8 DEF Camera!Processes
  <2>2. new # None /\ ~Its(cam, s)
    BY <1>3, <1>8, <2>1, CameraConstants
  <2> QED  BY <1>2, <1>4, <1>5, <2>1, <2>2, OneProcess DEF process, cam, Ending
<1> QED  BY <1>5, <1>6, <1>7, <1>8

\* A step of another part.
LEMMA CamerasStay == CamerasInv /\ UNCHANGED cameraVars => CamerasInv'
<1> SUFFICES ASSUME CamerasInv, UNCHANGED cameraVars PROVE CamerasInv'
  OBVIOUS
<1> DEFINE after == [k \in CameraKeys |-> Camera!Camera(k)]
<1>1. UNCHANGED <<asked, entry, procs, respawns, pidFile, installed, viaEnv, saves, cameraFaults>>
  BY DEF cameraVars
<1>2. CamerasTypes
  BY DEF CamerasInv
<1>3. ASSUME NEW k \in CameraKeys
      PROVE  /\ Captures(after[k], asked[k]) /\ after[k].entry = entry[k] /\ after[k].procs = procs[k]
             /\ after[k].timers = respawns[k] /\ Camera!Listed(after[k]) = pidFile[k]
  BY CameraFacts
<1> HIDE DEF after
<1>4. /\ entry' = [k \in CameraKeys |-> after[k].entry] /\ procs' = [k \in CameraKeys |-> after[k].procs]
      /\ respawns' = [k \in CameraKeys |-> after[k].timers] /\ pidFile' = [k \in CameraKeys |-> Camera!Listed(after[k])]
  BY <1>1, <1>2, <1>3 DEF CamerasTypes
<1> QED  BY <1>1, <1>2, <1>3, <1>4, AllBecome DEF CamerasTypes

\* Each step of a save, the timers, the processes and the server.
LEMMA CamerasStep == CamerasInv /\ Camera!Next => CamerasInv'
<1> SUFFICES ASSUME CamerasInv, Camera!Next PROVE CamerasInv'
  OBVIOUS
<1>1. CASE \E k \in CameraKeys : \/ \E w \in Camera!Wanted : Camera!Save(k, w)
                                 \/ Camera!HealthCheck(k)
                                 \/ \E due \in Camera!Timers : Camera!Respawn(k, due)
                                 \/ \E s \in Slots : Camera!OfProcess(k, s) \/ Camera!Fail(k, s)
  BY <1>1, CamerasSaved, CameraChecked, CameraRespawned, ExitTold, ProcessMoves DEF Camera!OfProcess
<1>2. CASE \E orderly \in BOOLEAN : Camera!Restart(orderly)
  BY <1>2, CamerasRestarted
<1>3. CASE Camera!Reinstall
  <2> DEFINE after == [k \in CameraKeys |-> Camera!Camera(k)]
  <2>1. CamerasTypes
    BY DEF CamerasInv
  <2>2. /\ cameraFaults' \in 0..MaxCameraFaults /\ installed' \in BOOLEAN /\ UNCHANGED <<asked, entry, procs, respawns, pidFile, viaEnv, saves>>
    BY <1>3, <2>1, CameraConstants DEF Camera!Reinstall, CamerasTypes
  <2>3. ASSUME NEW k \in CameraKeys
        PROVE  /\ Captures(after[k], asked[k]) /\ after[k].entry = entry[k] /\ after[k].procs = procs[k]
               /\ after[k].timers = respawns[k] /\ Camera!Listed(after[k]) = pidFile[k]
    BY CameraFacts
  <2> HIDE DEF after
  <2>4. /\ entry' = [k \in CameraKeys |-> after[k].entry] /\ procs' = [k \in CameraKeys |-> after[k].procs]
        /\ respawns' = [k \in CameraKeys |-> after[k].timers] /\ pidFile' = [k \in CameraKeys |-> Camera!Listed(after[k])]
    BY <2>1, <2>2, <2>3 DEF CamerasTypes
  <2> QED  BY <2>1, <2>2, <2>3, <2>4, AllBecome DEF CamerasTypes
<1> QED  BY <1>1, <1>2, <1>3 DEF Camera!Next

\* A process that runs and was not told to end is tracked by its camera and is what its settings ask for.
LEMMA CamerasHold == CamerasInv => Camera!TypeOK /\ Camera!OnlyTheWanted
<1> SUFFICES ASSUME CamerasInv PROVE Camera!TypeOK /\ Camera!OnlyTheWanted
  OBVIOUS
<1>1. Camera!TypeOK
  BY DEF CamerasInv, CamerasTypes, Camera!TypeOK
<1>2. ASSUME NEW k \in CameraKeys, NEW s \in Slots, Camera!Alive(k, s), procs[k][s].signal = "none"
      PROVE  /\ Camera!Tracked(k) = s /\ s \in pidFile[k]
             /\ asked[k] # None /\ asked[k].connected /\ Camera!DeviceOf(procs[k][s]) = Camera!ComputeDeviceArg(asked[k])
             /\ viaEnv /\ procs[k][s].line # None => ~Camera!DeviceCarriesCredentials(procs[k][s].line)
  <2> DEFINE cam == Camera!Camera(k)
  <2>1. /\ Captures(cam, asked[k]) /\ cam \in Cams /\ Camera!Listed(cam) = pidFile[k] /\ cam.procs = procs[k]
        /\ Camera!Tracked(k) = s <=> Its(cam, s)
    BY CameraFacts
  <2> HIDE DEF cam
  <2>2. procs[k][s] # None /\ Its(cam, s)
    BY <1>2, <2>1 DEF Captures, Ending, Camera!Alive
  <2>3. s \in pidFile[k]
    BY <2>1, <2>2, ListedFacts
  <2>4. asked[k] # None /\ asked[k].connected /\ Camera!DeviceOf(procs[k][s]) = Camera!ComputeDeviceArg(asked[k])
    BY <2>1, <2>2, CameraConstants DEF Captures, Suits, Its
  <2>5. viaEnv /\ procs[k][s].line # None => ~Camera!DeviceCarriesCredentials(procs[k][s].line)
    BY <2>1, <2>2 DEF Captures, NoSecrets
  <2> QED  BY <2>1, <2>2, <2>3, <2>4, <2>5
<1> QED  BY <1>1, <1>2 DEF Camera!OnlyTheWanted

-----------------------------------------------------------------------------
(* Side by side *)

LinksInv == CamerasInv /\ BrokerInv /\ RadioInv /\ FrameInv /\ GatewayInv

\* Each part has its invariant at the start.
LEMMA LinksStart == LinksInit => LinksInv
BY CamerasStart, BrokerStarts, RadioStarts, FrameStarts, GatewayStarts DEF LinksInit, LinksInv

\* A step of some part keeps the invariant of each.
LEMMA LinksMove == LinksInv /\ [LinksNext]_linkVars => LinksInv'
<1> SUFFICES ASSUME LinksInv, [LinksNext]_linkVars PROVE LinksInv'
  OBVIOUS
<1>i. CamerasInv /\ BrokerInv /\ RadioInv /\ FrameInv /\ GatewayInv
  BY DEF LinksInv
<1>1. (Camera!Next \/ UNCHANGED cameraVars) /\ (Broker!Next \/ UNCHANGED brokerVars) /\ (Radio!Next \/ UNCHANGED radioVars)
      /\ (Radio!FrameNext \/ UNCHANGED frameVars) /\ (Gateway!Next \/ UNCHANGED gatewayVars)
  BY DEF LinksNext, LinkStep, linkVars
<1>2. CamerasInv'
  BY <1>i, <1>1, CamerasStep, CamerasStay
<1>3. BrokerInv'
  BY <1>i, <1>1, BrokerSteps, BrokerStays
<1>4. RadioInv'
  BY <1>i, <1>1, RadioSteps, RadioStays
<1>5. FrameInv'
  BY <1>i, <1>1, FrameSteps, FrameStays
<1>6. GatewayInv'
  BY <1>i, <1>1, GatewaySteps, GatewayStays
<1> QED  BY <1>2, <1>3, <1>4, <1>5, <1>6 DEF LinksInv

\* The invariants give what the links promise.
LEMMA LinksHold == LinksInv => LinksAreTrue
BY CamerasHold, BrokerHolds, RadioHolds, FrameHolds, GatewayHolds DEF LinksInv, LinksAreTrue, LinksTypeOK

\* What the server keeps up with things outside is what it takes it for, for any cameras, robots, phones, frames,
\* requests and bounds, and with any of the parts moving in one behaviour. A process of a camera that nobody told to
\* end is the one its settings ask for, through saves, respawns, health checks and restarts of the server
\* (cameraSupervisor.ts). While nothing is scheduled or on the way, the broker shows the robots as they are and the last
\* word on the safety that it did not lose itself, whatever was lost before (mqttBridge.ts). Acknowledgements go out in
\* the order of their commands and before any state, also when the helper dies (ble/bleGateway.ts). A command message
\* is handed on whole or not at all, unless the radio lost a first frame or a whole turn of the numbers of the frames
\* in a row (ble/framing.ts). A client is given the answer to its own command, or a late one that nobody waits for,
\* and no verb stays busy without a timer (bridgeGateway.ts). And every variable has its type.
THEOREM LinksCorrect == LinksSpec => []LinksAreTrue
<1>1. LinksSpec => []LinksInv
  BY LinksStart, LinksMove, PTL DEF LinksSpec
<1> QED  BY <1>1, LinksHold, PTL
=============================================================================

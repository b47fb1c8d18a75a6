--------------------------- MODULE RobotCommands ---------------------------
(***************************************************************************)
(* What the commands of a robot change and what the clients are told of it *)
(* (routes/commandRoutes.ts, robotEdit.ts): a command changes the robots   *)
(* of its group in memory, awaits the write of the tree and then tells the *)
(* clients the fields it changed. What it tells is not a copy: a valve, a  *)
(* pose or a playback is told as it is by then, unless somebody replaced   *)
(* the object meanwhile. And how often the audit record takes a movement   *)
(* that comes many times a second. Claims, arming and order are those of   *)
(* RobotControl, tables and limits those of RobotEdits, ticks Playback's.  *)
(***************************************************************************)
EXTENDS Integers, Sequences, FiniteSets

CONSTANTS Robots, None,
          CombinedWith,  \* the robots a command of a robot reaches besides
          Homed, Reach,  \* robots whose model has a home pose, and how far one jog may go
          LastOutput,    \* the highest number of a valve or a pump
          Keys, MaxKeys, \* accounts with a robot, and how many the record remembers
          MaxCommands, MaxSaves, MaxFailures, MaxClock

VARIABLES tree,          \* the robots in memory
          underWay,      \* commands and saves whose write is awaited, in the order of the queue
          shown,         \* what a client that is told of changes sees
          doubtful,      \* fields whose last change was not told, or told of a robot that a save replaced
          brought,       \* robots that came with a save and were not stopped since
          commands, saves, failures

VARIABLES clock, every,
          lastStreamAudit, \* when the movements of a key were last recorded
          moved,           \* the last movement of each key, the interval then, and the last that was recorded
          setBack          \* keys recorded at a time the clock has not reached again

vars == <<tree, underWay, shown, doubtful, brought, commands, saves, failures>>

\* Changed in place, and told as they are when they are told; the other fields are told as they were.
Objects == {"valves", "pumps", "playback", "pose", "layout"}
Fields == Objects \cup {"enabled", "tool", "points", "vision", "role"}
Outputs == 0..LastOutput
Roles == {"Idle", "Laser"}

Still(playback) == [playback EXCEPT !.playing = FALSE, !.paused = FALSE, !.step = -1]
NewRobot == [enabled |-> TRUE, valves |-> {}, pumps |-> {}, playback |-> [playing |-> FALSE, paused |-> FALSE, step |-> -1, speed |-> 100],
             pose |-> 0, layout |-> 1, tool |-> None, points |-> 0, vision |-> FALSE, role |-> "Idle"]

Group(r) == {r} \cup CombinedWith[r]

Init ==
  /\ tree = [r \in Robots |-> NewRobot] /\ shown = tree
  /\ underWay = <<>> /\ doubtful = {} /\ brought = {}
  /\ commands = 0 /\ saves = 0 /\ failures = 0

\* ---- commands -----------------------------------------------------------

\* What is told of fields whose object is replaced now: the old one, as it is left.
LeftBehind(replaced) ==
  [i \in DOMAIN underWay |-> [underWay[i] EXCEPT !.told =
     [x \in DOMAIN @ |-> IF x \in replaced /\ @[x] = <<>> THEN <<tree[x[1]][x[2]]>> ELSE @[x]]]]

\* A command changes the robots it reaches and waits for its write. Fields that get a new object leave the old one to the
\* commands before.
Command(kind, reach, After(_), fields, anew) ==
  /\ commands < MaxCommands /\ commands' = commands + 1
  /\ tree' = [r \in Robots |-> IF r \in reach THEN After(tree[r]) ELSE tree[r]]
  /\ underWay' = Append(LeftBehind(reach \X anew),
       [kind |-> kind, ofTree |-> TRUE, told |-> [x \in reach \X fields |-> IF x[2] \in Objects THEN <<>> ELSE <<tree'[x[1]][x[2]]>>]])
  /\ UNCHANGED <<shown, doubtful, saves, failures>>

\* A disabled robot in the group refuses the command for all of it.
Works(reach) == \A r \in reach : tree[r].enabled

\* A setpoint that is refused is written all the same, with nothing to tell.
Nothing(reach) == Command("command", reach, LAMBDA robot : robot, {}, {})

Change(r, After(_), fields, anew) ==
  Works(Group(r)) /\ Command("command", Group(r), After, fields, anew) /\ UNCHANGED brought

\* A trajectory, an edit and the safe mode are for one robot.
ChangeOne(r, After(_), fields, anew) ==
  Works({r}) /\ Command("command", {r}, After, fields, anew) /\ UNCHANGED brought

Stop(r) ==
  Command("command", Group(r), LAMBDA robot : [robot EXCEPT !.playback = Still(@)], {"playback"}, {"playback"}) /\ UNCHANGED brought

Off(robot) == [robot EXCEPT !.playback = Still(@), !.valves = {}, !.pumps = {}]

Disable(r) ==
  /\ Command("command", {r}, LAMBDA robot : [Off(robot) EXCEPT !.enabled = FALSE], {"enabled", "playback", "valves", "pumps"}, {"playback"})
  /\ brought' = brought \ {r}

Enable(r) == Command("command", {r}, LAMBDA robot : [robot EXCEPT !.enabled = TRUE], {"enabled"}, {}) /\ UNCHANGED brought

Play(r) == Change(r, LAMBDA robot : [robot EXCEPT !.playback = [@ EXCEPT !.playing = TRUE, !.paused = FALSE, !.step = 0]], {"playback"}, {"playback"})

\* One state for the whole group: the one asked for, or the other than that of the robot that was asked.
Pause(r, wanted) ==
  LET paused == IF wanted = {} THEN ~tree[r].playback.paused ELSE TRUE \in wanted IN
  Change(r, LAMBDA robot : [robot EXCEPT !.playback = [@ EXCEPT !.playing = TRUE, !.paused = paused]], {"playback"}, {"playback"})

Speed(r, speed) ==
  IF speed \in 10..500 THEN Change(r, LAMBDA robot : [robot EXCEPT !.playback.speed = speed], {"playback"}, {})
  ELSE Works(Group(r)) /\ Nothing(Group(r)) /\ UNCHANGED brought

Output(r, kind, i, on) ==
  IF i \in Outputs THEN Change(r, LAMBDA robot : [robot EXCEPT ![kind] = IF on THEN @ \cup {i} ELSE @ \ {i}], {kind}, {})
  ELSE Works(Group(r)) /\ Nothing(Group(r)) /\ UNCHANGED brought

\* The tool; the step of a jog and the signal that resets the view are told alike.
Tool(r, tool) ==
  IF tool # None THEN Change(r, LAMBDA robot : [robot EXCEPT !.tool = tool], {"tool"}, {})
  ELSE Works(Group(r)) /\ Nothing(Group(r)) /\ UNCHANGED brought

Vision(r, on) == Change(r, LAMBDA robot : [robot EXCEPT !.vision = on], {"vision"}, {})

\* The arms move that may move so far; every robot of a group goes home, or none if one has no home.
Jog(r, by) ==
  /\ Works(Group(r)) /\ UNCHANGED brought
  /\ Command("command", {s \in Group(r) : by <= Reach[s]}, LAMBDA robot : [robot EXCEPT !.pose = @ + by], {"pose"}, {})
Reset(r) == Group(r) \subseteq Homed /\ Change(r, LAMBDA robot : [robot EXCEPT !.pose = 0], {"pose"}, {"pose"})

\* Another work is loaded, checked as a whole before; a playback starts with its first point.
Trajectory(r, work) ==
  ChangeOne(r, LAMBDA robot : [robot EXCEPT !.points = work, !.playback = Still(@)], {"points", "playback"}, {"playback"})

\* An edit of the points is refused while the robot plays.
Points(r, work) == ~tree[r].playback.playing /\ ChangeOne(r, LAMBDA robot : [robot EXCEPT !.points = work], {"points"}, {})

\* The role must be a known one; joints that are given are told alike.
Role(r, role) == role \in Roles /\ ChangeOne(r, LAMBDA robot : [robot EXCEPT !.role = role], {"role"}, {})

\* The layout of the table: checked as a whole, and a new object with what is not given taken from the old one.
Layout(r, size) == size > 0 /\ ChangeOne(r, LAMBDA robot : [robot EXCEPT !.layout = size], {"layout"}, {"layout"})

\* The stop of all robots is told even if it could not be written.
StopAll ==
  /\ Command("stop-all", Robots, Off, {"playback", "valves", "pumps"}, {"playback"})
  /\ brought' = {r \in brought : ~tree[r].enabled}

\* ---- the writes ---------------------------------------------------------

\* A client saves a tree of its own; the checks take one with a robot that was switched over and has its valves on.
Save ==
  /\ saves < MaxSaves /\ saves' = saves + 1
  /\ \E r \in Robots :
       underWay' = Append(underWay, [kind |-> "save", ofTree |-> TRUE, told |-> <<>>,
         page |-> [s \in Robots |-> IF s = r THEN [tree[s] EXCEPT !.enabled = ~@, !.valves = Outputs] ELSE tree[s]]])
  /\ UNCHANGED <<tree, shown, doubtful, brought, commands, failures>>

Tell(told) ==
  shown' = [r \in Robots |-> [f \in Fields |->
    IF <<r, f>> \notin DOMAIN told THEN shown[r][f] ELSE IF told[<<r, f>>] = <<>> THEN tree[r][f] ELSE told[<<r, f>>][1]]]

\* What was told of the tree at work is no longer in doubt.
Doubted(d) == IF d.ofTree THEN doubtful \ DOMAIN d.told ELSE doubtful \cup DOMAIN d.told

\* The oldest write is done: what it changed is told. A tree that was saved takes the place of the one that the commands after it changed.
WriteEnds ==
  /\ underWay # <<>>
  /\ LET d == Head(underWay) IN
     IF d.kind = "save"
     THEN /\ tree' = d.page /\ shown' = d.page /\ brought' = Robots
          /\ doubtful' = {}
          /\ underWay' = [i \in DOMAIN Tail(underWay) |-> [Tail(LeftBehind(Robots \X Fields))[i] EXCEPT !.ofTree = FALSE]]
     ELSE Tell(d.told) /\ doubtful' = Doubted(d) /\ underWay' = Tail(underWay) /\ UNCHANGED <<tree, brought>>
  /\ UNCHANGED <<commands, saves, failures>>

\* It fails: nothing is told, unless it was the stop of all.
WriteFails ==
  /\ underWay # <<>> /\ failures < MaxFailures /\ failures' = failures + 1
  /\ underWay' = Tail(underWay)
  /\ LET d == Head(underWay) IN
     IF d.kind = "stop-all" THEN Tell(d.told) /\ doubtful' = Doubted(d)
     ELSE shown' = shown /\ doubtful' = doubtful \cup DOMAIN d.told
  /\ UNCHANGED <<tree, brought, commands, saves>>

Next ==
  \/ \E r \in Robots :
       \/ Stop(r) \/ Disable(r) \/ Enable(r) \/ Play(r) \/ Reset(r) \/ \E by \in 1..2 : Jog(r, by)
       \/ \E wanted \in {{}, {TRUE}, {FALSE}} : Pause(r, wanted)
       \/ \E speed \in {9, 10} : Speed(r, speed)
       \/ \E kind \in {"valves", "pumps"}, i \in 0..LastOutput + 1, on \in BOOLEAN : Output(r, kind, i, on)
       \/ \E on \in BOOLEAN : Vision(r, on)
       \/ \E tool \in {None, "gripper"} : Tool(r, tool)
       \/ Role(r, "Laser") \/ \E size \in {0, 2} : Layout(r, size)
       \/ \E work \in 0..1 : Trajectory(r, work) \/ Points(r, work)
  \/ StopAll \/ Save \/ WriteEnds \/ WriteFails

Spec == Init /\ [][Next]_vars

\* ---- the record of the movements ----------------------------------------

\* Commands that come many times a second are recorded now and then for each account and robot.
PaceInit == clock = 0 /\ every = 2 /\ lastStreamAudit = <<>> /\ moved = <<>> /\ setBack = {}

With(f, key, value) == [k \in DOMAIN f \cup {key} |-> IF k = key THEN value ELSE f[k]]

Due(key) == every > 0 /\ (key \in DOMAIN lastStreamAudit => clock - lastStreamAudit[key] >= every)

\* A jog of a key: recorded if the last one is long enough ago. A full table is emptied.
Motion(key) ==
  LET due == Due(key)
      known == IF Cardinality(DOMAIN lastStreamAudit) > MaxKeys THEN <<>> ELSE lastStreamAudit
      before == IF key \in DOMAIN moved THEN moved[key].recorded ELSE None
  IN
  /\ lastStreamAudit' = IF due THEN With(known, key, clock) ELSE lastStreamAudit
  /\ moved' = With(moved, key, [at |-> clock, every |-> every, recorded |-> IF due THEN clock ELSE before])
  /\ setBack' = IF due THEN setBack \ {key} ELSE setBack
  /\ UNCHANGED <<clock, every>>

\* Time goes on; somebody sets the clock of the system back.
TimePasses ==
  /\ clock < MaxClock /\ clock' = clock + 1 /\ UNCHANGED <<every, lastStreamAudit, moved, setBack>>
ClockIsSetBack ==
  /\ clock > 0 /\ clock' = clock - 1 /\ setBack' = DOMAIN lastStreamAudit /\ UNCHANGED <<every, lastStreamAudit, moved>>

\* An administrator changes the interval; 0 records none.
IntervalChanges ==
  /\ every' \in 0..2 \ {every} /\ UNCHANGED <<clock, lastStreamAudit, moved, setBack>>

PaceNext == (\E key \in Keys : Motion(key)) \/ TimePasses \/ ClockIsSetBack \/ IntervalChanges

-----------------------------------------------------------------------------
IsTree(t) ==
  \A r \in Robots : /\ DOMAIN t[r] = Fields /\ t[r].enabled \in BOOLEAN /\ t[r].valves \subseteq Outputs /\ t[r].pumps \subseteq Outputs
                    /\ t[r].playback.step \in {-1, 0} /\ t[r].playback.speed \in 10..500 /\ t[r].pose \in Nat
                    /\ t[r].layout > 0 /\ t[r].role \in Roles

\* Every variable has its type; no output beyond the last is kept, and no speed out of range.
TypeOK ==
  /\ IsTree(tree) /\ IsTree(shown) /\ doubtful \subseteq Robots \X Fields /\ brought \subseteq Robots
  /\ \A i \in DOMAIN underWay : underWay[i].kind \in {"command", "stop-all", "save"} /\ DOMAIN underWay[i].told \subseteq Robots \X Fields

\* In safe mode every valve and pump of a robot is off and nothing plays, whatever was asked of it or of a robot it is combined with (routes/commandRoutes.ts,
\* the case disable); only a tree that somebody saved may say otherwise.
SafeModeIsOff ==
  \A r \in Robots \ brought : ~tree[r].enabled => tree[r].valves = {} /\ tree[r].pumps = {} /\ ~tree[r].playback.playing

\* Once no write is under way, a client that merged what it was told sees each field as it is (routes/commandRoutes.ts,
\* broadcastRobotDelta), but for those whose change could not be written or was replaced by a save.
ClientsSeeRobots ==
  underWay = <<>> => \A r \in Robots, f \in Fields : <<r, f>> \notin doubtful => shown[r][f] = tree[r][f]

PaceTypeOK == clock \in 0..MaxClock /\ every \in 0..2 /\ DOMAIN lastStreamAudit \subseteq Keys /\ Cardinality(DOMAIN lastStreamAudit) <= MaxKeys + 1

\* However many keys there are and however the interval changes, a movement that was carried out is never longer than the interval
\* of its time after one that is in the record (routes/commandRoutes.ts, lastStreamAudit), unless the clock was set back.
MotionIsRecorded ==
  \A key \in DOMAIN moved \ setBack :
    moved[key].every > 0 => moved[key].recorded # None /\ moved[key].at - moved[key].recorded < moved[key].every
=============================================================================

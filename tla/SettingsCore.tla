--------------------------- MODULE SettingsCore ---------------------------
(***************************************************************************)
(* The settings tree of the server: the one it works on (getSettings, in   *)
(* memory), the one on the disk, and the requests that change them.        *)
(*                                                                         *)
(* A robot command changes the tree in memory at once, queues a write of   *)
(* it and answers when that write is done. A save of the whole tree queues *)
(* a write of the client's tree and replaces the memory only when that     *)
(* write is done. The write queue keeps the order of the requests, and the *)
(* module TxnFiles shows that a write is all or nothing; here it is one    *)
(* step. What follows an awaited write runs before any other request, so   *)
(* it is part of the step that ends the write.                             *)
(*                                                                         *)
(* Every change has a number of its own. A tree holds the number of the    *)
(* last change of its configuration (cfg) and of each robot (rev), which   *)
(* stand for its revision, and what the checks of a command look at. A     *)
(* reservation does not lapse here, nor is it forced.                      *)
(***************************************************************************)
EXTENDS Integers, Sequences

CONSTANTS Robots, Clients,
          Admins,      \* the clients of administrators
          Nobody,      \* the holder of a robot without a reservation
          AllowEnable, \* the option robots.allowEnable
          MaxChanges,  \* bound: changes of the tree
          MaxFailures, \* bound: writes that fail
          MaxRestarts  \* bound: restarts of the server

VARIABLES
  mem,     \* the tree in memory (lastKnownSettings)
  disk,    \* the tree of data/settings.json
  queue,   \* the writes queued, the oldest first, each with the request that waits for it
  page,    \* the tree that the page of each administrator holds
  busy,    \* the clients whose request has not been answered
  changes, failures, restarts,
  \* history
  answered, \* the last change of the configuration and of each robot that was answered with success
  accepted,  \* the last command of each kind in Endings that was applied to each robot
  confirmed, \* the last command of each kind in Promises that was answered
  told,     \* who was told last that the robot is reserved for it
  clobbered \* how a save has replaced changes that its client had not read

server == <<mem, disk, queue>>
history == <<answered, accepted, confirmed, told, clobbered>>
vars == <<mem, disk, queue, page, busy, changes, failures, restarts,
          answered, accepted, confirmed, told, clobbered>>

\* The administrators are clients, nobody is not one.
ConstantsFit ==
  /\ Admins \subseteq Clients /\ Nobody \notin Clients
  /\ MaxChanges \in Nat /\ MaxFailures \in Nat /\ MaxRestarts \in Nat

ASSUME ConstantsAssumption == ConstantsFit

Changes == 0..MaxChanges
RobotState == [rev : Changes, running : BOOLEAN, enabled : BOOLEAN, holder : Clients \cup {Nobody}]
Trees == [cfg : Changes, robots : [Robots -> RobotState]]
Promises == {"stop", "disable", "claim"}    \* commands whose answer says what will hold,
Endings == {"move", "enable", "release"}    \* and those that end it
Commands == Promises \cup Endings
Conditions == {"conditional", "unconditional"}

\* A write and the request that waits for it: a command on one robot, a stop of all of them
\* or a save, whose page was made from the tree base.
Entries == [tree : Trees, kind : Commands \cup {"save", "stop-all"}, by : Clients,
            robots : SUBSET Robots, change : Changes, base : Trees, condition : Conditions]

TypeOK ==
  /\ mem \in Trees
  /\ disk \in Trees
  /\ queue \in Seq(Entries)
  /\ page \in [Admins -> Trees]
  /\ busy \in SUBSET Clients
  /\ changes \in Changes
  /\ failures \in 0..MaxFailures
  /\ restarts \in 0..MaxRestarts
  /\ answered \in [cfg : Changes, robots : [Robots -> Changes]]
  /\ accepted \in [Endings -> [Robots -> Changes]]
  /\ confirmed \in [Promises -> [Robots -> Changes]]
  /\ told \in [Robots -> Clients \cup {Nobody}]
  /\ clobbered \in SUBSET Conditions

FirstTree == [cfg |-> 0,
              robots |-> [r \in Robots |->
                [rev |-> 0, running |-> FALSE, enabled |-> TRUE, holder |-> Nobody]]]

Init ==
  /\ mem = FirstTree
  /\ disk = FirstTree
  /\ queue = <<>>
  /\ page = [a \in Admins |-> FirstTree]
  /\ busy = {}
  /\ changes = 0
  /\ failures = 0
  /\ restarts = 0
  /\ answered = [cfg |-> 0, robots |-> [r \in Robots |-> 0]]
  /\ accepted = [command \in Endings |-> [r \in Robots |-> 0]]
  /\ confirmed = [command \in Promises |-> [r \in Robots |-> 0]]
  /\ told = [r \in Robots |-> Nobody]
  /\ clobbered = {}

-----------------------------------------------------------------------------
(* Requests. The definitions called variants are mistakes that the checks must notice; no
   specification uses them. *)

\* GET /api/settings reads the files again; its ETag is the revision of that tree.
ReadSettings(a) ==
  /\ page' = [page EXCEPT ![a] = disk]
  /\ UNCHANGED <<server, busy, changes, failures, restarts, history>>

\* The number of the next change.
NextChange == changes + 1

\* Variant: a write overtakes those requested before it.
QueueInFront(tree, kind, c, rs, base, condition) ==
  /\ changes < MaxChanges
  /\ changes' = NextChange
  /\ queue' = <<[tree |-> tree, kind |-> kind, by |-> c, robots |-> rs,
                change |-> NextChange, base |-> base, condition |-> condition]>> \o queue

\* queueSettingsWrite(tree), with what its caller goes on with.
Queue(tree, kind, c, rs, base, condition) ==
  /\ changes < MaxChanges
  /\ changes' = NextChange
  /\ queue' = Append(queue, [tree |-> tree, kind |-> kind, by |-> c, robots |-> rs,
                             change |-> NextChange, base |-> base, condition |-> condition])

\* If-Match is compared with the revision of the files, not with that of the memory.
IfMatchAgrees(a) == page[a] = disk

\* POST /api/settings without If-Match and the settings message of the WebSocket are
\* saved as they are; PUT, and POST with If-Match, when the files are what the page read.
\* The page sends its tree back with its own change of the configuration.
Save(a, condition) ==
  /\ a \notin busy
  /\ condition = "conditional" => IfMatchAgrees(a)
  /\ Queue([page[a] EXCEPT !.cfg = NextChange], "save", a, {}, page[a], condition)
  /\ busy' = busy \cup {a}
  /\ UNCHANGED <<mem, disk, page, failures, restarts, history>>

\* What a reservation lets through.
ClaimAllows(c, robot) == robot.holder \in {Nobody, c}

\* The guards of POST /api/robot/:id/command, /claim and /release, in memory. An If-Match
\* only makes them accept less.
Accepts(c, command, robot) ==
  \/ command \in {"stop", "disable"}
  \/ command = "move" /\ robot.enabled /\ ClaimAllows(c, robot)
  \/ command = "enable" /\ AllowEnable /\ c \in Admins /\ ClaimAllows(c, robot)
  \/ command = "claim" /\ ClaimAllows(c, robot)
  \/ command = "release" /\ (ClaimAllows(c, robot) \/ c \in Admins)

\* What a command does to its robot.
Commanded(c, command, robot) ==
  [rev |-> NextChange,
   running |-> command = "move" \/ (robot.running /\ command \notin {"stop", "disable"}),
   enabled |-> command = "enable" \/ (robot.enabled /\ command # "disable"),
   holder |-> IF command = "claim" THEN c ELSE IF command = "release" THEN Nobody ELSE robot.holder]

\* A command: checked and applied to the memory at once, then the write is awaited.
Command(c, r, command) ==
  /\ c \notin busy
  /\ Accepts(c, command, mem.robots[r])
  /\ mem' = [mem EXCEPT !.robots = [mem.robots EXCEPT ![r] = Commanded(c, command, mem.robots[r])]]
  /\ Queue(mem', command, c, {r}, mem', "unconditional")
  /\ busy' = busy \cup {c}
  /\ accepted' = [kind \in Endings |-> IF kind = command THEN [accepted[kind] EXCEPT ![r] = NextChange] ELSE accepted[kind]]
  /\ UNCHANGED <<disk, page, failures, restarts, answered, confirmed, told, clobbered>>

\* POST /api/stop-all: every robot, whoever holds it.
StopAll(c) ==
  /\ c \notin busy
  /\ mem' = [mem EXCEPT !.robots = [r \in Robots |-> Commanded(c, "stop", mem.robots[r])]]
  /\ Queue(mem', "stop-all", c, Robots, mem', "unconditional")
  /\ busy' = busy \cup {c}
  /\ UNCHANGED <<disk, page, failures, restarts, history>>

-----------------------------------------------------------------------------
(* The end of a write *)

\* The request of this entry is answered with success.
Answer(e) ==
  answered' = [cfg |-> IF e.kind = "save" THEN e.change ELSE answered.cfg,
               robots |-> [r \in Robots |-> IF r \in e.robots THEN e.change ELSE answered.robots[r]]]

\* The rest of applySettingsUpdate: the memory becomes the client's tree.
FinishSave(e) ==
  /\ mem' = e.tree
  /\ page' = [page EXCEPT ![e.by] = e.tree]
  /\ clobbered' = IF mem = e.base THEN clobbered ELSE clobbered \cup {e.condition}
  /\ UNCHANGED <<confirmed, told>>

\* The rest of a command, which was applied when it came.
FinishCommand(e) ==
  /\ confirmed' = [kind \in Promises |-> [r \in Robots |->
                     IF kind = e.kind /\ r \in e.robots THEN e.change ELSE confirmed[kind][r]]]
  /\ told' = [r \in Robots |-> IF e.kind = "claim" /\ r \in e.robots THEN e.by ELSE told[r]]
  /\ UNCHANGED <<mem, page, clobbered>>

\* The rest of a stop of all the robots.
FinishStopAll(e) ==
  /\ confirmed' = [confirmed EXCEPT !["stop"] = [r \in Robots |-> e.change]]
  /\ UNCHANGED <<mem, page, told, clobbered>>

\* The oldest write is done, and its request goes on and is answered.
WriteDone ==
  /\ queue # <<>>
  /\ LET e == Head(queue)
     IN /\ disk' = e.tree
        /\ queue' = Tail(queue)
        /\ busy' = busy \ {e.by}
        /\ Answer(e)
        /\ \/ e.kind = "save" /\ FinishSave(e)
           \/ e.kind \in Commands /\ FinishCommand(e)
           \/ e.kind = "stop-all" /\ FinishStopAll(e)
  /\ UNCHANGED <<changes, failures, restarts, accepted>>

\* Variant: the caller of a failed write is told of a success.
WriteFailsUnnoticed ==
  /\ queue # <<>>
  /\ failures < MaxFailures
  /\ failures' = failures + 1
  /\ queue' = Tail(queue)
  /\ busy' = busy \ {Head(queue).by}
  /\ Answer(Head(queue))
  /\ UNCHANGED <<mem, disk, page, changes, restarts, accepted, confirmed, told, clobbered>>

\* The oldest write fails: its caller gets the error, the others are not held up. A command
\* stays in memory, a save does not reach it, a stop of all says that it was not persisted.
WriteFails ==
  /\ queue # <<>>
  /\ failures < MaxFailures
  /\ failures' = failures + 1
  /\ queue' = Tail(queue)
  /\ busy' = busy \ {Head(queue).by}
  /\ UNCHANGED <<mem, disk, page, changes, restarts, history>>

\* Variant: the server starts with an empty tree.
RestartEmpty ==
  /\ restarts < MaxRestarts
  /\ restarts' = restarts + 1
  /\ mem' = [cfg |-> 0, robots |-> <<>>]
  /\ queue' = <<>>
  /\ busy' = {}
  /\ UNCHANGED <<disk, page, changes, failures, history>>

\* The server stops and starts again with what is on the disk.
Restart ==
  /\ restarts < MaxRestarts
  /\ restarts' = restarts + 1
  /\ mem' = disk
  /\ queue' = <<>>
  /\ busy' = {}
  /\ UNCHANGED <<disk, page, changes, failures, history>>

-----------------------------------------------------------------------------
Next ==
  \/ \E a \in Admins : ReadSettings(a)
  \/ \E a \in Admins, condition \in Conditions : Save(a, condition)
  \/ \E c \in Clients, r \in Robots, command \in Commands : Command(c, r, command)
  \/ \E c \in Clients : StopAll(c)
  \/ WriteDone
  \/ WriteFails
  \/ Restart

Spec == Init /\ [][Next]_vars

-----------------------------------------------------------------------------
(* Properties. All but the last speak of the histories in which no save has replaced a
   change that its client had not read; the first two of servers with a robot, because a stop
   of none is a change that no save notices, and writes the tree from before the save. *)

Undisturbed == clobbered = {}

\* Once the queue is empty and no write failed, the disk holds what the server works on.
DiskCatchesUp == Undisturbed /\ failures = 0 /\ queue = <<>> => disk = mem

\* The disk holds the last answered change of the configuration and of each robot, or a later
\* one, also when another write failed.
AnsweredIsStored ==
  Undisturbed =>
    /\ answered.cfg <= disk.cfg
    /\ \A r \in Robots : answered.robots[r] <= disk.robots[r].rev

\* What was answered with success survives a restart, and a restart changes nothing once every
\* write is done (applySettingsUpdate and the commands together).
RestartsLoseNothing == AnsweredIsStored /\ DiskCatchesUp

\* A robot whose disable was answered stays disabled until an administrator enables it, in
\* memory and for the next start, through every overlap of commands, failed writes and restarts.
DisabledStays ==
  Undisturbed =>
    \A r \in Robots : confirmed["disable"][r] > accepted["enable"][r] =>
      ~mem.robots[r].enabled /\ ~disk.robots[r].enabled

\* A robot whose stop or disable was answered, alone or with all the others, does not run
\* until a later command moves it.
StoppedStays ==
  Undisturbed =>
    \A r \in Robots : \A halt \in {"stop", "disable"} :
      confirmed[halt][r] > accepted["move"][r] =>
        ~mem.robots[r].running /\ ~disk.robots[r].running

\* Who was told that a robot is reserved for it holds it, in memory and after a restart,
\* until the reservation is released.
ReservationHolds ==
  Undisturbed =>
    \A r \in Robots : confirmed["claim"][r] > accepted["release"][r] =>
      mem.robots[r].holder = told[r] /\ disk.robots[r].holder = told[r]

\* What was answered of a disable, a stop and a reservation holds until a later command ends it.
AnswersStay == DisabledStays /\ StoppedStays /\ ReservationHolds

\* A conditional save stores nothing over a change that its client has not read.
ConditionalSaveReadAll == "conditional" \notin clobbered
=============================================================================

------------------------- MODULE SideBySideProofs -------------------------
(***************************************************************************)
(* Proofs about two modules that are checked side by side. SettingsCore,   *)
(* for any robots and clients and any number of changes, failed writes and *)
(* restarts: the types, that what was answered of a stop, a disable and a  *)
(* reservation holds until a later command ends it, that what was answered *)
(* is on the disk, and that the disk catches up with the memory. Relays:   *)
(* an inductive invariant of each of its nine parts, which share nothing,  *)
(* and from them what RelaysAreTrue says of all of them.                   *)
(***************************************************************************)
EXTENDS SettingsCore, Relays, SequenceTheorems, FiniteSetTheorems, TLAPS

-----------------------------------------------------------------------------
(* The types *)

LEMMA CommandedType ==
  ASSUME ConstantsFit, changes \in Changes, changes < MaxChanges,
         NEW c \in Clients, NEW command \in Commands, NEW robot \in RobotState
  PROVE  Commanded(c, command, robot) \in RobotState
  BY DEF ConstantsFit, Changes, NextChange, Commanded, RobotState

LEMMA InitType == ConstantsFit /\ Init => TypeOK
  BY DEF ConstantsFit, Init, FirstTree, TypeOK, Trees, RobotState, Changes, Entries

\* Every entry that is queued is one.
LEMMA QueueType ==
  ASSUME ConstantsFit, TypeOK,
         NEW tree \in Trees, NEW kind \in Commands \cup {"save", "stop-all"}, NEW c \in Clients, NEW rs \in SUBSET Robots,
         NEW base \in Trees, NEW condition \in Conditions, Queue(tree, kind, c, rs, base, condition)
  PROVE  queue' \in Seq(Entries) /\ changes' \in Changes
  BY DEF ConstantsFit, TypeOK, Queue, Entries, Changes, NextChange

LEMMA TailType == ASSUME TypeOK, queue # <<>> PROVE Head(queue) \in Entries /\ Tail(queue) \in Seq(Entries)
  BY DEF TypeOK

LEMMA ReadType == ASSUME TypeOK, NEW a \in Admins, ReadSettings(a) PROVE TypeOK'
  BY DEF TypeOK, ReadSettings, server, history

LEMMA SaveType ==
  ASSUME ConstantsFit, TypeOK, NEW a \in Admins, NEW condition \in Conditions, Save(a, condition)
  PROVE  TypeOK'
<1> DEFINE new == [page[a] EXCEPT !.cfg = NextChange]
<1>1. a \in Clients /\ page[a] \in Trees BY DEF ConstantsFit, TypeOK
<1>2. Queue(new, "save", a, {}, page[a], condition) BY DEF Save
<1>3. new \in Trees
  <2>1. NextChange \in Changes BY <1>2 DEF ConstantsFit, TypeOK, Queue, Changes, NextChange
  <2>2. page[a] \in [cfg : Changes, robots : [Robots -> RobotState]] BY <1>1 DEF Trees
  <2> HIDE DEF RobotState
  <2> QED BY <2>1, <2>2 DEF Trees
<1>4. queue' \in Seq(Entries) /\ changes' \in Changes
  <2> HIDE DEF new
  <2> QED BY <1>1, <1>2, <1>3, QueueType
<1> QED BY <1>1, <1>4 DEF TypeOK, Save, history

LEMMA CommandType ==
  ASSUME ConstantsFit, TypeOK, NEW c \in Clients, NEW r \in Robots, NEW command \in Commands, Command(c, r, command)
  PROVE  TypeOK'
<1>1. changes \in Changes /\ changes < MaxChanges /\ NextChange \in Changes
  BY DEF ConstantsFit, TypeOK, Command, Queue, Changes, NextChange
<1>2. mem.robots \in [Robots -> RobotState] /\ mem.robots[r] \in RobotState BY DEF TypeOK, Trees
<1>3. Commanded(c, command, mem.robots[r]) \in RobotState BY <1>1, <1>2, CommandedType
<1>4. mem' \in Trees
  <2>1. mem' = [mem EXCEPT !.robots = [mem.robots EXCEPT ![r] = Commanded(c, command, mem.robots[r])]] BY DEF Command
  <2>2. [mem.robots EXCEPT ![r] = Commanded(c, command, mem.robots[r])] \in [Robots -> RobotState] BY <1>2, <1>3
  <2> QED BY <2>1, <2>2 DEF TypeOK, Trees
<1>5. Queue(mem', command, c, {r}, mem', "unconditional") BY DEF Command
<1>6. queue' \in Seq(Entries) /\ changes' \in Changes
  <2>1. command \in Commands \cup {"save", "stop-all"} /\ {r} \in SUBSET Robots /\ "unconditional" \in Conditions
    BY DEF Conditions
  <2> QED BY <1>4, <1>5, <2>1, QueueType
<1>7. accepted' \in [Endings -> [Robots -> Changes]] BY <1>1 DEF TypeOK, Command
<1> QED BY <1>4, <1>6, <1>7 DEF TypeOK, Command

LEMMA StopAllType ==
  ASSUME ConstantsFit, TypeOK, NEW c \in Clients, StopAll(c)
  PROVE  TypeOK'
<1> DEFINE stopped == [r \in Robots |-> Commanded(c, "stop", mem.robots[r])]
<1>1. changes \in Changes /\ changes < MaxChanges BY DEF TypeOK, StopAll, Queue
<1>2. stopped \in [Robots -> RobotState]
  <2> SUFFICES ASSUME NEW r \in Robots PROVE Commanded(c, "stop", mem.robots[r]) \in RobotState OBVIOUS
  <2>1. mem.robots[r] \in RobotState /\ "stop" \in Commands BY DEF TypeOK, Trees, Commands, Promises
  <2> QED BY <1>1, <2>1, CommandedType
<1>3. mem' = [mem EXCEPT !.robots = stopped] BY DEF StopAll
<1>4. mem' \in Trees
  <2> HIDE DEF stopped
  <2> QED BY <1>2, <1>3 DEF TypeOK, Trees
<1>5. Queue(mem', "stop-all", c, Robots, mem', "unconditional") BY DEF StopAll
<1>6. queue' \in Seq(Entries) /\ changes' \in Changes
  <2>1. "stop-all" \in Commands \cup {"save", "stop-all"} /\ Robots \in SUBSET Robots /\ "unconditional" \in Conditions
    BY DEF Conditions
  <2> QED BY <1>4, <1>5, <2>1, QueueType
<1> QED BY <1>4, <1>6 DEF TypeOK, StopAll, history

LEMMA WriteDoneType ==
  ASSUME TypeOK, WriteDone
  PROVE  TypeOK'
<1> DEFINE e == Head(queue)
<1>1. e \in Entries /\ Tail(queue) \in Seq(Entries) BY TailType DEF WriteDone
<1>2. disk' = e.tree /\ queue' = Tail(queue) /\ busy' = busy \ {e.by} /\ Answer(e)
  BY DEF WriteDone
<1>3. UNCHANGED <<changes, failures, restarts, accepted>> BY DEF WriteDone
<1>4. /\ disk' \in Trees /\ busy' \in SUBSET Clients /\ queue' \in Seq(Entries)
      /\ answered' \in [cfg : Changes, robots : [Robots -> Changes]]
  <2> HIDE DEF e
  <2>1. answered' \in [cfg : Changes, robots : [Robots -> Changes]] BY <1>1, <1>2 DEF TypeOK, Entries, Answer
  <2> QED BY <1>1, <1>2, <2>1 DEF TypeOK, Entries
<1>5. CASE e.kind = "save" /\ FinishSave(e)
  <2> HIDE DEF e
  <2> QED BY <1>1, <1>3, <1>4, <1>5 DEF TypeOK, Entries, FinishSave
<1>6. CASE e.kind \in Commands /\ FinishCommand(e)
  <2> HIDE DEF e
  <2>1. confirmed' \in [Promises -> [Robots -> Changes]] BY <1>1, <1>6 DEF TypeOK, Entries, FinishCommand
  <2>2. told' \in [Robots -> Clients \cup {Nobody}] BY <1>1, <1>6 DEF TypeOK, Entries, FinishCommand
  <2> QED BY <1>3, <1>4, <1>6, <2>1, <2>2 DEF TypeOK, FinishCommand
<1>7. CASE e.kind = "stop-all" /\ FinishStopAll(e)
  <2> HIDE DEF e
  <2>1. confirmed' \in [Promises -> [Robots -> Changes]] BY <1>1, <1>7 DEF TypeOK, Entries, FinishStopAll, Promises
  <2> QED BY <1>3, <1>4, <1>7, <2>1 DEF TypeOK, FinishStopAll
<1> QED BY <1>5, <1>6, <1>7 DEF WriteDone

LEMMA WriteFailsType == ASSUME ConstantsFit, TypeOK, WriteFails PROVE TypeOK'
<1>1. Tail(queue) \in Seq(Entries) BY TailType DEF WriteFails
<1> QED BY <1>1 DEF ConstantsFit, TypeOK, WriteFails, history

LEMMA RestartType == ASSUME ConstantsFit, TypeOK, Restart PROVE TypeOK'
  BY DEF ConstantsFit, TypeOK, Restart, history

LEMMA StepType == ASSUME ConstantsFit, TypeOK, [Next]_vars PROVE TypeOK'
<1>1. CASE UNCHANGED vars BY <1>1 DEF TypeOK, vars
<1>2. CASE Next
  BY <1>2, ReadType, SaveType, CommandType, StopAllType, WriteDoneType, WriteFailsType, RestartType DEF Next
<1> QED BY <1>1, <1>2

\* Every variable keeps its type, and no number exceeds its bound, through every order of requests, writes and restarts.
THEOREM TypeCorrect == Spec => []TypeOK
<1> USE ConstantsAssumption
<1>1. Init => TypeOK BY InitType
<1>2. TypeOK /\ [Next]_vars => TypeOK' BY StepType
<1> QED BY <1>1, <1>2, PTL DEF Spec

-----------------------------------------------------------------------------
(* What answers say. A pledge is a command and what ends it: *)

Pledges == {<<"stop", "move">>, <<"disable", "move">>, <<"disable", "enable">>, <<"claim", "release">>}

\* A robot is as the pledge has it that a client was given.
Keeps(p, c, robot) ==
  /\ p[2] = "move" => ~robot.running
  /\ p[2] = "enable" => ~robot.enabled
  /\ p[2] = "release" => robot.holder = c

\* The answer of this entry will give the pledge for a robot.
Gives(e, p, r) ==
  /\ r \in e.robots
  /\ e.kind = p[1] \/ (e.kind = "stop-all" /\ p[1] = "stop")
  /\ e.change > accepted[p[2]][r]

\* A save gives back what its client had read, but it reaches the files only together with a memory of the same robots;
\* any other entry carries a tree that was the memory.
Carries(e) == e.kind # "save"

\* What was answered holds in the memory, in the file, and in each tree that will be the file.
ToldHolds(p, r) ==
  confirmed[p[1]][r] > accepted[p[2]][r] =>
    /\ p[1] = "claim" => told[r] \in Clients
    /\ Keeps(p, told[r], mem.robots[r]) /\ Keeps(p, told[r], disk.robots[r])
    /\ \A j \in 1..Len(queue) : Carries(queue[j]) => Keeps(p, told[r], queue[j].tree.robots[r])

\* What will be answered holds in the memory and in each tree written with it or later.
QueuedHolds(p, r) ==
  \A i \in 1..Len(queue) : Gives(queue[i], p, r) =>
    /\ Keeps(p, queue[i].by, mem.robots[r])
    /\ \A j \in i..Len(queue) : Carries(queue[j]) => Keeps(p, queue[i].by, queue[j].tree.robots[r])

\* No change is numbered ahead, a save changes no robot of the page that it was made from, and a stop of all is of all.
Numbered ==
  /\ \A i \in 1..Len(queue) : queue[i].change <= changes
  /\ \A kind \in Promises, r \in Robots : confirmed[kind][r] <= changes
  /\ \A i \in 1..Len(queue) : queue[i].kind = "save" => queue[i].tree.robots = queue[i].base.robots
  /\ \A i \in 1..Len(queue) : queue[i].kind = "stop-all" => queue[i].robots = Robots

PledgesHold == Undisturbed => \A p \in Pledges, r \in Robots : ToldHolds(p, r) /\ QueuedHolds(p, r)

PledgeInv == TypeOK /\ Numbered /\ PledgesHold

LEMMA PledgesEnough == ASSUME PledgeInv PROVE AnswersStay
<1>1. ASSUME Undisturbed, NEW p \in Pledges, NEW r \in Robots PROVE ToldHolds(p, r) BY <1>1 DEF PledgeInv, PledgesHold
<1>2. DisabledStays
  BY <1>1 DEF DisabledStays, Pledges, ToldHolds, Keeps
<1>3. StoppedStays
  BY <1>1 DEF StoppedStays, Pledges, ToldHolds, Keeps
<1>4. ReservationHolds
  BY <1>1 DEF ReservationHolds, Pledges, ToldHolds, Keeps
<1> QED BY <1>2, <1>3, <1>4 DEF AnswersStay

LEMMA PledgeKinds == \A p \in Pledges : p[1] \in Promises /\ p[2] \in Endings
  BY DEF Pledges, Promises, Endings

LEMMA InitPledges == ASSUME ConstantsFit, Init PROVE PledgeInv
<1>1. TypeOK BY InitType
<1>2. Numbered BY DEF Init, Numbered
<1>3. PledgesHold
  <2> SUFFICES ASSUME NEW p \in Pledges, NEW r \in Robots PROVE ToldHolds(p, r) /\ QueuedHolds(p, r) BY DEF PledgesHold
  <2>1. confirmed[p[1]][r] = 0 /\ accepted[p[2]][r] = 0 BY PledgeKinds DEF Init
  <2>2. Len(queue) = 0 BY DEF Init
  <2> QED BY <2>1, <2>2 DEF ToldHolds, QueuedHolds
<1> QED BY <1>1, <1>2, <1>3 DEF PledgeInv

\* A command that is not the end of a pledge leaves the robot as the pledge has it.
LEMMA CommandKeeps ==
  ASSUME ConstantsFit, NEW p \in Pledges, NEW command \in Commands, command # p[2],
         NEW c \in Clients, NEW holder, p[1] = "claim" => holder \in Clients,
         NEW robot \in RobotState, Accepts(c, command, robot), Keeps(p, holder, robot)
  PROVE  Keeps(p, holder, Commanded(c, command, robot))
<1> USE DEF ConstantsFit, Commands, Promises, Endings, Accepts, ClaimAllows, Keeps, Commanded, RobotState
<1>1. CASE p = <<"stop", "move">> \/ p = <<"disable", "move">> BY <1>1
<1>2. CASE p = <<"disable", "enable">> BY <1>2
<1>3. CASE p = <<"claim", "release">> BY <1>3
<1> QED BY <1>1, <1>2, <1>3 DEF Pledges

\* The command of a pledge makes the robot so.
LEMMA CommandGives ==
  ASSUME NEW p \in Pledges, NEW c \in Clients, NEW robot \in RobotState
  PROVE  Keeps(p, c, Commanded(c, p[1], robot))
<1> USE DEF Keeps, Commanded, RobotState
<1>1. CASE p = <<"stop", "move">>
  <2>1. p[1] = "stop" /\ p[2] = "move" BY <1>1
  <2> QED BY <2>1
<1>2. CASE p = <<"disable", "move">>
  <2>1. p[1] = "disable" /\ p[2] = "move" BY <1>2
  <2> QED BY <2>1
<1>3. CASE p = <<"disable", "enable">>
  <2>1. p[1] = "disable" /\ p[2] = "enable" BY <1>3
  <2> QED BY <2>1
<1>4. CASE p = <<"claim", "release">>
  <2>1. p[1] = "claim" /\ p[2] = "release" BY <1>4
  <2> QED BY <2>1
<1> QED BY <1>1, <1>2, <1>3, <1>4 DEF Pledges

\* The parts of the types that the steps use.
LEMMA Shapes ==
  ASSUME TypeOK, NEW p \in Pledges, NEW r \in Robots
  PROVE  /\ changes \in Nat /\ confirmed[p[1]][r] \in Nat /\ accepted[p[2]][r] \in Nat
         /\ mem.robots[r] \in RobotState
         /\ Len(queue) \in Nat /\ \A i \in 1..Len(queue) : queue[i] \in Entries /\ queue[i].change \in Nat
<1>1. p[1] \in Promises /\ p[2] \in Endings BY PledgeKinds
<1>2. confirmed[p[1]][r] \in Changes /\ accepted[p[2]][r] \in Changes BY <1>1 DEF TypeOK
<1>3. Len(queue) \in Nat /\ \A i \in 1..Len(queue) : queue[i] \in Entries BY DEF TypeOK
<1>4. \A i \in 1..Len(queue) : queue[i].change \in Changes BY <1>3 DEF Entries
<1>5. mem.robots[r] \in RobotState BY DEF TypeOK, Trees
<1>6. changes \in Changes BY DEF TypeOK
<1>7. \A n \in Changes : n \in Nat BY DEF Changes
<1> QED BY <1>2, <1>3, <1>4, <1>5, <1>6, <1>7

\* A command that is applied and queued keeps every pledge it does not end, and its own is true of the tree it queues.
LEMMA AppendPledges ==
  ASSUME PledgeInv, NEW e, Carries(e), e.kind = "stop-all" => e.robots = Robots, e.change = changes + 1, e.tree = mem',
         queue' = Append(queue, e), changes' = changes + 1, UNCHANGED <<disk, told, confirmed, clobbered>>,
         \A kind \in Endings, r \in Robots : accepted'[kind][r] \in {accepted[kind][r], changes + 1},
         \A p \in Pledges, r \in Robots : accepted'[p[2]][r] # changes + 1 =>
           \A holder : (p[1] = "claim" => holder \in Clients) /\ Keeps(p, holder, mem.robots[r]) => Keeps(p, holder, mem'.robots[r]),
         \A p \in Pledges, r \in e.robots : e.kind = p[1] \/ (e.kind = "stop-all" /\ p[1] = "stop") => Keeps(p, e.by, mem'.robots[r])
  PROVE  Numbered' /\ PledgesHold'
<1>1. TypeOK /\ Numbered BY DEF PledgeInv
<1>2. queue \in Seq(Entries) BY <1>1 DEF TypeOK
<1>3. /\ Len(queue') = Len(queue) + 1 /\ Len(queue) \in Nat
      /\ \A i \in 1..Len(queue) : queue'[i] = queue[i]
      /\ queue'[Len(queue) + 1] = e
  BY <1>2
<1>4. changes \in Nat BY <1>1 DEF TypeOK, Changes
<1>5. Numbered'
  <2>1. \A i \in 1..Len(queue') : queue'[i].change <= changes'
    <3> TAKE i \in 1..Len(queue')
    <3>1. CASE i \in 1..Len(queue)
      <4>1. queue[i].change \in Nat
        <5>1. queue[i] \in Entries BY <1>2, <3>1
        <5>2. queue[i].change \in Changes BY <5>1 DEF Entries
        <5> QED BY <5>2 DEF Changes
      <4> QED BY <1>1, <1>3, <1>4, <3>1, <4>1 DEF Numbered
    <3>2. CASE i = Len(queue) + 1 BY <1>3, <1>4, <3>2
    <3> QED BY <1>3, <3>1, <3>2
  <2>2. \A kind \in Promises, r \in Robots : confirmed'[kind][r] <= changes'
    <3> TAKE kind \in Promises, r \in Robots
    <3>1. confirmed[kind][r] \in Nat BY <1>1 DEF TypeOK, Changes
    <3> QED BY <1>1, <1>4, <3>1 DEF Numbered
  <2>3. \A i \in 1..Len(queue') : queue'[i].kind = "save" => queue'[i].tree.robots = queue'[i].base.robots
    BY <1>1, <1>3 DEF Numbered, Carries
  <2>4. \A i \in 1..Len(queue') : queue'[i].kind = "stop-all" => queue'[i].robots = Robots BY <1>1, <1>3 DEF Numbered
  <2> QED BY <2>1, <2>2, <2>3, <2>4 DEF Numbered
<1>6. PledgesHold'
  <2> SUFFICES ASSUME Undisturbed', NEW p \in Pledges, NEW r \in Robots
               PROVE  ToldHolds(p, r)' /\ QueuedHolds(p, r)'
    BY DEF PledgesHold
  <2>1. ToldHolds(p, r) /\ QueuedHolds(p, r) BY DEF PledgeInv, PledgesHold, Undisturbed
  <2>2. /\ p[1] \in Promises /\ p[2] \in Endings
        /\ confirmed[p[1]][r] \in Nat /\ confirmed[p[1]][r] <= changes /\ accepted[p[2]][r] \in Nat
        /\ \A i \in 1..Len(queue) : queue[i] \in Entries /\ queue[i].change \in Nat /\ queue[i].change <= changes
    BY <1>1, Shapes, PledgeKinds DEF Numbered
  <2>3. ToldHolds(p, r)'
    <3> SUFFICES ASSUME confirmed'[p[1]][r] > accepted'[p[2]][r]
                 PROVE  /\ p[1] = "claim" => told'[r] \in Clients
                        /\ Keeps(p, told'[r], mem'.robots[r]) /\ Keeps(p, told'[r], disk'.robots[r])
                        /\ \A j \in 1..Len(queue') : Carries(queue'[j]) => Keeps(p, told'[r], queue'[j].tree.robots[r])
      BY DEF ToldHolds, Keeps
    <3>1. accepted'[p[2]][r] # changes + 1 /\ accepted'[p[2]][r] = accepted[p[2]][r] BY <1>4, <2>2
    <3>2. /\ p[1] = "claim" => told[r] \in Clients
          /\ Keeps(p, told[r], mem.robots[r]) /\ Keeps(p, told[r], disk.robots[r])
          /\ \A j \in 1..Len(queue) : Carries(queue[j]) => Keeps(p, told[r], queue[j].tree.robots[r])
      BY <2>1, <3>1 DEF ToldHolds
    <3>3. Keeps(p, told[r], mem'.robots[r]) BY <3>1, <3>2
    <3> QED BY <1>3, <3>2, <3>3
  <2>4. QueuedHolds(p, r)'
    <3> SUFFICES ASSUME NEW i \in 1..Len(queue'), Gives(queue[i], p, r)'
                 PROVE  /\ Keeps(p, queue'[i].by, mem'.robots[r])
                        /\ \A j \in i..Len(queue') : Carries(queue'[j]) => Keeps(p, queue'[i].by, queue'[j].tree.robots[r])
      BY DEF QueuedHolds, Keeps
    <3>1. CASE i \in 1..Len(queue)
      <4>1. accepted'[p[2]][r] # changes + 1 /\ accepted'[p[2]][r] = accepted[p[2]][r]
        BY <1>3, <1>4, <2>2, <3>1 DEF Gives
      <4>2. Gives(queue[i], p, r) BY <1>3, <3>1, <4>1 DEF Gives
      <4>3. /\ Keeps(p, queue[i].by, mem.robots[r])
            /\ \A j \in i..Len(queue) : Carries(queue[j]) => Keeps(p, queue[i].by, queue[j].tree.robots[r])
        BY <2>1, <3>1, <4>2 DEF QueuedHolds
      <4>4. queue[i].by \in Clients BY <2>2, <3>1 DEF Entries
      <4>5. Keeps(p, queue[i].by, mem'.robots[r]) BY <4>1, <4>3, <4>4
      <4> QED BY <1>3, <3>1, <4>3, <4>5
    <3>2. CASE i = Len(queue) + 1
      <4>1. queue'[i] = e /\ Keeps(p, e.by, mem'.robots[r]) BY <1>3, <3>2 DEF Gives
      <4> QED BY <1>3, <3>2, <4>1
    <3> QED BY <1>3, <3>1, <3>2
  <2> QED BY <2>3, <2>4
<1> QED BY <1>5, <1>6

LEMMA CommandPledges ==
  ASSUME ConstantsFit, PledgeInv, NEW c \in Clients, NEW r0 \in Robots, NEW command \in Commands, Command(c, r0, command)
  PROVE  Numbered' /\ PledgesHold'
<1> DEFINE e == [tree |-> mem', kind |-> command, by |-> c, robots |-> {r0}, change |-> NextChange, base |-> mem',
                 condition |-> "unconditional"]
<1>1. TypeOK BY DEF PledgeInv
<1>2. queue' = Append(queue, e) /\ changes' = changes + 1 /\ UNCHANGED <<disk, told, confirmed, clobbered>>
  BY DEF Command, Queue, NextChange
<1>3. Accepts(c, command, mem.robots[r0]) BY DEF Command
<1>4. mem.robots \in [Robots -> RobotState] BY <1>1 DEF TypeOK, Trees
<1>5. \A r \in Robots : mem'.robots[r] = IF r = r0 THEN Commanded(c, command, mem.robots[r0]) ELSE mem.robots[r]
  <2>1. mem' = [mem EXCEPT !.robots = [mem.robots EXCEPT ![r0] = Commanded(c, command, mem.robots[r0])]] BY DEF Command
  <2>2. mem'.robots = [mem.robots EXCEPT ![r0] = Commanded(c, command, mem.robots[r0])] BY <1>1, <2>1 DEF TypeOK, Trees
  <2> QED BY <1>4, <2>2
<1>6. \A kind \in Endings, r \in Robots :
        accepted'[kind][r] = IF kind = command /\ r = r0 THEN changes + 1 ELSE accepted[kind][r]
  BY <1>1 DEF TypeOK, Command, NextChange
<1>7. \A kind \in Endings, r \in Robots : accepted'[kind][r] \in {accepted[kind][r], changes + 1} BY <1>6
<1>8. ASSUME NEW p \in Pledges, NEW r \in Robots, accepted'[p[2]][r] # changes + 1,
             NEW holder, p[1] = "claim" => holder \in Clients, Keeps(p, holder, mem.robots[r])
      PROVE  Keeps(p, holder, mem'.robots[r])
  <2>1. CASE r # r0 BY <1>5, <1>8, <2>1
  <2>2. CASE r = r0
    <3>1. command # p[2] BY <1>6, <1>8, <2>2, PledgeKinds
    <3>2. Keeps(p, holder, Commanded(c, command, mem.robots[r0])) BY <1>3, <1>4, <1>8, <2>2, <3>1, CommandKeeps
    <3> QED BY <1>5, <2>2, <3>2
  <2> QED BY <2>1, <2>2
<1>9. ASSUME NEW p \in Pledges, NEW r \in e.robots, e.kind = p[1] \/ (e.kind = "stop-all" /\ p[1] = "stop")
      PROVE  Keeps(p, e.by, mem'.robots[r])
  <2>1. r = r0 /\ command = p[1] BY <1>9 DEF Commands, Promises, Endings
  <2>2. Keeps(p, c, Commanded(c, p[1], mem.robots[r0])) BY <1>4, CommandGives
  <2> QED BY <1>5, <2>1, <2>2
<1>10. Carries(e) /\ e.kind # "stop-all" /\ e.change = changes + 1 /\ e.tree = mem'
  BY DEF Carries, Commands, Promises, Endings, NextChange
<1> HIDE DEF e
<1> QED BY <1>2, <1>7, <1>8, <1>9, <1>10, AppendPledges

LEMMA StopAllPledges ==
  ASSUME ConstantsFit, PledgeInv, NEW c \in Clients, StopAll(c)
  PROVE  Numbered' /\ PledgesHold'
<1> DEFINE e == [tree |-> mem', kind |-> "stop-all", by |-> c, robots |-> Robots, change |-> NextChange, base |-> mem',
                 condition |-> "unconditional"]
<1>1. TypeOK BY DEF PledgeInv
<1>2. queue' = Append(queue, e) /\ changes' = changes + 1 /\ UNCHANGED <<disk, told, confirmed, clobbered, accepted>>
  BY DEF StopAll, Queue, NextChange, history
<1>3. mem.robots \in [Robots -> RobotState] BY <1>1 DEF TypeOK, Trees
<1>4. \A r \in Robots : mem'.robots[r] = Commanded(c, "stop", mem.robots[r])
  <2>1. mem' = [mem EXCEPT !.robots = [r \in Robots |-> Commanded(c, "stop", mem.robots[r])]] BY DEF StopAll
  <2>2. mem'.robots = [r \in Robots |-> Commanded(c, "stop", mem.robots[r])] BY <1>1, <2>1 DEF TypeOK, Trees
  <2> QED BY <2>2
<1>5. \A kind \in Endings, r \in Robots : accepted'[kind][r] \in {accepted[kind][r], changes + 1} BY <1>2
<1>6. ASSUME NEW p \in Pledges, NEW r \in Robots, accepted'[p[2]][r] # changes + 1,
             NEW holder, p[1] = "claim" => holder \in Clients, Keeps(p, holder, mem.robots[r])
      PROVE  Keeps(p, holder, mem'.robots[r])
  <2>1. "stop" \in Commands /\ "stop" # p[2] /\ Accepts(c, "stop", mem.robots[r])
    BY DEF Commands, Promises, Pledges, Accepts
  <2>2. Keeps(p, holder, Commanded(c, "stop", mem.robots[r])) BY <1>3, <1>6, <2>1, CommandKeeps
  <2> QED BY <1>4, <2>2
<1>7. ASSUME NEW p \in Pledges, NEW r \in e.robots, e.kind = p[1] \/ (e.kind = "stop-all" /\ p[1] = "stop")
      PROVE  Keeps(p, e.by, mem'.robots[r])
  <2>1. r \in Robots /\ p[1] = "stop" BY <1>7 DEF Pledges
  <2>2. Keeps(p, c, Commanded(c, p[1], mem.robots[r])) BY <1>3, <2>1, CommandGives
  <2> QED BY <1>4, <2>1, <2>2
<1>8. Carries(e) /\ e.robots = Robots /\ e.change = changes + 1 /\ e.tree = mem' BY DEF Carries, NextChange
<1> HIDE DEF e
<1> QED BY <1>2, <1>5, <1>6, <1>7, <1>8, AppendPledges

\* A save that is queued touches nothing that a pledge is about.
LEMMA SavePledges ==
  ASSUME ConstantsFit, PledgeInv, NEW a \in Admins, NEW condition \in Conditions, Save(a, condition)
  PROVE  Numbered' /\ PledgesHold'
<1> DEFINE new == [page[a] EXCEPT !.cfg = NextChange]
           e == [tree |-> new, kind |-> "save", by |-> a, robots |-> {}, change |-> NextChange, base |-> page[a],
                 condition |-> condition]
<1>1. TypeOK /\ Numbered /\ queue \in Seq(Entries) BY DEF PledgeInv, TypeOK
<1>2. queue' = Append(queue, e) /\ changes' = changes + 1 /\ UNCHANGED <<mem, disk, accepted, confirmed, told, clobbered>>
  BY DEF Save, Queue, NextChange, history
<1>3. e.change = changes + 1 /\ e.tree.robots = e.base.robots /\ ~Carries(e) /\ e.kind = "save"
  <2>1. page[a] \in Trees BY <1>1 DEF TypeOK
  <2>2. new.robots = page[a].robots BY <2>1 DEF Trees
  <2> QED BY <2>2 DEF Carries, NextChange
<1> HIDE DEF e
<1>4. /\ Len(queue') = Len(queue) + 1 /\ Len(queue) \in Nat
      /\ \A i \in 1..Len(queue) : queue'[i] = queue[i]
      /\ queue'[Len(queue) + 1] = e
  BY <1>1, <1>2
<1>5. changes \in Nat BY <1>1 DEF TypeOK, Changes
<1>6. Numbered'
  <2>1. \A i \in 1..Len(queue') : queue'[i].change <= changes'
    <3> TAKE i \in 1..Len(queue')
    <3>1. CASE i \in 1..Len(queue)
      <4>1. queue[i] \in Entries BY <1>1, <3>1
      <4>2. queue[i].change \in Changes BY <4>1 DEF Entries
      <4>3. queue[i].change \in Nat BY <4>2 DEF Changes
      <4> QED BY <1>1, <1>2, <1>4, <1>5, <3>1, <4>3 DEF Numbered
    <3>2. CASE i = Len(queue) + 1 BY <1>2, <1>3, <1>4, <1>5, <3>2
    <3> QED BY <1>4, <3>1, <3>2
  <2>2. \A kind \in Promises, r \in Robots : confirmed'[kind][r] <= changes'
    <3> TAKE kind \in Promises, r \in Robots
    <3>1. confirmed[kind][r] \in Nat BY <1>1 DEF TypeOK, Changes
    <3> QED BY <1>1, <1>2, <1>5, <3>1 DEF Numbered
  <2>3. \A i \in 1..Len(queue') : queue'[i].kind = "save" => queue'[i].tree.robots = queue'[i].base.robots
    BY <1>1, <1>3, <1>4 DEF Numbered
  <2>4. \A i \in 1..Len(queue') : queue'[i].kind = "stop-all" => queue'[i].robots = Robots
    BY <1>1, <1>3, <1>4 DEF Numbered
  <2> QED BY <2>1, <2>2, <2>3, <2>4 DEF Numbered
<1>7. PledgesHold'
  <2> SUFFICES ASSUME Undisturbed', NEW p \in Pledges, NEW r \in Robots
               PROVE  ToldHolds(p, r)' /\ QueuedHolds(p, r)'
    BY DEF PledgesHold
  <2>1. ToldHolds(p, r) /\ QueuedHolds(p, r) BY <1>2 DEF PledgeInv, PledgesHold, Undisturbed
  <2>2. p[1] # "save" BY DEF Pledges
  <2>3. ToldHolds(p, r)' BY <1>2, <1>3, <1>4, <2>1 DEF ToldHolds, Keeps
  <2>4. QueuedHolds(p, r)'
    <3> SUFFICES ASSUME NEW i \in 1..Len(queue'), Gives(queue[i], p, r)'
                 PROVE  /\ Keeps(p, queue'[i].by, mem'.robots[r])
                        /\ \A j \in i..Len(queue') : Carries(queue'[j]) => Keeps(p, queue'[i].by, queue'[j].tree.robots[r])
      BY DEF QueuedHolds, Keeps
    <3>1. i # Len(queue) + 1 BY <1>3, <1>4, <2>2 DEF Gives
    <3>2. i \in 1..Len(queue) /\ Gives(queue[i], p, r) BY <1>2, <1>4, <3>1 DEF Gives
    <3>3. /\ Keeps(p, queue[i].by, mem.robots[r])
          /\ \A j \in i..Len(queue) : Carries(queue[j]) => Keeps(p, queue[i].by, queue[j].tree.robots[r])
      BY <2>1, <3>2 DEF QueuedHolds
    <3> QED BY <1>2, <1>3, <1>4, <3>2, <3>3
  <2> QED BY <2>3, <2>4
<1> QED BY <1>6, <1>7

\* Who gave it matters to a reservation only.
LEMMA KeepsForAll ==
  ASSUME NEW p \in Pledges, p[1] # "claim", NEW c, NEW d, NEW robot, Keeps(p, c, robot)
  PROVE  Keeps(p, d, robot)
  BY DEF Pledges, Keeps

LEMMA TailFacts ==
  ASSUME TypeOK, queue # <<>>, queue' = Tail(queue)
  PROVE  /\ Len(queue) \in Nat /\ Len(queue) >= 1 /\ Len(queue') = Len(queue) - 1
         /\ Head(queue) = queue[1] /\ \A i \in 1..Len(queue') : i + 1 \in 1..Len(queue) /\ queue'[i] = queue[i + 1]
  BY DEF TypeOK

\* The oldest entry is gone, the robots in the memory are the same, and the file is as it was, as the entry had it, or as the memory.
LEMMA TailPledges ==
  ASSUME TypeOK, NEW p \in Pledges, NEW r \in Robots, ToldHolds(p, r), QueuedHolds(p, r),
         queue # <<>>, queue' = Tail(queue), accepted' = accepted, mem'.robots[r] = mem.robots[r],
         \/ disk'.robots[r] \in {disk.robots[r], mem.robots[r]}
         \/ Carries(Head(queue)) /\ disk'.robots[r] = Head(queue).tree.robots[r],
         \/ confirmed'[p[1]][r] = confirmed[p[1]][r] /\ (p[1] = "claim" => told'[r] = told[r])
         \/ /\ confirmed'[p[1]][r] = Head(queue).change /\ r \in Head(queue).robots
            /\ Head(queue).kind = p[1] \/ (Head(queue).kind = "stop-all" /\ p[1] = "stop")
            /\ Carries(Head(queue)) /\ disk'.robots[r] = Head(queue).tree.robots[r]
            /\ p[1] = "claim" => told'[r] = Head(queue).by
  PROVE  ToldHolds(p, r)' /\ QueuedHolds(p, r)'
<1>1. /\ Len(queue) \in Nat /\ Len(queue) >= 1 /\ Len(queue') = Len(queue) - 1
      /\ Head(queue) = queue[1] /\ \A i \in 1..Len(queue') : i + 1 \in 1..Len(queue) /\ queue'[i] = queue[i + 1]
  BY TailFacts
<1>2. QueuedHolds(p, r)'
  <2> SUFFICES ASSUME NEW i \in 1..Len(queue'), Gives(queue[i], p, r)'
               PROVE  /\ Keeps(p, queue'[i].by, mem'.robots[r])
                      /\ \A j \in i..Len(queue') : Carries(queue'[j]) => Keeps(p, queue'[i].by, queue'[j].tree.robots[r])
    BY DEF QueuedHolds, Keeps
  <2>1. i + 1 \in 1..Len(queue) /\ Gives(queue[i + 1], p, r) BY <1>1 DEF Gives
  <2>2. /\ Keeps(p, queue[i + 1].by, mem.robots[r])
        /\ \A j \in (i + 1)..Len(queue) : Carries(queue[j]) => Keeps(p, queue[i + 1].by, queue[j].tree.robots[r])
    BY <2>1 DEF QueuedHolds
  <2>3. ASSUME NEW j \in i..Len(queue'), Carries(queue'[j]) PROVE Keeps(p, queue'[i].by, queue'[j].tree.robots[r])
    <3>1. j \in 1..Len(queue') /\ j + 1 \in (i + 1)..Len(queue) BY <1>1
    <3> QED BY <1>1, <2>2, <2>3, <3>1
  <2> QED BY <1>1, <2>2, <2>3
<1>3. ToldHolds(p, r)'
  <2> SUFFICES ASSUME confirmed'[p[1]][r] > accepted'[p[2]][r]
               PROVE  /\ p[1] = "claim" => told'[r] \in Clients
                      /\ Keeps(p, told'[r], mem'.robots[r]) /\ Keeps(p, told'[r], disk'.robots[r])
                      /\ \A j \in 1..Len(queue') : Carries(queue'[j]) => Keeps(p, told'[r], queue'[j].tree.robots[r])
    BY DEF ToldHolds, Keeps
  <2> DEFINE Good(h) ==
        /\ p[1] = "claim" => h \in Clients
        /\ Keeps(p, h, mem.robots[r]) /\ Keeps(p, h, disk'.robots[r])
        /\ \A j \in 1..Len(queue) : Carries(queue[j]) => Keeps(p, h, queue[j].tree.robots[r])
  <2>1. ASSUME confirmed'[p[1]][r] = confirmed[p[1]][r], p[1] = "claim" => told'[r] = told[r]
        PROVE  \E h : Good(h) /\ (p[1] = "claim" => told'[r] = h)
    <3>1. /\ p[1] = "claim" => told[r] \in Clients
          /\ Keeps(p, told[r], mem.robots[r]) /\ Keeps(p, told[r], disk.robots[r])
          /\ \A j \in 1..Len(queue) : Carries(queue[j]) => Keeps(p, told[r], queue[j].tree.robots[r])
      BY <2>1 DEF ToldHolds
    <3>2. Keeps(p, told[r], disk'.robots[r]) BY <1>1, <3>1
    <3> QED BY <2>1, <3>1, <3>2
  <2>2. ASSUME confirmed'[p[1]][r] = Head(queue).change, r \in Head(queue).robots, Carries(Head(queue)),
               Head(queue).kind = p[1] \/ (Head(queue).kind = "stop-all" /\ p[1] = "stop"),
               p[1] = "claim" => told'[r] = Head(queue).by, disk'.robots[r] = Head(queue).tree.robots[r]
        PROVE  \E h : Good(h) /\ (p[1] = "claim" => told'[r] = h)
    <3> DEFINE h == Head(queue).by
    <3>1. 1 \in 1..Len(queue) /\ Gives(queue[1], p, r) BY <1>1, <2>2 DEF Gives
    <3>2. /\ Keeps(p, h, mem.robots[r])
          /\ \A j \in 1..Len(queue) : Carries(queue[j]) => Keeps(p, h, queue[j].tree.robots[r])
      BY <1>1, <3>1 DEF QueuedHolds
    <3>3. h \in Clients
      <4>1. queue[1] \in Entries BY <3>1 DEF TypeOK
      <4> QED BY <1>1, <4>1 DEF Entries
    <3>4. Keeps(p, h, disk'.robots[r]) BY <1>1, <2>2, <3>2
    <3> QED BY <2>2, <3>2, <3>3, <3>4
  <2>3. PICK h : Good(h) /\ (p[1] = "claim" => told'[r] = h) BY <2>1, <2>2
  <2>4. ASSUME NEW robot, Keeps(p, h, robot) PROVE Keeps(p, told'[r], robot) BY <2>3, <2>4, KeepsForAll
  <2> QED BY <1>1, <2>3, <2>4
<1> QED BY <1>2, <1>3

\* What is left in the queue is numbered as it was.
LEMMA TailNumbered ==
  ASSUME TypeOK, Numbered, queue # <<>>, queue' = Tail(queue), changes' = changes,
         \A kind \in Promises, r \in Robots : confirmed'[kind][r] \in {confirmed[kind][r], Head(queue).change}
  PROVE  Numbered'
<1>1. /\ Len(queue) \in Nat /\ Len(queue) >= 1 /\ Len(queue') = Len(queue) - 1
      /\ Head(queue) = queue[1] /\ \A i \in 1..Len(queue') : i + 1 \in 1..Len(queue) /\ queue'[i] = queue[i + 1]
  BY TailFacts
<1>2. 1 \in 1..Len(queue) BY <1>1
<1> QED BY <1>1, <1>2 DEF Numbered

LEMMA WriteDonePledges ==
  ASSUME PledgeInv, WriteDone
  PROVE  Numbered' /\ PledgesHold'
<1> DEFINE e == Head(queue)
<1>1. TypeOK /\ Numbered BY DEF PledgeInv
<1>2. /\ queue # <<>> /\ queue' = Tail(queue) /\ disk' = e.tree /\ accepted' = accepted /\ changes' = changes
      /\ \/ e.kind = "save" /\ FinishSave(e)
         \/ e.kind \in Commands /\ FinishCommand(e)
         \/ e.kind = "stop-all" /\ FinishStopAll(e)
  BY DEF WriteDone
<1>3. e \in Entries BY <1>1, <1>2, TailType
<1>4. (e.kind = "save" => e.tree.robots = e.base.robots) /\ (e.kind = "stop-all" => e.robots = Robots)
  <2>1. 1 \in 1..Len(queue) /\ e = queue[1] BY <1>1, <1>2, TailFacts
  <2> QED BY <1>1, <2>1 DEF Numbered
<1> HIDE DEF e
<1>5. \A kind \in Promises, r \in Robots : confirmed'[kind][r] \in {confirmed[kind][r], e.change}
  <2>1. CASE e.kind = "save" /\ FinishSave(e) BY <2>1 DEF FinishSave
  <2>2. CASE e.kind \in Commands /\ FinishCommand(e) BY <2>2 DEF FinishCommand
  <2>3. CASE e.kind = "stop-all" /\ FinishStopAll(e) BY <1>1, <2>3 DEF FinishStopAll, TypeOK
  <2> QED BY <1>2, <2>1, <2>2, <2>3
<1>6. Numbered'
  <2>1. \A kind \in Promises, r \in Robots : confirmed'[kind][r] \in {confirmed[kind][r], Head(queue).change} BY <1>5 DEF e
  <2> QED BY <1>1, <1>2, <2>1, TailNumbered
<1>7. PledgesHold'
  <2> SUFFICES ASSUME Undisturbed', NEW p \in Pledges, NEW r \in Robots
               PROVE  ToldHolds(p, r)' /\ QueuedHolds(p, r)'
    BY DEF PledgesHold
  <2>1. p[1] \in Promises /\ p[1] # "save" /\ p[1] # "stop-all" BY DEF Pledges, Promises
  <2>2. Undisturbed /\ (e.kind = "save" => mem = e.base)
    <3>1. CASE e.kind = "save" /\ FinishSave(e) BY <3>1 DEF FinishSave, Undisturbed
    <3>2. CASE e.kind \in Commands /\ FinishCommand(e)
      BY <3>2 DEF FinishCommand, Undisturbed, Commands, Promises, Endings
    <3>3. CASE e.kind = "stop-all" /\ FinishStopAll(e) BY <3>3 DEF FinishStopAll, Undisturbed
    <3> QED BY <1>2, <3>1, <3>2, <3>3
  <2>3. ToldHolds(p, r) /\ QueuedHolds(p, r) BY <2>2 DEF PledgeInv, PledgesHold
  <2>4. mem'.robots = mem.robots
    <3>1. CASE e.kind = "save" /\ FinishSave(e) BY <1>4, <2>2, <3>1 DEF FinishSave
    <3>2. CASE e.kind \in Commands /\ FinishCommand(e) BY <3>2 DEF FinishCommand
    <3>3. CASE e.kind = "stop-all" /\ FinishStopAll(e) BY <3>3 DEF FinishStopAll
    <3> QED BY <1>2, <3>1, <3>2, <3>3
  <2>5. \/ disk'.robots[r] \in {disk.robots[r], mem.robots[r]}
        \/ Carries(e) /\ disk'.robots[r] = e.tree.robots[r]
    BY <1>2, <1>4, <2>2 DEF Carries
  <2>6. \/ confirmed'[p[1]][r] = confirmed[p[1]][r] /\ (p[1] = "claim" => told'[r] = told[r])
        \/ /\ confirmed'[p[1]][r] = e.change /\ r \in e.robots
           /\ e.kind = p[1] \/ (e.kind = "stop-all" /\ p[1] = "stop")
           /\ Carries(e) /\ disk'.robots[r] = e.tree.robots[r]
           /\ p[1] = "claim" => told'[r] = e.by
    <3>1. CASE e.kind = "save" /\ FinishSave(e) BY <3>1 DEF FinishSave
    <3>2. CASE e.kind \in Commands /\ FinishCommand(e)
      <4>1. confirmed'[p[1]][r] = IF p[1] = e.kind /\ r \in e.robots THEN e.change ELSE confirmed[p[1]][r]
        BY <2>1, <3>2 DEF FinishCommand
      <4>2. told'[r] = IF e.kind = "claim" /\ r \in e.robots THEN e.by ELSE told[r] BY <3>2 DEF FinishCommand
      <4>3. Carries(e) BY <2>1, <3>2 DEF Carries, Commands, Promises, Endings
      <4> QED BY <1>2, <4>1, <4>2, <4>3
    <3>3. CASE e.kind = "stop-all" /\ FinishStopAll(e)
      <4>1. confirmed' = [confirmed EXCEPT !["stop"] = [s \in Robots |-> e.change]] /\ told' = told BY <3>3 DEF FinishStopAll
      <4>2. CASE p[1] = "stop"
        <5>1. confirmed'[p[1]][r] = e.change BY <1>1, <2>1, <4>1, <4>2 DEF TypeOK
        <5> QED BY <1>2, <1>4, <3>3, <4>1, <4>2, <5>1 DEF Carries
      <4>3. CASE p[1] # "stop"
        <5>1. confirmed'[p[1]][r] = confirmed[p[1]][r] BY <1>1, <2>1, <4>1, <4>3 DEF TypeOK
        <5> QED BY <4>1, <5>1
      <4> QED BY <4>2, <4>3
    <3> QED BY <1>2, <3>1, <3>2, <3>3
  <2> QED BY <1>1, <1>2, <2>3, <2>4, <2>5, <2>6, TailPledges DEF e
<1> QED BY <1>6, <1>7

LEMMA WriteFailsPledges ==
  ASSUME PledgeInv, WriteFails
  PROVE  Numbered' /\ PledgesHold'
<1>1. TypeOK /\ Numbered BY DEF PledgeInv
<1>2. queue # <<>> /\ queue' = Tail(queue) /\ UNCHANGED <<mem, disk, changes, accepted, confirmed, told, clobbered>>
  BY DEF WriteFails, history
<1>3. Numbered' BY <1>1, <1>2, TailNumbered
<1>4. PledgesHold'
  <2> SUFFICES ASSUME Undisturbed', NEW p \in Pledges, NEW r \in Robots
               PROVE  ToldHolds(p, r)' /\ QueuedHolds(p, r)'
    BY DEF PledgesHold
  <2>1. ToldHolds(p, r) /\ QueuedHolds(p, r) BY <1>2 DEF PledgeInv, PledgesHold, Undisturbed
  <2> QED BY <1>1, <1>2, <2>1, TailPledges
<1> QED BY <1>3, <1>4

LEMMA RestartPledges ==
  ASSUME PledgeInv, Restart
  PROVE  Numbered' /\ PledgesHold'
<1>1. queue' = <<>> /\ Len(queue') = 0 /\ mem' = disk /\ UNCHANGED <<disk, changes, accepted, confirmed, told, clobbered>>
  BY DEF Restart, history
<1>2. Numbered' BY <1>1 DEF PledgeInv, Numbered
<1>3. PledgesHold'
  <2> SUFFICES ASSUME Undisturbed', NEW p \in Pledges, NEW r \in Robots
               PROVE  ToldHolds(p, r)' /\ QueuedHolds(p, r)'
    BY DEF PledgesHold
  <2>1. ToldHolds(p, r) BY <1>1 DEF PledgeInv, PledgesHold, Undisturbed
  <2> QED BY <1>1, <2>1 DEF ToldHolds, QueuedHolds, Keeps
<1> QED BY <1>2, <1>3

LEMMA IdlePledges ==
  ASSUME PledgeInv, UNCHANGED <<mem, disk, queue, changes, accepted, confirmed, told, clobbered>>
  PROVE  Numbered' /\ PledgesHold'
<1>1. Numbered' BY DEF PledgeInv, Numbered
<1>2. PledgesHold' BY DEF PledgeInv, PledgesHold, Undisturbed, ToldHolds, QueuedHolds, Gives, Keeps
<1> QED BY <1>1, <1>2

LEMMA StepPledges == ASSUME ConstantsFit, PledgeInv, [Next]_vars PROVE PledgeInv'
<1>1. TypeOK' BY StepType DEF PledgeInv
<1>2. Numbered' /\ PledgesHold'
  <2>1. CASE UNCHANGED vars BY <2>1, IdlePledges DEF vars
  <2>2. CASE \E a \in Admins : ReadSettings(a) BY <2>2, IdlePledges DEF ReadSettings, server, history
  <2>3. CASE \E a \in Admins, condition \in Conditions : Save(a, condition) BY <2>3, SavePledges
  <2>4. CASE \E c \in Clients, r \in Robots, command \in Commands : Command(c, r, command) BY <2>4, CommandPledges
  <2>5. CASE \E c \in Clients : StopAll(c) BY <2>5, StopAllPledges
  <2>6. CASE WriteDone BY <2>6, WriteDonePledges
  <2>7. CASE WriteFails BY <2>7, WriteFailsPledges
  <2>8. CASE Restart BY <2>8, RestartPledges
  <2> QED BY <2>1, <2>2, <2>3, <2>4, <2>5, <2>6, <2>7, <2>8 DEF Next
<1> QED BY <1>1, <1>2 DEF PledgeInv

\* What was answered of a stop, a disable and a reservation holds, in the memory and after a restart, until a later command ends
\* it, for any number of robots, clients, overlapping requests, failed writes and restarts, while no save replaced an unread change.
THEOREM AnswersCorrect == Spec => []AnswersStay
<1> USE ConstantsAssumption
<1>1. Init => PledgeInv BY InitPledges
<1>2. PledgeInv /\ [Next]_vars => PledgeInv' BY StepPledges
<1>3. PledgeInv => AnswersStay BY PledgesEnough
<1> QED BY <1>1, <1>2, <1>3, PTL DEF Spec

-----------------------------------------------------------------------------
(* What is stored. A tree is no older than the answers: *)

Covers(tree) == answered.cfg <= tree.cfg /\ \A r \in Robots : answered.robots[r] <= tree.robots[r].rev

\* With n changes made, the tree of an entry has none to come, and a save is numbered after its page.
Stamped(e, n) ==
  /\ \A r \in Robots : e.tree.robots[r].rev <= n
  /\ Carries(e) => e.robots # {}
  /\ ~Carries(e) => /\ e.robots = {} /\ e.tree.cfg = e.change
                    /\ \A r \in Robots : e.base.robots[r].rev < e.change

\* The queue is in the order of the numbers, and no robot is of a change to come.
Ordered ==
  /\ \A i, j \in 1..Len(queue) : i < j => queue[i].change < queue[j].change
  /\ \A i \in 1..Len(queue) : Stamped(queue[i], changes)
  /\ \A r \in Robots : mem.robots[r].rev <= changes /\ disk.robots[r].rev <= changes
  /\ \A a \in Admins, r \in Robots : page[a].robots[r].rev <= changes

\* No tree that is the file, or will be, takes back what was answered, nor what will be answered before it.
TreesCover ==
  /\ Covers(mem) /\ Covers(disk)
  /\ \A i \in 1..Len(queue) : Carries(queue[i]) => Covers(queue[i].tree)
  /\ \A i \in 1..Len(queue) : \A r \in queue[i].robots :
       /\ queue[i].change <= mem.robots[r].rev
       /\ \A j \in i..Len(queue) : Carries(queue[j]) => queue[i].change <= queue[j].tree.robots[r].rev

\* The memory is what the last of these trees will leave, or has left, on the disk.
LastIsMemory ==
  \/ disk = mem /\ \A i \in 1..Len(queue) : ~Carries(queue[i])
  \/ \E i \in 1..Len(queue) : /\ Carries(queue[i]) /\ queue[i].tree = mem
                              /\ \A j \in (i + 1)..Len(queue) : ~Carries(queue[j])

StoreInv ==
  /\ TypeOK /\ Numbered /\ Ordered
  /\ Undisturbed => TreesCover
  /\ Undisturbed /\ failures = 0 => LastIsMemory

LEMMA StoreEnough == ASSUME StoreInv PROVE AnsweredIsStored /\ DiskCatchesUp
<1>1. AnsweredIsStored BY DEF StoreInv, TreesCover, Covers, AnsweredIsStored
<1>2. DiskCatchesUp
  <2> SUFFICES ASSUME Undisturbed, failures = 0, queue = <<>> PROVE disk = mem BY DEF DiskCatchesUp
  <2>1. LastIsMemory BY DEF StoreInv
  <2>2. Len(queue) = 0 OBVIOUS
  <2> QED BY <2>1, <2>2 DEF LastIsMemory
<1> QED BY <1>1, <1>2

\* The numbers are numbers.
LEMMA Numbers ==
  ASSUME TypeOK
  PROVE  /\ changes \in Nat /\ answered.cfg \in Nat /\ mem.cfg \in Nat /\ disk.cfg \in Nat
         /\ \A r \in Robots : /\ answered.robots[r] \in Nat /\ mem.robots[r].rev \in Nat /\ disk.robots[r].rev \in Nat
                              /\ \A a \in Admins : page[a].robots[r].rev \in Nat
         /\ queue \in Seq(Entries) /\ Len(queue) \in Nat
         /\ \A i \in 1..Len(queue) :
              /\ queue[i] \in Entries /\ queue[i].change \in Nat /\ queue[i].robots \subseteq Robots /\ queue[i].tree.cfg \in Nat
              /\ \A r \in Robots : queue[i].tree.robots[r].rev \in Nat /\ queue[i].base.robots[r].rev \in Nat
<1>1. \A n \in Changes : n \in Nat BY DEF Changes
<1>2. \A tree \in Trees : tree.cfg \in Nat /\ \A r \in Robots : tree.robots[r].rev \in Nat
  <2> TAKE tree \in Trees
  <2>1. tree.cfg \in Changes /\ tree.robots \in [Robots -> RobotState] BY DEF Trees
  <2>2. \A r \in Robots : tree.robots[r].rev \in Changes BY <2>1 DEF RobotState
  <2> QED BY <1>1, <2>1, <2>2
<1>3. \A e \in Entries : e.change \in Nat /\ e.robots \subseteq Robots /\ e.tree \in Trees /\ e.base \in Trees
  BY <1>1 DEF Entries
<1>4. mem \in Trees /\ disk \in Trees /\ (\A a \in Admins : page[a] \in Trees) /\ changes \in Changes BY DEF TypeOK
<1>5. answered.cfg \in Nat /\ \A r \in Robots : answered.robots[r] \in Nat BY <1>1 DEF TypeOK
<1>6. queue \in Seq(Entries) /\ Len(queue) \in Nat /\ \A i \in 1..Len(queue) : queue[i] \in Entries BY DEF TypeOK
<1> QED BY <1>1, <1>2, <1>3, <1>4, <1>5, <1>6

LEMMA InitStore == ASSUME ConstantsFit, Init PROVE StoreInv
<1>1. TypeOK /\ Numbered BY InitPledges DEF PledgeInv
<1>2. Len(queue) = 0 /\ changes = 0 /\ mem = disk BY DEF Init
<1>3. \A r \in Robots : mem.robots[r].rev = 0 /\ disk.robots[r].rev = 0 /\ \A a \in Admins : page[a].robots[r].rev = 0
  BY DEF Init, FirstTree
<1>4. Ordered BY <1>2, <1>3 DEF Ordered
<1>5. Covers(mem) /\ Covers(disk) BY <1>3 DEF Init, FirstTree, Covers
<1>6. TreesCover BY <1>2, <1>5 DEF TreesCover
<1>7. LastIsMemory BY <1>2 DEF LastIsMemory
<1> QED BY <1>1, <1>4, <1>6, <1>7 DEF StoreInv

LEMMA AppendFacts ==
  ASSUME queue \in Seq(Entries), NEW e, queue' = Append(queue, e)
  PROVE  /\ Len(queue') = Len(queue) + 1 /\ Len(queue) \in Nat
         /\ \A i \in 1..Len(queue) : queue'[i] = queue[i]
         /\ queue'[Len(queue) + 1] = e
         /\ \A i \in 1..Len(queue') : i \in 1..Len(queue) \/ i = Len(queue) + 1
  OBVIOUS

\* A queued entry with the next number keeps the order.
LEMMA AppendOrdered ==
  ASSUME TypeOK, Numbered, Ordered, NEW e, e.change = changes + 1, Stamped(e, changes + 1),
         queue' = Append(queue, e), changes' = changes + 1, UNCHANGED <<disk, page>>,
         \A r \in Robots : mem'.robots[r].rev \in {mem.robots[r].rev, changes + 1}
  PROVE  Ordered'
<1>1. /\ Len(queue') = Len(queue) + 1 /\ Len(queue) \in Nat
      /\ \A i \in 1..Len(queue) : queue'[i] = queue[i]
      /\ queue'[Len(queue) + 1] = e
      /\ \A i \in 1..Len(queue') : i \in 1..Len(queue) \/ i = Len(queue) + 1
  BY Numbers, AppendFacts
<1>2. \A i, j \in 1..Len(queue') : i < j => queue'[i].change < queue'[j].change
  <2> TAKE i, j \in 1..Len(queue')
  <2> HAVE i < j
  <2>1. i \in 1..Len(queue) /\ queue'[i] = queue[i] /\ queue[i].change \in Nat /\ queue[i].change <= changes
    BY <1>1, Numbers DEF Numbered
  <2>2. CASE j \in 1..Len(queue) BY <1>1, <2>1, <2>2 DEF Ordered
  <2>3. CASE j = Len(queue) + 1 BY <1>1, <2>1, <2>3, Numbers
  <2> QED BY <1>1, <2>2, <2>3
<1>3. \A i \in 1..Len(queue') : Stamped(queue'[i], changes')
  <2> SUFFICES ASSUME NEW i \in 1..Len(queue') PROVE Stamped(queue'[i], changes') OBVIOUS
  <2>1. CASE i \in 1..Len(queue)
    <3>1. Stamped(queue[i], changes) /\ queue'[i] = queue[i] BY <1>1, <2>1 DEF Ordered
    <3>2. \A r \in Robots : queue[i].tree.robots[r].rev <= changes + 1 BY <2>1, <3>1, Numbers DEF Stamped
    <3> QED BY <3>1, <3>2 DEF Stamped, Carries
  <2>2. CASE i = Len(queue) + 1 BY <1>1, <2>2 DEF Stamped, Carries
  <2> QED BY <1>1, <2>1, <2>2
<1>4. \A r \in Robots : mem'.robots[r].rev <= changes' /\ disk'.robots[r].rev <= changes'
  <2> TAKE r \in Robots
  <2>1. mem.robots[r].rev \in Nat /\ disk.robots[r].rev \in Nat /\ changes \in Nat BY Numbers
  <2>2. mem.robots[r].rev <= changes /\ disk.robots[r].rev <= changes BY DEF Ordered
  <2>3. mem'.robots[r].rev \in {mem.robots[r].rev, changes + 1} OBVIOUS
  <2> QED BY <2>1, <2>2, <2>3
<1>5. \A a \in Admins, r \in Robots : page'[a].robots[r].rev <= changes' BY Numbers DEF Ordered
<1> QED BY <1>2, <1>3, <1>4, <1>5 DEF Ordered

\* A command that is applied and queued is after everything that was answered, or will be.
LEMMA AppendStore ==
  ASSUME StoreInv, NEW e, Carries(e), e.robots # {}, e.robots \subseteq Robots, e.change = changes + 1, e.tree = mem',
         queue' = Append(queue, e), changes' = changes + 1, UNCHANGED <<disk, page, answered, clobbered, failures>>,
         mem'.cfg = mem.cfg,
         \A r \in Robots : mem'.robots[r].rev = IF r \in e.robots THEN changes + 1 ELSE mem.robots[r].rev
  PROVE  Ordered' /\ (Undisturbed' => TreesCover') /\ (Undisturbed' /\ failures' = 0 => LastIsMemory')
<1>1. TypeOK /\ Numbered /\ Ordered BY DEF StoreInv
<1>2. /\ Len(queue') = Len(queue) + 1 /\ Len(queue) \in Nat
      /\ \A i \in 1..Len(queue) : queue'[i] = queue[i]
      /\ queue'[Len(queue) + 1] = e
      /\ \A i \in 1..Len(queue') : i \in 1..Len(queue) \/ i = Len(queue) + 1
  BY <1>1, Numbers, AppendFacts
<1>3. \A r \in Robots : /\ mem.robots[r].rev \in Nat /\ mem.robots[r].rev <= mem'.robots[r].rev
                        /\ mem'.robots[r].rev <= changes + 1 /\ mem'.robots[r].rev \in Nat
  <2> TAKE r \in Robots
  <2>1. mem.robots[r].rev \in Nat /\ changes \in Nat BY <1>1, Numbers
  <2>2. mem.robots[r].rev <= changes BY <1>1 DEF Ordered
  <2>3. mem'.robots[r].rev = IF r \in e.robots THEN changes + 1 ELSE mem.robots[r].rev OBVIOUS
  <2> QED BY <2>1, <2>2, <2>3
<1>4. Ordered'
  <2>1. Stamped(e, changes + 1) BY <1>3 DEF Stamped, Carries
  <2> QED BY <1>1, <2>1, AppendOrdered
<1>5. ASSUME Undisturbed' PROVE TreesCover'
  <2>1. TreesCover BY <1>5 DEF StoreInv, Undisturbed
  <2>2. \A tree : Covers(tree)' <=> Covers(tree) BY DEF Covers
  <2>3. Covers(mem)'
    <3>1. answered.cfg <= mem'.cfg BY <2>1 DEF TreesCover, Covers
    <3>2. \A r \in Robots : answered.robots[r] <= mem'.robots[r].rev
      <4> TAKE r \in Robots
      <4>1. answered.robots[r] <= mem.robots[r].rev BY <2>1 DEF TreesCover, Covers
      <4>2. answered.robots[r] \in Nat BY <1>1, Numbers
      <4> QED BY <1>3, <4>1, <4>2
    <3> QED BY <3>1, <3>2 DEF Covers
  <2>4. Covers(disk)' BY <2>1 DEF TreesCover, Covers
  <2>5. \A i \in 1..Len(queue') : Carries(queue'[i]) => Covers(queue[i].tree)'
    <3> SUFFICES ASSUME NEW i \in 1..Len(queue'), Carries(queue'[i]) PROVE Covers(queue[i].tree)' OBVIOUS
    <3>1. CASE i \in 1..Len(queue) BY <1>2, <2>1, <3>1 DEF TreesCover, Covers
    <3>2. CASE i = Len(queue) + 1 BY <1>2, <2>3, <3>2 DEF Covers
    <3> QED BY <1>2, <3>1, <3>2
  <2>6. ASSUME NEW i \in 1..Len(queue'), NEW r \in queue'[i].robots
        PROVE  /\ queue'[i].change <= mem'.robots[r].rev
               /\ \A j \in i..Len(queue') : Carries(queue'[j]) => queue'[i].change <= queue'[j].tree.robots[r].rev
    <3>1. CASE i \in 1..Len(queue)
      <4>1. queue'[i] = queue[i] /\ r \in Robots /\ queue[i].change \in Nat BY <1>1, <1>2, <2>6, <3>1, Numbers
      <4>2. /\ queue[i].change <= mem.robots[r].rev
            /\ \A j \in i..Len(queue) : Carries(queue[j]) => queue[i].change <= queue[j].tree.robots[r].rev
        BY <2>1, <2>6, <3>1, <4>1 DEF TreesCover
      <4>3. queue[i].change <= mem'.robots[r].rev BY <1>3, <4>1, <4>2
      <4>4. \A j \in i..Len(queue') : j \in i..Len(queue) \/ j = Len(queue) + 1 BY <1>2, <3>1
      <4>5. \A j \in i..Len(queue) : queue'[j] = queue[j] BY <1>2, <3>1
      <4> QED BY <1>2, <4>1, <4>2, <4>3, <4>4, <4>5
    <3>2. CASE i = Len(queue) + 1
      <4>1. queue'[i] = e /\ r \in Robots /\ r \in e.robots BY <1>2, <2>6, <3>2
      <4>2. mem'.robots[r].rev = changes + 1 /\ changes \in Nat BY <1>1, <4>1, Numbers
      <4>3. \A j \in i..Len(queue') : j = Len(queue) + 1 BY <1>2, <3>2
      <4> QED BY <1>2, <4>1, <4>2, <4>3
    <3> QED BY <1>2, <3>1, <3>2
  <2> QED BY <2>3, <2>4, <2>5, <2>6 DEF TreesCover
<1>6. LastIsMemory'
  <2>1. Len(queue) + 1 \in 1..Len(queue') /\ queue'[Len(queue) + 1] = e BY <1>2
  <2>2. \A j \in (Len(queue) + 1 + 1)..Len(queue') : ~Carries(queue'[j]) BY <1>2
  <2> QED BY <2>1, <2>2 DEF LastIsMemory, Carries
<1> QED BY <1>4, <1>5, <1>6

LEMMA CommandStore ==
  ASSUME ConstantsFit, StoreInv, NEW c \in Clients, NEW r0 \in Robots, NEW command \in Commands, Command(c, r0, command)
  PROVE  Ordered' /\ (Undisturbed' => TreesCover') /\ (Undisturbed' /\ failures' = 0 => LastIsMemory')
<1> DEFINE e == [tree |-> mem', kind |-> command, by |-> c, robots |-> {r0}, change |-> NextChange, base |-> mem',
                 condition |-> "unconditional"]
<1>1. TypeOK BY DEF StoreInv
<1>2. queue' = Append(queue, e) /\ changes' = changes + 1 /\ UNCHANGED <<disk, page, answered, clobbered, failures>>
  BY DEF Command, Queue, NextChange
<1>3. mem' = [mem EXCEPT !.robots = [mem.robots EXCEPT ![r0] = Commanded(c, command, mem.robots[r0])]] BY DEF Command
<1>4. mem.robots \in [Robots -> RobotState] BY <1>1 DEF TypeOK, Trees
<1>5. mem'.cfg = mem.cfg BY <1>1, <1>3 DEF TypeOK, Trees
<1>6. mem'.robots = [mem.robots EXCEPT ![r0] = Commanded(c, command, mem.robots[r0])] BY <1>1, <1>3 DEF TypeOK, Trees
<1>7. \A r \in Robots : mem'.robots[r].rev = IF r \in {r0} THEN changes + 1 ELSE mem.robots[r].rev
  BY <1>4, <1>6 DEF Commanded, NextChange
<1>8. /\ Carries(e) /\ e.robots = {r0} /\ e.robots # {} /\ e.robots \subseteq Robots
      /\ e.change = changes + 1 /\ e.tree = mem'
  BY DEF Carries, Commands, Promises, Endings, NextChange
<1> HIDE DEF e
<1> QED BY <1>2, <1>5, <1>7, <1>8, AppendStore

LEMMA StopAllStore ==
  ASSUME ConstantsFit, Robots # {}, StoreInv, NEW c \in Clients, StopAll(c)
  PROVE  Ordered' /\ (Undisturbed' => TreesCover') /\ (Undisturbed' /\ failures' = 0 => LastIsMemory')
<1> DEFINE e == [tree |-> mem', kind |-> "stop-all", by |-> c, robots |-> Robots, change |-> NextChange, base |-> mem',
                 condition |-> "unconditional"]
<1>1. TypeOK BY DEF StoreInv
<1>2. queue' = Append(queue, e) /\ changes' = changes + 1 /\ UNCHANGED <<disk, page, answered, clobbered, failures>>
  BY DEF StopAll, Queue, NextChange, history
<1>3. mem' = [mem EXCEPT !.robots = [r \in Robots |-> Commanded(c, "stop", mem.robots[r])]] BY DEF StopAll
<1>4. mem'.cfg = mem.cfg BY <1>1, <1>3 DEF TypeOK, Trees
<1>5. mem'.robots = [r \in Robots |-> Commanded(c, "stop", mem.robots[r])] BY <1>1, <1>3 DEF TypeOK, Trees
<1>6. \A r \in Robots : mem'.robots[r].rev = IF r \in Robots THEN changes + 1 ELSE mem.robots[r].rev
  BY <1>5 DEF Commanded, NextChange
<1>7. Carries(e) /\ e.robots = Robots /\ e.change = changes + 1 /\ e.tree = mem' BY DEF Carries, NextChange
<1> HIDE DEF e
<1> QED BY <1>2, <1>4, <1>6, <1>7, AppendStore

\* A save that is queued brings its page, which is of changes that are numbered already; it becomes nothing yet.
LEMMA SaveStore ==
  ASSUME ConstantsFit, StoreInv, NEW a \in Admins, NEW condition \in Conditions, Save(a, condition)
  PROVE  Ordered' /\ (Undisturbed' => TreesCover') /\ (Undisturbed' /\ failures' = 0 => LastIsMemory')
<1> DEFINE new == [page[a] EXCEPT !.cfg = NextChange]
           e == [tree |-> new, kind |-> "save", by |-> a, robots |-> {}, change |-> NextChange, base |-> page[a],
                 condition |-> condition]
<1>1. TypeOK /\ Numbered /\ Ordered BY DEF StoreInv
<1>2. /\ queue' = Append(queue, e) /\ changes' = changes + 1
      /\ UNCHANGED <<mem, disk, page, answered, clobbered, failures>>
  BY DEF Save, Queue, NextChange, history
<1>3. /\ ~Carries(e) /\ e.robots = {} /\ e.change = changes + 1 /\ e.tree.cfg = e.change
      /\ e.base = page[a] /\ e.tree.robots = page[a].robots
  <2>1. page[a] \in Trees BY <1>1 DEF TypeOK
  <2>2. new.robots = page[a].robots /\ new.cfg = NextChange BY <2>1 DEF Trees
  <2> QED BY <2>2 DEF Carries, NextChange
<1> HIDE DEF e
<1>4. /\ Len(queue') = Len(queue) + 1 /\ Len(queue) \in Nat
      /\ \A i \in 1..Len(queue) : queue'[i] = queue[i]
      /\ queue'[Len(queue) + 1] = e
      /\ \A i \in 1..Len(queue') : i \in 1..Len(queue) \/ i = Len(queue) + 1
  BY <1>1, <1>2, Numbers, AppendFacts
<1>5. Ordered'
  <2>1. \A r \in Robots : page[a].robots[r].rev <= changes /\ page[a].robots[r].rev \in Nat /\ changes \in Nat
    BY <1>1, Numbers DEF Ordered
  <2>2. ASSUME NEW r \in Robots PROVE page[a].robots[r].rev <= changes + 1 /\ page[a].robots[r].rev < changes + 1
    <3>1. page[a].robots[r].rev <= changes /\ page[a].robots[r].rev \in Nat /\ changes \in Nat BY <2>1
    <3> QED BY <3>1
  <2>3. Stamped(e, changes + 1) BY <1>3, <2>2 DEF Stamped
  <2> QED BY <1>1, <1>2, <1>3, <2>3, AppendOrdered
<1>6. ASSUME Undisturbed' PROVE TreesCover'
  <2>1. TreesCover BY <1>2, <1>6 DEF StoreInv, Undisturbed
  <2>2. Covers(mem)' /\ Covers(disk)' BY <1>2, <2>1 DEF TreesCover, Covers
  <2>3. \A i \in 1..Len(queue') : Carries(queue'[i]) => Covers(queue[i].tree)'
    BY <1>2, <1>3, <1>4, <2>1 DEF TreesCover, Covers
  <2>4. ASSUME NEW i \in 1..Len(queue'), NEW r \in queue'[i].robots
        PROVE  /\ queue'[i].change <= mem'.robots[r].rev
               /\ \A j \in i..Len(queue') : Carries(queue'[j]) => queue'[i].change <= queue'[j].tree.robots[r].rev
    <3>1. i \in 1..Len(queue) /\ queue'[i] = queue[i] BY <1>3, <1>4, <2>4
    <3>2. /\ queue[i].change <= mem.robots[r].rev
          /\ \A j \in i..Len(queue) : Carries(queue[j]) => queue[i].change <= queue[j].tree.robots[r].rev
      BY <2>1, <2>4, <3>1 DEF TreesCover
    <3>3. \A j \in i..Len(queue') : Carries(queue'[j]) => j \in i..Len(queue) /\ queue'[j] = queue[j]
      BY <1>3, <1>4, <3>1
    <3> QED BY <1>2, <3>1, <3>2, <3>3
  <2> QED BY <2>2, <2>3, <2>4 DEF TreesCover
<1>7. ASSUME Undisturbed', failures' = 0 PROVE LastIsMemory'
  <2>1. LastIsMemory BY <1>2, <1>7 DEF StoreInv, Undisturbed
  <2>2. CASE disk = mem /\ \A i \in 1..Len(queue) : ~Carries(queue[i])
    BY <1>2, <1>3, <1>4, <2>2 DEF LastIsMemory
  <2>3. CASE \E i \in 1..Len(queue) : /\ Carries(queue[i]) /\ queue[i].tree = mem
                                      /\ \A j \in (i + 1)..Len(queue) : ~Carries(queue[j])
    <3>1. PICK i \in 1..Len(queue) : /\ Carries(queue[i]) /\ queue[i].tree = mem
                                     /\ \A j \in (i + 1)..Len(queue) : ~Carries(queue[j])
      BY <2>3
    <3>2. i \in 1..Len(queue') /\ queue'[i] = queue[i] BY <1>4
    <3>3. \A j \in (i + 1)..Len(queue') : ~Carries(queue'[j])
      <4> TAKE j \in (i + 1)..Len(queue')
      <4>1. j \in (i + 1)..Len(queue) \/ j = Len(queue) + 1 BY <1>4
      <4> QED BY <1>3, <1>4, <3>1, <4>1
    <3> QED BY <1>2, <3>1, <3>2, <3>3 DEF LastIsMemory
  <2> QED BY <2>1, <2>2, <2>3 DEF LastIsMemory
<1> QED BY <1>5, <1>6, <1>7

\* No command is queued behind a save that finds the memory as its page: it would be in the memory, and not in the page.
LEMMA NoneBehind ==
  ASSUME StoreInv, Undisturbed, queue # <<>>, ~Carries(Head(queue)), mem = Head(queue).base
  PROVE  \A j \in 1..Len(queue) : ~Carries(queue[j])
<1> SUFFICES ASSUME NEW j \in 1..Len(queue), Carries(queue[j]) PROVE FALSE OBVIOUS
<1>1. TypeOK /\ Ordered /\ TreesCover BY DEF StoreInv
<1>2. Len(queue) \in Nat /\ 1 \in 1..Len(queue) /\ Head(queue) = queue[1] BY <1>1, TailFacts
<1>3. j > 1 BY <1>2
<1>4. queue[1].change < queue[j].change BY <1>1, <1>2, <1>3 DEF Ordered
<1>5. queue[j].robots # {} BY <1>1 DEF Ordered, Stamped
<1>6. PICK r \in queue[j].robots : TRUE BY <1>5
<1>7. r \in Robots /\ mem.robots[r].rev \in Nat /\ queue[j].change \in Nat /\ queue[1].change \in Nat
  BY <1>1, <1>2, Numbers
<1>8. queue[j].change <= mem.robots[r].rev BY <1>1 DEF TreesCover
<1>9. mem.robots[r].rev < queue[1].change BY <1>1, <1>2, <1>7 DEF Ordered, Stamped
<1> QED BY <1>4, <1>7, <1>8, <1>9

\* The oldest entry is gone, and its tree is where it may be now.
LEMMA TailOrdered ==
  ASSUME TypeOK, Ordered, queue # <<>>, queue' = Tail(queue), changes' = changes,
         mem' \in {mem, Head(queue).tree}, disk' \in {disk, Head(queue).tree},
         \A a \in Admins : page'[a] \in {page[a], Head(queue).tree}
  PROVE  Ordered'
<1>1. /\ Len(queue) \in Nat /\ Len(queue) >= 1 /\ Len(queue') = Len(queue) - 1
      /\ Head(queue) = queue[1] /\ \A i \in 1..Len(queue') : i + 1 \in 1..Len(queue) /\ queue'[i] = queue[i + 1]
  BY TailFacts
<1>2. Stamped(Head(queue), changes) BY <1>1 DEF Ordered
<1>3. \A r \in Robots : Head(queue).tree.robots[r].rev <= changes BY <1>2 DEF Stamped
<1>4. \A i, j \in 1..Len(queue') : i < j => queue'[i].change < queue'[j].change
  <2> TAKE i, j \in 1..Len(queue')
  <2>1. i < j => i + 1 < j + 1 OBVIOUS
  <2> QED BY <1>1, <2>1 DEF Ordered
<1>5. \A i \in 1..Len(queue') : Stamped(queue'[i], changes') BY <1>1 DEF Ordered
<1>6. \A r \in Robots : mem'.robots[r].rev <= changes' /\ disk'.robots[r].rev <= changes' BY <1>3 DEF Ordered
<1>7. \A a \in Admins, r \in Robots : page'[a].robots[r].rev <= changes' BY <1>3 DEF Ordered
<1> QED BY <1>4, <1>5, <1>6, <1>7 DEF Ordered

\* What a tree covers once the request of e is answered.
LEMMA CoversAfter ==
  ASSUME NEW e, e.robots \subseteq Robots, Answer(e), NEW tree, Covers(tree), e.kind # "save",
         \A r \in e.robots : e.change <= tree.robots[r].rev
  PROVE  answered'.cfg <= tree.cfg /\ \A r \in Robots : answered'.robots[r] <= tree.robots[r].rev
  BY DEF Answer, Covers

\* The oldest entry, not a save, is gone, its tree is on the disk or it failed, and it is answered or not.
LEMMA TailCovers ==
  ASSUME StoreInv, Undisturbed, queue # <<>>, queue' = Tail(queue), mem' = mem,
         \/ disk' = disk /\ answered' = answered
         \/ Carries(Head(queue)) /\ disk' = Head(queue).tree /\ Answer(Head(queue))
  PROVE  TreesCover'
<1>1. TypeOK /\ TreesCover BY DEF StoreInv
<1>2. /\ Len(queue) \in Nat /\ Len(queue) >= 1 /\ Len(queue') = Len(queue) - 1
      /\ Head(queue) = queue[1] /\ \A i \in 1..Len(queue') : i + 1 \in 1..Len(queue) /\ queue'[i] = queue[i + 1]
  BY <1>1, TailFacts
<1>3. 1 \in 1..Len(queue) BY <1>2
<1>4. /\ Covers(mem)' /\ Covers(disk)'
      /\ \A i \in 1..Len(queue') : Carries(queue'[i]) => Covers(queue[i].tree)'
  <2>1. CASE disk' = disk /\ answered' = answered
    <3>1. Covers(mem)' /\ Covers(disk)' BY <1>1, <2>1 DEF TreesCover, Covers
    <3>2. ASSUME NEW i \in 1..Len(queue'), Carries(queue'[i]) PROVE Covers(queue[i].tree)'
      <4>1. i + 1 \in 1..Len(queue) /\ queue'[i] = queue[i + 1] BY <1>2
      <4>2. Covers(queue[i + 1].tree) BY <1>1, <3>2, <4>1 DEF TreesCover
      <4> QED BY <2>1, <4>1, <4>2 DEF Covers
    <3> QED BY <3>1, <3>2
  <2>2. CASE Carries(Head(queue)) /\ disk' = Head(queue).tree /\ Answer(Head(queue))
    <3> DEFINE e == Head(queue)
    <3>1. /\ e.robots \subseteq Robots /\ e.kind # "save"
          /\ \A r \in e.robots : e.change <= mem.robots[r].rev
          /\ \A j \in 1..Len(queue) : Carries(queue[j]) =>
               Covers(queue[j].tree) /\ \A r \in e.robots : e.change <= queue[j].tree.robots[r].rev
      BY <1>1, <1>2, <1>3, <2>2, Numbers DEF TreesCover, Carries
    <3>2. Answer(e) BY <2>2
    <3> HIDE DEF e
    <3>3. ASSUME NEW tree, Covers(tree), \A r \in e.robots : e.change <= tree.robots[r].rev
          PROVE  answered'.cfg <= tree.cfg /\ \A r \in Robots : answered'.robots[r] <= tree.robots[r].rev
      BY <3>1, <3>2, <3>3, CoversAfter
    <3>4. Covers(mem)' BY <1>1, <3>1, <3>3 DEF TreesCover, Covers
    <3>5. Covers(disk)'
      <4>1. Covers(queue[1].tree) /\ \A r \in e.robots : e.change <= queue[1].tree.robots[r].rev
        BY <1>2, <1>3, <2>2, <3>1
      <4>2. disk' = queue[1].tree BY <1>2, <2>2
      <4> QED BY <3>3, <4>1, <4>2 DEF Covers
    <3>6. ASSUME NEW i \in 1..Len(queue'), Carries(queue'[i]) PROVE Covers(queue[i].tree)'
      <4>1. i + 1 \in 1..Len(queue) /\ queue'[i] = queue[i + 1] BY <1>2
      <4>2. Covers(queue[i + 1].tree) /\ \A r \in e.robots : e.change <= queue[i + 1].tree.robots[r].rev
        BY <3>1, <3>6, <4>1
      <4> QED BY <3>3, <4>1, <4>2 DEF Covers
    <3> QED BY <3>4, <3>5, <3>6
  <2> QED BY <2>1, <2>2
<1>5. ASSUME NEW i \in 1..Len(queue'), NEW r \in queue'[i].robots
      PROVE  /\ queue'[i].change <= mem'.robots[r].rev
             /\ \A j \in i..Len(queue') : Carries(queue'[j]) => queue'[i].change <= queue'[j].tree.robots[r].rev
  <2>1. i + 1 \in 1..Len(queue) /\ queue'[i] = queue[i + 1] BY <1>2
  <2>2. /\ queue[i + 1].change <= mem.robots[r].rev
        /\ \A j \in (i + 1)..Len(queue) : Carries(queue[j]) => queue[i + 1].change <= queue[j].tree.robots[r].rev
    BY <1>1, <1>5, <2>1 DEF TreesCover
  <2>3. ASSUME NEW j \in i..Len(queue'), Carries(queue'[j]) PROVE queue'[i].change <= queue'[j].tree.robots[r].rev
    <3>1. j \in 1..Len(queue') /\ j + 1 \in (i + 1)..Len(queue) BY <1>2
    <3> QED BY <1>2, <2>1, <2>2, <2>3, <3>1
  <2> QED BY <2>1, <2>2, <2>3
<1> QED BY <1>4, <1>5 DEF TreesCover

LEMMA WriteDoneStore ==
  ASSUME StoreInv, WriteDone
  PROVE  Ordered' /\ (Undisturbed' => TreesCover') /\ (Undisturbed' /\ failures' = 0 => LastIsMemory')
<1> DEFINE e == Head(queue)
<1>1. TypeOK /\ Numbered /\ Ordered BY DEF StoreInv
<1>2. /\ queue # <<>> /\ queue' = Tail(queue) /\ disk' = e.tree /\ Answer(e) /\ changes' = changes /\ failures' = failures
      /\ \/ e.kind = "save" /\ FinishSave(e)
         \/ e.kind \in Commands /\ FinishCommand(e)
         \/ e.kind = "stop-all" /\ FinishStopAll(e)
  BY DEF WriteDone
<1>3. /\ Len(queue) \in Nat /\ Len(queue) >= 1 /\ Len(queue') = Len(queue) - 1
      /\ e = queue[1] /\ \A i \in 1..Len(queue') : i + 1 \in 1..Len(queue) /\ queue'[i] = queue[i + 1]
  BY <1>1, <1>2, TailFacts
<1>4. 1 \in 1..Len(queue) BY <1>3
<1>5. CASE e.kind = "save" /\ FinishSave(e)
  <2> HIDE DEF e
  <2>1. mem' = e.tree /\ \A a \in Admins : page'[a] \in {page[a], e.tree} BY <1>1, <1>5 DEF FinishSave, TypeOK
  <2>2. Ordered' BY <1>1, <1>2, <2>1, TailOrdered DEF e
  <2>3. ASSUME Undisturbed' PROVE TreesCover' /\ LastIsMemory'
    <3>1. Undisturbed /\ mem = e.base BY <1>5, <2>3 DEF FinishSave, Undisturbed
    <3>2. ~Carries(e) BY <1>5 DEF Carries
    <3>3. \A j \in 1..Len(queue) : ~Carries(queue[j]) BY <1>2, <3>1, <3>2, NoneBehind DEF e
    <3>4. /\ e.robots = {} /\ e.tree.cfg = e.change /\ e.tree.robots = mem.robots /\ e.change \in Nat
      BY <1>1, <1>3, <1>4, <1>5, <3>1, <3>2, Numbers DEF Ordered, Stamped, Numbered
    <3>5. Covers(mem) BY <3>1 DEF StoreInv, TreesCover
    <3>6. answered'.cfg = e.change /\ \A r \in Robots : answered'.robots[r] = answered.robots[r]
      BY <1>2, <1>5, <3>4 DEF Answer
    <3>7. Covers(mem)' /\ Covers(disk)' BY <1>2, <2>1, <3>4, <3>5, <3>6 DEF Covers
    <3>8. \A i \in 1..Len(queue') : ~Carries(queue'[i]) /\ queue'[i].robots = {}
      BY <1>1, <1>3, <3>3 DEF Ordered, Stamped
    <3>9. TreesCover' BY <3>7, <3>8 DEF TreesCover, Carries
    <3>10. LastIsMemory' BY <1>2, <2>1, <3>8 DEF LastIsMemory, Carries
    <3> QED BY <3>9, <3>10
  <2> QED BY <2>2, <2>3
<1>6. CASE Carries(e) /\ UNCHANGED <<mem, page, clobbered>>
  <2> HIDE DEF e
  <2>1. Ordered' BY <1>1, <1>2, <1>6, TailOrdered DEF e
  <2>2. ASSUME Undisturbed' PROVE TreesCover'
    <3>1. Undisturbed BY <1>6, <2>2 DEF Undisturbed
    <3> QED BY <1>2, <1>6, <3>1, TailCovers DEF e
  <2>3. ASSUME Undisturbed', failures' = 0 PROVE LastIsMemory'
    <3>1. LastIsMemory BY <1>2, <1>6, <2>3 DEF StoreInv, Undisturbed
    <3>2. PICK i \in 1..Len(queue) : /\ Carries(queue[i]) /\ queue[i].tree = mem
                                     /\ \A j \in (i + 1)..Len(queue) : ~Carries(queue[j])
      BY <1>3, <1>4, <1>6, <3>1 DEF LastIsMemory
    <3>3. CASE i = 1
      <4>1. \A j \in 1..Len(queue') : j + 1 \in (i + 1)..Len(queue) BY <1>3, <3>3
      <4>2. \A j \in 1..Len(queue') : ~Carries(queue'[j]) BY <1>3, <3>2, <4>1
      <4> QED BY <1>2, <1>3, <1>6, <3>2, <3>3, <4>2 DEF LastIsMemory, Carries
    <3>4. CASE i # 1
      <4>1. i - 1 \in 1..Len(queue') /\ queue'[i - 1] = queue[i] BY <1>3, <3>4
      <4>2. \A j \in (i - 1 + 1)..Len(queue') : j \in 1..Len(queue') /\ j + 1 \in (i + 1)..Len(queue) BY <1>3, <3>4
      <4>3. \A j \in (i - 1 + 1)..Len(queue') : ~Carries(queue'[j]) BY <1>3, <3>2, <4>2
      <4> QED BY <1>6, <3>2, <4>1, <4>3 DEF LastIsMemory, Carries
    <3> QED BY <3>3, <3>4
  <2> QED BY <2>1, <2>2, <2>3
<1>7. e.kind # "save" => Carries(e) /\ UNCHANGED <<mem, page, clobbered>>
  BY <1>2 DEF Carries, FinishCommand, FinishStopAll
<1>8. e.kind = "save" => FinishSave(e) BY <1>2 DEF Commands, Promises, Endings
<1> QED BY <1>5, <1>6, <1>7, <1>8

LEMMA WriteFailsStore ==
  ASSUME StoreInv, WriteFails
  PROVE  Ordered' /\ (Undisturbed' => TreesCover') /\ (Undisturbed' /\ failures' = 0 => LastIsMemory')
<1>1. TypeOK /\ Ordered BY DEF StoreInv
<1>2. /\ queue # <<>> /\ queue' = Tail(queue) /\ failures' = failures + 1
      /\ UNCHANGED <<mem, disk, page, changes, answered, clobbered>>
  BY DEF WriteFails, history
<1>3. Ordered' BY <1>1, <1>2, TailOrdered
<1>4. Undisturbed' => TreesCover'
  <2>1. Undisturbed' => Undisturbed BY <1>2 DEF Undisturbed
  <2> QED BY <1>2, <2>1, TailCovers
<1>5. failures' # 0
  <2>1. failures \in Nat BY <1>1 DEF TypeOK
  <2> QED BY <1>2, <2>1
<1> QED BY <1>3, <1>4, <1>5

LEMMA RestartStore ==
  ASSUME StoreInv, Restart
  PROVE  Ordered' /\ (Undisturbed' => TreesCover') /\ (Undisturbed' /\ failures' = 0 => LastIsMemory')
<1>1. Len(queue') = 0 /\ mem' = disk /\ UNCHANGED <<disk, page, changes, answered, clobbered, failures>>
  BY DEF Restart, history
<1>2. Ordered' BY <1>1 DEF StoreInv, Ordered
<1>3. Undisturbed' => TreesCover' BY <1>1 DEF StoreInv, Undisturbed, TreesCover, Covers
<1>4. LastIsMemory' BY <1>1 DEF LastIsMemory
<1> QED BY <1>2, <1>3, <1>4

\* An administrator reads the files; the rest stays.
LEMMA IdleStore ==
  ASSUME StoreInv, UNCHANGED <<mem, disk, queue, changes, failures, answered, clobbered>>,
         \A a \in Admins : page'[a] \in {page[a], disk}
  PROVE  Ordered' /\ (Undisturbed' => TreesCover') /\ (Undisturbed' /\ failures' = 0 => LastIsMemory')
<1>1. Ordered'
  <2>1. \A a \in Admins, r \in Robots : page'[a].robots[r].rev <= changes BY DEF StoreInv, Ordered
  <2> QED BY <2>1 DEF StoreInv, Ordered
<1>2. Undisturbed' => TreesCover' BY DEF StoreInv, Undisturbed, TreesCover, Covers
<1>3. Undisturbed' /\ failures' = 0 => LastIsMemory' BY DEF StoreInv, Undisturbed, LastIsMemory
<1> QED BY <1>1, <1>2, <1>3

LEMMA StepStore == ASSUME ConstantsFit, Robots # {}, StoreInv, Numbered', [Next]_vars PROVE StoreInv'
<1>1. TypeOK' BY StepType DEF StoreInv
<1>2. Ordered' /\ (Undisturbed' => TreesCover') /\ (Undisturbed' /\ failures' = 0 => LastIsMemory')
  <2>1. CASE UNCHANGED vars BY <2>1, IdleStore DEF vars
  <2>2. CASE \E a \in Admins : ReadSettings(a)
    <3>1. PICK b \in Admins : ReadSettings(b) BY <2>2
    <3>2. \A a \in Admins : page'[a] \in {page[a], disk} BY <3>1 DEF ReadSettings, StoreInv, TypeOK
    <3>3. UNCHANGED <<mem, disk, queue, changes, failures, answered, clobbered>> BY <3>1 DEF ReadSettings, server, history
    <3> QED BY <3>2, <3>3, IdleStore
  <2>3. CASE \E a \in Admins, condition \in Conditions : Save(a, condition) BY <2>3, SaveStore
  <2>4. CASE \E c \in Clients, r \in Robots, command \in Commands : Command(c, r, command) BY <2>4, CommandStore
  <2>5. CASE \E c \in Clients : StopAll(c) BY <2>5, StopAllStore
  <2>6. CASE WriteDone BY <2>6, WriteDoneStore
  <2>7. CASE WriteFails BY <2>7, WriteFailsStore
  <2>8. CASE Restart BY <2>8, RestartStore
  <2> QED BY <2>1, <2>2, <2>3, <2>4, <2>5, <2>6, <2>7, <2>8 DEF Next
<1> QED BY <1>1, <1>2 DEF StoreInv

\* What was answered with success of the configuration and of each robot is on the disk, in that version or a later one, for any
\* number of clients, overlapping requests, failed writes and restarts, while no save replaced an unread change; and once the queue
\* of writes is empty and none failed, the disk holds what the server works on. A server without a robot is left out: a stop of all
\* then changes nothing that a save could notice, and writes the tree from before the save.
THEOREM DiskCorrect == Robots # {} => (Spec => []RestartsLoseNothing)
<1> SUFFICES ASSUME Robots # {} PROVE Spec => []RestartsLoseNothing OBVIOUS
<1> USE ConstantsAssumption
<1>1. Init => StoreInv /\ PledgeInv BY InitStore, InitPledges
<1>2. StoreInv /\ PledgeInv /\ [Next]_vars => StoreInv' /\ PledgeInv' BY StepStore, StepPledges DEF PledgeInv
<1>3. StoreInv => RestartsLoseNothing BY StoreEnough DEF RestartsLoseNothing
<1> QED BY <1>1, <1>2, <1>3, PTL DEF Spec

-----------------------------------------------------------------------------
(* A live picture *)

\* A client that left before there was a connection is remembered.
ViewInv == Picture!ViewersClose /\ (view = "connecting" /\ client = "gone" => leftEarly) /\ (view = "none" => client = "here")

LEMMA ViewStarts == Picture!ViewInit => ViewInv
BY DEF Picture!ViewInit, ViewInv, Picture!ViewersClose

LEMMA ViewSteps == ViewInv /\ (Picture!ViewNext \/ UNCHANGED viewVars) => ViewInv'
BY DEF ViewInv, Picture!ViewersClose, Picture!ViewNext, Picture!View, Picture!Connected, Picture!ConnectFails, Picture!ClientLeaves,
       Picture!FrameHandedOn, Picture!StreamerGoes, viewVars

-----------------------------------------------------------------------------
(* The registrations of the phones *)

PhonesInv ==
  /\ Out!PhonesAreKept
  /\ devices \in [Tokens -> Accounts \union {None}] /\ stored \in [Tokens -> Accounts \union {None}] /\ owed \in [Tokens -> Accounts \union {None}]

LEMMA PhonesStart == Out!PushInit => PhonesInv
BY DEF Out!PushInit, Out!NoDevices, PhonesInv, Out!PhonesAreKept

\* A registration that is taken back is owed to nobody.
LEMMA PhonesDropped ==
  ASSUME PhonesInv, NEW ts \in SUBSET Tokens, Out!Dropped(ts)
  PROVE  PhonesInv'
<1>1. CASE ts \cap Out!Registered = {} /\ UNCHANGED <<stored, pushFaults>>
  <2>1. \A t \in ts : devices[t] = None
    BY <1>1 DEF Out!Registered
  <2> QED  BY <1>1, <2>1 DEF PhonesInv, Out!PhonesAreKept, Out!Dropped, Out!Without
<1>2. CASE Out!Saved
  BY <1>2 DEF PhonesInv, Out!PhonesAreKept, Out!Dropped, Out!Without, Out!Saved
<1>3. CASE Out!SaveFails
  BY <1>3 DEF PhonesInv, Out!PhonesAreKept, Out!Dropped, Out!Without, Out!SaveFails
<1> QED  BY <1>1, <1>2, <1>3 DEF Out!Dropped

LEMMA PhonesStep == PhonesInv /\ (Out!PushNext \/ UNCHANGED pushVars) => PhonesInv'
<1> SUFFICES ASSUME PhonesInv, Out!PushNext \/ UNCHANGED pushVars PROVE PhonesInv'
  OBVIOUS
<1>1. CASE Out!Event \/ UNCHANGED pushVars
  BY <1>1 DEF Out!Event, PhonesInv, Out!PhonesAreKept, pushVars
<1>2. CASE Out!PushRestart
  BY <1>2 DEF Out!PushRestart, PhonesInv, Out!PhonesAreKept
<1>3. ASSUME NEW t \in Tokens, Out!TokenDies(t) PROVE PhonesInv'
  BY <1>3 DEF Out!TokenDies, PhonesInv, Out!PhonesAreKept
<1>4. ASSUME NEW t \in Tokens, NEW e \in 1..MaxPushEvents, Out!Notify(e, t) PROVE PhonesInv'
  <2>1. CASE t \in dead
    BY <1>4, <2>1, PhonesDropped DEF Out!Notify
  <2>2. CASE t \notin dead
    BY <1>4, <2>2 DEF Out!Notify, PhonesInv, Out!PhonesAreKept
  <2> QED  BY <2>1, <2>2
<1>5. ASSUME NEW t \in Tokens, NEW a \in Accounts, Out!Register(t, a) PROVE PhonesInv'
  <2>1. CASE Out!Saved /\ owed' = [owed EXCEPT ![t] = a]
    BY <1>5, <2>1 DEF Out!Register, Out!Saved, PhonesInv, Out!PhonesAreKept
  <2>2. CASE Out!SaveFails /\ owed' = [owed EXCEPT ![t] = None]
    BY <1>5, <2>2 DEF Out!Register, Out!SaveFails, PhonesInv, Out!PhonesAreKept
  <2> QED  BY <1>5, <2>1, <2>2 DEF Out!Register
<1>6. ASSUME NEW t \in Tokens, NEW a \in Accounts, Out!Unregister(t, a) PROVE PhonesInv'
  BY <1>6, PhonesDropped DEF Out!Unregister
<1>7. ASSUME NEW a \in Accounts, Out!RemoveAccount(a) PROVE PhonesInv'
  <2>1. {u \in Tokens : devices[u] = a} \in SUBSET Tokens
    OBVIOUS
  <2> QED  BY <1>7, <2>1, PhonesDropped DEF Out!RemoveAccount
<1> QED  BY <1>1, <1>2, <1>3, <1>4, <1>5, <1>6, <1>7 DEF Out!PushNext

-----------------------------------------------------------------------------
(* The session with the push service *)

\* A token that is used was made when the last one was, and each notification went with one of its hour.
Sends == [over : Nat, at : Nat, token : Nat, result : {None, "taken", "refused", "timeout", "network"}, answered : BOOLEAN]

SessionInv ==
  /\ quarter \in Nat /\ sessions \in [1..MaxSessions -> {"none", "open", "ending", "gone"}] /\ current \in 0..MaxSessions
  /\ tokensMade \in Seq(Nat) /\ notices \in Seq(Sends)
  /\ token = IF tokensMade = <<>> THEN None ELSE tokensMade[Len(tokensMade)]
  /\ \A i \in 1..Len(tokensMade) : tokensMade[i] <= quarter
  /\ \A i \in 2..Len(tokensMade) : tokensMade[i] - tokensMade[i - 1] > 1
  /\ \A i \in 1..Len(notices) : notices[i].at - notices[i].token < TokenHour
  /\ Out!OneSession

LEMMA SessionConstants ==
  /\ {TokenLife, TokenHour, MaxSessions} \subseteq Nat /\ 1 < TokenLife /\ TokenLife <= TokenHour /\ None \notin Nat
BY RelaysAssumption DEF RelaysAssumption

LEMMA MadeLater ==
  ASSUME NEW times \in Seq(Nat), NEW at \in Nat
  PROVE  /\ Append(times, at) \in Seq(Nat) /\ Len(times) \in Nat /\ Len(Append(times, at)) = Len(times) + 1 /\ Append(times, at) # <<>>
         /\ \A i \in 1..Len(times) : Append(times, at)[i] = times[i]
         /\ Append(times, at)[Len(times) + 1] = at
OBVIOUS

LEMMA SessionStarts == Out!ApnsInit => SessionInv
BY SessionConstants DEF Out!ApnsInit, SessionInv, Out!OneSession

\* A notification is sent over the session that is open, or a new one, with a token that is good for an hour.
LEMMA SessionSends ==
  ASSUME SessionInv, Out!ApnsSend
  PROVE  SessionInv'
<1>1. CASE Out!Credentials # "good"
  BY <1>1 DEF SessionInv, Out!ApnsSend, Out!OneSession
<1>2. CASE Out!Credentials = "good"
  <2> DEFINE n == Len(tokensMade)
             send == [over |-> Out!Connected, at |-> quarter, token |-> Out!ProviderToken, result |-> None, answered |-> FALSE]
  <2>0. /\ quarter \in Nat /\ n \in Nat /\ Out!Connected \in 1..MaxSessions /\ Out!Connected \in Nat /\ TokenLife \in Nat /\ TokenHour \in Nat
        /\ \A i \in 1..n : tokensMade[i] \in Nat
    BY SMTT(30), SessionConstants DEF SessionInv, Out!ApnsSend
  <2>1. /\ Out!ProviderToken \in Nat /\ quarter - Out!ProviderToken < TokenHour
        /\ ~Out!Renewed => n > 0 /\ Out!ProviderToken = tokensMade[n]
        /\ Out!Renewed => Out!ProviderToken = quarter /\ (n > 0 => quarter - tokensMade[n] > 1)
    BY <2>0, SessionConstants DEF SessionInv, Out!ProviderToken, Out!Renewed
  <2>2. tokensMade' \in Seq(Nat) /\ tokensMade' = IF Out!Renewed THEN Append(tokensMade, quarter) ELSE tokensMade
    <3>1. tokensMade' = IF Out!Renewed THEN Append(tokensMade, quarter) ELSE tokensMade
      BY <1>2 DEF Out!ApnsSend
    <3>2. tokensMade \in Seq(Nat)
      BY DEF SessionInv
    <3> QED  BY <2>0, <3>1, <3>2
  <2>3. /\ token' = IF tokensMade' = <<>> THEN None ELSE tokensMade'[Len(tokensMade')]
        /\ \A i \in 1..Len(tokensMade') : tokensMade'[i] <= quarter
        /\ \A i \in 2..Len(tokensMade') : tokensMade'[i] - tokensMade'[i - 1] > 1
    <3>1. CASE ~Out!Renewed
      BY <1>2, <2>0, <2>1, <2>2, <3>1 DEF SessionInv, Out!ApnsSend
    <3>2. CASE Out!Renewed
      <4>1. /\ tokensMade' = Append(tokensMade, quarter) /\ Len(tokensMade') = n + 1 /\ tokensMade' # <<>>
            /\ \A i \in 1..n : tokensMade'[i] = tokensMade[i]
            /\ tokensMade'[n + 1] = quarter
        <5>1. tokensMade \in Seq(Nat) /\ quarter \in Nat
          BY DEF SessionInv
        <5>2. tokensMade' = Append(tokensMade, quarter)
          BY <2>2, <3>2
        <5> QED  BY <5>1, <5>2, MadeLater
      <4>2. token' = quarter
        BY <1>2, <2>1, <3>2 DEF Out!ApnsSend
      <4>3. \A i \in 2..n + 1 : tokensMade'[i] - tokensMade'[i - 1] > 1
        <5>1. \A i \in 2..n : tokensMade[i] - tokensMade[i - 1] > 1
          BY DEF SessionInv
        <5>2. ASSUME NEW i \in 2..n + 1 PROVE tokensMade'[i] - tokensMade'[i - 1] > 1
          <6>1. CASE i = n + 1
            <7>1. n > 0 /\ i - 1 = n /\ n \in 1..n
              BY <2>0, <6>1
            <7>2. tokensMade'[i] = quarter /\ tokensMade'[i - 1] = tokensMade[n]
              BY <4>1, <6>1, <7>1
            <7> QED  BY <2>1, <3>2, <7>1, <7>2
          <6>2. CASE i # n + 1
            <7>1. i \in 2..n /\ i \in 1..n /\ i - 1 \in 1..n
              BY <2>0, <6>2
            <7>2. tokensMade'[i] = tokensMade[i] /\ tokensMade'[i - 1] = tokensMade[i - 1]
              BY <4>1, <7>1
            <7> QED  BY <5>1, <7>1, <7>2
          <6> QED  BY <6>1, <6>2
        <5> QED  BY <5>2
      <4> QED  BY <2>0, <4>1, <4>2, <4>3 DEF SessionInv
    <3> QED  BY <3>1, <3>2
  <2>4. send \in Sends /\ notices' = Append(notices, send)
    BY <1>2, <2>0, <2>1 DEF Sends, Out!ApnsSend
  <2>5. notices' \in Seq(Sends) /\ \A i \in 1..Len(notices') : notices'[i].at - notices'[i].token < TokenHour
    BY <2>0, <2>1, <2>4 DEF SessionInv
  <2>6. \A i \in 1..MaxSessions : sessions[i] = "open" => i = Out!Connected
    BY DEF SessionInv, Out!OneSession, Out!Connected
  <2>7. Out!OneSession' /\ sessions' \in [1..MaxSessions -> {"none", "open", "ending", "gone"}] /\ current' \in 0..MaxSessions
    BY SMTT(30), <1>2, <2>0, <2>6, SessionConstants DEF SessionInv, Out!ApnsSend, Out!OneSession
  <2> QED  BY <2>2, <2>3, <2>5, <2>7 DEF SessionInv, Out!ApnsSend
<1> QED  BY <1>1, <1>2

\* What is heard of a notification changes neither its moment nor its token.
LEMMA SessionHears ==
  ASSUME SessionInv, UNCHANGED <<quarter, token, tokensMade>>, DOMAIN notices' = DOMAIN notices, notices' \in Seq(Sends),
         \A i \in DOMAIN notices : notices'[i].at = notices[i].at /\ notices'[i].token = notices[i].token,
         Out!OneSession', sessions' \in [1..MaxSessions -> {"none", "open", "ending", "gone"}], current' \in 0..MaxSessions
  PROVE  SessionInv'
<1>1. Len(notices') = Len(notices) /\ DOMAIN notices = 1..Len(notices)
  BY LenProperties DEF SessionInv
<1> QED  BY <1>1 DEF SessionInv

LEMMA SessionSteps == SessionInv /\ (Out!ApnsNext \/ UNCHANGED apnsVars) => SessionInv'
<1> SUFFICES ASSUME SessionInv, Out!ApnsNext \/ UNCHANGED apnsVars PROVE SessionInv'
  OBVIOUS
<1>0. /\ DOMAIN notices = 1..Len(notices) /\ Len(notices) \in Nat /\ notices \in Seq(Sends)
      /\ \A i \in DOMAIN notices : notices[i] \in Sends
  BY LenProperties DEF SessionInv
<1>1. CASE Out!ApnsSend
  BY <1>1, SessionSends
<1>2. CASE Out!ApnsClose
  <2>1. /\ current \in 1..MaxSessions /\ current' = 0 /\ MaxSessions \in Nat
        /\ sessions' = [sessions EXCEPT ![current] = IF @ = "open" THEN "ending" ELSE @]
    BY <1>2, SessionConstants DEF SessionInv, Out!ApnsClose
  <2>2. \A i \in 1..MaxSessions : sessions'[i] # "open"
    BY <2>1 DEF SessionInv, Out!OneSession
  <2>3. sessions' \in [1..MaxSessions -> {"none", "open", "ending", "gone"}]
    BY <2>1 DEF SessionInv
  <2> QED  BY <1>2, <2>1, <2>2, <2>3 DEF SessionInv, Out!ApnsClose, Out!OneSession
<1>3. CASE Out!FilesChange \/ Out!ApnsTick \/ UNCHANGED apnsVars
  <2>1. UNCHANGED <<current, sessions, token, tokensMade, notices>> /\ quarter' \in {quarter, quarter + 1} /\ quarter \in Nat
    BY <1>3 DEF SessionInv, Out!FilesChange, Out!ApnsTick, apnsVars
  <2>2. \A i \in 1..Len(tokensMade) : tokensMade[i] <= quarter'
    <3>1. \A i \in 1..Len(tokensMade) : tokensMade[i] \in Nat /\ tokensMade[i] <= quarter
      BY DEF SessionInv
    <3> QED  BY <2>1, <3>1
  <2> QED  BY <2>1, <2>2 DEF SessionInv, Out!OneSession
<1>4. ASSUME NEW i \in DOMAIN notices, NEW heard, notices' = [notices EXCEPT ![i] = heard], heard \in Sends,
             heard.at = notices[i].at, heard.token = notices[i].token,
             UNCHANGED <<quarter, files, credentials, current, sessions, token, tokensMade>>
      PROVE  SessionInv'
  <2>1. notices' \in Seq(Sends) /\ DOMAIN notices' = DOMAIN notices
    BY <1>0, <1>4
  <2> QED  BY <1>0, <1>4, <2>1, SessionHears DEF SessionInv, Out!OneSession
<1>5. ASSUME NEW i \in DOMAIN notices, Out!Answer(i) PROVE SessionInv'
  <2>1. PICK result \in {"taken", "refused"} : notices' = [notices EXCEPT ![i] = [Out!Done(i, result) EXCEPT !.answered = TRUE]]
    BY <1>5 DEF Out!Answer
  <2> DEFINE heard == [Out!Done(i, result) EXCEPT !.answered = TRUE]
  <2>2. heard \in Sends /\ heard.at = notices[i].at /\ heard.token = notices[i].token
    BY <1>0 DEF Sends, Out!Done
  <2> QED  BY <1>4, <1>5, <2>1, <2>2 DEF Out!Answer
<1>6. ASSUME NEW i \in DOMAIN notices, Out!GivesUp(i) PROVE SessionInv'
  <2>1. Out!Done(i, "timeout") \in Sends /\ Out!Done(i, "timeout").at = notices[i].at /\ Out!Done(i, "timeout").token = notices[i].token
    BY <1>0 DEF Sends, Out!Done
  <2> QED  BY <1>4, <1>6, <2>1 DEF Out!GivesUp
<1>7. ASSUME NEW i \in 1..MaxSessions, Out!SessionEnds(i) PROVE SessionInv'
  BY <1>7 DEF SessionInv, Out!SessionEnds, Out!OneSession
<1>8. ASSUME NEW i \in 1..MaxSessions, Out!SessionEnded(i) PROVE SessionInv'
  <2> DEFINE closed(j) == IF notices[j].over = i /\ ~notices[j].answered THEN Out!Done(j, "network") ELSE notices[j]
  <2>1. \A j \in DOMAIN notices : closed(j) \in Sends /\ closed(j).at = notices[j].at /\ closed(j).token = notices[j].token
    BY <1>0 DEF Sends, Out!Done
  <2>2. notices' = [j \in 1..Len(notices) |-> closed(j)]
    BY <1>0, <1>8 DEF Out!SessionEnded
  <2>3. notices' \in Seq(Sends) /\ DOMAIN notices' = DOMAIN notices /\ \A j \in DOMAIN notices : notices'[j] = closed(j)
    BY <1>0, <2>1, <2>2
  <2>4. Out!OneSession' /\ sessions' \in [1..MaxSessions -> {"none", "open", "ending", "gone"}] /\ current' \in 0..MaxSessions
    BY <1>8, SessionConstants DEF SessionInv, Out!SessionEnded, Out!OneSession, Out!Forgets
  <2> QED  BY <1>8, <2>1, <2>3, <2>4, SessionHears DEF Out!SessionEnded
<1> QED  BY <1>1, <1>2, <1>3, <1>5, <1>6, <1>7, <1>8 DEF Out!ApnsNext

LEMMA SessionHolds == SessionInv => Out!OneSession /\ Out!TokensAreFresh
<1> SUFFICES ASSUME SessionInv PROVE Out!TokensAreFresh
  BY DEF SessionInv
<1>1. \A s \in Out!Range(notices) : \E i \in 1..Len(notices) : s = notices[i]
  BY LenProperties DEF SessionInv, Out!Range
<1> QED  BY <1>1 DEF SessionInv, Out!TokensAreFresh

-----------------------------------------------------------------------------
(* The channel to the edge node *)

\* What is needed of a reply that was accepted: it is kept, or it is too old by now.
Kept(n) == \/ seen[n] # 0 /\ replies[n].at <= seen[n] /\ seen[n] <= edgeNow
           \/ edgeNow - replies[n].at > Window

Answers == [kind : {"refusal", "reply", "foreign", "misdirected", "newer"}, secret : 0..2, at : Int]
Heard == {None, "waiting", "gone", "unreachable", "registry-invalid", "refused", "reply-impersonation", "reply-wrong-recipient",
          "reply-incompatible-version", "reply-bad-signature", "reply-stale", "reply-replay", "ok"}

\* A reply that was accepted was accepted once, as what it is, and what waits was asked as the open channel has it.
Counted(n) == agreed[n] = 0 \/ (agreed[n] = 1 /\ replies[n] # None /\ replies[n].kind = "reply" /\ replies[n].secret = channel /\ Kept(n))
Posed(n) == heldOut[n] = "waiting" => channel # None /\ posed[n].secret = channel

ChannelTypes ==
  /\ edgeNow \in Nat \ {0} /\ behind \in 0..1 /\ channel \in {1, 2, None} /\ book \in {1, 2, None} /\ theirs \in {1, 2}
  /\ heldOut \in [Out!Ids -> Heard] /\ seen \in [Out!Ids -> Nat] /\ agreed \in [Out!Ids -> Nat]
  /\ replies \in [Out!Ids -> Answers \union {None}] /\ DOMAIN posed = Out!Ids /\ posed = [n \in Out!Ids |-> posed[n]]

ChannelInv ==
  /\ ChannelTypes
  /\ \A n \in Out!Ids : replies[n] = None \/ replies[n].at <= edgeNow
  /\ channel = None => agreed = Out!None0
  /\ \A n \in Out!Ids : Counted(n) /\ Posed(n)

LEMMA ChannelConstants == Window \in Nat /\ None \notin Int /\ None # "waiting"
BY RelaysAssumption DEF RelaysAssumption

LEMMA ChannelStarts == Out!EdgeInit => ChannelInv
BY ChannelConstants DEF Out!EdgeInit, ChannelInv, ChannelTypes, Heard, Out!None0, Out!Blank, Counted, Posed, Out!Secrets

\* The clock alone, and the secrets of the two sides, take nothing back.
LEMMA ChannelTicks ==
  ASSUME ChannelInv, edgeNow' \in {edgeNow, edgeNow + 1}, book' \in {1, 2, None}, theirs' \in {1, 2},
         UNCHANGED <<behind, channel, posed, replies, heldOut, seen, agreed>>
  PROVE  ChannelInv'
<1>1. ChannelTypes'
  BY DEF ChannelInv, ChannelTypes
<1>2. ASSUME NEW n \in Out!Ids PROVE (replies'[n] = None \/ replies'[n].at <= edgeNow') /\ Counted(n)' /\ Posed(n)'
  <2>1. edgeNow \in Nat /\ seen[n] \in Nat /\ Window \in Nat /\ (replies[n] # None => replies[n].at \in Int)
    BY ChannelConstants DEF ChannelInv, ChannelTypes, Answers
  <2>2. (replies[n] = None \/ replies[n].at <= edgeNow) /\ Counted(n) /\ Posed(n)
    BY DEF ChannelInv
  <2> QED  BY <2>1, <2>2 DEF Counted, Kept, Posed
<1> QED  BY <1>1, <1>2 DEF ChannelInv, Out!None0

LEMMA ChannelRestarts ==
  ASSUME ChannelInv, Out!EdgeRestart
  PROVE  ChannelInv'
<1>1. ChannelTypes'
  BY DEF ChannelInv, ChannelTypes, Out!EdgeRestart, Out!None0, Heard
<1>2. ASSUME NEW n \in Out!Ids PROVE heldOut'[n] # "waiting" /\ agreed'[n] = 0
  BY <1>1 DEF ChannelInv, ChannelTypes, Out!EdgeRestart, Out!None0
<1> QED  BY <1>1, <1>2 DEF ChannelInv, Out!EdgeRestart, Counted, Posed, Out!None0

LEMMA ChannelAsks ==
  ASSUME ChannelInv, NEW n \in Out!Ids, Out!Ask(n)
  PROVE  ChannelInv'
<1>1. ChannelTypes'
  BY DEF ChannelInv, ChannelTypes, Out!Ask, Out!Registry, Heard
<1>2. channel' = channel \/ (channel = None /\ agreed = Out!None0)
  BY DEF ChannelInv, Out!Ask, Out!Registry
<1>3. ASSUME NEW m \in Out!Ids PROVE Counted(m)' /\ Posed(m)'
  <2>1. Counted(m) /\ Posed(m) /\ DOMAIN heldOut = Out!Ids /\ DOMAIN posed = Out!Ids
    BY DEF ChannelInv, ChannelTypes
  <2>2. Counted(m)'
    BY <1>2, <2>1 DEF Out!Ask, Counted, Kept, Out!None0
  <2>3. Posed(m)'
    <3>1. CASE Out!Registry = None
      BY <2>1, <3>1 DEF Posed, Out!Ask
    <3>2. CASE Out!Registry # None
      BY <2>1, <3>2 DEF Posed, Out!Ask, Out!Registry
    <3> QED  BY <3>1, <3>2
  <2> QED  BY <2>2, <2>3
<1> QED  BY <1>1, <1>2, <1>3 DEF ChannelInv, Out!Ask, Out!None0

LEMMA ChannelReplies ==
  ASSUME ChannelInv, NEW n \in Out!Ids, Out!Reply(n)
  PROVE  ChannelInv'
<1>1. PICK reply \in Answers : replies' = [replies EXCEPT ![n] = reply] /\ reply.at <= edgeNow
  BY DEF ChannelInv, ChannelTypes, Out!Reply, Answers
<1>2. ChannelTypes'
  BY <1>1 DEF ChannelInv, ChannelTypes, Out!Reply
<1>3. ASSUME NEW m \in Out!Ids PROVE (replies'[m] = None \/ replies'[m].at <= edgeNow') /\ Counted(m)' /\ Posed(m)'
  <2>1. Counted(m) /\ Posed(m) /\ DOMAIN replies = Out!Ids /\ (replies[m] = None \/ replies[m].at <= edgeNow)
    BY DEF ChannelInv, ChannelTypes
  <2> QED  BY <1>1, <2>1 DEF Out!Reply, Counted, Posed, Kept
<1> QED  BY <1>2, <1>3 DEF ChannelInv, Out!Reply, Out!None0

\* What is heard of a request changes only what its client is told.
LEMMA ChannelEnds ==
  ASSUME ChannelInv, NEW n \in Out!Ids, NEW verdict \in Heard \ {"waiting"}, heldOut' = [heldOut EXCEPT ![n] = verdict],
         UNCHANGED <<edgeNow, behind, book, theirs, channel, posed, replies, seen, agreed>>
  PROVE  ChannelInv'
<1>1. ChannelTypes'
  BY DEF ChannelInv, ChannelTypes
<1>2. ASSUME NEW m \in Out!Ids PROVE Counted(m)' /\ Posed(m)'
  BY DEF ChannelInv, ChannelTypes, Counted, Posed, Kept
<1> QED  BY <1>1, <1>2 DEF ChannelInv, Out!None0

\* A reply that is accepted was not accepted before: it would be kept, or too old.
LEMMA ChannelArrives ==
  ASSUME ChannelInv, NEW n \in Out!Ids, NEW m \in Out!Ids, Out!Arrives(n, m)
  PROVE  ChannelInv'
<1> DEFINE verdict == Out!VerifyReply(m)
<1>0. /\ heldOut[n] = "waiting" /\ replies[m] # None /\ heldOut' = [heldOut EXCEPT ![n] = verdict]
      /\ UNCHANGED <<edgeNow, behind, book, theirs, channel, posed, replies>>
  BY DEF Out!Arrives
<1>1. verdict \in Heard \ {"waiting"}
  BY ChannelConstants DEF Out!VerifyReply, Heard
<1>2. channel # None
  BY <1>0 DEF ChannelInv, Posed
<1>3. CASE verdict \notin {"ok", "reply-replay"}
  BY <1>0, <1>1, <1>3, ChannelEnds DEF Out!Arrives
<1>4. CASE verdict \in {"ok", "reply-replay"}
  <2>0. /\ seen' = [k \in Out!Ids |-> IF k = m /\ verdict = "ok" THEN edgeNow ELSE IF k \in Out!Remembered THEN seen[k] ELSE 0]
        /\ agreed' = IF verdict = "ok" THEN [agreed EXCEPT ![m] = @ + 1] ELSE agreed
    BY <1>4 DEF Out!Arrives
  <2>1. ChannelTypes'
    BY <1>0, <1>1, <2>0 DEF ChannelInv, ChannelTypes
  <2>2. ASSUME NEW k \in Out!Ids PROVE Posed(k)'
    BY <1>0, <1>1 DEF ChannelInv, ChannelTypes, Posed
  <2>3. ASSUME NEW k \in Out!Ids PROVE Counted(k)'
    <3>0. /\ edgeNow \in Nat \ {0} /\ seen[k] \in Nat /\ Window \in Nat /\ agreed[k] \in Nat /\ DOMAIN agreed = Out!Ids
          /\ (replies[k] = None \/ (replies[k] \in Answers /\ replies[k].at \in Int /\ replies[k].at <= edgeNow)) /\ Counted(k)
      BY ChannelConstants DEF ChannelInv, ChannelTypes, Answers
    <3>1. CASE k = m /\ verdict = "ok"
      <4>1. /\ replies[k].kind = "reply" /\ replies[k].secret = channel /\ edgeNow - replies[k].at <= Window
            /\ ~(seen[k] # 0 /\ edgeNow - seen[k] <= Window)
        BY <1>0, <3>0, <3>1 DEF Out!VerifyReply, Out!Remembered, Answers
      <4>2. agreed[k] = 0
        BY <3>0, <4>1 DEF Counted, Kept
      <4>3. agreed'[k] = 1 /\ seen'[k] = edgeNow
        BY <2>0, <3>0, <3>1, <4>2
      <4> QED  BY <1>0, <3>0, <3>1, <4>1, <4>3 DEF Counted, Kept
    <3>2. CASE ~(k = m /\ verdict = "ok")
      <4>1. agreed'[k] = agreed[k] /\ seen'[k] = IF k \in Out!Remembered THEN seen[k] ELSE 0
        BY <2>0, <3>0, <3>2
      <4> QED  BY <1>0, <3>0, <4>1 DEF Counted, Kept, Out!Remembered
    <3> QED  BY <3>1, <3>2
  <2> QED  BY <1>0, <1>2, <2>1, <2>2, <2>3 DEF ChannelInv
<1> QED  BY <1>3, <1>4

LEMMA ChannelSteps == ChannelInv /\ (Out!EdgeNext \/ UNCHANGED edgeVars) => ChannelInv'
<1> SUFFICES ASSUME ChannelInv, Out!EdgeNext \/ UNCHANGED edgeVars PROVE ChannelInv'
  OBVIOUS
<1>1. CASE Out!EdgeTick \/ Out!SecretsChange \/ UNCHANGED edgeVars
  <2>1. /\ edgeNow' \in {edgeNow, edgeNow + 1} /\ book' \in {1, 2, None} /\ theirs' \in {1, 2}
        /\ UNCHANGED <<behind, channel, posed, replies, heldOut, seen, agreed>>
    BY <1>1 DEF ChannelInv, ChannelTypes, Out!EdgeTick, Out!SecretsChange, Out!Secrets, edgeVars
  <2> QED  BY <2>1, ChannelTicks
<1>2. CASE Out!EdgeRestart
  BY <1>2, ChannelRestarts
<1>3. ASSUME NEW n \in Out!Ids, Out!Ask(n) PROVE ChannelInv'
  BY <1>3, ChannelAsks
<1>4. ASSUME NEW n \in Out!Ids, Out!Reply(n) PROVE ChannelInv'
  BY <1>4, ChannelReplies
<1>5. ASSUME NEW n \in Out!Ids, Out!Unreachable(n) PROVE ChannelInv'
  BY <1>5, ChannelEnds, ChannelConstants DEF Out!Unreachable, Heard
<1>6. ASSUME NEW n \in Out!Ids, NEW m \in Out!Ids, Out!Arrives(n, m) PROVE ChannelInv'
  BY <1>6, ChannelArrives
<1> QED  BY <1>1, <1>2, <1>3, <1>4, <1>5, <1>6 DEF Out!EdgeNext

LEMMA ChannelHolds == ChannelInv => Out!RepliesCountOnce
BY DEF ChannelInv, Counted, Posed, Out!RepliesCountOnce

-----------------------------------------------------------------------------
(* The samples of the telemetry *)

Taken == [source : Sources, value : Nat, sequence : Nat]

\* A sample is of the past of its robot, and one that was taken before another of its robot is older.
Past(x) == x.sequence <= sequences[x.source] /\ x.value <= recorded /\ (pending[x.source] # 0 => x.value < pending[x.source])
Before(x, y) == x.source = y.source => x.sequence < y.sequence /\ x.value < y.value

SampleTypes ==
  /\ pending \in [Sources -> Nat] /\ sequences \in [Sources -> Nat] /\ recorded \in Nat
  /\ outbox \in Seq(Taken) /\ collector \in Seq(Taken)

SamplesInv ==
  /\ SampleTypes /\ \A s \in Sources : pending[s] <= recorded
  /\ \A i \in 1..Len(collector) : Past(collector[i])
  /\ \A i \in 1..Len(outbox) : Past(outbox[i])
  /\ \A i \in 1..Len(collector), j \in 1..Len(outbox) : Before(collector[i], outbox[j])
  /\ \A i, j \in 1..Len(outbox) : i < j => Before(outbox[i], outbox[j])
  /\ \A i, j \in 1..Len(collector) : i < j => Before(collector[i], collector[j])

LEMMA SampleConstants == IsFiniteSet(Sources)
BY RelaysAssumption DEF RelaysAssumption

LEMMA SamplesStart == Out!TelemetryInit => SamplesInv
BY DEF Out!TelemetryInit, SamplesInv, SampleTypes

LEMMA SamplesHold == SamplesInv => Out!SamplesInOrder
<1>1. SamplesInv => DOMAIN collector = 1..Len(collector) /\ \A i \in 1..Len(collector) : collector[i] \in Taken
  BY LenProperties DEF SamplesInv, SampleTypes
<1> QED  BY <1>1 DEF SamplesInv, Before, Out!SamplesInOrder

\* A sequence of samples without its first, and with another at its end.
LEMMA TakenTail ==
  ASSUME NEW s \in Seq(Taken), s # <<>>
  PROVE  /\ Head(s) = s[1] /\ Head(s) \in Taken /\ Tail(s) \in Seq(Taken) /\ Len(s) \in Nat \ {0} /\ Len(Tail(s)) = Len(s) - 1
         /\ \A i \in 1..Len(Tail(s)) : Tail(s)[i] = s[i + 1] /\ i + 1 \in 1..Len(s)
OBVIOUS

LEMMA TakenAppend ==
  ASSUME NEW s \in Seq(Taken), NEW x \in Taken
  PROVE  /\ Append(s, x) \in Seq(Taken) /\ Len(s) \in Nat /\ Len(Append(s, x)) = Len(s) + 1
         /\ \A i \in 1..Len(s) : Append(s, x)[i] = s[i]
         /\ Append(s, x)[Len(s) + 1] = x
OBVIOUS

LEMMA SamplePosted ==
  ASSUME SamplesInv, Out!Post
  PROVE  SamplesInv'
<1> DEFINE n == Len(collector)
<1>1. outbox \in Seq(Taken) /\ outbox # <<>> /\ collector \in Seq(Taken)
  BY DEF SamplesInv, SampleTypes, Out!Post
<1>2. /\ Head(outbox) = outbox[1] /\ Head(outbox) \in Taken /\ outbox' = Tail(outbox) /\ outbox' \in Seq(Taken)
      /\ 1 \in 1..Len(outbox) /\ Len(outbox') \in Nat
      /\ \A i \in 1..Len(outbox') : outbox'[i] = outbox[i + 1] /\ i + 1 \in 1..Len(outbox)
  BY <1>1, TakenTail DEF Out!Post
<1>3. /\ collector' \in Seq(Taken) /\ n \in Nat /\ Len(collector') = n + 1
      /\ \A i \in 1..n : collector'[i] = collector[i]
      /\ collector'[n + 1] = outbox[1]
  BY <1>1, <1>2, TakenAppend DEF Out!Post
<1>4. UNCHANGED <<pending, sequences, recorded>>
  BY DEF Out!Post
<1> HIDE DEF n
<1>6. \A i \in 1..n + 1 : i \in 1..n \/ i = n + 1
  BY <1>3
<1>7. /\ \A i \in 1..n : Past(collector[i])
      /\ \A i \in 1..Len(outbox) : Past(outbox[i])
      /\ \A i \in 1..n, j \in 1..Len(outbox) : Before(collector[i], outbox[j])
      /\ \A i, j \in 1..Len(outbox) : i < j => Before(outbox[i], outbox[j])
      /\ \A i, j \in 1..n : i < j => Before(collector[i], collector[j])
  BY DEF SamplesInv, n
<1>8. (\A i \in 1..Len(collector) : Past(collector[i]))'
  BY <1>2, <1>3, <1>4, <1>6, <1>7 DEF Past
<1>9. (\A i \in 1..Len(outbox) : Past(outbox[i]))'
  BY <1>2, <1>4, <1>7 DEF Past
<1>10. ASSUME NEW i \in 1..Len(collector'), NEW j \in 1..Len(outbox') PROVE Before(collector'[i], outbox'[j])
  <2>1. outbox'[j] = outbox[j + 1] /\ j + 1 \in 1..Len(outbox) /\ 1 < j + 1
    BY <1>2
  <2> QED  BY <1>2, <1>3, <1>6, <1>7, <2>1
<1>11. ASSUME NEW i \in 1..Len(outbox'), NEW j \in 1..Len(outbox'), i < j PROVE Before(outbox'[i], outbox'[j])
  <2>1. i + 1 < j + 1
    BY <1>11, <1>2
  <2> QED  BY <1>2, <1>7, <2>1
<1>12. ASSUME NEW i \in 1..Len(collector'), NEW j \in 1..Len(collector'), i < j PROVE Before(collector'[i], collector'[j])
  <2>1. i \in 1..n
    BY <1>3, <1>12
  <2> QED  BY <1>2, <1>3, <1>6, <1>7, <1>12, <2>1
<1>13. SampleTypes' /\ \A s \in Sources : pending'[s] <= recorded'
  BY <1>2, <1>3, <1>4 DEF SamplesInv, SampleTypes
<1>14. /\ \A i \in 1..Len(collector'), j \in 1..Len(outbox') : Before(collector'[i], outbox'[j])
       /\ \A i, j \in 1..Len(outbox') : i < j => Before(outbox'[i], outbox'[j])
       /\ \A i, j \in 1..Len(collector') : i < j => Before(collector'[i], collector'[j])
  BY <1>10, <1>11, <1>12
<1> QED  BY <1>8, <1>9, <1>13, <1>14 DEF SamplesInv, Before

\* What a flush takes is newer than everything that was sent, and of each robot once.
LEMMA SampleFlushed ==
  ASSUME SamplesInv, Out!Flush
  PROVE  SamplesInv'
<1> DEFINE count == Cardinality(Out!Waiting)
           ids == Out!SetToSeq(Out!Waiting)
           sample(i) == [source |-> ids[i], value |-> pending[ids[i]], sequence |-> sequences[ids[i]] + 1]
<1>1. IsFiniteSet(Out!Waiting) /\ count \in Nat /\ ExistsBijection(1..count, Out!Waiting)
  BY SampleConstants, FS_Subset, FS_CardinalityType DEF Out!Waiting
<1>2. ids = CHOOSE f \in [1..count -> Out!Waiting] : Out!IsInjective(f)
  BY DEF Out!SetToSeq, Out!Cardinality, Cardinality
<1>3. \E f \in [1..count -> Out!Waiting] : Out!IsInjective(f)
  BY <1>1 DEF ExistsBijection, Bijection, Injection, IsInjective, Out!IsInjective
<1>4. ids \in [1..count -> Out!Waiting] /\ Out!IsInjective(ids)
  BY <1>2, <1>3
<1>5. outbox' = [i \in 1..count |-> sample(i)]
  BY <1>4 DEF Out!Flush
<1> HIDE DEF ids
<1>6. /\ pending \in [Sources -> Nat] /\ sequences \in [Sources -> Nat] /\ recorded \in Nat /\ collector \in Seq(Taken)
      /\ \A s \in Sources : pending[s] <= recorded
      /\ \A i \in 1..Len(collector) : Past(collector[i]) /\ collector[i] \in Taken
  BY DEF SamplesInv, SampleTypes
<1>7. /\ sequences' = [s \in Sources |-> sequences[s] + IF s \in Out!Waiting THEN 1 ELSE 0] /\ pending' = [s \in Sources |-> 0]
      /\ recorded' = recorded /\ collector' = collector
  BY DEF Out!Flush
<1>8. \A i \in 1..count : ids[i] \in Sources /\ ids[i] \in Out!Waiting /\ pending[ids[i]] # 0
  BY <1>4 DEF Out!Waiting
<1>9. \A i, j \in 1..count : i # j => ids[i] # ids[j]
  BY <1>4 DEF Out!IsInjective
<1>10. \A i \in 1..count : sample(i) \in Taken
  BY <1>6, <1>8 DEF Taken
<1>11. /\ outbox' \in Seq(Taken) /\ Len(outbox') = count
       /\ \A i \in 1..count : outbox'[i].source = ids[i] /\ outbox'[i].value = pending[ids[i]] /\ outbox'[i].sequence = sequences[ids[i]] + 1
  BY <1>1, <1>5, <1>10
<1>12. SampleTypes' /\ \A s \in Sources : pending'[s] <= recorded'
  BY <1>6, <1>7, <1>11 DEF SampleTypes
<1>13. ASSUME NEW i \in 1..Len(collector) PROVE Past(collector[i])'
  <2>1. collector[i].source \in Sources /\ collector[i].sequence \in Nat
    BY <1>6 DEF Taken
  <2> QED  BY <1>6, <1>7, <2>1 DEF Past
<1>14. ASSUME NEW i \in 1..count PROVE Past(outbox[i])'
  <2>1. ids[i] \in Sources /\ ids[i] \in Out!Waiting /\ sequences'[ids[i]] = sequences[ids[i]] + 1 /\ pending'[ids[i]] = 0
    BY <1>6, <1>7, <1>8
  <2>2. outbox'[i].sequence <= sequences'[outbox'[i].source]
    BY <1>6, <1>11, <2>1
  <2>3. outbox'[i].value <= recorded' /\ pending'[outbox'[i].source] = 0
    BY <1>6, <1>7, <1>11, <2>1
  <2> QED  BY <2>2, <2>3 DEF Past
<1>15. ASSUME NEW i \in 1..Len(collector), NEW j \in 1..count PROVE Before(collector[i], outbox'[j])
  <2>1. collector[i].source \in Sources /\ collector[i].sequence \in Nat /\ Past(collector[i])
    BY <1>6 DEF Taken
  <2> QED  BY SMTT(30), <1>6, <1>8, <1>11, <2>1 DEF Past, Before
<1>16. ASSUME NEW i \in 1..count, NEW j \in 1..count, i < j PROVE Before(outbox'[i], outbox'[j])
  <2>1. i # j
    BY <1>1, <1>16
  <2> QED  BY <1>9, <1>11, <2>1 DEF Before
<1> QED  BY <1>7, <1>11, <1>12, <1>13, <1>14, <1>15, <1>16 DEF SamplesInv, Before

\* A number that is recorded is newer than all that was taken.
LEMMA SampleRecorded ==
  ASSUME SamplesInv, NEW s \in Sources, Out!Record(s)
  PROVE  SamplesInv'
<1>1. /\ pending \in [Sources -> Nat] /\ recorded \in Nat /\ recorded' = recorded + 1 /\ \A r \in Sources : pending[r] <= recorded
      /\ UNCHANGED <<sequences, outbox, collector>>
  BY DEF SamplesInv, SampleTypes, Out!Record
<1>2. /\ pending' \in [Sources -> Nat]
      /\ \A r \in Sources : pending'[r] <= recorded' /\ (pending'[r] = pending[r] \/ pending'[r] = recorded + 1)
  BY <1>1 DEF Out!Record
<1>3. ASSUME NEW x \in Taken, Past(x) PROVE Past(x)'
  BY <1>1, <1>2, <1>3 DEF Past, Taken
<1>4. SampleTypes'
  BY <1>1, <1>2 DEF SamplesInv, SampleTypes
<1>5. /\ \A i \in 1..Len(collector) : collector[i] \in Taken /\ Past(collector[i])
      /\ \A i \in 1..Len(outbox) : outbox[i] \in Taken /\ Past(outbox[i])
  BY DEF SamplesInv, SampleTypes
<1>6. /\ \A i \in 1..Len(collector) : Past(collector[i])'
      /\ \A i \in 1..Len(outbox) : Past(outbox[i])'
  BY <1>1, <1>3, <1>5
<1> QED  BY <1>1, <1>2, <1>4, <1>6 DEF SamplesInv

LEMMA SampleSteps == SamplesInv /\ (Out!TelemetryNext \/ UNCHANGED telemetryVars) => SamplesInv'
<1> SUFFICES ASSUME SamplesInv, Out!TelemetryNext \/ UNCHANGED telemetryVars PROVE SamplesInv'
  OBVIOUS
<1>1. CASE Out!PauseEnds \/ UNCHANGED telemetryVars
  BY <1>1 DEF SamplesInv, SampleTypes, Past, Out!PauseEnds, telemetryVars
<1>2. CASE Out!Posted
  <2>1. CASE UNCHANGED outbox
    BY <1>2, <2>1 DEF SamplesInv, SampleTypes, Past, Out!Posted
  <2>2. CASE outbox' = <<>>
    <3>1. outbox' \in Seq(Taken) /\ Len(outbox') = 0 /\ 1..0 = {}
      BY <2>2
    <3> QED  BY <1>2, <2>2, <3>1 DEF SamplesInv, SampleTypes, Past, Out!Posted
  <2> QED  BY <1>2, <2>1, <2>2 DEF Out!Posted
<1>3. CASE Out!Post
  BY <1>3, SamplePosted
<1>4. CASE Out!Flush
  BY <1>4, SampleFlushed
<1>5. ASSUME NEW s \in Sources, Out!Record(s) PROVE SamplesInv'
  BY <1>5, SampleRecorded
<1> QED  BY <1>1, <1>2, <1>3, <1>4, <1>5 DEF Out!TelemetryNext

-----------------------------------------------------------------------------
(* The switches of services, the decision on a proposal and the flash *)

\* A request that is carried has the confirmation it needs; what is refused for the want of one is over at once.
Sound(q) == Service!Risky(q.what, q.to) => q.confirm

ServicesInv ==
  /\ request \in [Requests -> Relayed \union {None}] /\ carried \in SUBSET Requests
  /\ \A r \in carried : request[r] # None
  /\ \A r \in Requests : request[r] # None => Sound(request[r]) \/ (request[r].stage = "closed" /\ r \notin carried)
  /\ \A r \in Requests : request[r] # None /\ request[r].phase = "done" => r \in carried
  /\ \A r \in Requests : request[r] # None /\ request[r].stage = "streaming" => request[r].what = "flash"
  /\ \A r, s \in carried : request[r].what = "proposal" /\ request[s].what = "proposal" => r = s /\ proposal # "pending"

LEMMA ServiceConstants == None \notin Relayed
BY RelaysAssumption DEF RelaysAssumption

LEMMA ServicesStart == Service!Init => ServicesInv
BY DEF Service!Init, ServicesInv

LEMMA ServicesHold == ServicesInv => Service!RiskIsConfirmed /\ Service!FlashIsTrue
<1> SUFFICES ASSUME ServicesInv PROVE Service!RiskIsConfirmed /\ Service!FlashIsTrue
  OBVIOUS
<1> DEFINE decided == {r \in carried : request[r].what = "proposal"}
<1>1. Cardinality(decided) <= 1
  <2>1. CASE decided = {}
    <3>1. Cardinality({}) = 0
      BY FS_EmptySet
    <3> QED  BY <2>1, <3>1
  <2>2. CASE decided # {}
    <3>1. PICK r \in decided : TRUE
      BY <2>2
    <3>2. decided = {r}
      BY <3>1 DEF ServicesInv
    <3>3. Cardinality({r}) = 1
      BY FS_Singleton
    <3> QED  BY <3>2, <3>3
  <2> QED  BY <2>1, <2>2
<1>2. \A r \in carried : Service!Risky(request[r].what, request[r].to) => request[r].confirm
  BY DEF ServicesInv, Sound
<1>3. Service!RiskIsConfirmed
  BY <1>1, <1>2 DEF Service!RiskIsConfirmed, Service!Cardinality, Cardinality
<1>4. Service!FlashIsTrue
  BY DEF ServicesInv, Service!FlashIsTrue, Service!Success
<1> QED  BY <1>3, <1>4

\* A request that comes is new, and what it changed is nothing.
LEMMA ServiceArrives ==
  ASSUME ServicesInv, NEW r \in Requests, NEW what \in Service!Kinds, NEW to \in BOOLEAN, NEW confirm \in BOOLEAN,
         NEW stage \in {"sent", "answered", "closed"}, NEW status \in Nat, Service!Arrives(r, what, to, confirm, stage, status),
         stage = "closed" \/ (Service!Risky(what, to) => confirm)
  PROVE  ServicesInv'
<1> DEFINE q == [what |-> what, to |-> to, confirm |-> confirm, stage |-> stage, status |-> status, phase |-> "unknown", here |-> TRUE]
<1>1. q \in Relayed /\ request[r] = None /\ request' = [request EXCEPT ![r] = q] /\ UNCHANGED <<proposal, carried>>
  BY DEF Relayed, Service!Arrives
<1>2. r \notin carried /\ (Sound(q) \/ q.stage = "closed") /\ q.phase = "unknown" /\ q # None
  BY <1>1, ServiceConstants DEF ServicesInv, Sound
<1> HIDE DEF q
<1>3. request' \in [Requests -> Relayed \union {None}] /\ carried' \in SUBSET Requests
  BY <1>1 DEF ServicesInv
<1>4. \A s \in Requests : request'[s] = IF s = r THEN q ELSE request[s]
  BY <1>1 DEF ServicesInv
<1>5. \A s \in carried' : request'[s] = request[s] /\ s \in carried
  BY <1>1, <1>2, <1>4 DEF ServicesInv
<1>6. \A s \in Requests : request'[s] # None => Sound(request'[s]) \/ (request'[s].stage = "closed" /\ s \notin carried')
  BY <1>1, <1>2, <1>4 DEF ServicesInv
<1>7. \A s \in Requests : request'[s] # None /\ request'[s].phase = "done" => s \in carried'
  BY <1>1, <1>2, <1>4 DEF ServicesInv
<1>8. \A s \in Requests : request'[s] # None /\ request'[s].stage = "streaming" => request'[s].what = "flash"
  BY <1>1, <1>4 DEF ServicesInv, q
<1> QED  BY <1>1, <1>3, <1>5, <1>6, <1>7, <1>8 DEF ServicesInv, Sound

\* A request that goes on is the same request; it is carried from where it was sent, and a proposal is decided once.
LEMMA ServiceGoesOn ==
  ASSUME ServicesInv, NEW r \in Requests, NEW q \in Relayed, request[r] # None, request' = [request EXCEPT ![r] = q],
         q.what = request[r].what, q.to = request[r].to, q.confirm = request[r].confirm,
         request[r].stage # "closed" \/ (q.stage = "closed" /\ carried' = carried),
         carried' \in {carried, carried \union {r}}, q.phase = "done" => request[r].phase = "done" \/ r \in carried',
         q.what = "proposal" /\ r \in carried' => r \in carried \/ (proposal = "pending" /\ proposal' # "pending"),
         proposal # "pending" => proposal' # "pending", q.stage = "streaming" => q.what = "flash"
  PROVE  ServicesInv'
<1>1. /\ carried \in SUBSET Requests /\ carried' \in SUBSET Requests /\ carried \subseteq carried'
      /\ \A s \in carried' : s = r \/ s \in carried
  BY DEF ServicesInv
<1>2. request' \in [Requests -> Relayed \union {None}]
  BY DEF ServicesInv
<1>3. \A s \in Requests : request'[s] = IF s = r THEN q ELSE request[s]
  BY DEF ServicesInv
<1>4. q # None
  BY ServiceConstants
<1>5. \A s \in carried' : request'[s] # None
  BY <1>1, <1>3, <1>4 DEF ServicesInv
<1>6. ASSUME NEW s \in Requests, request'[s] # None PROVE Sound(request'[s]) \/ (request'[s].stage = "closed" /\ s \notin carried')
  <2>1. CASE s = r
    <3>1. CASE request[r].stage # "closed"
      <4>1. Sound(request[r])
        BY <3>1 DEF ServicesInv
      <4> QED  BY <1>3, <2>1, <4>1 DEF Sound
    <3>2. CASE request[r].stage = "closed"
      <4>1. Sound(request[r]) \/ r \notin carried
        BY DEF ServicesInv
      <4> QED  BY <1>3, <2>1, <3>2, <4>1 DEF Sound
    <3> QED  BY <3>1, <3>2
  <2>2. CASE s # r
    BY <1>1, <1>3, <1>6, <2>2 DEF ServicesInv
  <2> QED  BY <2>1, <2>2
<1>7. \A s \in Requests : request'[s] # None /\ request'[s].phase = "done" => s \in carried'
  BY <1>1, <1>3 DEF ServicesInv
<1>8. ASSUME NEW s \in carried', NEW t \in carried', request'[s].what = "proposal", request'[t].what = "proposal"
      PROVE  s = t /\ proposal' # "pending"
  <2>1. \A u \in carried : request'[u].what = request[u].what
    BY <1>1, <1>3
  <2>2. CASE s \in carried /\ t \in carried
    BY <1>8, <2>1, <2>2 DEF ServicesInv
  <2>3. CASE r \notin carried /\ r \in carried' /\ q.what = "proposal"
    <3>1. \A u \in carried : request[u].what # "proposal"
      BY <2>3 DEF ServicesInv
    <3> QED  BY <1>1, <1>8, <2>1, <2>3, <3>1
  <2> QED  BY <1>1, <1>3, <1>8, <2>2, <2>3
<1>9. \A s \in Requests : request'[s] # None /\ request'[s].stage = "streaming" => request'[s].what = "flash"
  BY <1>3 DEF ServicesInv
<1> QED  BY <1>1, <1>2, <1>5, <1>6, <1>7, <1>8, <1>9 DEF ServicesInv

\* Most steps of a request change how far it is and nothing else that counts.
LEMMA ServiceMoves ==
  ASSUME ServicesInv, NEW r \in Requests, request[r] # None, request[r].stage # "closed", NEW stage \in {"streaming", "replied", "answered"},
         NEW status \in Nat, stage = "streaming" => request[r].what = "flash", Service!Moves(r, stage, status), UNCHANGED <<proposal, carried>>
  PROVE  ServicesInv'
<1> DEFINE q == [request[r] EXCEPT !.stage = stage, !.status = status]
<1>1. request[r] \in Relayed /\ DOMAIN request = Requests
  BY DEF ServicesInv
<1>2. q \in Relayed /\ q.what = request[r].what /\ q.to = request[r].to /\ q.confirm = request[r].confirm /\ q.phase = request[r].phase
  BY <1>1 DEF Relayed
<1>3. request' = [request EXCEPT ![r] = q]
  BY <1>1 DEF Service!Moves, Relayed
<1>4. q.stage = stage
  BY <1>1 DEF Relayed
<1> HIDE DEF q
<1> QED  BY <1>2, <1>3, <1>4, ServiceGoesOn

LEMMA ServiceSteps == ServicesInv /\ (Service!Next \/ UNCHANGED serviceVars) => ServicesInv'
<1> SUFFICES ASSUME ServicesInv, Service!Next \/ UNCHANGED serviceVars PROVE ServicesInv'
  OBVIOUS
<1>1. CASE UNCHANGED serviceVars
  BY <1>1 DEF ServicesInv, Sound, serviceVars
<1>r. \A r \in Requests : request[r] # None => request[r] \in Relayed
  BY DEF ServicesInv
<1>2. ASSUME NEW r \in Requests, NEW what \in Service!Kinds, Service!Malformed(r, what) PROVE ServicesInv'
  <2>1. Service!Arrives(r, what, FALSE, FALSE, "closed", 400) /\ 400 \in Nat
    BY <1>2 DEF Service!Malformed, Service!Arrives
  <2> QED  BY <2>1, ServiceArrives
<1>3. ASSUME NEW r \in Requests, NEW what \in Service!Kinds, NEW to \in BOOLEAN, NEW confirm \in BOOLEAN, Service!Post(r, what, to, confirm)
      PROVE  ServicesInv'
  <2>1. \E stage \in {"sent", "answered", "closed"}, status \in Nat :
          /\ Service!Arrives(r, what, to, confirm, stage, status)
          /\ stage = "closed" \/ (Service!Risky(what, to) => confirm)
    BY <1>3 DEF Service!Post
  <2> QED  BY <2>1, ServiceArrives
<1>4. ASSUME NEW r \in Requests, Service!ServiceSwitches(r) PROVE ServicesInv'
  <2>0. PICK q : q = [request[r] EXCEPT !.stage = "replied", !.status = 200]
    OBVIOUS
  <2>1. /\ request[r] # None /\ request[r].stage = "sent" /\ request[r].what \in Service!Switch
        /\ carried' = carried \union {r} /\ proposal' = proposal /\ Service!Moves(r, "replied", 200)
    BY <1>4 DEF Service!ServiceSwitches, Service!To
  <2>2. /\ q \in Relayed /\ q.what = request[r].what /\ q.to = request[r].to /\ q.confirm = request[r].confirm
        /\ q.phase = request[r].phase /\ q.stage = "replied"
    <3>1. request[r] \in Relayed /\ 200 \in Nat
      BY <1>r, <2>1
    <3> QED  BY <2>0, <3>1 DEF Relayed
  <2>4. request[r].what # "proposal"
    BY <2>1 DEF Service!Switch
  <2>3. request' = [request EXCEPT ![r] = q]
    BY <1>r, <2>0, <2>1 DEF Service!Moves, Relayed, ServicesInv
  <2> QED  BY <2>1, <2>2, <2>3, <2>4, ServiceGoesOn
<1>5. ASSUME NEW r \in Requests, Service!WatchdogDecides(r) PROVE ServicesInv'
  <2>1. request[r] # None /\ request[r].stage = "sent" /\ request[r].what = "proposal"
    BY <1>5 DEF Service!WatchdogDecides, Service!To
  <2>2. CASE proposal = "pending"
    <3>0. PICK q : q = [request[r] EXCEPT !.stage = "replied", !.status = 200]
      OBVIOUS
    <3>1. proposal' # "pending" /\ carried' = carried \union {r} /\ Service!Moves(r, "replied", 200)
      BY <1>5, <2>2 DEF Service!WatchdogDecides
    <3>2. /\ q \in Relayed /\ q.what = request[r].what /\ q.to = request[r].to /\ q.confirm = request[r].confirm
          /\ q.phase = request[r].phase /\ q.stage = "replied"
      <4>1. request[r] \in Relayed /\ 200 \in Nat
        BY <1>r, <2>1
      <4> QED  BY <3>0, <4>1 DEF Relayed
    <3>3. request' = [request EXCEPT ![r] = q]
      BY <1>r, <2>1, <3>0, <3>1 DEF Service!Moves, Relayed, ServicesInv
    <3> QED  BY <2>1, <2>2, <3>1, <3>2, <3>3, ServiceGoesOn
  <2>3. CASE proposal # "pending"
    <3>1. Service!Moves(r, "replied", 404) /\ UNCHANGED <<proposal, carried>> /\ 404 \in Nat
      BY <1>5, <2>3 DEF Service!WatchdogDecides
    <3> QED  BY <2>1, <3>1, ServiceMoves
  <2> QED  BY <2>2, <2>3
<1>6. ASSUME NEW r \in Requests, Service!ServiceRefuses(r) \/ Service!FlashStarts(r) \/ Service!StreamEnds(r) \/ Service!Reply(r) \/ Service!NoReply(r)
      PROVE  ServicesInv'
  <2>1. /\ request[r] # None /\ request[r].stage # "closed" /\ UNCHANGED <<proposal, carried>>
        /\ \E stage \in {"streaming", "replied", "answered"}, status \in Nat :
             Service!Moves(r, stage, status) /\ (stage = "streaming" => request[r].what = "flash")
    BY <1>6, <1>r DEF Service!ServiceRefuses, Service!FlashStarts, Service!StreamEnds, Service!Reply, Service!NoReply, Service!To, Relayed
  <2> QED  BY <2>1, ServiceMoves
<1>7. ASSUME NEW r \in Requests, Service!Progress(r) PROVE ServicesInv'
  <2>1. request[r] # None /\ request[r].stage = "streaming" /\ proposal' = proposal /\ request[r] \in Relayed /\ DOMAIN request = Requests
    BY <1>7, <1>r DEF Service!Progress, Service!To, ServicesInv
  <2>2. PICK phase \in {"writing", "failed", "done"}, read \in BOOLEAN :
          /\ request' = IF read THEN [request EXCEPT ![r].phase = phase] ELSE request
          /\ carried' = IF phase = "done" THEN carried \union {r} ELSE carried
    BY <1>7 DEF Service!Progress
  <2> DEFINE q == IF read THEN [request[r] EXCEPT !.phase = phase] ELSE request[r]
  <2>3. /\ q \in Relayed /\ q.what = request[r].what /\ q.to = request[r].to /\ q.confirm = request[r].confirm
        /\ q.stage = "streaming" /\ q.what = "flash"
        /\ q.phase = "done" => request[r].phase = "done" \/ r \in carried'
    BY <2>1, <2>2 DEF Relayed, ServicesInv
  <2>4. request' = [request EXCEPT ![r] = q]
    BY <2>1, <2>2 DEF ServicesInv
  <2> HIDE DEF q
  <2> QED  BY <2>1, <2>2, <2>3, <2>4, ServiceGoesOn
<1>8. ASSUME NEW r \in Requests, Service!Leaves(r) PROVE ServicesInv'
  <2> DEFINE q == [request[r] EXCEPT !.here = FALSE]
  <2>1. request[r] # None /\ request[r].stage # "closed" /\ UNCHANGED <<proposal, carried>> /\ request[r] \in Relayed
        /\ request' = [request EXCEPT ![r] = q]
    BY <1>8, <1>r DEF Service!Leaves, ServicesInv
  <2>2. /\ q \in Relayed /\ q.what = request[r].what /\ q.to = request[r].to /\ q.confirm = request[r].confirm
        /\ q.phase = request[r].phase /\ (q.stage = "streaming" => q.what = "flash")
    BY <2>1 DEF Relayed, ServicesInv
  <2> HIDE DEF q
  <2> QED  BY <2>1, <2>2, ServiceGoesOn
<1>9. ASSUME NEW r \in Requests, Service!Respond(r) PROVE ServicesInv'
  <2> DEFINE q == [request[r] EXCEPT !.stage = "closed"]
  <2>1. request[r] # None /\ request[r].stage # "closed" /\ UNCHANGED <<proposal, carried>> /\ request[r] \in Relayed
        /\ request' = [request EXCEPT ![r] = q]
    BY <1>9, <1>r DEF Service!Respond, Service!To, ServicesInv
  <2>2. /\ q \in Relayed /\ q.what = request[r].what /\ q.to = request[r].to /\ q.confirm = request[r].confirm
        /\ q.phase = request[r].phase /\ q.stage = "closed"
    BY <2>1 DEF Relayed
  <2> HIDE DEF q
  <2> QED  BY <2>1, <2>2, ServiceGoesOn
<1> QED  BY <1>1, <1>2, <1>3, <1>4, <1>5, <1>6, <1>7, <1>8, <1>9 DEF Service!Next

-----------------------------------------------------------------------------
(* The spoken requests *)

Spoken == [id : RequestIds, subject : Speakers \union {None}, by : Speakers, used : BOOLEAN, passed : BOOLEAN]

\* A token of this request and subject was used.
Used(id, v) == \E t \in 1..Len(spoken) : spoken[t].used /\ spoken[t].id = id /\ spoken[t].subject = v

\* What the Voice UI signs, and an answer that is worth what its signature says.
Genuine(id, v) == [status |-> "confirmed", id |-> id, subject |-> v,
                   signature |-> [key |-> "shared", status |-> "confirmed", id |-> id, subject |-> v]]
Honest(result) == \A key \in {"shared", "another"} :
  result.id # None /\ result.signature = Service!SignResult(result, key) => Used(result.id, result.subject)

\* A user who waits can be a subject, and what came for him is honest.
Awaited(u) ==
  asking[u] = None \/ (/\ u \in SafeNames /\ asking[u] = [token |-> asking[u].token, result |-> asking[u].result]
                       /\ asking[u].token \in 1..Len(spoken) /\ (asking[u].result = None \/ Honest(asking[u].result)))

VoiceTypes == spoken \in Seq(Spoken) /\ DOMAIN asking = Speakers /\ asking = [u \in Speakers |-> asking[u]]

VoiceInv ==
  /\ VoiceTypes
  /\ \A t \in 1..Len(spoken) : spoken[t].subject = Service!SubjectOf(spoken[t].by)
  /\ \A result \in signed : \E id \in RequestIds, v \in Speakers : result = Genuine(id, v) /\ Used(id, v)
  /\ \A u \in Speakers : Awaited(u)
  /\ \A a \in confirmations : a.verified => \E t \in 1..Len(spoken) : spoken[t].by = a.user /\ spoken[t].id = a.id /\ spoken[t].used

LEMMA VoiceConstants == None \notin Speakers /\ None \notin Signatures /\ SafeNames \subseteq Speakers
BY RelaysAssumption DEF RelaysAssumption

\* What is signed, and what is changed of it or made without the key, field by field.
Changed(old, id, v) == [old EXCEPT !.id = id, !.subject = v]
Guessed(id, v) == Service!Signed(Service!Result("confirmed", id, v), "guessed")

LEMMA SignedFields ==
  ASSUME NEW id, NEW v, NEW key
  PROVE  Service!Signed(Service!Result("confirmed", id, v), key) =
           [status |-> "confirmed", id |-> id, subject |-> v,
            signature |-> [key |-> key, status |-> "confirmed", id |-> id, subject |-> v]]
<1>1. PICK r : r = Service!Result("confirmed", id, v)
  OBVIOUS
<1>2. r = [status |-> "confirmed", id |-> id, subject |-> v, signature |-> None]
  BY <1>1 DEF Service!Result
<1>3. Service!Signed(r, key) = [status |-> "confirmed", id |-> id, subject |-> v,
                                signature |-> [key |-> key, status |-> "confirmed", id |-> id, subject |-> v]]
  BY <1>2 DEF Service!Signed, Service!SignResult
<1> QED  BY <1>1, <1>3

LEMMA ChangedFields ==
  ASSUME NEW old, NEW i, NEW w, old = Genuine(i, w), NEW id, NEW v
  PROVE  Changed(old, id, v) = [status |-> "confirmed", id |-> id, subject |-> v,
                                signature |-> [key |-> "shared", status |-> "confirmed", id |-> i, subject |-> w]]
<1>1. PICK s : s = [key |-> "shared", status |-> "confirmed", id |-> i, subject |-> w]
  OBVIOUS
<1>2. old = [status |-> "confirmed", id |-> i, subject |-> w, signature |-> s]
  BY <1>1 DEF Genuine
<1>3. PICK o : o = [old EXCEPT !.id = id]
  OBVIOUS
<1>4. o = [status |-> "confirmed", id |-> id, subject |-> w, signature |-> s]
  BY <1>2, <1>3
<1>5. [o EXCEPT !.subject = v] = [status |-> "confirmed", id |-> id, subject |-> v, signature |-> s]
  BY <1>4
<1>6. Changed(old, id, v) = [o EXCEPT !.subject = v]
  BY <1>2, <1>3 DEF Changed
<1> QED  BY <1>1, <1>5, <1>6

LEMMA VoiceStarts == Service!VoiceInit => VoiceInv
<1> SUFFICES ASSUME Service!VoiceInit PROVE VoiceInv
  OBVIOUS
<1>0. spoken = <<>> /\ signed = {} /\ confirmations = {} /\ asking = [u \in Speakers |-> None]
  BY DEF Service!VoiceInit
<1>1. Len(spoken) = 0 /\ spoken \in Seq(Spoken) /\ 1..0 = {}
  BY <1>0
<1>2. DOMAIN asking = Speakers /\ asking = [u \in Speakers |-> asking[u]] /\ \A u \in Speakers : asking[u] = None
  BY <1>0
<1> QED  BY <1>0, <1>1, <1>2 DEF VoiceInv, VoiceTypes, Awaited

LEMMA VoiceHolds == VoiceInv => Service!VerifiedIsTheirs
<1> SUFFICES ASSUME VoiceInv PROVE Service!VerifiedIsTheirs
  OBVIOUS
<1>1. DOMAIN spoken = 1..Len(spoken)
  BY LenProperties DEF VoiceInv, VoiceTypes
<1> QED  BY <1>1, VoiceConstants DEF VoiceInv, Awaited, Service!VerifiedIsTheirs

\* Tokens are added, and used; what was so of them stays so.
Grows == /\ spoken' \in Seq(Spoken) /\ Len(spoken') \in Nat /\ Len(spoken) \in Nat /\ Len(spoken) <= Len(spoken')
         /\ \A t \in 1..Len(spoken) :
              /\ spoken'[t].id = spoken[t].id /\ spoken'[t].subject = spoken[t].subject /\ spoken'[t].by = spoken[t].by
              /\ spoken[t].used => spoken'[t].used
         /\ \A t \in 1..Len(spoken') : spoken'[t].subject = Service!SubjectOf(spoken'[t].by)

LEMMA UsedStays ==
  ASSUME Grows, NEW id, NEW v, Used(id, v)
  PROVE  Used(id, v)'
<1>1. PICK t \in 1..Len(spoken) : spoken[t].used /\ spoken[t].id = id /\ spoken[t].subject = v
  BY DEF Used
<1>2. t \in 1..Len(spoken') /\ spoken'[t].used /\ spoken'[t].id = id /\ spoken'[t].subject = v
  BY <1>1 DEF Grows
<1> QED  BY <1>2 DEF Used

LEMMA VoiceGrows ==
  ASSUME VoiceInv, Grows, DOMAIN asking' = Speakers, asking' = [u \in Speakers |-> asking'[u]],
         \A result \in signed' : result \in signed \/ \E id \in RequestIds, v \in Speakers : result = Genuine(id, v) /\ Used(id, v)',
         \A u \in Speakers : asking'[u] = asking[u] \/ Awaited(u)',
         \A a \in confirmations' : a \in confirmations \/
           (a.verified => \E t \in 1..Len(spoken) : spoken[t].by = a.user /\ spoken[t].id = a.id /\ spoken[t].used)
  PROVE  VoiceInv'
<1>1. \A t \in 1..Len(spoken) : t \in 1..Len(spoken')
  BY DEF Grows
<1>2. ASSUME NEW result \in signed' PROVE \E id \in RequestIds, v \in Speakers : result = Genuine(id, v) /\ Used(id, v)'
  <2>1. CASE result \in signed
    <3>1. PICK id \in RequestIds, v \in Speakers : result = Genuine(id, v) /\ Used(id, v)
      BY <2>1 DEF VoiceInv
    <3> QED  BY <3>1, UsedStays
  <2> QED  BY <2>1
<1>3. ASSUME NEW u \in Speakers PROVE Awaited(u)'
  <2>1. CASE asking'[u] = asking[u] /\ asking[u] # None
    <3>1. Awaited(u)
      BY DEF VoiceInv
    <3>2. asking'[u].result = None \/ Honest(asking[u].result)'
      <4>0. PICK result : result = asking[u].result
        OBVIOUS
      <4>1. result = None \/ Honest(result)
        BY <2>1, <3>1, <4>0 DEF Awaited
      <4>2. ASSUME NEW key \in {"shared", "another"}, result # None, result.id # None, result.signature = Service!SignResult(result, key)
            PROVE  Used(result.id, result.subject)'
        <5>1. Used(result.id, result.subject)
          BY <4>1, <4>2 DEF Honest
        <5> QED  BY <5>1, UsedStays
      <4>3. result = None \/ Honest(result)'
        BY <4>2 DEF Honest, Service!SignResult
      <4> QED  BY <2>1, <4>0, <4>3 DEF Honest, Used
    <3> QED  BY <1>1, <2>1, <3>1, <3>2 DEF Awaited
  <2>2. CASE asking'[u] = asking[u] /\ asking[u] = None
    BY <2>2 DEF Awaited
  <2> QED  BY <2>1, <2>2
<1>4. ASSUME NEW a \in confirmations', a.verified
      PROVE  \E t \in 1..Len(spoken') : spoken'[t].by = a.user /\ spoken'[t].id = a.id /\ spoken'[t].used
  <2>1. PICK t \in 1..Len(spoken) : spoken[t].by = a.user /\ spoken[t].id = a.id /\ spoken[t].used
    BY <1>4 DEF VoiceInv
  <2>2. t \in 1..Len(spoken') /\ spoken'[t].by = a.user /\ spoken'[t].id = a.id /\ spoken'[t].used
    BY <1>1, <2>1 DEF Grows
  <2> QED  BY <2>2
<1> QED  BY <1>2, <1>3, <1>4 DEF VoiceInv, VoiceTypes, Grows

\* Nothing is said: the tokens are as they were.
LEMMA VoiceSilent ==
  ASSUME VoiceInv, spoken' = spoken
  PROVE  Grows
BY LenProperties DEF VoiceInv, VoiceTypes, Grows

LEMMA VoiceTurned ==
  ASSUME VoiceInv, NEW u \in Speakers, NEW id \in RequestIds, NEW claimed, Service!VoiceTurn(u, id, claimed)
  PROVE  VoiceInv'
<1>1. PICK passed \in BOOLEAN : spoken' = Append(spoken, [id |-> id, subject |-> Service!Forwarded(u, claimed), by |-> u, used |-> FALSE, passed |-> passed])
  BY DEF Service!VoiceTurn
<1> DEFINE word == [id |-> id, subject |-> Service!Forwarded(u, claimed), by |-> u, used |-> FALSE, passed |-> passed]
<1>2. word \in Spoken /\ word.subject = Service!SubjectOf(word.by) /\ spoken \in Seq(Spoken)
  BY DEF Spoken, Service!Forwarded, Service!SubjectOf, VoiceInv, VoiceTypes
<1>3. spoken' = Append(spoken, word)
  BY <1>1
<1> HIDE DEF word
<1>4. /\ spoken' \in Seq(Spoken) /\ Len(spoken) \in Nat /\ Len(spoken') = Len(spoken) + 1 /\ spoken'[Len(spoken) + 1] = word
      /\ \A t \in 1..Len(spoken) : spoken'[t] = spoken[t]
  BY <1>2, <1>3
<1>5. \A t \in 1..Len(spoken') : t \in 1..Len(spoken) \/ t = Len(spoken) + 1
  BY <1>4
<1>6. Grows
  BY <1>2, <1>4, <1>5 DEF Grows, VoiceInv
<1> QED  BY <1>6, VoiceGrows DEF Service!VoiceTurn, VoiceInv, VoiceTypes

LEMMA VoiceConfirmed ==
  ASSUME VoiceInv, NEW u \in Speakers, NEW t \in DOMAIN spoken, Service!VoiceConfirm(u, t)
  PROVE  VoiceInv'
<1>1. t \in 1..Len(spoken) /\ Len(spoken') = Len(spoken)
  BY LenProperties DEF VoiceInv, VoiceTypes, Service!VoiceConfirm
<1>2. u \in SafeNames /\ asking' = [asking EXCEPT ![u] = [token |-> t, result |-> None]]
  BY DEF Service!VoiceConfirm, Service!SubjectOf
<1>3. \A v \in Speakers : asking'[v] = asking[v] \/ Awaited(v)'
  BY <1>1, <1>2 DEF VoiceInv, VoiceTypes, Awaited
<1> QED  BY <1>2, <1>3, VoiceSilent, VoiceGrows DEF Service!VoiceConfirm, VoiceInv, VoiceTypes

\* An honest answer may come for a user who waits.
LEMMA VoiceHears ==
  ASSUME VoiceInv, NEW u \in Speakers, NEW result, Service!Waits(u), asking' = [asking EXCEPT ![u].result = result], Grows, Honest(result)'
  PROVE  DOMAIN asking' = Speakers /\ asking' = [v \in Speakers |-> asking'[v]] /\ \A v \in Speakers : asking'[v] = asking[v] \/ Awaited(v)'
<1>1. Awaited(u) /\ asking[u] # None /\ DOMAIN asking = Speakers
  BY DEF VoiceInv, VoiceTypes, Service!Waits
<1>2. asking'[u] = [token |-> asking[u].token, result |-> result]
  BY <1>1 DEF Awaited
<1>3. asking[u].token \in 1..Len(spoken')
  BY <1>1 DEF Awaited, Grows
<1>4. Awaited(u)'
  BY <1>1, <1>2, <1>3 DEF Awaited
<1> QED  BY <1>1, <1>4

LEMMA WordUsed ==
  ASSUME NEW s \in Seq(Spoken), NEW t \in 1..Len(s), NEW q, q = [s EXCEPT ![t].used = TRUE]
  PROVE  /\ q \in Seq(Spoken) /\ Len(q) = Len(s) /\ q[t].used
         /\ \A i \in 1..Len(s) : q[i].id = s[i].id /\ q[i].subject = s[i].subject /\ q[i].by = s[i].by
         /\ \A i \in 1..Len(s) : s[i].used => q[i].used
<1>1. s[t] \in Spoken
  OBVIOUS
<1>2. PICK w : w = [s[t] EXCEPT !.used = TRUE]
  OBVIOUS
<1>3. w \in Spoken /\ w.id = s[t].id /\ w.subject = s[t].subject /\ w.by = s[t].by /\ w.used = TRUE
  BY <1>1, <1>2 DEF Spoken
<1>4. q = [s EXCEPT ![t] = w]
  BY <1>2
<1>5. q \in Seq(Spoken) /\ Len(q) = Len(s) /\ \A i \in 1..Len(s) : q[i] = IF i = t THEN w ELSE s[i]
  <2>1. w \in Spoken /\ DOMAIN s = 1..Len(s) /\ Len(s) \in Nat /\ \A i \in 1..Len(s) : s[i] \in Spoken
    BY <1>3
  <2>2. q \in [1..Len(s) -> Spoken]
    BY <1>4, <2>1
  <2>3. q \in Seq(Spoken) /\ Len(q) = Len(s)
    BY <2>1, <2>2, SeqDef
  <2> QED  BY <1>4, <2>1, <2>3
<1> QED  BY <1>3, <1>5

LEMMA VoiceUIAnswered ==
  ASSUME VoiceInv, NEW u \in Speakers, Service!VoiceUIAnswers(u)
  PROVE  VoiceInv'
<1> DEFINE t == asking[u].token
           good == ~spoken[t].used /\ spoken[t].subject = Service!SubjectOf(u)
<1>1. /\ Service!Waits(u) /\ u \in SafeNames /\ t \in 1..Len(spoken) /\ Service!SubjectOf(u) = u /\ spoken \in Seq(Spoken)
      /\ confirmations' = confirmations
  BY DEF Service!VoiceUIAnswers, Service!Waits, Service!SubjectOf, VoiceInv, VoiceTypes, Awaited
<1>2. CASE good
  <2> DEFINE result == Genuine(spoken[t].id, u)
  <2>1. /\ asking' = [asking EXCEPT ![u].result = result] /\ spoken' = [spoken EXCEPT ![t].used = TRUE] /\ signed' = signed \union {result}
    <3>1. Service!Signed(Service!Result("confirmed", spoken[t].id, u), "shared") = result
      BY SignedFields DEF Genuine
    <3> QED  BY <1>1, <1>2, <3>1 DEF Service!VoiceUIAnswers, Service!Comes
  <2>2. /\ spoken' \in Seq(Spoken) /\ Len(spoken') = Len(spoken) /\ Len(spoken) \in Nat /\ spoken'[t].used
        /\ \A i \in 1..Len(spoken) : spoken'[i].id = spoken[i].id /\ spoken'[i].subject = spoken[i].subject /\ spoken'[i].by = spoken[i].by
        /\ \A i \in 1..Len(spoken) : spoken[i].used => spoken'[i].used
    BY <1>1, <2>1, WordUsed
  <2>4. Grows
    BY <2>2 DEF Grows, VoiceInv
  <2>5. PICK id \in RequestIds : id = spoken[t].id
    <3>1. spoken[t] \in Spoken
      BY <1>1
    <3>2. spoken[t].id \in RequestIds
      BY <3>1 DEF Spoken
    <3> QED  BY <3>2
  <2>6. Used(id, u)'
    BY <1>1, <1>2, <2>2, <2>5 DEF Used
  <2>7. PICK sign : sign = Genuine(id, u)
    OBVIOUS
  <2>8. Honest(sign)'
    BY <2>6, <2>7 DEF Honest, Genuine, Used
  <2>9. asking' = [asking EXCEPT ![u].result = sign] /\ signed' = signed \union {sign}
    BY <2>1, <2>5, <2>7
  <2> HIDE DEF result
  <2>10. DOMAIN asking' = Speakers /\ asking' = [v \in Speakers |-> asking'[v]] /\ \A v \in Speakers : asking'[v] = asking[v] \/ Awaited(v)'
    BY <1>1, <2>4, <2>8, <2>9, VoiceHears
  <2> QED  BY <1>1, <2>4, <2>6, <2>7, <2>9, <2>10, VoiceGrows
<1>3. CASE ~good
  <2> DEFINE result == Service!Result("invalid", None, None)
  <2>1. asking' = [asking EXCEPT ![u].result = result] /\ spoken' = spoken /\ signed' = signed
    BY <1>3 DEF Service!VoiceUIAnswers, Service!Comes
  <2>2. Honest(result)'
    BY DEF Honest, Service!Result
  <2> QED  BY <1>1, <2>1, <2>2, VoiceSilent, VoiceHears, VoiceGrows
<1> QED  BY <1>2, <1>3

\* Something else cannot sign: an answer that has the signature of another, or none, is honest all the same.
LEMMA OthersSay ==
  ASSUME NEW u, Service!OtherAnswers(u)
  PROVE  /\ Service!Waits(u) /\ spoken' = spoken /\ signed' = signed /\ confirmations' = confirmations
         /\ \E result :
              /\ asking' = [asking EXCEPT ![u].result = result]
              /\ \/ result \in signed
                 \/ \E old \in signed, id \in RequestIds, v \in Speakers : result = Changed(old, id, v)
                 \/ \E id \in RequestIds \union {None}, v \in Speakers : result = Service!Result("confirmed", id, v)
                 \/ \E id \in RequestIds, v \in Speakers : result = Guessed(id, v)
<1>1. Service!Waits(u) /\ spoken' = spoken /\ signed' = signed /\ confirmations' = confirmations
  BY DEF Service!OtherAnswers
<1>2. \/ \E old \in signed : Service!Comes(u, old)
      \/ \E old \in signed, id \in RequestIds, v \in Speakers : Service!Comes(u, Changed(old, id, v))
      \/ \E id \in RequestIds \union {None}, v \in Speakers : Service!Comes(u, Service!Result("confirmed", id, v))
      \/ \E id \in RequestIds, v \in Speakers : Service!Comes(u, Guessed(id, v))
  BY Zenon DEF Service!OtherAnswers, Changed, Guessed
<1> QED  BY <1>1, <1>2 DEF Service!Comes

LEMMA GuessedKey ==
  ASSUME NEW id, NEW v
  PROVE  Guessed(id, v).signature.key = "guessed"
<1>1. Guessed(id, v) = [status |-> "confirmed", id |-> id, subject |-> v,
                        signature |-> [key |-> "guessed", status |-> "confirmed", id |-> id, subject |-> v]]
  BY SignedFields DEF Guessed
<1> QED  BY <1>1

LEMMA OthersAnswered ==
  ASSUME VoiceInv, NEW u \in Speakers, Service!OtherAnswers(u)
  PROVE  VoiceInv'
<1>1. PICK result :
        /\ asking' = [asking EXCEPT ![u].result = result]
        /\ \/ result \in signed
           \/ \E old \in signed, id \in RequestIds, v \in Speakers : result = Changed(old, id, v)
           \/ \E id \in RequestIds \union {None}, v \in Speakers : result = Service!Result("confirmed", id, v)
           \/ \E id \in RequestIds, v \in Speakers : result = Guessed(id, v)
  BY OthersSay
<1>2. Service!Waits(u) /\ spoken' = spoken /\ signed' = signed /\ confirmations' = confirmations
  BY OthersSay
<1>3. \A old \in signed : \E id \in RequestIds, v \in Speakers : old = Genuine(id, v) /\ Used(id, v)
  BY DEF VoiceInv
<1>4. Honest(result)
  <2>1. CASE result \in signed
    <3>1. PICK id \in RequestIds, v \in Speakers : result = Genuine(id, v) /\ Used(id, v)
      BY <1>3, <2>1
    <3> QED  BY <3>1 DEF Honest, Genuine
  <2>2. ASSUME NEW old \in signed, NEW id \in RequestIds, NEW v \in Speakers, result = Changed(old, id, v) PROVE Honest(result)
    <3>1. PICK i \in RequestIds, w \in Speakers : old = Genuine(i, w) /\ Used(i, w)
      BY <1>3
    <3>2. /\ result.id = id /\ result.subject = v /\ result.status = "confirmed"
          /\ result.signature = [key |-> "shared", status |-> "confirmed", id |-> i, subject |-> w]
      BY <2>2, <3>1, ChangedFields
    <3> QED  BY <3>1, <3>2 DEF Honest, Service!SignResult
  <2>3. ASSUME NEW id \in RequestIds \union {None}, NEW v \in Speakers, result = Service!Result("confirmed", id, v) PROVE Honest(result)
    <3>1. result.id = id /\ result.subject = v /\ result.status = "confirmed" /\ result.signature = None
      BY <2>3 DEF Service!Result
    <3>2. ASSUME NEW key \in {"shared", "another"}, id # None PROVE Service!SignResult(result, key) \in Signatures
      BY <3>1, <3>2 DEF Service!SignResult, Signatures
    <3> QED  BY <3>1, <3>2, VoiceConstants DEF Honest
  <2>4. ASSUME NEW id \in RequestIds, NEW v \in Speakers, result = Guessed(id, v) PROVE Honest(result)
    <3>1. result.signature.key = "guessed"
      BY <2>4, GuessedKey
    <3>2. \A key : Service!SignResult(result, key).key = key
      BY DEF Service!SignResult
    <3> QED  BY <3>1, <3>2 DEF Honest
  <2> QED  BY <1>1, <2>1, <2>2, <2>3, <2>4
<1>5. Honest(result)'
  BY <1>2, <1>4 DEF Honest, Used, Service!SignResult
<1>6. Grows
  BY <1>2, VoiceSilent
<1>7. DOMAIN asking' = Speakers /\ asking' = [v \in Speakers |-> asking'[v]] /\ \A v \in Speakers : asking'[v] = asking[v] \/ Awaited(v)'
  BY <1>1, <1>2, <1>5, <1>6, VoiceHears
<1> QED  BY <1>2, <1>6, <1>7, VoiceGrows

\* What is told as verified was judged by a signature.
LEMMA VoiceJudged ==
  ASSUME VoiceInv, NEW u \in Speakers, Service!VoiceAnswered(u)
  PROVE  VoiceInv'
<1> DEFINE result == asking[u].result
           verdict == Service!Judge(result, Service!SubjectOf(u))
<1>1. /\ asking[u] # None /\ result # None /\ asking' = [asking EXCEPT ![u] = None] /\ UNCHANGED <<spoken, signed>>
      /\ confirmations' = IF result.status = "confirmed" /\ verdict.status = 200
                             THEN confirmations \union {[user |-> u, id |-> result.id, verified |-> verdict.verified]} ELSE confirmations
  BY DEF Service!VoiceAnswered
<1>2. u \in SafeNames /\ Service!SubjectOf(u) = u /\ Honest(result)
  BY <1>1 DEF VoiceInv, Awaited, Service!SubjectOf
<1>3. ASSUME verdict.status = 200, verdict.verified
      PROVE  \E t \in 1..Len(spoken) : spoken[t].by = u /\ spoken[t].id = result.id /\ spoken[t].used
  <2>1. /\ result.id # None /\ result.subject = u
        /\ \E key \in {"shared", "another"} : result.signature = Service!SignResult(result, key)
    BY <1>2, <1>3 DEF Service!Judge, Service!Refused, Service!VoiceResultKey, Service!Verifies
  <2>2. PICK t \in 1..Len(spoken) : spoken[t].used /\ spoken[t].id = result.id /\ spoken[t].subject = u
    BY <1>2, <2>1 DEF Honest, Used
  <2>3. spoken[t].by = u
    BY <2>2, VoiceConstants DEF VoiceInv, Service!SubjectOf
  <2> QED  BY <2>2, <2>3
<1> HIDE DEF result, verdict
<1>4. \A a \in confirmations' : a \in confirmations \/
        (a.verified => \E t \in 1..Len(spoken) : spoken[t].by = a.user /\ spoken[t].id = a.id /\ spoken[t].used)
  BY <1>1, <1>3
<1>5. DOMAIN asking' = Speakers /\ asking' = [v \in Speakers |-> asking'[v]] /\ \A v \in Speakers : asking'[v] = asking[v] \/ Awaited(v)'
  BY <1>1 DEF VoiceInv, VoiceTypes, Awaited
<1> QED  BY <1>1, <1>4, <1>5, VoiceSilent, VoiceGrows

LEMMA VoiceSteps == VoiceInv /\ (Service!VoiceNext \/ UNCHANGED voiceVars) => VoiceInv'
<1> SUFFICES ASSUME VoiceInv, Service!VoiceNext \/ UNCHANGED voiceVars PROVE VoiceInv'
  OBVIOUS
<1>1. CASE Service!VoiceRule \/ UNCHANGED voiceVars
  <2>1. UNCHANGED <<spoken, signed, asking, confirmations>>
    BY <1>1 DEF Service!VoiceRule, voiceVars
  <2> QED  BY <2>1, VoiceSilent, VoiceGrows DEF VoiceInv, VoiceTypes
<1>2. ASSUME NEW u \in Speakers, NEW id \in RequestIds, NEW claimed \in Speakers \union {None}, Service!VoiceTurn(u, id, claimed) PROVE VoiceInv'
  BY <1>2, VoiceTurned
<1>3. ASSUME NEW u \in Speakers, NEW t \in DOMAIN spoken, Service!VoiceConfirm(u, t) PROVE VoiceInv'
  BY <1>3, VoiceConfirmed
<1>4. ASSUME NEW u \in Speakers, Service!VoiceUIAnswers(u) PROVE VoiceInv'
  BY <1>4, VoiceUIAnswered
<1>5. ASSUME NEW u \in Speakers, Service!OtherAnswers(u) PROVE VoiceInv'
  BY <1>5, OthersAnswered
<1>6. ASSUME NEW u \in Speakers, Service!VoiceAnswered(u) PROVE VoiceInv'
  BY <1>6, VoiceJudged
<1>7. ASSUME NEW u \in Speakers, Service!VoiceUnanswered(u) PROVE VoiceInv'
  <2>1. UNCHANGED <<spoken, signed, confirmations>> /\ asking' = [asking EXCEPT ![u] = None]
    BY <1>7 DEF Service!VoiceUnanswered
  <2>2. DOMAIN asking' = Speakers /\ asking' = [v \in Speakers |-> asking'[v]] /\ \A v \in Speakers : asking'[v] = asking[v] \/ Awaited(v)'
    BY <2>1 DEF VoiceInv, VoiceTypes, Awaited
  <2> QED  BY <2>1, <2>2, VoiceSilent, VoiceGrows
<1> QED  BY <1>1, <1>2, <1>3, <1>4, <1>5, <1>6, <1>7 DEF Service!VoiceNext

-----------------------------------------------------------------------------
(* A camera that is asked *)

\* A movement is one the camera knows; it is carried out twice, or told as failed though it was carried out, only if an answer was lost.
Turning ==
  /\ ptz.speed \in 1..63 /\ (ptz.act = "stop" <=> ptz.move.pan = 0 /\ ptz.move.tilt = 0 /\ ptz.move.zoom = 0)
  /\ turned \in Nat /\ (turned > 1 => missed # {})
  /\ ptz.step = "hi3510" => missed = {} /\ turned = 0 /\ toldOfIt = None
  /\ ptz.step \in {"plain", "named"} =>
       /\ toldOfIt = None /\ turned <= 1 /\ missed \in {{}, {"hi3510"}}
       /\ missed = {} => turned = 0 /\ camera.hi3510 # "moves" /\ ptz.first = 404
  /\ ptz.step = "named" => camera.psia \in {"basic", "digest"} /\ ptz.user

\* What is told of a movement.
TurnIsTold ==
  /\ toldOfIt.ok \in BOOLEAN
  /\ toldOfIt.ok => turned >= 1
  /\ ~toldOfIt.ok /\ turned > 0 => missed # {}
  /\ ~toldOfIt.ok /\ toldOfIt.status = 0 => missed \in {{"hi3510", "plain"}, {"hi3510", "named"}}
  /\ missed = {} => (toldOfIt.ok <=> \/ camera.hi3510 = "moves" \/ camera.psia = "open"
                                     \/ camera.psia \in {"basic", "digest"} /\ ptz.user /\ camera.known)

\* A path opens to the name that was given.
Opening(p) == camera.paths[p] = "open" \/ (camera.paths[p] = "digest" /\ ptz.user /\ camera.known)

\* The search is through with these paths.
Through(p) == p < ptz.path \/ (ptz.step = "done" /\ p = ptz.path)

Searching ==
  /\ ptz.path \in 1..Candidates /\ found \in Seq(1..Candidates) /\ missed \in SUBSET (1..Candidates)
  /\ \A i \in DOMAIN found : Through(found[i]) /\ Opening(found[i]) /\ found[i] \notin missed
  /\ \A p \in 1..Candidates : Through(p) /\ Opening(p) /\ p \notin missed => \E i \in DOMAIN found : found[i] = p
  /\ \A i, j \in DOMAIN found : i < j => found[i] < found[j]
  /\ \A p \in missed : Through(p)
  /\ ptz.step = "named" => camera.paths[ptz.path] = "digest" /\ ptz.user
  /\ ptz.step = "done" => ptz.path = Candidates /\ (toldOfIt.ok <=> found # <<>>)

AskingInv ==
  /\ camera.paths \in [1..Candidates -> Picture!Ways]
  /\ \/ ptz = None /\ missed = {} /\ turned = 0 /\ found = <<>> /\ toldOfIt = None
     \/ ptz \in Asked /\ ptz.kind = "turn" /\ Turning /\ (toldOfIt = None \/ TurnIsTold)
     \/ ptz \in Asked /\ ptz.kind = "streams" /\ Searching

LEMMA AskingConstants == None \notin Asked /\ Candidates \in Nat \ {0}
BY RelaysAssumption DEF RelaysAssumption

LEMMA AskingStarts == Picture!AskInit => AskingInv
<1> SUFFICES ASSUME Picture!AskInit PROVE camera.paths \in [1..Candidates -> Picture!Ways]
  BY DEF Picture!AskInit, AskingInv
<1>1. Picture!Deaf \in [1..Candidates -> Picture!Ways]
  BY DEF Picture!Deaf, Picture!Ways
<1> QED  BY <1>1 DEF Picture!AskInit, Picture!Cameras

LEMMA AskingHolds == AskingInv => Picture!MovesAreTrue /\ Picture!StreamsAreFound
<1> SUFFICES ASSUME AskingInv, ptz # None PROVE Picture!MovesAreTrue /\ Picture!StreamsAreFound
  BY DEF Picture!MovesAreTrue, Picture!StreamsAreFound
<1>1. CASE ptz \in Asked /\ ptz.kind = "turn" /\ Turning /\ (toldOfIt = None \/ TurnIsTold)
  <2>1. PICK move \in [pan : -100..100, tilt : -100..100, zoom : -100..100] : ptz.move = move
    BY <1>1 DEF Asked
  <2>2. DOMAIN move = {"pan", "tilt", "zoom"}
    OBVIOUS
  <2>3. (\A axis \in DOMAIN ptz.move : ptz.move[axis] = 0) <=> ptz.move.pan = 0 /\ ptz.move.tilt = 0 /\ ptz.move.zoom = 0
    BY <2>1, <2>2
  <2>4. Cardinality({"hi3510", "plain"}) = 2 /\ Cardinality({"hi3510", "named"}) = 2
    <3>1. Cardinality({"hi3510"}) = 1 /\ IsFiniteSet({"hi3510"})
      BY FS_Singleton
    <3>2. {"hi3510", "plain"} = {"hi3510"} \union {"plain"} /\ {"hi3510", "named"} = {"hi3510"} \union {"named"}
      OBVIOUS
    <3>3. Cardinality({"hi3510"} \union {"plain"}) = 2 /\ Cardinality({"hi3510"} \union {"named"}) = 2
      BY <3>1, FS_AddElement
    <3> QED  BY <3>2, <3>3
  <2>5. \A S : S \in {{"hi3510", "plain"}, {"hi3510", "named"}} => "hi3510" \in S /\ Cardinality(S) = 2
    BY <2>4
  <2>6. /\ ptz.speed \in 1..63 /\ (ptz.act = "stop" <=> \A axis \in DOMAIN ptz.move : ptz.move[axis] = 0)
        /\ turned > 1 => missed # {}
    BY <1>1, <2>3 DEF Turning
  <2>7. ASSUME toldOfIt # None
        PROVE  /\ toldOfIt.ok => turned >= 1
               /\ ~toldOfIt.ok /\ turned > 0 => missed # {}
               /\ ~toldOfIt.ok /\ toldOfIt.status = 0 => "hi3510" \in missed /\ Cardinality(missed) = 2
               /\ missed = {} => (toldOfIt.ok <=> \/ camera.hi3510 = "moves" \/ camera.psia = "open"
                                                  \/ camera.psia \in {"basic", "digest"} /\ ptz.user /\ camera.known)
    BY <1>1, <2>5, <2>7 DEF TurnIsTold
  <2>8. Picture!MovesAreTrue
    BY <2>6, <2>7 DEF Picture!MovesAreTrue, Picture!Cardinality, Cardinality
  <2> QED  BY <1>1, <2>8 DEF Picture!StreamsAreFound
<1>2. CASE ptz \in Asked /\ ptz.kind = "streams" /\ Searching
  <2>1. ASSUME ptz.step = "done"
        PROVE  {found[i] : i \in DOMAIN found} =
                 {p \in 1..Candidates : camera.paths[p] = "open" \/ (camera.paths[p] = "digest" /\ ptz.user /\ camera.known)} \ missed
    <3>1. \A i \in DOMAIN found : found[i] \in 1..Candidates /\ Opening(found[i]) /\ found[i] \notin missed
      <4>1. found \in Seq(1..Candidates)
        BY <1>2 DEF Searching
      <4>2. DOMAIN found = 1..Len(found) /\ \A i \in 1..Len(found) : found[i] \in 1..Candidates
        BY <4>1, LenProperties, ElementOfSeq
      <4>3. \A i \in DOMAIN found : Opening(found[i]) /\ found[i] \notin missed
        BY <1>2 DEF Searching
      <4> QED  BY <4>2, <4>3
    <3>2. \A p \in 1..Candidates : Through(p)
      BY <1>2, <2>1, AskingConstants DEF Searching, Through
    <3>3. \A p \in 1..Candidates : Opening(p) /\ p \notin missed => \E i \in DOMAIN found : found[i] = p
      BY <1>2, <3>2 DEF Searching
    <3> QED  BY <3>1, <3>3 DEF Opening
  <2> QED  BY <1>2, <2>1 DEF Picture!MovesAreTrue, Picture!StreamsAreFound, Searching
<1> QED  BY <1>1, <1>2 DEF AskingInv

\* One of the three is the greatest of them, and 63 speeds are made of it.
LEMMA SpeedsAreKnown ==
  ASSUME NEW move \in [pan : -100..100, tilt : -100..100, zoom : -100..100]
  PROVE  Picture!Speed(move) \in 1..63
<1> DEFINE sizes == {Picture!Magnitude(move.pan), Picture!Magnitude(move.tilt), Picture!Magnitude(move.zoom)}
<1>1. sizes \subseteq 0..100
  BY DEF Picture!Magnitude
<1>2. \E n \in sizes : \A m \in sizes : m <= n
  BY <1>1
<1>3. Picture!Size(move) \in sizes
  BY <1>2 DEF Picture!Size
<1>4. PICK n \in 0..100 : Picture!Size(move) = n
  BY <1>1, <1>3
<1>5. (2 * 63 * n + 100) \div 200 \in 0..63
  OBVIOUS
<1> QED  BY <1>4, <1>5 DEF Picture!Speed

LEMMA AskingTurns == AskingInv /\ Picture!AskToTurn => AskingInv'
<1> SUFFICES ASSUME AskingInv, Picture!AskToTurn PROVE AskingInv'
  OBVIOUS
<1>1. ptz = None /\ missed = {} /\ turned = 0 /\ found = <<>> /\ toldOfIt = None
  BY AskingConstants DEF AskingInv, Picture!AskToTurn
<1>2. UNCHANGED <<camera, missed, turned, found, toldOfIt>>
  BY DEF Picture!AskToTurn
<1>3. PICK user \in BOOLEAN, pan \in Picture!Turns, tilt \in Picture!Turns, zoom \in {0, 3} :
        ptz' = [kind |-> "turn", step |-> "hi3510", user |-> user, first |-> 0,
                move |-> [pan |-> Picture!Clamped(pan), tilt |-> Picture!Clamped(tilt), zoom |-> Picture!Clamped(zoom)],
                act |-> Picture!Hi3510Action([pan |-> Picture!Clamped(pan), tilt |-> Picture!Clamped(tilt), zoom |-> Picture!Clamped(zoom)]),
                speed |-> Picture!Speed([pan |-> Picture!Clamped(pan), tilt |-> Picture!Clamped(tilt), zoom |-> Picture!Clamped(zoom)])]
  BY DEF Picture!AskToTurn
<1>4. \A n \in Picture!Turns \union {0, 3} : Picture!Clamped(n) \in -100..100
  BY DEF Picture!Turns, Picture!Clamped
<1>5. PICK move \in [pan : -100..100, tilt : -100..100, zoom : -100..100] :
        move = [pan |-> Picture!Clamped(pan), tilt |-> Picture!Clamped(tilt), zoom |-> Picture!Clamped(zoom)]
  BY <1>4
<1>6. PICK speed \in 1..63 : speed = Picture!Speed(move)
  BY SpeedsAreKnown
<1>7. /\ Picture!Hi3510Action(move) \in {"left", "right", "up", "down", "zoomin", "zoomout", "stop"}
      /\ Picture!Hi3510Action(move) = "stop" <=> move.pan = 0 /\ move.tilt = 0 /\ move.zoom = 0
  BY DEF Picture!Hi3510Action
<1>8. PICK act \in {"left", "right", "up", "down", "zoomin", "zoomout", "stop"} : act = Picture!Hi3510Action(move)
  BY <1>7
<1>9. ptz' = [kind |-> "turn", step |-> "hi3510", user |-> user, first |-> 0, move |-> move, act |-> act, speed |-> speed]
  BY <1>3, <1>5, <1>6, <1>8
<1>10. ptz' \in Asked /\ ptz'.kind = "turn" /\ Turning'
  BY <1>1, <1>2, <1>7, <1>8, <1>9 DEF Asked, Turning
<1> QED  BY <1>1, <1>2, <1>10 DEF AskingInv

\* A question that is at another step is the same question.
LEMMA AskedGoesOn ==
  ASSUME ptz \in Asked, ptz.kind = "turn", NEW step \in {"hi3510", "plain", "named", "done"}, NEW first \in {0, 404}
  PROVE  /\ [ptz EXCEPT !.step = step] \in Asked /\ [ptz EXCEPT !.step = step].first = ptz.first
         /\ [ptz EXCEPT !.step = step, !.first = first] \in Asked /\ [ptz EXCEPT !.step = step, !.first = first].first = first
         /\ \A q \in {[ptz EXCEPT !.step = step], [ptz EXCEPT !.step = step, !.first = first]} :
              /\ q.kind = "turn" /\ q.step = step /\ q.user = ptz.user /\ q.move = ptz.move
              /\ q.act = ptz.act /\ q.speed = ptz.speed
<1> DEFINE same(q) == /\ q.kind = "turn" /\ q.step = step /\ q.user = ptz.user /\ q.move = ptz.move
                      /\ q.act = ptz.act /\ q.speed = ptz.speed
<1>1. ptz \in [kind : {"turn"}, step : {"hi3510", "plain", "named", "done"}, user : BOOLEAN, first : {0, 404},
               move : [pan : -100..100, tilt : -100..100, zoom : -100..100],
               act : {"left", "right", "up", "down", "zoomin", "zoomout", "stop"}, speed : Int]
  BY DEF Asked
<1>2. PICK p : p = [ptz EXCEPT !.step = step]
  OBVIOUS
<1>3. p \in Asked /\ p.first = ptz.first /\ same(p)
  BY <1>1, <1>2 DEF Asked
<1>4. PICK q : q = [ptz EXCEPT !.step = step, !.first = first]
  OBVIOUS
<1>5. p \in [kind : {"turn"}, step : {step}, user : BOOLEAN, first : {0, 404},
              move : [pan : -100..100, tilt : -100..100, zoom : -100..100],
              act : {"left", "right", "up", "down", "zoomin", "zoomout", "stop"}, speed : Int]
  BY <1>1, <1>2
<1>6. q = [p EXCEPT !.first = first]
  BY <1>2, <1>4
<1>7. q \in Asked /\ q.first = first /\ same(q)
  BY <1>3, <1>5, <1>6 DEF Asked
<1> QED  BY <1>2, <1>3, <1>4, <1>7

LEMMA StreamsGoOn ==
  ASSUME ptz \in Asked, ptz.kind = "streams", NEW step \in {"plain", "named", "done"}, NEW path \in Nat
  PROVE  /\ [ptz EXCEPT !.step = step] \in Asked /\ [ptz EXCEPT !.step = step].path = ptz.path
         /\ [ptz EXCEPT !.step = step, !.path = path] \in Asked /\ [ptz EXCEPT !.step = step, !.path = path].path = path
         /\ \A q \in {[ptz EXCEPT !.step = step], [ptz EXCEPT !.step = step, !.path = path]} :
              q.kind = "streams" /\ q.step = step /\ q.user = ptz.user
<1>1. ptz \in [kind : {"streams"}, step : {"plain", "named", "done"}, user : BOOLEAN, path : Nat]
  BY DEF Asked
<1> QED  BY ZenonT(60), <1>1 DEF Asked

\* What one of the conventions takes or refuses.
LEMMA FirstConvention == AskingInv /\ Picture!Hi3510PtzRequest => AskingInv'
<1> SUFFICES ASSUME AskingInv, Picture!Hi3510PtzRequest PROVE AskingInv'
  OBVIOUS
<1>1. ptz # None /\ ptz.step = "hi3510" /\ UNCHANGED <<camera, found>>
  BY DEF Picture!Hi3510PtzRequest
<1>2. ptz \in Asked /\ ptz.kind = "turn" /\ Turning
  <2>1. ASSUME ptz \in Asked, ptz.kind = "streams" PROVE ptz.step # "hi3510"
    BY <2>1 DEF Asked
  <2> QED  BY <1>1, <2>1 DEF AskingInv
<1>3. missed = {} /\ turned = 0 /\ toldOfIt = None
  BY <1>1, <1>2 DEF Turning
<1>4. CASE camera.hi3510 = "moves" /\ turned' = turned + 1 /\ Picture!Told(TRUE, 200) /\ UNCHANGED missed
  <2>1. /\ ptz' \in Asked /\ ptz'.kind = "turn" /\ ptz'.step = "done" /\ ptz'.user = ptz.user /\ ptz'.move = ptz.move
        /\ ptz'.act = ptz.act /\ ptz'.speed = ptz.speed
    BY <1>2, <1>4, AskedGoesOn DEF Picture!Told
  <2>2. toldOfIt' = [ok |-> TRUE, status |-> 200]
    BY <1>4 DEF Picture!Told
  <2>3. Turning' /\ TurnIsTold'
    BY <1>1, <1>2, <1>3, <1>4, <2>1, <2>2 DEF Turning, TurnIsTold
  <2> QED  BY <1>1, <2>1, <2>3 DEF AskingInv
<1>5. CASE camera.hi3510 # "moves" /\ ptz' = [ptz EXCEPT !.step = "plain", !.first = 404] /\ UNCHANGED <<missed, turned, toldOfIt>>
  <2>1. /\ ptz' \in Asked /\ ptz'.kind = "turn" /\ ptz'.step = "plain" /\ ptz'.user = ptz.user /\ ptz'.move = ptz.move
        /\ ptz'.act = ptz.act /\ ptz'.speed = ptz.speed /\ ptz'.first = 404
    BY <1>2, <1>5, AskedGoesOn
  <2>2. Turning'
    BY <1>1, <1>2, <1>3, <1>5, <2>1 DEF Turning
  <2> QED  BY <1>1, <1>3, <1>5, <2>1, <2>2 DEF AskingInv
<1>6. CASE Picture!NoAnswer(camera.hi3510 = "moves") /\ ptz' = [ptz EXCEPT !.step = "plain"] /\ UNCHANGED toldOfIt
  <2>1. /\ ptz' \in Asked /\ ptz'.kind = "turn" /\ ptz'.step = "plain" /\ ptz'.user = ptz.user /\ ptz'.move = ptz.move
        /\ ptz'.act = ptz.act /\ ptz'.speed = ptz.speed
    BY <1>2, <1>6, AskedGoesOn
  <2>2. missed' = {"hi3510"} /\ turned' \in {0, 1}
    BY <1>1, <1>3, <1>6 DEF Picture!NoAnswer
  <2>3. Turning'
    BY <1>1, <1>2, <1>3, <1>6, <2>1, <2>2 DEF Turning
  <2> QED  BY <1>1, <1>3, <1>6, <2>1, <2>3 DEF AskingInv
<1> QED  BY <1>4, <1>5, <1>6 DEF Picture!Hi3510PtzRequest

LEMMA SecondConvention == AskingInv /\ Picture!PsiaRequest => AskingInv'
<1> SUFFICES ASSUME AskingInv, Picture!PsiaRequest PROVE AskingInv'
  OBVIOUS
<1>1. ptz # None /\ ptz.kind = "turn" /\ ptz.step \in {"plain", "named"} /\ UNCHANGED <<camera, found>>
  BY DEF Picture!PsiaRequest
<1>2. ptz \in Asked /\ Turning
  BY <1>1 DEF AskingInv
<1>3. /\ toldOfIt = None /\ turned \in {0, 1} /\ missed \in {{}, {"hi3510"}} /\ ptz.first \in {0, 404} /\ ptz.user \in BOOLEAN
      /\ missed = {} => turned = 0 /\ camera.hi3510 # "moves" /\ ptz.first = 404
  BY <1>1, <1>2 DEF Turning, Asked
<1>n. ptz.step = "named" => camera.psia \in {"basic", "digest"} /\ ptz.user
  BY <1>2 DEF Turning
<1>4. ASSUME toldOfIt'.ok \in BOOLEAN, ptz' = [ptz EXCEPT !.step = "done"], turned' \in {turned, turned + 1},
             missed' \in {missed, missed \union {ptz.step}}, toldOfIt'.ok => turned' = turned + 1, turned' > turned => toldOfIt'.ok \/ missed' # {},
             toldOfIt'.status = 0 => "hi3510" \in missed /\ ptz.step \in missed',
             missed' = {} => (toldOfIt'.ok <=> camera.psia = "open" \/ (camera.psia \in {"basic", "digest"} /\ ptz.user /\ camera.known))
      PROVE  AskingInv'
  <2>1. /\ ptz' \in Asked /\ ptz'.kind = "turn" /\ ptz'.step = "done" /\ ptz'.user = ptz.user /\ ptz'.move = ptz.move
        /\ ptz'.act = ptz.act /\ ptz'.speed = ptz.speed
    BY <1>1, <1>2, <1>4, AskedGoesOn
  <2>3. Turning'
    BY <1>1, <1>2, <1>3, <1>4, <2>1 DEF Turning
  <2>4. ~toldOfIt'.ok /\ toldOfIt'.status = 0 => missed' \in {{"hi3510", "plain"}, {"hi3510", "named"}}
    BY <1>1, <1>3, <1>4
  <2>5. TurnIsTold'
    <3>2. toldOfIt'.ok => turned' >= 1
      BY <1>3, <1>4
    <3>3. ~toldOfIt'.ok /\ turned' > 0 => missed' # {}
      BY <1>3, <1>4
    <3>4. missed' = {} => missed = {} /\ camera.hi3510 # "moves"
      BY <1>3, <1>4
    <3>5. missed' = {} => (toldOfIt'.ok <=> camera'.hi3510 = "moves" \/ camera'.psia = "open"
                                          \/ (camera'.psia \in {"basic", "digest"} /\ ptz'.user /\ camera'.known))
      BY <1>1, <1>4, <2>1, <3>4
    <3> QED  BY <1>4, <2>4, <3>2, <3>3, <3>5 DEF TurnIsTold
  <2> QED  BY <1>1, <2>1, <2>3, <2>5 DEF AskingInv
<1>5. CASE Picture!Opens(camera.psia) /\ turned' = turned + 1 /\ Picture!Told(TRUE, 200) /\ UNCHANGED missed
  <2>1. camera.psia = "open" \/ (camera.psia \in {"basic", "digest"} /\ ptz.user /\ camera.known)
    BY <1>1, <1>5, <1>n DEF Picture!Opens
  <2>2. toldOfIt' = [ok |-> TRUE, status |-> 200] /\ ptz' = [ptz EXCEPT !.step = "done"]
    BY <1>5 DEF Picture!Told
  <2> QED  BY <1>4, <1>5, <2>1, <2>2
<1>6. CASE /\ Picture!AsksAgain(camera.psia, {"basic", "digest"}) /\ ptz' = [ptz EXCEPT !.step = "named"]
           /\ UNCHANGED <<missed, turned, toldOfIt>>
  <2>1. /\ ptz' \in Asked /\ ptz'.kind = "turn" /\ ptz'.step = "named" /\ ptz'.user = ptz.user /\ ptz'.move = ptz.move
        /\ ptz'.act = ptz.act /\ ptz'.speed = ptz.speed /\ ptz'.first = ptz.first
    BY <1>1, <1>2, <1>6, AskedGoesOn
  <2>2. camera.psia \in {"basic", "digest"} /\ ptz.user
    BY <1>6 DEF Picture!AsksAgain
  <2>3. Turning'
    BY <1>1, <1>2, <1>3, <1>6, <2>1, <2>2 DEF Turning
  <2> QED  BY <1>1, <1>3, <1>6, <2>1, <2>3 DEF AskingInv
<1>7. CASE /\ ~Picture!Opens(camera.psia) /\ ~Picture!AsksAgain(camera.psia, {"basic", "digest"})
           /\ Picture!Failed(IF camera.psia = "unknown" THEN 500 ELSE 401) /\ UNCHANGED <<missed, turned>>
  <2>1. ptz' = [ptz EXCEPT !.step = "done"] /\ toldOfIt'.ok = FALSE /\ toldOfIt'.status # 0
    BY <1>7 DEF Picture!Failed, Picture!Told
  <2>2. ~(camera.psia = "open" \/ (camera.psia \in {"basic", "digest"} /\ ptz.user /\ camera.known)) \/ missed # {}
    <3>1. CASE ptz.step = "plain"
      BY <1>7, <3>1 DEF Picture!Opens, Picture!AsksAgain
    <3>2. CASE ptz.step = "named"
      BY <1>7, <1>n, <3>2 DEF Picture!Opens
    <3> QED  BY <1>1, <3>1, <3>2
  <2>3. missed' = {} => (toldOfIt'.ok <=> camera.psia = "open" \/ (camera.psia \in {"basic", "digest"} /\ ptz.user /\ camera.known))
    BY <1>7, <2>1, <2>2
  <2>4. turned' = turned /\ missed' = missed /\ toldOfIt'.ok \in BOOLEAN /\ ~toldOfIt'.ok
    BY <1>7, <2>1
  <2>5. turned' > turned => toldOfIt'.ok \/ missed' # {}
    BY <1>3, <2>4
  <2> QED  BY <1>4, <2>1, <2>3, <2>4, <2>5
<1>8. CASE Picture!NoAnswer(Picture!Opens(camera.psia)) /\ Picture!Failed(0)
  <2>1. ptz' = [ptz EXCEPT !.step = "done"] /\ toldOfIt'.ok = FALSE /\ (toldOfIt'.status = 0 => ptz.first = 0)
    BY <1>8 DEF Picture!Failed, Picture!Told
  <2>2. missed' = missed \union {ptz.step} /\ turned' \in {turned, turned + 1}
    BY <1>8 DEF Picture!NoAnswer
  <2>3. (toldOfIt'.status = 0 => "hi3510" \in missed) /\ missed' # {} /\ ptz.step \in missed'
    BY <1>3, <2>1, <2>2
  <2> QED  BY <1>4, <2>1, <2>2, <2>3
<1> QED  BY <1>5, <1>6, <1>7, <1>8 DEF Picture!PsiaRequest

LEMMA StreamsAreAsked == AskingInv /\ Picture!AskForStreams => AskingInv'
<1> SUFFICES ASSUME AskingInv, Picture!AskForStreams PROVE AskingInv'
  OBVIOUS
<1>1. ptz = None /\ missed = {} /\ turned = 0 /\ found = <<>> /\ toldOfIt = None
  BY AskingConstants DEF AskingInv, Picture!AskForStreams
<1>2. UNCHANGED <<camera, missed, turned, found, toldOfIt>>
  BY DEF Picture!AskForStreams
<1>3. PICK user \in BOOLEAN : ptz' = [kind |-> "streams", step |-> "plain", user |-> user, path |-> 1]
  BY DEF Picture!AskForStreams
<1>4. ptz' \in Asked /\ ptz'.kind = "streams" /\ ptz'.step = "plain" /\ ptz'.path = 1
  BY <1>3 DEF Asked
<1>5. found' \in Seq(1..Candidates) /\ DOMAIN found' = {}
  BY <1>1, <1>2
<1>6. \A p \in 1..Candidates : ~Through(p)'
  BY <1>4, AskingConstants DEF Through
<1>7. ptz'.path \in 1..Candidates /\ missed' = {}
  BY <1>1, <1>2, <1>4, AskingConstants
<1>8. Searching'
  BY <1>4, <1>5, <1>6, <1>7 DEF Searching
<1> QED  BY <1>2, <1>4, <1>8 DEF AskingInv

\* A path that opened is found, one that did not answer is missed, and the search goes on.
LEMMA SearchGoesOn ==
  ASSUME ptz \in Asked, ptz.kind = "streams", Searching, ptz.step # "done", camera' = camera, Picture!NextPath,
         \/ found' = found /\ missed' = missed /\ ~Opening(ptz.path)
         \/ found' = Append(found, ptz.path) /\ missed' = missed /\ Opening(ptz.path)
         \/ found' = found /\ missed' = missed \union {ptz.path}
  PROVE  ptz' \in Asked /\ ptz'.kind = "streams" /\ Searching'
<1>1. PICK n \in 1..Candidates : n = ptz.path
  BY DEF Searching
<1>2. /\ ptz' \in Asked /\ ptz'.kind = "streams" /\ ptz'.user = ptz.user /\ ptz'.step # "named" /\ ptz'.path \in 1..Candidates
      /\ ptz'.step = "done" => ptz'.path = n /\ n = Candidates /\ (toldOfIt'.ok <=> found' # <<>>)
      /\ ptz'.step # "done" => ptz'.path = n + 1
  <2>1. CASE ptz.path = Candidates
    <3>1. ptz' = [ptz EXCEPT !.step = "done"] /\ toldOfIt' = [ok |-> found' # <<>>]
      BY <2>1 DEF Picture!NextPath
    <3>2. toldOfIt'.ok <=> found' # <<>>
      <4>1. CASE found' # <<>>
        BY <3>1, <4>1
      <4>2. CASE found' = <<>>
        BY <3>1, <4>2
      <4> QED  BY <4>1, <4>2
    <3> QED  BY <1>1, <2>1, <3>1, <3>2, StreamsGoOn
  <2>2. CASE ptz.path # Candidates
    <3>1. n + 1 \in Nat /\ n + 1 \in 1..Candidates
      BY <1>1, <2>2, AskingConstants
    <3>2. ptz' = [ptz EXCEPT !.step = "plain", !.path = n + 1]
      <4>1. ptz' = [ptz EXCEPT !.step = "plain", !.path = @ + 1]
        BY <2>2 DEF Picture!NextPath
      <4>2. ptz \in [kind : {"streams"}, step : {"plain", "named", "done"}, user : BOOLEAN, path : Nat]
        BY DEF Asked
      <4> QED  BY <1>1, <4>1, <4>2
    <3> QED  BY ZenonT(60), <3>1, <3>2, StreamsGoOn
  <2> QED  BY <2>1, <2>2
<1>3. \A p \in 1..Candidates : (Through(p) <=> p < n) /\ (Through(p)' <=> p <= n)
  BY <1>1, <1>2, AskingConstants DEF Through
<1>4. \A p \in 1..Candidates : Opening(p)' <=> Opening(p)
  BY <1>2 DEF Opening
<1>5. /\ found \in Seq(1..Candidates) /\ missed \in SUBSET (1..Candidates)
      /\ DOMAIN found = 1..Len(found) /\ Len(found) \in Nat /\ \A i \in 1..Len(found) : found[i] \in 1..Candidates
  BY LenProperties, ElementOfSeq DEF Searching
<1>6. /\ \A i \in DOMAIN found : found[i] < n /\ Opening(found[i]) /\ found[i] \notin missed
      /\ \A p \in 1..Candidates : p < n /\ Opening(p) /\ p \notin missed => \E i \in DOMAIN found : found[i] = p
      /\ \A i, j \in DOMAIN found : i < j => found[i] < found[j]
      /\ \A p \in missed : p < n
  BY <1>3, <1>5 DEF Searching
<1>7. ASSUME /\ found' \in Seq(1..Candidates) /\ missed' \in SUBSET (1..Candidates)
             /\ DOMAIN found' = 1..Len(found') /\ \A i \in 1..Len(found') : found'[i] \in 1..Candidates
             /\ \A i \in DOMAIN found' : found'[i] <= n /\ Opening(found'[i]) /\ found'[i] \notin missed'
             /\ \A p \in 1..Candidates : p <= n /\ Opening(p) /\ p \notin missed' => \E i \in DOMAIN found' : found'[i] = p
             /\ \A i, j \in DOMAIN found' : i < j => found'[i] < found'[j]
             /\ \A p \in missed' : p <= n
      PROVE  Searching'
  <2>1. \A i \in DOMAIN found' : (Through(found[i]) /\ Opening(found[i]) /\ found[i] \notin missed)'
    BY <1>3, <1>4, <1>7
  <2>2. (\A p \in 1..Candidates : Through(p) /\ Opening(p) /\ p \notin missed => \E i \in DOMAIN found : found[i] = p)'
    BY <1>3, <1>4, <1>7
  <2>3. (\A p \in missed : Through(p))'
    BY <1>3, <1>7
  <2>4. ptz'.step = "done" => ptz'.path = Candidates /\ (toldOfIt'.ok <=> found' # <<>>)
    BY <1>2
  <2> QED  BY <1>2, <1>7, <2>1, <2>2, <2>3, <2>4 DEF Searching
<1>8. CASE found' = found /\ missed' = missed /\ ~Opening(n)
  <2>1. /\ \A i \in DOMAIN found : found[i] <= n /\ found[i] \notin missed'
        /\ \A p \in missed' : p <= n
        /\ missed' \in SUBSET (1..Candidates)
    <3>1. \A i \in DOMAIN found : found[i] <= n /\ found[i] # n /\ found[i] \notin missed
      BY <1>1, <1>5, <1>6
    <3>2. missed' \in SUBSET (1..Candidates)
      BY <1>1, <1>5, <1>8
    <3>3. \A p \in missed' : p \in missed \/ p = n
      BY <1>8
    <3>4. \A p \in missed : p <= n
      BY <1>1, <1>5, <1>6
    <3>5. \A p \in missed' : p <= n
      BY <1>1, <3>3, <3>4
    <3> QED  BY <3>1, <3>2, <3>3, <3>5
  <2>2. \A p \in 1..Candidates : p <= n /\ Opening(p) /\ p \notin missed' => p < n /\ p \notin missed
    BY <1>1, <1>8
  <2>3. found' = found
    BY <1>8
  <2> QED  BY <1>2, <1>5, <1>6, <1>7, <2>1, <2>2, <2>3
<1>9. CASE found' = found /\ missed' = missed \union {n}
  <2>1. /\ \A i \in DOMAIN found : found[i] <= n /\ found[i] \notin missed'
        /\ \A p \in missed' : p <= n
        /\ missed' \in SUBSET (1..Candidates)
    <3>1. \A i \in DOMAIN found : found[i] <= n /\ found[i] # n /\ found[i] \notin missed
      BY <1>1, <1>5, <1>6
    <3>2. missed' \in SUBSET (1..Candidates)
      BY <1>1, <1>5, <1>9
    <3>3. \A p \in missed' : p \in missed \/ p = n
      BY <1>9
    <3>4. \A p \in missed : p <= n
      BY <1>1, <1>5, <1>6
    <3>5. \A p \in missed' : p <= n
      BY <1>1, <3>3, <3>4
    <3> QED  BY <3>1, <3>2, <3>3, <3>5
  <2>2. \A p \in 1..Candidates : p <= n /\ Opening(p) /\ p \notin missed' => p < n /\ p \notin missed
    BY <1>1, <1>9
  <2>3. found' = found
    BY <1>9
  <2> QED  BY <1>2, <1>5, <1>6, <1>7, <2>1, <2>2, <2>3
<1>10. CASE found' = Append(found, n) /\ missed' = missed /\ Opening(n)
  <2>1. /\ found' \in Seq(1..Candidates) /\ Len(found') = Len(found) + 1 /\ DOMAIN found' = 1..Len(found) + 1
        /\ \A i \in 1..Len(found) : found'[i] = found[i]
        /\ found'[Len(found) + 1] = n
    <3>1. found' = Append(found, n) /\ found \in Seq(1..Candidates) /\ n \in 1..Candidates
      BY <1>5, <1>10
    <3>2. found' \in Seq(1..Candidates) /\ Len(found') = Len(found) + 1
      BY <3>1, AppendProperties
    <3>3. DOMAIN found' = 1..Len(found')
      BY <3>2, LenProperties
    <3>4. (\A i \in 1..Len(found) : found'[i] = found[i]) /\ found'[Len(found) + 1] = n
      BY <3>1, AppendProperties
    <3> QED  BY <3>2, <3>3, <3>4
  <2>2. \A i \in DOMAIN found' : i \in DOMAIN found \/ i = Len(found) + 1
    BY <1>5, <2>1
  <2>m. missed' = missed /\ n \notin missed
    BY <1>1, <1>5, <1>6, <1>10
  <2>3. \A i \in DOMAIN found' : found'[i] <= n /\ Opening(found'[i]) /\ found'[i] \notin missed' /\ found'[i] \in 1..Candidates
    BY <1>1, <1>5, <1>6, <1>10, <2>1, <2>2, <2>m
  <2>4. \A p \in 1..Candidates : p <= n /\ Opening(p) /\ p \notin missed' => \E i \in DOMAIN found' : found'[i] = p
    <3> SUFFICES ASSUME NEW p \in 1..Candidates, p <= n, Opening(p), p \notin missed' PROVE \E i \in DOMAIN found' : found'[i] = p
      OBVIOUS
    <3>1. CASE p = n
      BY <1>5, <2>1, <3>1
    <3>2. CASE p # n
      <4>1. PICK i \in DOMAIN found : found[i] = p
        BY <1>6, <1>10, <3>2
      <4> QED  BY <1>5, <2>1, <4>1
    <3> QED  BY <3>1, <3>2
  <2>5. \A i, j \in DOMAIN found' : i < j => found'[i] < found'[j]
    BY <1>5, <1>6, <2>1, <2>2
  <2>6. \A p \in missed' : p <= n
    BY <1>5, <1>6, <2>m
  <2> QED  BY <1>2, <1>5, <1>7, <2>1, <2>3, <2>4, <2>5, <2>6, <2>m
<1> QED  BY <1>1, <1>2, <1>8, <1>9, <1>10

LEMMA PathsAreTried == AskingInv /\ Picture!RtspDescribeOnce => AskingInv'
<1> SUFFICES ASSUME AskingInv, Picture!RtspDescribeOnce PROVE AskingInv'
  OBVIOUS
<1>1. ptz # None /\ ptz.kind = "streams" /\ ptz.step # "done" /\ camera' = camera
  BY DEF Picture!RtspDescribeOnce
<1>2. ptz \in Asked /\ Searching
  BY <1>1 DEF AskingInv
<1>3. ptz.step \in {"plain", "named"} /\ ptz.user \in BOOLEAN
  BY <1>1, <1>2 DEF Asked
<1>4. ptz.path \in 1..Candidates /\ (ptz.step = "named" => camera.paths[ptz.path] = "digest" /\ ptz.user)
  BY <1>2 DEF Searching
<1>5. CASE Picture!AsksAgain(camera.paths[ptz.path], {"digest"}) /\ ptz' = [ptz EXCEPT !.step = "named"] /\ UNCHANGED <<missed, found, toldOfIt>>
  <2>1. /\ ptz' \in Asked /\ ptz'.kind = "streams" /\ ptz'.step = "named" /\ ptz'.user = ptz.user /\ ptz'.path = ptz.path
    BY <1>1, <1>2, <1>5, StreamsGoOn
  <2>2. camera.paths[ptz.path] = "digest" /\ ptz.user
    BY <1>5 DEF Picture!AsksAgain
  <2>3. \A p : (Opening(p)' <=> Opening(p)) /\ (Through(p)' <=> Through(p))
    BY <1>1, <2>1 DEF Opening, Through
  <2>4. Searching'
    BY <1>1, <1>2, <1>5, <2>1, <2>2, <2>3 DEF Searching
  <2> QED  BY <1>1, <2>1, <2>4 DEF AskingInv
<1>6. CASE /\ ~Picture!AsksAgain(camera.paths[ptz.path], {"digest"})
           /\ found' = (IF Picture!Opens(camera.paths[ptz.path]) THEN Append(found, ptz.path) ELSE found)
           /\ Picture!NextPath /\ UNCHANGED missed
  <2>1. Picture!Opens(camera.paths[ptz.path]) <=> Opening(ptz.path)
    BY <1>3, <1>4, <1>6 DEF Picture!Opens, Picture!AsksAgain, Opening
  <2>2. ptz' \in Asked /\ ptz'.kind = "streams" /\ Searching'
    BY <1>1, <1>2, <1>6, <2>1, SearchGoesOn
  <2> QED  BY <1>1, <2>2 DEF AskingInv
<1>7. CASE missed' = missed \union {ptz.path} /\ UNCHANGED found /\ Picture!NextPath
  <2>1. ptz' \in Asked /\ ptz'.kind = "streams" /\ Searching'
    BY <1>1, <1>2, <1>7, SearchGoesOn
  <2> QED  BY <1>1, <2>1 DEF AskingInv
<1> QED  BY <1>5, <1>6, <1>7 DEF Picture!RtspDescribeOnce

LEMMA AskingSteps == AskingInv /\ (Picture!AskNext \/ UNCHANGED askVars) => AskingInv'
<1>1. AskingInv /\ UNCHANGED askVars => AskingInv'
  BY DEF AskingInv, Turning, TurnIsTold, Searching, Through, Opening, askVars
<1> QED  BY <1>1, AskingTurns, FirstConvention, SecondConvention, StreamsAreAsked, PathsAreTried DEF Picture!AskNext

-----------------------------------------------------------------------------
(* What the clients are told of a command *)

RobotFields == RobotCommand!Fields
Whole(t) == DOMAIN t = Arms /\ \A r \in Arms : DOMAIN t[r] = RobotFields
Queued(q) == \E S : q \in Seq(S)

\* A command that waits for its write, or a tree that is saved.
Waiting(d) ==
  /\ DOMAIN d \in {{"kind", "ofTree", "told"}, {"kind", "ofTree", "told", "page"}}
  /\ d.kind = "save" => "page" \in DOMAIN d /\ Whole(d.page)
  /\ DOMAIN d.told \in SUBSET (Arms \X RobotFields)

\* One that waits tells of a field; it is the last that does.
Tells(i, r, f) == <<r, f>> \in DOMAIN underWay[i].told
TellsLast(i, r, f) == Tells(i, r, f) /\ \A j \in DOMAIN underWay : i < j => ~Tells(j, r, f)

\* A field nobody is to be told of is shown as it is, and the last that tells of one tells it as it is, but for what is in doubt.
CommandsInv ==
  /\ Whole(robotTree) /\ Queued(underWay)
  /\ \A i \in DOMAIN underWay : Waiting(underWay[i])
  /\ \A r \in Arms, f \in RobotFields :
       <<r, f>> \notin doubtful /\ (\A i \in DOMAIN underWay : ~Tells(i, r, f)) => shown[r][f] = robotTree[r][f]
  /\ \A r \in Arms, f \in RobotFields, i \in DOMAIN underWay :
       TellsLast(i, r, f) /\ underWay[i].ofTree =>
         underWay[i].told[<<r, f>>] = <<>> \/ underWay[i].told[<<r, f>>][1] = robotTree[r][f]

LEMMA CommandConstants == CombinedWith \in [Arms -> SUBSET Arms]
BY RelaysAssumption DEF RelaysAssumption

LEMMA CommandsStart == RobotCommand!Init => CommandsInv
<1> SUFFICES ASSUME RobotCommand!Init PROVE CommandsInv
  OBVIOUS
<1>1. robotTree = [r \in Arms |-> RobotCommand!NewRobot] /\ shown = robotTree /\ underWay = <<>>
  BY DEF RobotCommand!Init
<1>2. DOMAIN RobotCommand!NewRobot = RobotFields
  BY DEF RobotCommand!NewRobot, RobotFields, RobotCommand!Fields, RobotCommand!Objects
<1>3. Whole(robotTree)
  BY <1>1, <1>2 DEF Whole
<1>4. Queued(underWay)
  <2>1. <<>> \in Seq({})
    OBVIOUS
  <2> QED  BY <1>1, <2>1 DEF Queued
<1> QED  BY <1>1, <1>3, <1>4 DEF CommandsInv

LEMMA CommandsHold == CommandsInv => RobotCommand!ClientsSeeRobots
<1> SUFFICES ASSUME CommandsInv, underWay = <<>> PROVE \A r \in Arms, f \in RobotCommand!Fields : <<r, f>> \notin doubtful => shown[r][f] = robotTree[r][f]
  BY DEF RobotCommand!ClientsSeeRobots
<1>1. DOMAIN underWay = {}
  OBVIOUS
<1> QED  BY <1>1 DEF CommandsInv, RobotFields

LEMMA Queues == ASSUME NEW q, Queued(q) PROVE Len(q) \in Nat /\ DOMAIN q = 1..Len(q)
BY LenProperties DEF Queued

LEMMA LeftBehindKeeps ==
  ASSUME CommandsInv, NEW replaced
  PROVE  LET left == RobotCommand!LeftBehind(replaced) IN
         /\ Queued(left) /\ Len(left) = Len(underWay) /\ DOMAIN left = DOMAIN underWay
         /\ \A i \in DOMAIN underWay :
              /\ DOMAIN left[i] = DOMAIN underWay[i] /\ left[i].kind = underWay[i].kind /\ left[i].ofTree = underWay[i].ofTree
              /\ "page" \in DOMAIN underWay[i] => left[i].page = underWay[i].page
              /\ DOMAIN left[i].told = DOMAIN underWay[i].told
              /\ \A x \in DOMAIN underWay[i].told : x \notin replaced => left[i].told[x] = underWay[i].told[x]
<1> DEFINE left == RobotCommand!LeftBehind(replaced)
<1>1. Len(underWay) \in Nat /\ DOMAIN underWay = 1..Len(underWay)
  BY Queues DEF CommandsInv
<1>2. DOMAIN left = DOMAIN underWay
  BY DEF RobotCommand!LeftBehind
<1>3. left \in [1..Len(underWay) -> {left[i] : i \in 1..Len(underWay)}]
  BY <1>1 DEF RobotCommand!LeftBehind
<1>4. Queued(left)
  <2> HIDE DEF left
  <2>1. left \in Seq({left[i] : i \in 1..Len(underWay)})
    BY <1>1, <1>3
  <2> QED  BY <2>1 DEF Queued
<1>5. Len(left) = Len(underWay)
  <2> HIDE DEF left
  <2> QED  BY <1>1, <1>2, <1>4, Queues
<1>6. ASSUME NEW i \in DOMAIN underWay
      PROVE  /\ DOMAIN left[i] = DOMAIN underWay[i] /\ left[i].kind = underWay[i].kind /\ left[i].ofTree = underWay[i].ofTree
             /\ "page" \in DOMAIN underWay[i] => left[i].page = underWay[i].page
             /\ DOMAIN left[i].told = DOMAIN underWay[i].told
             /\ \A x \in DOMAIN underWay[i].told : x \notin replaced => left[i].told[x] = underWay[i].told[x]
  <2>1. PICK d : d = underWay[i]
    OBVIOUS
  <2>2. PICK words : words = [x \in DOMAIN d.told |-> IF x \in replaced /\ d.told[x] = <<>> THEN <<robotTree[x[1]][x[2]]>> ELSE d.told[x]]
    OBVIOUS
  <2>3. left[i] = [d EXCEPT !.told = words]
    BY <2>1, <2>2 DEF RobotCommand!LeftBehind
  <2>4. DOMAIN words = DOMAIN d.told /\ \A x \in DOMAIN d.told : x \notin replaced => words[x] = d.told[x]
    BY <2>2
  <2>5. DOMAIN d \in {{"kind", "ofTree", "told"}, {"kind", "ofTree", "told", "page"}}
    BY <2>1 DEF CommandsInv, Waiting
  <2>6. PICK e : e = [d EXCEPT !.told = words]
    OBVIOUS
  <2>7. DOMAIN e = DOMAIN d /\ e.kind = d.kind /\ e.ofTree = d.ofTree /\ e.told = words /\ ("page" \in DOMAIN d => e.page = d.page)
    BY <2>5, <2>6
  <2> QED  BY <2>1, <2>3, <2>4, <2>6, <2>7
<1> HIDE DEF left
<1> QED  BY <1>2, <1>4, <1>5, <1>6 DEF left

LEMMA CommandStands == CommandsInv /\ UNCHANGED commandVars => CommandsInv'
BY DEF CommandsInv, Tells, TellsLast, Queued, Whole, Waiting, commandVars

\* A command of some robots tells the fields it changes; who waited before tells them no more as the last.
LEMMA RobotCommandKeeps ==
  ASSUME CommandsInv, NEW kind, NEW reach \in SUBSET Arms, NEW fields \in SUBSET RobotFields, NEW anew \in SUBSET fields, kind # "save",
         NEW d, d = [kind |-> kind, ofTree |-> TRUE,
                     told |-> [x \in reach \X fields |-> IF x[2] \in RobotCommand!Objects THEN <<>> ELSE <<robotTree'[x[1]][x[2]]>>]],
         underWay' = Append(RobotCommand!LeftBehind(reach \X anew), d), UNCHANGED <<shown, doubtful>>,
         Whole(robotTree)', \A r \in Arms, f \in RobotFields : r \notin reach \/ f \notin fields => robotTree'[r][f] = robotTree[r][f]
  PROVE  CommandsInv'
<1> DEFINE left == RobotCommand!LeftBehind(reach \X anew)
<1>1. PICK n \in Nat : Len(underWay) = n /\ DOMAIN underWay = 1..n
  BY Queues DEF CommandsInv
<1>2. /\ Queued(left) /\ Len(left) = n /\ DOMAIN left = 1..n
      /\ \A i \in 1..n :
           /\ DOMAIN left[i] = DOMAIN underWay[i] /\ left[i].kind = underWay[i].kind /\ left[i].ofTree = underWay[i].ofTree
           /\ "page" \in DOMAIN underWay[i] => left[i].page = underWay[i].page
           /\ DOMAIN left[i].told = DOMAIN underWay[i].told
           /\ \A x \in DOMAIN underWay[i].told : x \notin reach \X anew => left[i].told[x] = underWay[i].told[x]
  BY SMTT(30), <1>1, LeftBehindKeeps
<1> HIDE DEF left
<1>3. PICK S : left \in Seq(S)
  BY <1>2 DEF Queued
<1>4. Append(left, d) \in Seq(S \union {d}) /\ Len(Append(left, d)) = n + 1
      /\ (\A i \in 1..n : Append(left, d)[i] = left[i]) /\ Append(left, d)[n + 1] = d
  <2>1. left \in Seq(S \union {d})
    BY <1>3
  <2>2. d \in S \union {d}
    OBVIOUS
  <2> QED  BY <1>2, <2>1, <2>2, AppendProperties
<1>5. underWay' = Append(left, d)
  BY DEF left
<1>6. Queued(underWay)' /\ DOMAIN underWay' = 1..n + 1
  BY <1>1, <1>4, <1>5, LenProperties DEF Queued
<1>7. (\A i \in 1..n : underWay'[i] = left[i]) /\ underWay'[n + 1] = d
  BY <1>4, <1>5
<1>8. DOMAIN d.told = reach \X fields /\ d.kind = kind /\ DOMAIN d = {"kind", "ofTree", "told"}
  OBVIOUS
<1>9. /\ \A i \in DOMAIN underWay' : i \in 1..n \/ i = n + 1
      /\ n + 1 \in DOMAIN underWay' /\ \A i \in 1..n : i \in DOMAIN underWay' /\ i < n + 1
  <2>1. DOMAIN underWay' = 1..(n + 1)
    BY <1>6
  <2>2. /\ \A i \in 1..(n + 1) : i \in 1..n \/ i = n + 1
        /\ n + 1 \in 1..(n + 1) /\ \A i \in 1..n : i \in 1..(n + 1) /\ i < n + 1
    BY <1>1
  <2> QED  BY <2>1, <2>2
<1>10. ASSUME NEW i \in DOMAIN underWay' PROVE Waiting(underWay[i])'
  <2>1. CASE i \in 1..n
    <3>1. Waiting(underWay[i])
      BY <1>1, <2>1 DEF CommandsInv
    <3>2. Waiting(left[i])
      BY <1>2, <2>1, <3>1 DEF Waiting
    <3> QED  BY <1>7, <2>1, <3>2 DEF Waiting, Whole
  <2>2. CASE i = n + 1
    <3>1. reach \X fields \in SUBSET (Arms \X RobotFields)
      OBVIOUS
    <3>2. DOMAIN d \in {{"kind", "ofTree", "told"}} /\ d.kind # "save"
      BY <1>8
    <3> QED  BY <1>7, <1>8, <2>2, <3>1, <3>2 DEF Waiting
  <2> QED  BY <1>9, <2>1, <2>2
<1>11. \A r \in Arms, f \in RobotFields, i \in 1..n : Tells(i, r, f)' <=> Tells(i, r, f)
  BY <1>1, <1>2, <1>7 DEF Tells
<1>12. \A r \in Arms, f \in RobotFields : Tells(n + 1, r, f)' <=> r \in reach /\ f \in fields
  <2> SUFFICES ASSUME NEW r \in Arms, NEW f \in RobotFields PROVE <<r, f>> \in DOMAIN underWay'[n + 1].told <=> r \in reach /\ f \in fields
    BY DEF Tells
  <2>1. DOMAIN underWay'[n + 1].told = reach \X fields
    BY <1>7, <1>8
  <2> QED  BY <2>1
<1>13. ASSUME NEW r \in Arms, NEW f \in RobotFields, <<r, f>> \notin doubtful', \A i \in DOMAIN underWay' : ~Tells(i, r, f)'
       PROVE  shown'[r][f] = robotTree'[r][f]
  <2>1. <<r, f>> \notin DOMAIN underWay'[n + 1].told
    BY <1>1, <1>9, <1>13 DEF Tells
  <2>2. r \notin reach \/ f \notin fields
    BY <1>12, <2>1 DEF Tells
  <2>3. \A i \in DOMAIN underWay : <<r, f>> \notin DOMAIN underWay'[i].told
    BY <1>1, <1>9, <1>13 DEF Tells
  <2>4. \A i \in DOMAIN underWay : ~Tells(i, r, f)
    BY <1>1, <1>11, <2>3 DEF Tells
  <2> QED  BY <1>13, <2>2, <2>4 DEF CommandsInv
<1>14. ASSUME NEW r \in Arms, NEW f \in RobotFields, NEW i \in DOMAIN underWay', TellsLast(i, r, f)', underWay'[i].ofTree
       PROVE  underWay'[i].told[<<r, f>>] = <<>> \/ underWay'[i].told[<<r, f>>][1] = robotTree'[r][f]
  <2>1. CASE i = n + 1
    <3>1. r \in reach /\ f \in fields
      BY <1>12, <1>14, <2>1 DEF TellsLast, Tells
    <3>2. underWay'[i].told[<<r, f>>] = IF f \in RobotCommand!Objects THEN <<>> ELSE <<robotTree'[r][f]>>
      BY <1>7, <2>1, <3>1
    <3> QED  BY <3>2
  <2>2. CASE i \in 1..n
    <3>1. r \notin reach \/ f \notin fields
      BY <1>9, <1>12, <1>14, <2>2 DEF TellsLast, Tells
    <3>2. TellsLast(i, r, f)
      <4>1. <<r, f>> \in DOMAIN underWay'[i].told /\ \A j \in DOMAIN underWay' : i < j => <<r, f>> \notin DOMAIN underWay'[j].told
        BY <1>14 DEF TellsLast, Tells
      <4>2. \A j \in 1..n : i < j => <<r, f>> \notin DOMAIN underWay'[j].told
        BY <1>9, <4>1
      <4>3. \A j \in 1..n : <<r, f>> \in DOMAIN underWay'[j].told <=> <<r, f>> \in DOMAIN underWay[j].told
        BY <1>11 DEF Tells
      <4> QED  BY <1>1, <2>2, <4>1, <4>2, <4>3 DEF TellsLast, Tells
    <3>3. <<r, f>> \in DOMAIN underWay[i].told /\ <<r, f>> \notin reach \X anew
      BY <3>1, <3>2 DEF TellsLast, Tells
    <3>4. underWay'[i].told[<<r, f>>] = underWay[i].told[<<r, f>>] /\ underWay[i].ofTree
      <4>1. underWay'[i] = left[i] /\ i \in 1..n
        BY <1>7, <2>2
      <4>2. left[i].told[<<r, f>>] = underWay[i].told[<<r, f>>] /\ left[i].ofTree = underWay[i].ofTree
        BY <1>2, <2>2, <3>3
      <4> QED  BY <1>14, <4>1, <4>2
    <3>5. robotTree'[r][f] = robotTree[r][f]
      BY <3>1
    <3> QED  BY <1>1, <2>2, <3>2, <3>4, <3>5 DEF CommandsInv
  <2> QED  BY <1>9, <2>1, <2>2
<1> QED  BY ZenonT(60), <1>6, <1>10, <1>13, <1>14 DEF CommandsInv

\* A robot whose fields are what they were, but for these; robots of which only those that are reached are rewritten.
Rewritten(old, new, fields) == DOMAIN new = RobotFields /\ \A f \in RobotFields \ fields : new[f] = old[f]
Redone(reach, fields) ==
  /\ DOMAIN robotTree' = Arms
  /\ \A r \in Arms : IF r \in reach THEN Rewritten(robotTree[r], robotTree'[r], fields) ELSE robotTree'[r] = robotTree[r]

\* A command waits for its write, and with it what it is going to tell.
Goes(kind, reach, fields, anew) ==
  /\ underWay' = Append(RobotCommand!LeftBehind(reach \X anew),
       [kind |-> kind, ofTree |-> TRUE,
        told |-> [x \in reach \X fields |-> IF x[2] \in RobotCommand!Objects THEN <<>> ELSE <<robotTree'[x[1]][x[2]]>>]])
  /\ UNCHANGED <<shown, doubtful>>

LEMMA FieldIsRewritten ==
  ASSUME NEW old, DOMAIN old = RobotFields, NEW field \in RobotFields, NEW value
  PROVE  Rewritten(old, [old EXCEPT ![field] = value], {field})
BY DEF Rewritten

LEMMA FieldsAreKnown ==
  {"enabled", "valves", "pumps", "playback", "pose", "layout", "tool", "points", "vision", "role"} = RobotFields
BY DEF RobotFields, RobotCommand!Fields, RobotCommand!Objects

LEMMA GroupsAreKnown == \A r \in Arms : RobotCommand!Group(r) \in SUBSET Arms
BY CommandConstants DEF RobotCommand!Group

LEMMA CommandIsTold ==
  ASSUME CommandsInv, NEW kind, kind # "save", NEW reach \in SUBSET Arms, NEW fields \in SUBSET RobotFields, NEW anew \in SUBSET fields,
         Goes(kind, reach, fields, anew), Redone(reach, fields)
  PROVE  CommandsInv'
<1>1. Whole(robotTree)' /\ \A r \in Arms, f \in RobotFields : r \notin reach \/ f \notin fields => robotTree'[r][f] = robotTree[r][f]
  BY DEF Whole, CommandsInv, Redone, Rewritten
<1> QED  BY ZenonT(60), <1>1, RobotCommandKeeps DEF Goes

LEMMA StopIsTold == ASSUME CommandsInv, NEW r \in Arms, RobotCommand!Stop(r) PROVE CommandsInv'
<1>1. Goes("command", RobotCommand!Group(r), {"playback"}, {"playback"})
  BY DEF RobotCommand!Stop, RobotCommand!Command, Goes
<1>2. robotTree' = [s \in Arms |-> IF s \in RobotCommand!Group(r) THEN [robotTree[s] EXCEPT !.playback = RobotCommand!Still(@)] ELSE robotTree[s]]
  BY DEF RobotCommand!Stop, RobotCommand!Command
<1>3. Redone(RobotCommand!Group(r), {"playback"})
  BY <1>2, FieldIsRewritten, FieldsAreKnown DEF Redone, CommandsInv, Whole
<1> QED  BY <1>1, <1>3, CommandIsTold, GroupsAreKnown, FieldsAreKnown

LEMMA EnableIsTold == ASSUME CommandsInv, NEW r \in Arms, RobotCommand!Enable(r) PROVE CommandsInv'
<1>1. Goes("command", {r}, {"enabled"}, {})
  BY DEF RobotCommand!Enable, RobotCommand!Command, Goes
<1>2. robotTree' = [s \in Arms |-> IF s \in {r} THEN [robotTree[s] EXCEPT !.enabled = TRUE] ELSE robotTree[s]]
  BY DEF RobotCommand!Enable, RobotCommand!Command
<1>3. Redone({r}, {"enabled"})
  BY <1>2, FieldIsRewritten, FieldsAreKnown DEF Redone, CommandsInv, Whole
<1> QED  BY <1>1, <1>3, CommandIsTold, GroupsAreKnown, FieldsAreKnown

LEMMA PlayIsTold == ASSUME CommandsInv, NEW r \in Arms, RobotCommand!Play(r) PROVE CommandsInv'
<1>1. Goes("command", RobotCommand!Group(r), {"playback"}, {"playback"})
  BY DEF RobotCommand!Play, RobotCommand!Change, RobotCommand!Command, Goes
<1>2. robotTree' = [s \in Arms |-> IF s \in RobotCommand!Group(r) THEN [robotTree[s] EXCEPT !.playback = [@ EXCEPT !.playing = TRUE, !.paused = FALSE, !.step = 0]] ELSE robotTree[s]]
  BY DEF RobotCommand!Play, RobotCommand!Change, RobotCommand!Command
<1>3. Redone(RobotCommand!Group(r), {"playback"})
  BY <1>2, FieldIsRewritten, FieldsAreKnown DEF Redone, CommandsInv, Whole
<1> QED  BY <1>1, <1>3, CommandIsTold, GroupsAreKnown, FieldsAreKnown

LEMMA ResetIsTold == ASSUME CommandsInv, NEW r \in Arms, RobotCommand!Reset(r) PROVE CommandsInv'
<1>1. Goes("command", RobotCommand!Group(r), {"pose"}, {"pose"})
  BY DEF RobotCommand!Reset, RobotCommand!Change, RobotCommand!Command, Goes
<1>2. robotTree' = [s \in Arms |-> IF s \in RobotCommand!Group(r) THEN [robotTree[s] EXCEPT !.pose = 0] ELSE robotTree[s]]
  BY DEF RobotCommand!Reset, RobotCommand!Change, RobotCommand!Command
<1>3. Redone(RobotCommand!Group(r), {"pose"})
  BY <1>2, FieldIsRewritten, FieldsAreKnown DEF Redone, CommandsInv, Whole
<1> QED  BY <1>1, <1>3, CommandIsTold, GroupsAreKnown, FieldsAreKnown

LEMMA VisionIsTold == ASSUME CommandsInv, NEW r \in Arms, NEW on, RobotCommand!Vision(r, on) PROVE CommandsInv'
<1>1. Goes("command", RobotCommand!Group(r), {"vision"}, {})
  BY DEF RobotCommand!Vision, RobotCommand!Change, RobotCommand!Command, Goes
<1>2. robotTree' = [s \in Arms |-> IF s \in RobotCommand!Group(r) THEN [robotTree[s] EXCEPT !.vision = on] ELSE robotTree[s]]
  BY DEF RobotCommand!Vision, RobotCommand!Change, RobotCommand!Command
<1>3. Redone(RobotCommand!Group(r), {"vision"})
  BY <1>2, FieldIsRewritten, FieldsAreKnown DEF Redone, CommandsInv, Whole
<1> QED  BY <1>1, <1>3, CommandIsTold, GroupsAreKnown, FieldsAreKnown

LEMMA RoleIsTold == ASSUME CommandsInv, NEW r \in Arms, NEW role, RobotCommand!Role(r, role) PROVE CommandsInv'
<1>1. Goes("command", {r}, {"role"}, {})
  BY DEF RobotCommand!Role, RobotCommand!ChangeOne, RobotCommand!Command, Goes
<1>2. robotTree' = [s \in Arms |-> IF s \in {r} THEN [robotTree[s] EXCEPT !.role = role] ELSE robotTree[s]]
  BY DEF RobotCommand!Role, RobotCommand!ChangeOne, RobotCommand!Command
<1>3. Redone({r}, {"role"})
  BY <1>2, FieldIsRewritten, FieldsAreKnown DEF Redone, CommandsInv, Whole
<1> QED  BY <1>1, <1>3, CommandIsTold, GroupsAreKnown, FieldsAreKnown

LEMMA LayoutIsTold == ASSUME CommandsInv, NEW r \in Arms, NEW size, RobotCommand!Layout(r, size) PROVE CommandsInv'
<1>1. Goes("command", {r}, {"layout"}, {"layout"})
  BY DEF RobotCommand!Layout, RobotCommand!ChangeOne, RobotCommand!Command, Goes
<1>2. robotTree' = [s \in Arms |-> IF s \in {r} THEN [robotTree[s] EXCEPT !.layout = size] ELSE robotTree[s]]
  BY DEF RobotCommand!Layout, RobotCommand!ChangeOne, RobotCommand!Command
<1>3. Redone({r}, {"layout"})
  BY <1>2, FieldIsRewritten, FieldsAreKnown DEF Redone, CommandsInv, Whole
<1> QED  BY <1>1, <1>3, CommandIsTold, GroupsAreKnown, FieldsAreKnown

LEMMA PointsAreTold == ASSUME CommandsInv, NEW r \in Arms, NEW work, RobotCommand!Points(r, work) PROVE CommandsInv'
<1>1. Goes("command", {r}, {"points"}, {})
  BY DEF RobotCommand!Points, RobotCommand!ChangeOne, RobotCommand!Command, Goes
<1>2. robotTree' = [s \in Arms |-> IF s \in {r} THEN [robotTree[s] EXCEPT !.points = work] ELSE robotTree[s]]
  BY DEF RobotCommand!Points, RobotCommand!ChangeOne, RobotCommand!Command
<1>3. Redone({r}, {"points"})
  BY <1>2, FieldIsRewritten, FieldsAreKnown DEF Redone, CommandsInv, Whole
<1> QED  BY <1>1, <1>3, CommandIsTold, GroupsAreKnown, FieldsAreKnown

LEMMA JogIsTold == ASSUME CommandsInv, NEW r \in Arms, NEW by, RobotCommand!Jog(r, by) PROVE CommandsInv'
<1>1. Goes("command", {q \in RobotCommand!Group(r) : by <= Reach[q]}, {"pose"}, {})
  BY DEF RobotCommand!Jog, RobotCommand!Command, Goes
<1>2. robotTree' = [s \in Arms |-> IF s \in {q \in RobotCommand!Group(r) : by <= Reach[q]} THEN [robotTree[s] EXCEPT !.pose = @ + by] ELSE robotTree[s]]
  BY DEF RobotCommand!Jog, RobotCommand!Command
<1>3. Redone({q \in RobotCommand!Group(r) : by <= Reach[q]}, {"pose"})
  BY <1>2, FieldIsRewritten, FieldsAreKnown DEF Redone, CommandsInv, Whole
<1> QED  BY <1>1, <1>3, CommandIsTold, GroupsAreKnown, FieldsAreKnown

LEMMA PauseIsTold == ASSUME CommandsInv, NEW r \in Arms, NEW wanted, RobotCommand!Pause(r, wanted) PROVE CommandsInv'
<1>1. PICK halted : halted = IF wanted = {} THEN ~robotTree[r].playback.paused ELSE TRUE \in wanted
  OBVIOUS
<1>2. Goes("command", RobotCommand!Group(r), {"playback"}, {"playback"})
  BY DEF RobotCommand!Pause, RobotCommand!Change, RobotCommand!Command, Goes
<1>3. robotTree' = [s \in Arms |-> IF s \in RobotCommand!Group(r)
                     THEN [robotTree[s] EXCEPT !.playback = [@ EXCEPT !.playing = TRUE, !.paused = halted]] ELSE robotTree[s]]
  BY <1>1 DEF RobotCommand!Pause, RobotCommand!Change, RobotCommand!Command
<1>4. Redone(RobotCommand!Group(r), {"playback"})
  BY <1>3, FieldIsRewritten, FieldsAreKnown DEF Redone, CommandsInv, Whole
<1> QED  BY <1>2, <1>4, CommandIsTold, GroupsAreKnown, FieldsAreKnown

\* A setpoint that is refused is told of nothing.
LEMMA NothingIsTold == ASSUME CommandsInv, NEW r \in Arms, RobotCommand!Nothing(RobotCommand!Group(r)) PROVE CommandsInv'
<1>1. Goes("command", RobotCommand!Group(r), {}, {}) /\ robotTree' = [s \in Arms |-> IF s \in RobotCommand!Group(r) THEN robotTree[s] ELSE robotTree[s]]
  BY DEF RobotCommand!Nothing, RobotCommand!Command, Goes
<1>2. Redone(RobotCommand!Group(r), {})
  BY <1>1 DEF Redone, CommandsInv, Whole, Rewritten
<1> QED  BY <1>1, <1>2, CommandIsTold, GroupsAreKnown

LEMMA SpeedIsTold == ASSUME CommandsInv, NEW r \in Arms, NEW speed, RobotCommand!Speed(r, speed) PROVE CommandsInv'
<1>1. CASE RobotCommand!Nothing(RobotCommand!Group(r))
  BY <1>1, NothingIsTold
<1>2. CASE speed \in 10..500
  <2>1. Goes("command", RobotCommand!Group(r), {"playback"}, {})
    BY <1>2 DEF RobotCommand!Speed, RobotCommand!Change, RobotCommand!Command, Goes
  <2>2. robotTree' = [s \in Arms |-> IF s \in RobotCommand!Group(r) THEN [robotTree[s] EXCEPT !.playback.speed = speed] ELSE robotTree[s]]
    BY <1>2 DEF RobotCommand!Speed, RobotCommand!Change, RobotCommand!Command
  <2>3. \A s \in Arms : Rewritten(robotTree[s], [robotTree[s] EXCEPT !.playback.speed = speed], {"playback"})
    BY FieldIsRewritten, FieldsAreKnown DEF CommandsInv, Whole
  <2>4. Redone(RobotCommand!Group(r), {"playback"})
    BY <2>2, <2>3 DEF Redone, CommandsInv, Whole
  <2> QED  BY <2>1, <2>4, CommandIsTold, GroupsAreKnown, FieldsAreKnown
<1> QED  BY <1>1, <1>2 DEF RobotCommand!Speed

LEMMA OutputIsTold ==
  ASSUME CommandsInv, NEW r \in Arms, NEW kind \in {"valves", "pumps"}, NEW i, NEW on, RobotCommand!Output(r, kind, i, on) PROVE CommandsInv'
<1>1. CASE RobotCommand!Nothing(RobotCommand!Group(r))
  BY <1>1, NothingIsTold
<1>2. CASE i \in RobotCommand!Outputs
  <2>1. Goes("command", RobotCommand!Group(r), {kind}, {})
    BY <1>2 DEF RobotCommand!Output, RobotCommand!Change, RobotCommand!Command, Goes
  <2>2. robotTree' = [s \in Arms |-> IF s \in RobotCommand!Group(r)
                       THEN [robotTree[s] EXCEPT ![kind] = IF on THEN @ \cup {i} ELSE @ \ {i}] ELSE robotTree[s]]
    BY <1>2 DEF RobotCommand!Output, RobotCommand!Change, RobotCommand!Command
  <2>3. Redone(RobotCommand!Group(r), {kind})
    BY <2>2, FieldIsRewritten, FieldsAreKnown DEF Redone, CommandsInv, Whole
  <2> QED  BY <2>1, <2>3, CommandIsTold, GroupsAreKnown, FieldsAreKnown
<1> QED  BY <1>1, <1>2 DEF RobotCommand!Output

LEMMA ToolIsTold == ASSUME CommandsInv, NEW r \in Arms, NEW tool, RobotCommand!Tool(r, tool) PROVE CommandsInv'
<1>1. CASE RobotCommand!Nothing(RobotCommand!Group(r))
  BY <1>1, NothingIsTold
<1>2. CASE tool # None
  <2>1. Goes("command", RobotCommand!Group(r), {"tool"}, {})
    BY <1>2 DEF RobotCommand!Tool, RobotCommand!Change, RobotCommand!Command, Goes
  <2>2. robotTree' = [s \in Arms |-> IF s \in RobotCommand!Group(r) THEN [robotTree[s] EXCEPT !.tool = tool] ELSE robotTree[s]]
    BY <1>2 DEF RobotCommand!Tool, RobotCommand!Change, RobotCommand!Command
  <2>3. Redone(RobotCommand!Group(r), {"tool"})
    BY <2>2, FieldIsRewritten, FieldsAreKnown DEF Redone, CommandsInv, Whole
  <2> QED  BY <2>1, <2>3, CommandIsTold, GroupsAreKnown, FieldsAreKnown
<1> QED  BY <1>1, <1>2 DEF RobotCommand!Tool

\* Several fields, one after another.
LEMMA FieldsAreRewritten ==
  ASSUME NEW old, NEW new, NEW fields \in SUBSET RobotFields, Rewritten(old, new, fields), NEW field \in RobotFields, NEW value
  PROVE  Rewritten(old, [new EXCEPT ![field] = value], fields \union {field})
BY DEF Rewritten

LEMMA TrajectoryIsTold == ASSUME CommandsInv, NEW r \in Arms, NEW work, RobotCommand!Trajectory(r, work) PROVE CommandsInv'
<1>1. Goes("command", {r}, {"points", "playback"}, {"playback"})
  BY DEF RobotCommand!Trajectory, RobotCommand!ChangeOne, RobotCommand!Command, Goes
<1>2. robotTree' = [s \in Arms |-> IF s \in {r} THEN [robotTree[s] EXCEPT !.points = work, !.playback = RobotCommand!Still(@)] ELSE robotTree[s]]
  BY DEF RobotCommand!Trajectory, RobotCommand!ChangeOne, RobotCommand!Command
<1>3. Redone({r}, {"points", "playback"})
  <2>1. PICK old : old = robotTree[r] /\ DOMAIN old = RobotFields
    BY DEF CommandsInv, Whole
  <2>2. PICK new : new = [old EXCEPT !.points = work]
    OBVIOUS
  <2>3. Rewritten(old, new, {"points"})
    BY <2>1, <2>2, FieldIsRewritten, FieldsAreKnown
  <2>4. \A value : Rewritten(old, [new EXCEPT !.playback = value], {"points"} \union {"playback"})
    BY <2>3, FieldsAreRewritten, FieldsAreKnown
  <2>5. robotTree'[r] = [old EXCEPT !.points = work, !.playback = RobotCommand!Still(@)]
    BY <1>2, <2>1
  <2>6. \E value : robotTree'[r] = [new EXCEPT !.playback = value]
    BY <2>1, <2>2, <2>5, FieldsAreKnown
  <2>7. Rewritten(old, robotTree'[r], {"points", "playback"})
    BY <2>4, <2>6
  <2> QED  BY <1>2, <2>1, <2>7 DEF Redone
<1> QED  BY <1>1, <1>3, CommandIsTold, FieldsAreKnown

\* Everything that moves is off; and then the robot may not be started.
LEMMA OffIsRewritten ==
  ASSUME NEW old, DOMAIN old = RobotFields
  PROVE  /\ Rewritten(old, RobotCommand!Off(old), {"playback", "valves", "pumps"})
         /\ Rewritten(old, [RobotCommand!Off(old) EXCEPT !.enabled = FALSE], {"enabled", "playback", "valves", "pumps"})
<1>1. PICK p : p = [old EXCEPT !.playback = RobotCommand!Still(@)]
  OBVIOUS
<1>2. PICK q : q = [p EXCEPT !.valves = {}]
  OBVIOUS
<1>3. RobotCommand!Off(old) = [q EXCEPT !.pumps = {}]
  BY <1>1, <1>2 DEF RobotCommand!Off
<1>4. Rewritten(old, p, {"playback"})
  BY <1>1, FieldIsRewritten, FieldsAreKnown
<1>5. Rewritten(old, q, {"playback", "valves"})
  <2>1. Rewritten(old, [p EXCEPT !.valves = {}], {"playback"} \union {"valves"})
    BY <1>4, FieldsAreRewritten, FieldsAreKnown
  <2>2. {"playback"} \union {"valves"} = {"playback", "valves"}
    OBVIOUS
  <2> QED  BY <1>2, <2>1, <2>2
<1>6. Rewritten(old, RobotCommand!Off(old), {"playback", "valves", "pumps"})
  <2>1. Rewritten(old, [q EXCEPT !.pumps = {}], {"playback", "valves"} \union {"pumps"})
    BY <1>5, FieldsAreRewritten, FieldsAreKnown
  <2>2. {"playback", "valves"} \union {"pumps"} = {"playback", "valves", "pumps"}
    OBVIOUS
  <2> QED  BY <1>3, <2>1, <2>2
<1>7. Rewritten(old, [RobotCommand!Off(old) EXCEPT !.enabled = FALSE], {"enabled", "playback", "valves", "pumps"})
  <2> DEFINE off == RobotCommand!Off(old)
  <2> HIDE DEF off
  <2>0. Rewritten(old, off, {"playback", "valves", "pumps"})
    BY <1>6 DEF off
  <2>1. Rewritten(old, [off EXCEPT !.enabled = FALSE], {"playback", "valves", "pumps"} \union {"enabled"})
    BY <2>0, FieldsAreRewritten, FieldsAreKnown
  <2>2. {"playback", "valves", "pumps"} \union {"enabled"} = {"enabled", "playback", "valves", "pumps"}
    OBVIOUS
  <2> QED  BY <2>1, <2>2 DEF off
<1> QED  BY <1>6, <1>7

LEMMA DisableIsTold == ASSUME CommandsInv, NEW r \in Arms, RobotCommand!Disable(r) PROVE CommandsInv'
<1> DEFINE fields == {"enabled", "playback", "valves", "pumps"}
<1>1. Goes("command", {r}, fields, {"playback"})
  BY DEF RobotCommand!Disable, RobotCommand!Command, Goes
<1>2. robotTree' = [s \in Arms |-> IF s \in {r} THEN [RobotCommand!Off(robotTree[s]) EXCEPT !.enabled = FALSE] ELSE robotTree[s]]
  BY DEF RobotCommand!Disable, RobotCommand!Command
<1>3. Redone({r}, fields)
  BY <1>2, OffIsRewritten DEF Redone, CommandsInv, Whole
<1> QED  BY <1>1, <1>3, CommandIsTold, FieldsAreKnown

LEMMA StopAllIsTold == CommandsInv /\ RobotCommand!StopAll => CommandsInv'
<1> SUFFICES ASSUME CommandsInv, RobotCommand!StopAll PROVE CommandsInv'
  OBVIOUS
<1> DEFINE fields == {"playback", "valves", "pumps"}
<1>1. Goes("stop-all", Arms, fields, {"playback"})
  BY DEF RobotCommand!StopAll, RobotCommand!Command, Goes
<1>2. robotTree' = [s \in Arms |-> IF s \in Arms THEN RobotCommand!Off(robotTree[s]) ELSE robotTree[s]]
  BY DEF RobotCommand!StopAll, RobotCommand!Command
<1>3. Redone(Arms, fields)
  BY <1>2, OffIsRewritten DEF Redone, CommandsInv, Whole
<1> QED  BY <1>1, <1>3, CommandIsTold, FieldsAreKnown

\* A tree that is saved tells nothing yet.
LEMMA SaveWaits == CommandsInv /\ RobotCommand!Save => CommandsInv'
<1> SUFFICES ASSUME CommandsInv, RobotCommand!Save PROVE CommandsInv'
  OBVIOUS
<1>1. PICK n \in Nat : Len(underWay) = n /\ DOMAIN underWay = 1..n
  BY Queues DEF CommandsInv
<1>2. PICK r \in Arms : underWay' = Append(underWay, [kind |-> "save", ofTree |-> TRUE, told |-> <<>>,
                          page |-> [s \in Arms |-> IF s = r THEN [robotTree[s] EXCEPT !.enabled = ~@, !.valves = RobotCommand!Outputs] ELSE robotTree[s]]])
  BY DEF RobotCommand!Save
<1>3. UNCHANGED <<robotTree, shown, doubtful>>
  BY DEF RobotCommand!Save
<1>4. PICK given : given = [s \in Arms |-> IF s = r THEN [robotTree[s] EXCEPT !.enabled = ~@, !.valves = RobotCommand!Outputs] ELSE robotTree[s]]
  OBVIOUS
<1>5. Whole(given)
  <2>1. \A s \in Arms : DOMAIN [robotTree[s] EXCEPT !.enabled = ~@, !.valves = RobotCommand!Outputs] = RobotFields
    BY DEF CommandsInv, Whole
  <2> QED  BY <1>4, <2>1 DEF CommandsInv, Whole
<1>6. PICK d : d = [kind |-> "save", ofTree |-> TRUE, told |-> <<>>, page |-> given]
  OBVIOUS
<1>7. Waiting(d) /\ DOMAIN d.told = {}
  BY <1>5, <1>6 DEF Waiting
<1>8. PICK S : underWay \in Seq(S)
  BY DEF CommandsInv, Queued
<1>9. /\ underWay' \in Seq(S \union {d}) /\ Len(underWay') = n + 1
      /\ (\A i \in 1..n : underWay'[i] = underWay[i]) /\ underWay'[n + 1] = d
  <2>1. underWay \in Seq(S \union {d})
    BY <1>8
  <2>2. d \in S \union {d} /\ underWay' = Append(underWay, d)
    BY <1>2, <1>4, <1>6
  <2> QED  BY <1>1, <2>1, <2>2, AppendProperties
<1>10. Queued(underWay')
  BY <1>9 DEF Queued
<1>11. /\ \A i \in DOMAIN underWay' : i \in 1..n \/ i = n + 1
       /\ n + 1 \in DOMAIN underWay' /\ \A i \in 1..n : i \in DOMAIN underWay'
  <2>1. DOMAIN underWay' = 1..(n + 1)
    BY <1>9, LenProperties
  <2>2. /\ \A i \in 1..(n + 1) : i \in 1..n \/ i = n + 1
        /\ n + 1 \in 1..(n + 1) /\ \A i \in 1..n : i \in 1..(n + 1)
    BY <1>1
  <2> QED  BY <2>1, <2>2
<1>12. \A i \in DOMAIN underWay' : Waiting(underWay[i])'
  <2> SUFFICES ASSUME NEW i \in DOMAIN underWay' PROVE Waiting(underWay'[i])
    BY DEF Waiting, Whole
  <2>1. \A j \in 1..n : Waiting(underWay[j])
    BY <1>1 DEF CommandsInv
  <2> QED  BY <1>7, <1>9, <1>11, <2>1
<1>13. \A r1 \in Arms, f \in RobotFields, i \in DOMAIN underWay' : <<r1, f>> \in DOMAIN underWay'[i].told => i \in 1..n
  BY <1>7, <1>9, <1>11
<1>14. ASSUME NEW r1 \in Arms, NEW f \in RobotFields, <<r1, f>> \notin doubtful', \A i \in DOMAIN underWay' : ~Tells(i, r1, f)'
       PROVE  shown'[r1][f] = robotTree'[r1][f]
  <2>1. \A i \in 1..n : <<r1, f>> \notin DOMAIN underWay'[i].told
    BY <1>11, <1>14 DEF Tells
  <2>2. \A i \in DOMAIN underWay : ~Tells(i, r1, f)
    BY <1>1, <1>9, <2>1 DEF Tells
  <2> QED  BY <1>3, <1>14, <2>2 DEF CommandsInv
<1>15. ASSUME NEW r1 \in Arms, NEW f \in RobotFields, NEW i \in DOMAIN underWay', TellsLast(i, r1, f)', underWay'[i].ofTree
       PROVE  underWay'[i].told[<<r1, f>>] = <<>> \/ underWay'[i].told[<<r1, f>>][1] = robotTree'[r1][f]
  <2>1. <<r1, f>> \in DOMAIN underWay'[i].told /\ \A j \in DOMAIN underWay' : i < j => <<r1, f>> \notin DOMAIN underWay'[j].told
    BY <1>15 DEF TellsLast, Tells
  <2>2. i \in 1..n
    BY <1>13, <2>1
  <2>3. TellsLast(i, r1, f)
    BY <1>1, <1>9, <1>11, <2>1, <2>2 DEF TellsLast, Tells
  <2>4. underWay'[i] = underWay[i] /\ underWay[i].ofTree
    BY <1>9, <1>15, <2>2
  <2> QED  BY <1>1, <1>3, <2>2, <2>3, <2>4 DEF CommandsInv
<1> QED  BY <1>3, <1>10, <1>12, <1>14, <1>15 DEF CommandsInv, Whole

\* The rest of the queue.
LEMMA Dequeues ==
  ASSUME CommandsInv, underWay # <<>>
  PROVE  \E n \in Nat :
           /\ DOMAIN underWay = 1..n /\ n >= 1 /\ Head(underWay) = underWay[1]
           /\ Queued(Tail(underWay)) /\ DOMAIN Tail(underWay) = 1..(n - 1)
           /\ \A i \in 1..(n - 1) : Tail(underWay)[i] = underWay[i + 1]
<1>1. PICK S : underWay \in Seq(S)
  BY DEF CommandsInv, Queued
<1>2. PICK n \in Nat : Len(underWay) = n /\ DOMAIN underWay = 1..n
  BY Queues DEF CommandsInv
<1>3. Tail(underWay) \in Seq(S) /\ Len(Tail(underWay)) = n - 1 /\ \A i \in 1..(n - 1) : Tail(underWay)[i] = underWay[i + 1]
  BY <1>1, <1>2, HeadTailProperties
<1>4. DOMAIN Tail(underWay) = 1..(n - 1)
  BY <1>3, LenProperties
<1>5. n >= 1 /\ Head(underWay) = underWay[1]
  BY <1>1, <1>2, EmptySeq
<1> QED  BY <1>2, <1>3, <1>4, <1>5 DEF Queued

\* The oldest that waits is told, or it is not and its fields are in doubt; the others wait as they did.
LEMMA Leaves ==
  ASSUME CommandsInv, underWay # <<>>, robotTree' = robotTree, underWay' = Tail(underWay),
         \/ RobotCommand!Tell(Head(underWay).told) /\ doubtful' = RobotCommand!Doubted(Head(underWay))
         \/ shown' = shown /\ doubtful' = doubtful \cup DOMAIN Head(underWay).told
  PROVE  CommandsInv'
<1>1. PICK n \in Nat :
        /\ DOMAIN underWay = 1..n /\ n >= 1 /\ Head(underWay) = underWay[1]
        /\ Queued(underWay') /\ DOMAIN underWay' = 1..(n - 1)
        /\ \A i \in 1..(n - 1) : underWay'[i] = underWay[i + 1]
  BY Dequeues
<1>2. \A i \in 1..(n - 1) : i + 1 \in 1..n /\ i + 1 # 1
  BY <1>1
<1>3. \A j \in 1..n : j = 1 \/ (j - 1 \in 1..(n - 1) /\ (j - 1) + 1 = j)
  BY <1>1
<1>4. 1 \in DOMAIN underWay
  BY <1>1
<1>5. \A i \in DOMAIN underWay' : Waiting(underWay[i])'
  <2> SUFFICES ASSUME NEW i \in DOMAIN underWay' PROVE Waiting(underWay'[i])
    BY DEF Waiting, Whole
  <2> QED  BY <1>1, <1>2 DEF CommandsInv
<1>6. ASSUME NEW r \in Arms, NEW f \in RobotFields, <<r, f>> \notin doubtful', \A i \in DOMAIN underWay' : ~Tells(i, r, f)'
      PROVE  shown'[r][f] = robotTree'[r][f]
  <2>1. \A i \in 1..(n - 1) : <<r, f>> \notin DOMAIN underWay[i + 1].told
    BY <1>1, <1>6 DEF Tells
  <2>2. \A j \in DOMAIN underWay : j # 1 => ~Tells(j, r, f)
    BY <1>1, <1>3, <2>1 DEF Tells
  <2>3. CASE Tells(1, r, f)
    <3>1. TellsLast(1, r, f)
      BY <1>1, <2>2, <2>3 DEF TellsLast
    <3>2. /\ RobotCommand!Tell(underWay[1].told) /\ doubtful' = RobotCommand!Doubted(underWay[1])
      BY <1>1, <1>6, <2>3 DEF Tells
    <3>3. underWay[1].ofTree
      BY <1>6, <2>3, <3>2 DEF RobotCommand!Doubted, Tells
    <3>4. underWay[1].told[<<r, f>>] = <<>> \/ underWay[1].told[<<r, f>>][1] = robotTree[r][f]
      BY <1>4, <3>1, <3>3 DEF CommandsInv
    <3>5. shown'[r][f] = IF underWay[1].told[<<r, f>>] = <<>> THEN robotTree[r][f] ELSE underWay[1].told[<<r, f>>][1]
      BY <2>3, <3>2 DEF RobotCommand!Tell, Tells, RobotFields
    <3> QED  BY <3>4, <3>5
  <2>4. CASE ~Tells(1, r, f)
    <3>1. \A j \in DOMAIN underWay : ~Tells(j, r, f)
      BY <2>2, <2>4
    <3>2. <<r, f>> \notin doubtful
      BY <1>1, <1>6, <2>4 DEF RobotCommand!Doubted, Tells
    <3>3. shown[r][f] = robotTree[r][f]
      BY <3>1, <3>2 DEF CommandsInv
    <3>4. shown'[r][f] = shown[r][f]
      BY <1>1, <2>4 DEF RobotCommand!Tell, Tells, RobotFields
    <3> QED  BY <3>3, <3>4
  <2> QED  BY <2>3, <2>4
<1>7. ASSUME NEW r \in Arms, NEW f \in RobotFields, NEW i \in DOMAIN underWay', TellsLast(i, r, f)', underWay'[i].ofTree
      PROVE  underWay'[i].told[<<r, f>>] = <<>> \/ underWay'[i].told[<<r, f>>][1] = robotTree'[r][f]
  <2>1. i \in 1..(n - 1) /\ i + 1 \in DOMAIN underWay /\ underWay'[i] = underWay[i + 1]
    BY <1>1, <1>2
  <2>2. <<r, f>> \in DOMAIN underWay'[i].told /\ \A j \in DOMAIN underWay' : i < j => <<r, f>> \notin DOMAIN underWay'[j].told
    BY <1>7 DEF TellsLast, Tells
  <2>3. TellsLast(i + 1, r, f)
    <3>1. Tells(i + 1, r, f)
      BY <2>1, <2>2 DEF Tells
    <3>2. ASSUME NEW j \in DOMAIN underWay, i + 1 < j PROVE ~Tells(j, r, f)
      <4>1. j \in 1..n
        BY <1>1
      <4>2. j - 1 \in 1..(n - 1) /\ (j - 1) + 1 = j /\ i < j - 1
        BY <1>1, <1>3, <2>1, <3>2, <4>1
      <4>3. underWay'[j - 1] = underWay[j]
        BY <1>1, <4>2
      <4> QED  BY <1>1, <2>2, <4>2, <4>3 DEF Tells
    <3> QED  BY <3>1, <3>2 DEF TellsLast
  <2> QED  BY <1>7, <2>1, <2>3 DEF CommandsInv
<1> QED  BY <1>1, <1>5, <1>6, <1>7 DEF CommandsInv, Whole

\* A tree that was saved is shown as it is, and what waits behind it tells of one that is gone.
LEMMA SaveEnds ==
  ASSUME CommandsInv, underWay # <<>>, Head(underWay).kind = "save", robotTree' = Head(underWay).page, shown' = robotTree',
         underWay' = [i \in DOMAIN Tail(underWay) |-> [Tail(RobotCommand!LeftBehind(Arms \X RobotFields))[i] EXCEPT !.ofTree = FALSE]]
  PROVE  CommandsInv'
<1> DEFINE left == RobotCommand!LeftBehind(Arms \X RobotFields)
<1>1. PICK n \in Nat :
        /\ DOMAIN underWay = 1..n /\ n >= 1 /\ Head(underWay) = underWay[1] /\ DOMAIN Tail(underWay) = 1..(n - 1)
  BY Dequeues
<1>2. Whole(robotTree')
  <2>1. Waiting(underWay[1])
    BY <1>1 DEF CommandsInv
  <2> QED  BY <1>1, <2>1 DEF Waiting
<1>3. /\ Queued(left) /\ Len(left) = n
      /\ \A i \in 1..n :
           /\ DOMAIN left[i] = DOMAIN underWay[i] /\ left[i].kind = underWay[i].kind
           /\ "page" \in DOMAIN underWay[i] => left[i].page = underWay[i].page
           /\ DOMAIN left[i].told = DOMAIN underWay[i].told
  BY <1>1, LeftBehindKeeps, Queues DEF CommandsInv
<1> HIDE DEF left
<1>4. \A i \in 1..(n - 1) : Tail(left)[i] = left[i + 1]
  <2>1. PICK S : left \in Seq(S)
    BY <1>3 DEF Queued
  <2>2. left # <<>>
    BY <1>1, <1>3, EmptySeq
  <2> QED  BY <1>1, <1>3, <2>1, <2>2, HeadTailProperties
<1>5. underWay' = [i \in 1..(n - 1) |-> [Tail(left)[i] EXCEPT !.ofTree = FALSE]]
  BY <1>1 DEF left
<1>6. Queued(underWay') /\ DOMAIN underWay' = 1..(n - 1)
  <2>1. PICK m \in Nat : m = n - 1
    BY <1>1
  <2>2. PICK q : q = underWay' /\ q = [i \in 1..m |-> [Tail(left)[i] EXCEPT !.ofTree = FALSE]]
    BY <1>5, <2>1
  <2>3. q \in [1..m -> {q[i] : i \in 1..m}]
    BY <2>2
  <2>4. q \in Seq({q[i] : i \in 1..m})
    BY <2>1, <2>3
  <2> QED  BY <1>5, <2>2, <2>4 DEF Queued
<1>7. ASSUME NEW i \in 1..(n - 1) PROVE Waiting(underWay'[i]) /\ ~underWay'[i].ofTree
  <2>1. PICK d : d = left[i + 1]
    OBVIOUS
  <2>2. i + 1 \in 1..n
    BY <1>1
  <2>3. underWay'[i] = [d EXCEPT !.ofTree = FALSE]
    BY <1>4, <1>5, <2>1
  <2>4. Waiting(d)
    <3>1. Waiting(underWay[i + 1])
      BY <1>1, <2>2 DEF CommandsInv
    <3> QED  BY <1>3, <2>1, <2>2, <3>1 DEF Waiting
  <2>5. PICK e : e = [d EXCEPT !.ofTree = FALSE]
    OBVIOUS
  <2>6. DOMAIN e = DOMAIN d /\ e.kind = d.kind /\ e.told = d.told /\ ("page" \in DOMAIN d => e.page = d.page) /\ ~e.ofTree
    BY <2>4, <2>5 DEF Waiting
  <2>7. Waiting(e)
    BY <2>4, <2>6 DEF Waiting
  <2> QED  BY <2>3, <2>5, <2>6, <2>7
<1>8. \A i \in DOMAIN underWay' : Waiting(underWay[i])'
  <2> SUFFICES ASSUME NEW i \in DOMAIN underWay' PROVE Waiting(underWay'[i])
    BY DEF Waiting, Whole
  <2> QED  BY <1>6, <1>7
<1>9. \A i \in DOMAIN underWay' : ~underWay'[i].ofTree
  BY <1>6, <1>7
<1> QED  BY <1>2, <1>6, <1>8, <1>9 DEF CommandsInv, Whole

LEMMA CommandSteps == CommandsInv /\ (RobotCommand!Next \/ UNCHANGED commandVars) => CommandsInv'
<1>1. ASSUME CommandsInv, RobotCommand!WriteEnds PROVE CommandsInv'
  <2>1. CASE Head(underWay).kind = "save"
    BY <1>1, <2>1, SaveEnds DEF RobotCommand!WriteEnds, RobotFields
  <2>2. CASE Head(underWay).kind # "save"
    BY <1>1, <2>2, Leaves DEF RobotCommand!WriteEnds
  <2> QED  BY <2>1, <2>2
<1>2. ASSUME CommandsInv, RobotCommand!WriteFails PROVE CommandsInv'
  BY <1>2, Leaves DEF RobotCommand!WriteFails
<1> QED  BY <1>1, <1>2, CommandStands, StopIsTold, DisableIsTold, EnableIsTold, PlayIsTold, ResetIsTold, JogIsTold, PauseIsTold, SpeedIsTold,
            OutputIsTold, VisionIsTold, ToolIsTold, RoleIsTold, LayoutIsTold, TrajectoryIsTold, PointsAreTold, StopAllIsTold, SaveWaits
         DEF RobotCommand!Next

-----------------------------------------------------------------------------
(* What travels, of all the parts *)

RelaysInv ==
  SamplesInv /\ PhonesInv /\ SessionInv /\ ChannelInv /\ CommandsInv /\ ServicesInv /\ VoiceInv /\ ViewInv /\ AskingInv

LEMMA RelaysStart == RelaysInit => RelaysInv
BY SamplesStart, PhonesStart, SessionStarts, ChannelStarts, CommandsStart, ServicesStart, VoiceStarts, ViewStarts, AskingStarts
   DEF RelaysInit, RelaysInv

\* A part that does not move stays as it is.
LEMMA RelaysMove == RelaysInv /\ [RelaysNext]_relayVars => RelaysInv'
<1> SUFFICES ASSUME RelaysInv, [RelaysNext]_relayVars PROVE RelaysInv'
  OBVIOUS
<1>1. CASE UNCHANGED relayVars
  <2>1. /\ UNCHANGED telemetryVars /\ UNCHANGED pushVars /\ UNCHANGED apnsVars /\ UNCHANGED edgeVars /\ UNCHANGED commandVars
        /\ UNCHANGED serviceVars /\ UNCHANGED voiceVars /\ UNCHANGED viewVars /\ UNCHANGED askVars
    BY <1>1 DEF relayVars
  <2> QED  BY <2>1, SampleSteps, PhonesStep, SessionSteps, ChannelSteps, CommandSteps, ServiceSteps, VoiceSteps, ViewSteps, AskingSteps
              DEF RelaysInv
<1>2. CASE RelaysNext
  <2>1. PICK part \in moving : RelayStep(part)
    BY <1>2 DEF RelaysNext
  <2>2. /\ Out!TelemetryNext \/ UNCHANGED telemetryVars
        /\ Out!PushNext \/ UNCHANGED pushVars
        /\ Out!ApnsNext \/ UNCHANGED apnsVars
        /\ Out!EdgeNext \/ UNCHANGED edgeVars
        /\ RobotCommand!Next \/ UNCHANGED commandVars
        /\ Service!Next \/ UNCHANGED serviceVars
        /\ Service!VoiceNext \/ UNCHANGED voiceVars
        /\ Picture!ViewNext \/ UNCHANGED viewVars
        /\ Picture!AskNext \/ UNCHANGED askVars
    BY <2>1 DEF RelayStep
  <2> QED  BY <2>2, SampleSteps, PhonesStep, SessionSteps, ChannelSteps, CommandSteps, ServiceSteps, VoiceSteps, ViewSteps, AskingSteps
              DEF RelaysInv
<1> QED  BY <1>1, <1>2

LEMMA RelaysHold == RelaysInv => RelaysAreTrue
BY SamplesHold, SessionHolds, ChannelHolds, CommandsHold, ServicesHold, VoiceHolds, AskingHolds
   DEF RelaysInv, RelaysAreTrue, PhonesInv, ViewInv

\* What travels to other services, phones, clients and cameras arrives as it was sent and is told as it was, for any number of samples,
\* phones, accounts, requests, users, robots, ways to give a name and steps: samples in order, answered registrations kept, one session
\* with a token the push service takes, replies of the edge node that count once, nothing risky without its confirmation, a verified
\* confirmation that is the user's own, no connection for a picture nobody looks at, cameras that did what is told of them, and clients
\* that see a robot as it is.
THEOREM RelaysCorrect == RelaysSpec => []RelaysAreTrue
<1>1. RelaysInit => RelaysInv
  BY RelaysStart
<1>2. RelaysInv /\ [RelaysNext]_relayVars => RelaysInv'
  BY RelaysMove
<1>3. RelaysInv => RelaysAreTrue
  BY RelaysHold
<1> QED  BY <1>1, <1>2, <1>3, PTL DEF RelaysSpec
=============================================================================

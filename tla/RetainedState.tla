---------------------------- MODULE RetainedState ----------------------------
(***************************************************************************)
(* The state of the robots and the global stop as retained messages on the *)
(* broker (mqttBridge.ts, server.ts): what changed is published at most    *)
(* once per interval, QoS 0, and everything again after a reconnect; a     *)
(* global stop and its release once, QoS 1.  The client library reconnects *)
(* by itself and sends QoS 1 messages again that were not confirmed; the   *)
(* broker keeps the last message of a topic and publishes the last will of *)
(* a client that it loses.                                                 *)
(***************************************************************************)
EXTENDS Naturals, Sequences, FiniteSets, SequencesExt

CONSTANTS
  Robots,      \* robots the tree may hold
  MaxChanges,  \* bound: changes of the tree
  MaxStops,    \* bound: global stops and releases
  MaxFaults    \* bound: broken connections and restarts of the broker

VARIABLES
  tree,        \* [Robots -> version], 0 while the robot is not in the tree
  changes,     \* number of changes so far, the version of the next
  link,        \* does the socket carry what is written to it
  connected,   \* what the bridge thinks of it
  lastPublished, \* [Robots -> version] that went out, 0: nothing
  timer,       \* is a flush scheduled
  wire,        \* messages written and not yet at the broker
  retained,    \* [Robots -> version] the broker keeps, 0: nothing
  safety,      \* the safety state the broker keeps
  announced,   \* the last one that was answered as announced, and how many there were
  status,      \* the retained status of the server on the broker
  stopped,     \* the server said goodbye, or its bridge is off
  faults

vars == <<tree, changes, link, connected, lastPublished, timer, wire, retained, safety, announced, status, stopped, faults>>

Nothing == [r \in Robots |-> 0]
Here == {r \in Robots : tree[r] # 0}
Safety == {"SAFE_STOP", "READY"}
Messages == [robot : Robots, version : 1..MaxChanges] \cup [status : {"online", "offline"}] \cup [safety : Safety]
IsRobot(m) == "robot" \in DOMAIN m
IsSafety(m) == "safety" \in DOMAIN m
\* The state of the robots is sent once; the rest is QoS 1.
Repeated(m) == ~IsRobot(m)
\* What is left of messages when the connection breaks.
Kept(messages) ==
  LET at == {i \in DOMAIN messages : Repeated(messages[i])} IN
  [n \in 1..Cardinality(at) |-> messages[CHOOSE i \in at : Cardinality(at \cap 1..i) = n]]

Init ==
  /\ tree \in [Robots -> {0, 1}]
  /\ changes = 1
  /\ link = FALSE /\ connected = FALSE /\ lastPublished = Nothing /\ timer = FALSE /\ wire = <<>>
  /\ retained = Nothing /\ status = "offline" /\ stopped \in BOOLEAN /\ safety = "none" /\ announced = [state |-> "none", count |-> 0] /\ faults = 0

\* publishNow over the tree, in the order of the controllers: what differs from what went out last.
Differs(t, sent) == {r \in Robots : t[r] # 0 /\ sent[r] # t[r]}
InOrder(t, rs) == LET ids == SetToSeq(rs) IN [i \in DOMAIN ids |-> [robot |-> ids[i], version |-> t[ids[i]]]]
Sent(t, sent) == [r \in Robots |-> IF t[r] # 0 THEN t[r] ELSE sent[r]]

\* A change that reaches the clients also calls publishState.
Change(r) ==
  /\ ~stopped /\ changes < MaxChanges
  /\ \E v \in {0, changes + 1} : v # tree[r] /\ tree' = [tree EXCEPT ![r] = v]
  /\ changes' = changes + 1
  /\ timer' = (timer \/ connected)
  /\ UNCHANGED <<link, connected, lastPublished, wire, retained, safety, announced, status, stopped, faults>>

\* A message written to a socket that is already dead is lost, unless it is QoS 1.
Write(messages) == wire' = wire \o (IF link THEN messages ELSE Kept(messages))

\* publishState: the timer fires; publishNow does nothing while the bridge knows of no connection.
Flush ==
  /\ timer /\ timer' = FALSE
  /\ IF connected
       THEN /\ Write(InOrder(tree, Differs(tree, lastPublished)))
            /\ lastPublished' = Sent(tree, lastPublished)
       ELSE UNCHANGED <<wire, lastPublished>>
  /\ UNCHANGED <<tree, changes, link, connected, retained, safety, announced, status, stopped, faults>>

\* on "connect": the status, then everything again.
Connect ==
  /\ ~link /\ ~connected /\ ~stopped
  /\ link' = TRUE /\ connected' = TRUE
  /\ wire' = wire \o <<[status |-> "online"]>> \o InOrder(tree, Differs(tree, Nothing))
  /\ lastPublished' = Sent(tree, Nothing)
  /\ UNCHANGED <<tree, changes, timer, retained, safety, announced, status, stopped, faults>>

Deliver ==
  /\ link /\ wire # <<>> /\ wire' = Tail(wire)
  /\ LET m == Head(wire) IN
       /\ retained' = IF IsRobot(m) THEN [retained EXCEPT ![m.robot] = m.version] ELSE retained
       /\ status' = IF "status" \in DOMAIN m THEN m.status ELSE status
       /\ safety' = IF IsSafety(m) THEN m.safety ELSE safety
  /\ UNCHANGED <<tree, changes, link, connected, lastPublished, timer, announced, stopped, faults>>

\* publishSafety for a global stop or its release: the answer says whether it was announced.
Announce(state) ==
  /\ announced.count < MaxStops /\ connected /\ ~stopped
  /\ Write(<<[safety |-> state]>>)
  /\ announced' = [state |-> state, count |-> announced.count + 1]
  /\ UNCHANGED <<tree, changes, link, connected, lastPublished, timer, retained, safety, status, stopped, faults>>

\* The connection breaks with messages on the way; the broker publishes the last will. A broker that restarts
\* without a store has lost what it kept.
Break ==
  /\ link /\ faults < MaxFaults /\ faults' = faults + 1
  /\ link' = FALSE /\ wire' = Kept(wire)
  /\ \/ status' = "offline" /\ UNCHANGED <<retained, safety>>
     \/ status' = "none" /\ retained' = Nothing /\ safety' = "lost"
  /\ UNCHANGED <<tree, changes, connected, lastPublished, timer, announced, stopped>>

\* on "close".
Closed ==
  /\ ~link /\ connected /\ connected' = FALSE
  /\ UNCHANGED <<tree, changes, link, lastPublished, timer, wire, retained, safety, announced, status, stopped, faults>>

\* stop(): the goodbye says offline, a clean disconnect sends no last will.
Stop ==
  /\ ~stopped /\ stopped' = TRUE /\ timer' = FALSE
  /\ Write(<<[status |-> "offline"]>>)
  /\ UNCHANGED <<tree, changes, link, connected, lastPublished, retained, safety, announced, status, faults>>

Next ==
  \/ Flush \/ Connect \/ Deliver \/ Break \/ Closed \/ Stop \/ \E r \in Robots : Change(r)
  \/ \E state \in Safety : Announce(state)

\* Timers fire, the library reconnects every five seconds, the network delivers.
Fairness == WF_vars(Flush) /\ WF_vars(Connect) /\ WF_vars(Deliver) /\ WF_vars(Closed)

Spec == Init /\ [][Next]_vars /\ Fairness

-----------------------------------------------------------------------------
TypeOK ==
  /\ tree \in [Robots -> 0..MaxChanges] /\ changes \in 1..MaxChanges
  /\ lastPublished \in [Robots -> 0..MaxChanges] /\ retained \in [Robots -> 0..MaxChanges]
  /\ wire \in Seq(Messages) /\ status \in {"online", "offline", "none"}
  /\ safety \in Safety \cup {"none", "lost"} /\ announced.count \in 0..MaxStops
  /\ {link, connected, timer, stopped} \subseteq BOOLEAN

\* While the bridge has a connection and nothing is scheduled nor on the way, the broker shows every robot of
\* the tree as it is, the server as online and the last global stop or release that was answered as announced,
\* whatever was lost before, unless the broker itself lost it (mqttBridge.ts).
QuietIsTrue ==
  link /\ connected /\ ~timer /\ wire = <<>> /\ ~stopped =>
    /\ status = "online" /\ \A r \in Here : retained[r] = tree[r]
    /\ safety \in {announced.state, "lost"}

\* The broker ends up with the state of every robot of the tree, or the server said goodbye.
BrokerCatchesUp == <>[](stopped \/ (status = "online" /\ \A r \in Here : retained[r] = tree[r]))
=============================================================================

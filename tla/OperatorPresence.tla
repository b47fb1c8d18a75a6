------------------------- MODULE OperatorPresence -------------------------
(***************************************************************************)
(* The dead-man of the presence of the operator.                           *)
(*                                                                         *)
(* The client of an operator sends numbered heartbeats. When they stop, or *)
(* one says that the operator left, the server holds back the robots the   *)
(* operator has a claim on: it slows, pauses or stops them. Some           *)
(* heartbeats in a row bring the operator back, and a lowered speed then   *)
(* returns a step each second. Commands, claims and the administrator      *)
(* change the robots and the settings at any moment in between.            *)
(*                                                                         *)
(* A restart forgets both maps of this component and keeps the robots: it  *)
(* is a new initial state, in which a robot has any speed and any holder.  *)
(***************************************************************************)
EXTENDS Integers

CONSTANTS Users,
          Robots,
          None,
          Full,          \* the highest speed
          MinSpeed,      \* MIN_SPEED, the lowest
          KeptOf, Kept,  \* slowFactor is Kept / KeptOf
          Timeout,       \* timeoutSeconds, in seconds
          RecoverBeats,
          RampSeconds,
          LeftImmediate  \* whether a LEFT acts at once

ASSUME ConstantsAssumption ==
  /\ None \notin Users
  /\ MinSpeed \in Nat \ {0} /\ Full \in Nat /\ MinSpeed <= Full
  /\ Kept \in Nat \ {0} /\ KeptOf \in Nat /\ Kept < KeptOf
  /\ Timeout \in Nat \ {0}
  /\ RecoverBeats \in Nat \ {0}
  /\ RampSeconds \in Nat
  /\ LeftImmediate \in BOOLEAN

VARIABLES
  ops,      \* the operators: state, seconds since the last heartbeat that counted, goodBeats
  robots,   \* speed, what the playback does, who holds the claim, and the entry of degraded
  enabled,  \* presence.enabled
  action,   \* presence.action
  due,      \* a second has passed and its tick has not run yet
  inRow     \* history: the heartbeats PRESENT in a row since the operator was last given up

vars == <<ops, robots, enabled, action, due, inRow>>

Speeds == MinSpeed..Full
Actions == {"slow", "pause", "notify", "stop"}
Runs == {"stopped", "playing", "paused"}
Untrusted == {"lost", "recovering"}

\* A silence longer than the timeout is as good as any longer one.
Operators == [state : {"unknown", "present", "left", "lost", "recovering"},
              age : 0..Timeout + 1, good : 0..RecoverBeats - 1]
Entries == [user : Users, original : Speeds, cap : Speeds, last : Speeds]

TypeOK ==
  /\ ops \in [Users -> Operators]
  /\ robots \in [Robots -> [speed : Speeds, run : Runs, holder : Users \cup {None},
                            held : Entries \cup {None}]]
  /\ enabled \in BOOLEAN
  /\ action \in Actions
  /\ due \in BOOLEAN
  /\ inRow \in [Users -> 0..RecoverBeats]

Unknown == [state |-> "unknown", age |-> 0, good |-> 0]

Init ==
  /\ ops = [u \in Users |-> Unknown]
  /\ robots \in [Robots -> [speed : Speeds, run : Runs, holder : Users \cup {None}, held : {None}]]
  /\ enabled \in BOOLEAN
  /\ action \in Actions
  /\ due = FALSE
  /\ inRow = [u \in Users |-> RecoverBeats]

Least(a, b) == IF a < b THEN a ELSE b
Greatest(a, b) == IF a > b THEN a ELSE b

---------------------------------------------------------------------------
(* What the server does to one robot. The definitions called variants are mistakes that the *)
(* checks must notice; no action uses them.                                                *)

\* The speed a robot is held at, rounded as Math.round does.
Slowed(base) ==
  Greatest(Least(MinSpeed, base), (2 * base * Kept + KeptOf) \div (2 * KeptOf))

\* Variant: a robot that is held already is not looked at again.
SlowOnce(b, u) ==
  IF b.held # None /\ b.held.user = u THEN b
  ELSE [b EXCEPT !.speed = Slowed(@),
                 !.held = [user |-> u, original |-> b.speed, cap |-> Slowed(b.speed),
                           last |-> Slowed(b.speed)]]

\* A speed at or under the cap is left alone; the speed to give back is the one of the first hold.
Slow(b, u) ==
  LET mine == b.held # None /\ b.held.user = u
      base == IF mine THEN b.held.original ELSE b.speed
      next == Least(b.speed, Slowed(base))
  IN  IF mine /\ b.speed <= b.held.cap THEN b
      ELSE [b EXCEPT !.speed = next,
                     !.held = [user |-> u, original |-> base, cap |-> Slowed(base), last |-> next]]

\* requestStop is not set while a robot plays. The timer and the arming are of other modules.
Hold(b, u) ==
  CASE action = "slow" -> Slow(b, u)
    [] action = "pause" -> [b EXCEPT !.run = IF @ = "playing" THEN "paused" ELSE @]
    [] action = "stop" -> [b EXCEPT !.run = "stopped"]
    [] OTHER -> b

\* lose and enforce: every robot that one of these operators has a claim on.
HoldAll(us) ==
  [r \in Robots |-> IF robots[r].holder \in us THEN Hold(robots[r], robots[r].holder)
                    ELSE robots[r]]

\* Variant: rounded down.
RampStepFloor(d) ==
  IF RampSeconds = 0 THEN d.original - d.last ELSE (d.original - d.cap) \div RampSeconds

RampStep(d) ==
  IF RampSeconds = 0 THEN d.original - d.last
  ELSE Greatest(1, (d.original - d.cap + RampSeconds - 1) \div RampSeconds)

\* Variant: whoever has the claim.
DroppedBySpeed(b) == b.speed # b.held.last

\* The speed was set, or the claim is not of that account any more: it is left as it is.
Dropped(b) == b.speed # b.held.last \/ b.holder # b.held.user

Returned(b) ==
  LET next == Least(b.held.original, b.held.last + RampStep(b.held))
  IN  [b EXCEPT !.speed = next,
                !.held = IF next >= b.held.original THEN None ELSE [b.held EXCEPT !.last = next]]

Ramp(b, os, all) ==
  IF b.held = None THEN b
  ELSE IF ~all /\ os[b.held.user].state \in Untrusted THEN b
  ELSE IF Dropped(b) THEN [b EXCEPT !.held = None]
  ELSE Returned(b)

---------------------------------------------------------------------------
(* Heartbeats and time *)

\* Variant: only the silence of an operator that is present.
SilentPresent(op) == op.state = "present" /\ op.age > Timeout

Silent(op) == op.state \notin {"unknown", "lost"} /\ op.age > Timeout

\* Variant: the heartbeats of the last return still count.
LoseKeepsCount(op) == [op EXCEPT !.state = "lost"]

Lose(op) == [op EXCEPT !.state = "lost", !.good = 0]

\* A repeated number, or a lower one while the last heartbeat is recent.
Ignored(op, number) ==
  /\ op.state # "unknown"
  /\ number = "same" \/ (number = "lower" /\ op.age < Timeout)

\* Variant: one heartbeat more.
HeardOneMore(op) ==
  IF op.state \in {"unknown", "left"} THEN [op EXCEPT !.state = "present"]
  ELSE IF op.state = "present" THEN op
  ELSE IF op.good + 1 > RecoverBeats THEN [op EXCEPT !.state = "present", !.good = 0]
  ELSE [op EXCEPT !.state = "recovering", !.good = @ + 1]

\* What a heartbeat PRESENT makes of an operator.
Heard(op) ==
  IF op.state \in {"unknown", "left"} THEN [op EXCEPT !.state = "present"]
  ELSE IF op.state = "present" THEN op
  ELSE IF op.good + 1 >= RecoverBeats THEN [op EXCEPT !.state = "present", !.good = 0]
  ELSE [op EXCEPT !.state = "recovering", !.good = @ + 1]

\* What a heartbeat LEFT makes of an operator.
Left(op) ==
  IF op.state = "lost" THEN op
  ELSE IF LeftImmediate THEN Lose(op)
  ELSE [op EXCEPT !.state = "left", !.good = 0]

\* A heartbeat after the timeout is a return and not a continuation.
Evaluated(op) == IF Silent(op) THEN Lose(op) ELSE op

\* A heartbeat that counts, with a higher number or the first one of a sender that restarted.
Accept(u, says) ==
  LET before == Evaluated(ops[u])
      after == IF says = "PRESENT" THEN Heard(before) ELSE Left(before)
      lost == Silent(ops[u]) \/ (after.state = "lost" /\ before.state # "lost")
      start == IF lost \/ (says = "LEFT" /\ inRow[u] < RecoverBeats) THEN 0 ELSE inRow[u]
  IN  /\ ops' = [ops EXCEPT ![u] = [after EXCEPT !.age = 0]]
      /\ robots' = IF lost THEN HoldAll({u}) ELSE robots
      /\ inRow' = [inRow EXCEPT ![u] = IF says = "PRESENT" THEN Least(start + 1, RecoverBeats)
                                       ELSE start]
      /\ UNCHANGED <<enabled, action, due>>

Beat(u, number, says) ==
  /\ enabled
  /\ IF Ignored(ops[u], number) THEN UNCHANGED vars ELSE Accept(u, says)

Second ==
  /\ ~due
  /\ due' = TRUE
  /\ ops' = [u \in Users |-> IF ops[u].state = "unknown" THEN ops[u]
                             ELSE [ops[u] EXCEPT !.age = Least(@ + 1, Timeout + 1)]]
  /\ UNCHANGED <<robots, enabled, action, inRow>>

Watch ==
  LET os == [u \in Users |-> Evaluated(ops[u])]
      kept == HoldAll({u \in Users : os[u].state = "lost"})
  IN  /\ ops' = os
      /\ robots' = [r \in Robots |-> Ramp(kept[r], os, FALSE)]
      /\ inRow' = [u \in Users |-> IF Silent(ops[u]) THEN 0 ELSE inRow[u]]

\* Switched off: everything is given back and the operators are forgotten.
Forget ==
  /\ ops' = [u \in Users |-> Unknown]
  /\ robots' = [r \in Robots |-> Ramp(robots[r], ops, TRUE)]
  /\ inRow' = [u \in Users |-> RecoverBeats]

Tick ==
  /\ due
  /\ due' = FALSE
  /\ IF enabled THEN Watch ELSE Forget
  /\ UNCHANGED <<enabled, action>>

---------------------------------------------------------------------------
(* What goes on meanwhile *)

\* The speed command.
SetSpeed(r, v) ==
  /\ robots' = [robots EXCEPT ![r].speed = v]
  /\ UNCHANGED <<ops, enabled, action, due, inRow>>

\* play, pause and stop, and the stop of all the robots.
Run(r, to) ==
  /\ robots' = [robots EXCEPT ![r].run = to]
  /\ UNCHANGED <<ops, enabled, action, due, inRow>>

\* A claim, its release or its expiry.
Pass(r, who) ==
  /\ robots[r].holder = None \/ who = None
  /\ robots' = [robots EXCEPT ![r].holder = who]
  /\ UNCHANGED <<ops, enabled, action, due, inRow>>

Configure(on, what) ==
  /\ enabled' = on
  /\ action' = what
  /\ UNCHANGED <<ops, robots, due, inRow>>

Next ==
  \/ \E u \in Users, n \in {"higher", "same", "lower"}, s \in {"PRESENT", "LEFT"} : Beat(u, n, s)
  \/ Second
  \/ Tick
  \/ \E r \in Robots, v \in Speeds : SetSpeed(r, v)
  \/ \E r \in Robots, to \in Runs : Run(r, to)
  \/ \E r \in Robots, who \in Users \cup {None} : Pass(r, who)
  \/ \E on \in BOOLEAN, what \in Actions : Configure(on, what)

\* The timer of server.ts runs the tick about once a second as long as the server runs.
Spec == Init /\ [][Next]_vars /\ WF_vars(Second) /\ WF_vars(Tick)

---------------------------------------------------------------------------
(* Properties *)

\* An operator that was given up is trusted again only after RecoverBeats heartbeats in a row.
TrustIsEarned == \A u \in Users : ops[u].state = "present" => inRow[u] = RecoverBeats

\* Once the tick of a second has run, no operator that sent heartbeats has been silent for longer
\* than the timeout without being lost, whatever state the silence began in.
SilentIsLost ==
  ~due /\ enabled => \A u \in Users : ops[u].age > Timeout => ops[u].state = "lost"

IsHeld(b) ==
  CASE action = "slow" -> b.speed <= Slowed(Full)
    [] action = "pause" -> b.run # "playing"
    [] action = "stop" -> b.run = "stopped"
    [] OTHER -> TRUE

\* When an operator is lost, and after each tick while it is, each robot it has a claim on is
\* held: also one that was claimed, started or set to another speed since, and also after the
\* action was changed.
LostIsHeld ==
  [][\A u \in Users :
       ops'[u].state = "lost" /\ (ops[u].state # "lost" \/ (due /\ ~due')) =>
         \A r \in Robots : robots'[r].holder = u => IsHeld(robots[r])']_vars

\* Every heartbeat or tick that changes a robot changes one of these.
IsPresenceStep == ops' # ops \/ due' # due

\* The presence starts no robot, and it raises a speed only for an operator that is trusted and
\* still has the claim, by no more than one step of the ramp.
ReturnIsSmooth ==
  [][IsPresenceStep => \A r \in Robots :
       /\ robots'[r].run = "playing" => robots[r].run = "playing"
       /\ robots'[r].speed > robots[r].speed =>
            /\ robots'[r].holder # None
            /\ ops'[robots'[r].holder].state \notin Untrusted
            /\ RampSeconds # 0 => robots'[r].speed - robots[r].speed
                 <= Greatest(1, (Full - Slowed(Full) + RampSeconds - 1) \div RampSeconds)]_vars

Waiting(r) == robots[r].held # None /\ ops[robots[r].held.user].state \in Untrusted

\* Unless an operator is given up again and again, a lowered speed is given back in the end, or
\* left to whoever has set it or claimed the robot.
SpeedsReturn == \A r \in Robots : <>[](~Waiting(r)) => []<>(robots[r].held = None)
=============================================================================

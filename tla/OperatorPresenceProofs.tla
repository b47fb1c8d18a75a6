---------------------- MODULE OperatorPresenceProofs ----------------------
(***************************************************************************)
(* Proofs about OperatorPresence, for any number of operators and robots   *)
(* and any values of the settings: the types, no silence goes unnoticed,   *)
(* the robots of a lost operator are held, a speed comes back in small     *)
(* steps and for a trusted holder only, and, while a LEFT acts at once, an *)
(* operator that was given up is trusted again only after enough           *)
(* heartbeats in a row.                                                    *)
(***************************************************************************)
EXTENDS OperatorPresence, TLAPS

-----------------------------------------------------------------------------
(* The inductive invariants *)

OpsOK ==
  /\ ops \in [Users -> Operators]
  /\ inRow \in [Users -> 0..RecoverBeats]
  /\ due \in BOOLEAN

\* An operator nobody has heard of is not silent: no clock runs for it.
UnknownIsFresh == \A u \in Users : ops[u].state = "unknown" => ops[u].age = 0

\* Also while the presence is switched off: the tick that follows the switch forgets everybody.
TickedIsLost == ~due => \A u \in Users : ops[u].age > Timeout => ops[u].state = "lost"

SilenceInv == OpsOK /\ UnknownIsFresh /\ TickedIsLost

\* What the heartbeats of one operator amount to: the count of the return is never ahead of the
\* heartbeats in a row, and it starts at nothing.
Earned(op, n) ==
  /\ op.state \in {"unknown", "present"} => n = RecoverBeats
  /\ op.state = "recovering" => op.good <= n
  /\ op.state = "lost" => op.good = 0
  /\ op.state # "left"

AllEarned == \A u \in Users : Earned(ops[u], inRow[u])

TrustInv == OpsOK /\ AllEarned

-----------------------------------------------------------------------------
(* What the code makes of one operator *)

States == {"unknown", "present", "left", "lost", "recovering"}

\* What the code sets of an operator leaves it one.
LEMMA NewState == ASSUME NEW op \in Operators, NEW s \in States PROVE [op EXCEPT !.state = s] \in Operators
  BY DEF Operators, States

LEMMA NewAge == ASSUME NEW op \in Operators, NEW a \in 0..Timeout + 1 PROVE [op EXCEPT !.age = a] \in Operators
  BY DEF Operators

LEMMA NewStateAndCount ==
  ASSUME NEW op \in Operators, NEW s \in States, NEW g \in 0..RecoverBeats - 1
  PROVE  [op EXCEPT !.state = s, !.good = g] \in Operators
  BY DEF Operators, States

LEMMA Bounds == 0 \in 0..Timeout + 1 /\ 0 \in 0..RecoverBeats - 1
  BY ConstantsAssumption

LEMMA LoseType == ASSUME NEW op \in Operators PROVE Lose(op) \in Operators
  BY NewStateAndCount, Bounds DEF Lose, States

LEMMA EvaluatedType == ASSUME NEW op \in Operators PROVE Evaluated(op) \in Operators
  BY LoseType DEF Evaluated

LEMMA HeardType == ASSUME NEW op \in Operators PROVE Heard(op) \in Operators
<1>1. CASE op.state \in {"unknown", "left", "present"}
  BY <1>1, NewState DEF Heard, States
<1>2. CASE op.state \in {"lost", "recovering"}
  <2>1. CASE op.good + 1 >= RecoverBeats
    BY <1>2, <2>1, NewStateAndCount, Bounds DEF Heard, States
  <2>2. CASE ~(op.good + 1 >= RecoverBeats)
    <3>1. op.good + 1 \in 0..RecoverBeats - 1
      BY <2>2, ConstantsAssumption DEF Operators
    <3> QED  BY <1>2, <2>2, <3>1, NewStateAndCount DEF Heard, States
  <2> QED  BY <2>1, <2>2
<1> QED  BY <1>1, <1>2 DEF Operators

LEMMA LeftType == ASSUME NEW op \in Operators PROVE Left(op) \in Operators
  BY LoseType, NewStateAndCount, Bounds DEF Left, States

\* After an evaluation only a lost operator is silent.
LEMMA EvaluatedNotSilent ==
  ASSUME NEW op \in Operators, op.state = "unknown" => op.age = 0
  PROVE  /\ Evaluated(op).age > Timeout => Evaluated(op).state = "lost"
         /\ Evaluated(op).state = "unknown" => Evaluated(op).age = 0
  BY ConstantsAssumption DEF Operators, Evaluated, Silent, Lose

\* A silence takes everything an operator had earned.
LEMMA EvaluatedEarned ==
  ASSUME NEW op \in Operators, NEW n \in Nat, Earned(op, n)
  PROVE  Earned(Evaluated(op), IF Silent(op) THEN 0 ELSE n)
  BY DEF Operators, Evaluated, Lose, Earned, Silent

\* A heartbeat PRESENT that completes a return is at least the RecoverBeats-th in a row.
LEMMA HeardEarned ==
  ASSUME NEW op \in Operators, NEW n \in 0..RecoverBeats, Earned(op, n)
  PROVE  Earned(Heard(op), Least(n + 1, RecoverBeats))
<1> USE ConstantsAssumption DEF Operators, Least, Earned
<1>1. CASE op.state \in {"unknown", "present"}
  BY <1>1 DEF Heard
<1>2. CASE op.state \in {"lost", "recovering"}
  <2>1. op.good <= n
    BY <1>2
  <2>2. CASE op.good + 1 >= RecoverBeats
    <3>1. Heard(op) = [op EXCEPT !.state = "present", !.good = 0]
      BY <1>2, <2>2 DEF Heard
    <3> QED  BY <2>1, <2>2, <3>1
  <2>3. CASE ~(op.good + 1 >= RecoverBeats)
    <3>1. Heard(op) = [op EXCEPT !.state = "recovering", !.good = op.good + 1]
      BY <1>2, <2>3 DEF Heard
    <3> QED  BY <2>1, <2>3, <3>1
  <2> QED  BY <2>2, <2>3
<1> QED  BY <1>1, <1>2

\* While a LEFT acts at once, it leaves nobody but lost operators.
LEMMA LeftEarned ==
  ASSUME NEW op \in Operators, NEW n, Earned(op, n), LeftImmediate
  PROVE  /\ Left(op).state = "lost"
         /\ \A m : Earned(Left(op), m)
  BY DEF Operators, Left, Lose, Earned

-----------------------------------------------------------------------------
(* The steps *)

\* What no heartbeat, second or tick has anything to do with.
Outside ==
  \/ \E r \in Robots, v \in Speeds : SetSpeed(r, v)
  \/ \E r \in Robots, to \in Runs : Run(r, to)
  \/ \E r \in Robots, who \in Users \cup {None} : Pass(r, who)
  \/ \E on \in BOOLEAN, what \in Actions : Configure(on, what)
  \/ UNCHANGED vars

LEMMA OutsideKeeps == Outside => UNCHANGED <<ops, due, inRow>>
  BY DEF Outside, SetSpeed, Run, Pass, Configure, vars

\* The steps of the component, one case each.
LEMMA StepCases ==
  [Next]_vars =>
    \/ \E u \in Users, says \in {"PRESENT", "LEFT"} : Accept(u, says)
    \/ Second
    \/ Tick /\ Watch
    \/ Tick /\ Forget
    \/ Outside
  BY DEF Next, Beat, Outside, Tick

LEMMA OpsInit == Init => OpsOK
<1>1. Unknown \in Operators /\ RecoverBeats \in 0..RecoverBeats
  BY ConstantsAssumption DEF Operators, Unknown
<1> QED  BY <1>1 DEF Init, OpsOK

\* What a heartbeat that counts makes of its operator, but for the clock.
AfterBeat(op, says) == IF says = "PRESENT" THEN Heard(Evaluated(op)) ELSE Left(Evaluated(op))

LEMMA AcceptOps ==
  ASSUME OpsOK, NEW u \in Users, NEW says \in {"PRESENT", "LEFT"}, Accept(u, says)
  PROVE  /\ AfterBeat(ops[u], says) \in Operators
         /\ ops' = [ops EXCEPT ![u] = [AfterBeat(ops[u], says) EXCEPT !.age = 0]]
         /\ UNCHANGED due
<1>1. Evaluated(ops[u]) \in Operators
  BY EvaluatedType DEF OpsOK
<1>2. AfterBeat(ops[u], says) \in Operators
  BY <1>1, HeardType, LeftType DEF AfterBeat
<1>3. ops' = [ops EXCEPT ![u] = [AfterBeat(ops[u], says) EXCEPT !.age = 0]]
  BY Zenon DEF Accept, AfterBeat
<1>4. UNCHANGED due
  BY DEF Accept
<1> QED  BY <1>2, <1>3, <1>4

LEMMA OpsStep == OpsOK /\ [Next]_vars => OpsOK'
<1> SUFFICES ASSUME OpsOK, [Next]_vars PROVE OpsOK'
  OBVIOUS
<1>1. ASSUME NEW u \in Users, NEW says \in {"PRESENT", "LEFT"}, Accept(u, says)
      PROVE  OpsOK'
  <2> DEFINE after == AfterBeat(ops[u], says)
  <2>1. after \in Operators /\ ops' = [ops EXCEPT ![u] = [after EXCEPT !.age = 0]] /\ due' = due
    BY <1>1, AcceptOps
  <2> HIDE DEF after
  <2>2. [after EXCEPT !.age = 0] \in Operators
    BY <2>1, NewAge, Bounds
  <2>3. inRow' \in [Users -> 0..RecoverBeats]
    <3> USE DEF after
    <3>1. PICK n : n \in 0..RecoverBeats /\ inRow' = [inRow EXCEPT ![u] = n]
      <4> DEFINE start == IF \/ Silent(ops[u])
                             \/ after.state = "lost" /\ Evaluated(ops[u]).state # "lost"
                             \/ says = "LEFT" /\ inRow[u] < RecoverBeats
                          THEN 0 ELSE inRow[u]
                 n == IF says = "PRESENT" THEN Least(start + 1, RecoverBeats) ELSE start
      <4>1. inRow' = [inRow EXCEPT ![u] = n]
        BY <1>1, Zenon DEF Accept, AfterBeat
      <4>2. start \in 0..RecoverBeats
        BY ConstantsAssumption DEF OpsOK
      <4>3. n \in 0..RecoverBeats
        BY <4>2, ConstantsAssumption DEF Least
      <4> QED  BY <4>1, <4>3
    <3> QED  BY <3>1 DEF OpsOK
  <2> QED  BY <2>1, <2>2, <2>3 DEF OpsOK
<1>2. ASSUME Second PROVE OpsOK'
  <2>1. \A u \in Users : Least(ops[u].age + 1, Timeout + 1) \in 0..Timeout + 1
    BY ConstantsAssumption DEF OpsOK, Operators, Least
  <2>2. \A u \in Users : [ops[u] EXCEPT !.age = Least(ops[u].age + 1, Timeout + 1)] \in Operators
    BY <2>1, NewAge DEF OpsOK
  <2> QED  BY <1>2, <2>2 DEF Second, OpsOK
<1>3. ASSUME Tick, Watch PROVE OpsOK'
  <2>1. ops' = [u \in Users |-> Evaluated(ops[u])]
    BY <1>3 DEF Watch
  <2>2. inRow' = [u \in Users |-> IF Silent(ops[u]) THEN 0 ELSE inRow[u]] /\ due' = FALSE
    BY <1>3 DEF Watch, Tick
  <2>3. \A u \in Users : Evaluated(ops[u]) \in Operators
    BY EvaluatedType DEF OpsOK
  <2>4. \A u \in Users : (IF Silent(ops[u]) THEN 0 ELSE inRow[u]) \in 0..RecoverBeats
    BY ConstantsAssumption DEF OpsOK
  <2> QED  BY <2>1, <2>2, <2>3, <2>4 DEF OpsOK
<1>4. ASSUME Tick, Forget PROVE OpsOK'
  <2>1. ops' = [u \in Users |-> Unknown] /\ inRow' = [u \in Users |-> RecoverBeats] /\ due' = FALSE
    BY <1>4 DEF Tick, Forget
  <2>2. Unknown \in Operators /\ RecoverBeats \in 0..RecoverBeats
    BY ConstantsAssumption DEF Operators, Unknown
  <2> QED  BY <2>1, <2>2 DEF OpsOK
<1>5. ASSUME Outside PROVE OpsOK'
  BY <1>5, OutsideKeeps DEF OpsOK
<1> QED  BY <1>1, <1>2, <1>3, <1>4, <1>5, StepCases

-----------------------------------------------------------------------------
(* No silence goes unnoticed *)

LEMMA SilenceInit == Init => SilenceInv
  BY OpsInit, ConstantsAssumption DEF Init, SilenceInv, UnknownIsFresh, TickedIsLost, Unknown

LEMMA SilenceStep == SilenceInv /\ [Next]_vars => SilenceInv'
<1> SUFFICES ASSUME SilenceInv, [Next]_vars PROVE UnknownIsFresh' /\ TickedIsLost'
  BY OpsStep DEF SilenceInv
<1> USE DEF SilenceInv
<1>1. ASSUME NEW u \in Users, NEW says \in {"PRESENT", "LEFT"}, Accept(u, says)
      PROVE  UnknownIsFresh' /\ TickedIsLost'
  <2> DEFINE after == AfterBeat(ops[u], says)
  <2>1. after \in Operators /\ ops' = [ops EXCEPT ![u] = [after EXCEPT !.age = 0]] /\ due' = due
    BY <1>1, AcceptOps
  <2> HIDE DEF after
  <2>2. ops'[u].age = 0 /\ \A v \in Users \ {u} : ops'[v] = ops[v]
    BY <2>1 DEF OpsOK, Operators
  <2> QED  BY <2>1, <2>2, ConstantsAssumption DEF UnknownIsFresh, TickedIsLost
<1>2. ASSUME Second PROVE UnknownIsFresh' /\ TickedIsLost'
  <2>1. \A u \in Users : ops[u].state = "unknown" => ops'[u] = ops[u]
    BY <1>2 DEF Second
  <2>2. \A u \in Users : ops'[u].state = ops[u].state
    BY <1>2 DEF Second, OpsOK, Operators
  <2>3. due' = TRUE
    BY <1>2 DEF Second
  <2> QED  BY <2>1, <2>2, <2>3 DEF UnknownIsFresh, TickedIsLost
<1>3. ASSUME Tick, Watch PROVE UnknownIsFresh' /\ TickedIsLost'
  <2>1. \A u \in Users : ops'[u] = Evaluated(ops[u])
    BY <1>3 DEF Watch
  <2>2. \A u \in Users : ops[u] \in Operators /\ (ops[u].state = "unknown" => ops[u].age = 0)
    BY DEF OpsOK, UnknownIsFresh
  <2> QED  BY <2>1, <2>2, EvaluatedNotSilent DEF UnknownIsFresh, TickedIsLost
<1>4. ASSUME Tick, Forget PROVE UnknownIsFresh' /\ TickedIsLost'
  <2>1. \A u \in Users : ops'[u].age = 0
    BY <1>4 DEF Forget, Unknown
  <2> QED  BY <2>1, ConstantsAssumption DEF UnknownIsFresh, TickedIsLost
<1>5. ASSUME Outside PROVE UnknownIsFresh' /\ TickedIsLost'
  BY <1>5, OutsideKeeps DEF UnknownIsFresh, TickedIsLost
<1> QED  BY <1>1, <1>2, <1>3, <1>4, <1>5, StepCases

\* Whatever heartbeats come, are lost, repeated or reordered, and whatever changes the settings,
\* the tick of each second loses every operator that was silent for longer than the timeout.
THEOREM SilentCorrect == Spec => []SilentIsLost
<1>1. SilenceInv => SilentIsLost
  BY DEF SilenceInv, TickedIsLost, SilentIsLost
<1> QED  BY <1>1, SilenceInit, SilenceStep, PTL DEF Spec

-----------------------------------------------------------------------------
(* Trust is earned *)

LEMMA TrustInit == Init => TrustInv
  BY OpsInit, ConstantsAssumption DEF Init, TrustInv, AllEarned, Earned, Unknown

\* A heartbeat that counts, seen by its operator only.
LEMMA BeatEarned ==
  ASSUME LeftImmediate, TrustInv, NEW u \in Users, NEW says \in {"PRESENT", "LEFT"}, Accept(u, says)
  PROVE  Earned(AfterBeat(ops[u], says), inRow'[u])
<1> DEFINE before == Evaluated(ops[u])
           n == IF Silent(ops[u]) THEN 0 ELSE inRow[u]
           after == AfterBeat(ops[u], says)
           lost == Silent(ops[u]) \/ (after.state = "lost" /\ before.state # "lost")
           start == IF lost \/ (says = "LEFT" /\ inRow[u] < RecoverBeats) THEN 0 ELSE inRow[u]
<1>1. before \in Operators /\ Earned(before, n) /\ n \in 0..RecoverBeats
  <2>1. ops[u] \in Operators /\ inRow[u] \in 0..RecoverBeats /\ Earned(ops[u], inRow[u])
    BY DEF TrustInv, OpsOK, AllEarned
  <2> QED  BY <2>1, EvaluatedType, EvaluatedEarned, ConstantsAssumption
<1>2. inRow'[u] = IF says = "PRESENT" THEN Least(start + 1, RecoverBeats) ELSE start
  <2>1. inRow' = [inRow EXCEPT ![u] = IF says = "PRESENT" THEN Least(start + 1, RecoverBeats)
                                      ELSE start]
    BY Zenon DEF Accept, AfterBeat
  <2> QED  BY <2>1 DEF TrustInv, OpsOK
<1>3. CASE says = "PRESENT"
  <2>1. after = Heard(before)
    BY <1>3 DEF AfterBeat
  <2>2. ~(after.state = "lost" /\ before.state # "lost")
    BY <1>1, <2>1 DEF Heard, Operators
  <2>3. start = n
    BY <1>3, <2>2
  <2> QED  BY <1>1, <1>2, <1>3, <2>1, <2>3, HeardEarned
<1>4. CASE says = "LEFT"
  BY <1>1, <1>4, LeftEarned DEF AfterBeat
<1> QED  BY <1>3, <1>4

LEMMA TrustStep == LeftImmediate /\ TrustInv /\ [Next]_vars => TrustInv'
<1> SUFFICES ASSUME LeftImmediate, TrustInv, [Next]_vars PROVE AllEarned'
  BY OpsStep DEF TrustInv
<1> USE DEF TrustInv
<1>1. ASSUME NEW u \in Users, NEW says \in {"PRESENT", "LEFT"}, Accept(u, says) PROVE AllEarned'
  <2> DEFINE after == AfterBeat(ops[u], says)
  <2>1. after \in Operators /\ ops' = [ops EXCEPT ![u] = [after EXCEPT !.age = 0]]
    BY <1>1, AcceptOps
  <2>2. Earned(after, inRow'[u])
    BY <1>1, BeatEarned
  <2>3. \A v \in Users \ {u} : inRow'[v] = inRow[v]
    BY <1>1 DEF Accept, OpsOK
  <2> HIDE DEF after
  <2>4. Earned([after EXCEPT !.age = 0], inRow'[u])
    BY <2>1, <2>2 DEF Earned, Operators
  <2>5. ops'[u] = [after EXCEPT !.age = 0] /\ \A v \in Users \ {u} : ops'[v] = ops[v]
    BY <2>1 DEF OpsOK
  <2> QED  BY <2>3, <2>4, <2>5 DEF AllEarned
<1>2. ASSUME Second PROVE AllEarned'
  <2>1. \A u \in Users : ops'[u].state = ops[u].state /\ ops'[u].good = ops[u].good
    BY <1>2 DEF Second, OpsOK, Operators
  <2> QED  BY <1>2, <2>1 DEF Second, AllEarned, Earned
<1>3. ASSUME Tick, Watch PROVE AllEarned'
  <2>1. \A u \in Users : /\ ops'[u] = Evaluated(ops[u])
                         /\ inRow'[u] = IF Silent(ops[u]) THEN 0 ELSE inRow[u]
    BY <1>3 DEF Watch
  <2>2. \A u \in Users : ops[u] \in Operators /\ inRow[u] \in Nat /\ Earned(ops[u], inRow[u])
    BY ConstantsAssumption DEF OpsOK, AllEarned
  <2> QED  BY <2>1, <2>2, EvaluatedEarned DEF AllEarned
<1>4. ASSUME Tick, Forget PROVE AllEarned'
  BY <1>4 DEF Forget, AllEarned, Earned, Unknown
<1>5. ASSUME Outside PROVE AllEarned'
  BY <1>5, OutsideKeeps DEF AllEarned
<1> QED  BY <1>1, <1>2, <1>3, <1>4, <1>5, StepCases

\* While a LEFT acts at once, no order of heartbeats, silences, ticks and switches trusts an
\* operator that was given up before RecoverBeats heartbeats in a row. With leftImmediate off it
\* is false: the run of MCOperatorPresenceLeft.cfg shows how.
THEOREM TrustCorrect == LeftImmediate /\ Spec => []TrustIsEarned
<1>1. TrustInv => TrustIsEarned
  BY DEF TrustInv, AllEarned, Earned, TrustIsEarned
<1>2. CASE LeftImmediate
  <2>1. TrustInv /\ [Next]_vars => TrustInv'
    BY <1>2, TrustStep
  <2> QED  BY <1>1, TrustInit, <2>1, PTL DEF Spec
<1>3. CASE ~LeftImmediate
  BY <1>3
<1> QED  BY <1>2, <1>3

-----------------------------------------------------------------------------
(* Speeds *)

LEMMA DivBounds ==
  ASSUME NEW x \in Nat, NEW d \in Nat \ {0}
  PROVE  x \div d \in Nat /\ d * (x \div d) <= x /\ x < d * (x \div d) + d
  OBVIOUS

LEMMA Cancels == ASSUME NEW a \in Int, NEW b \in Int, NEW d \in Nat \ {0}, d * a < d * b PROVE a < b
  OBVIOUS

\* What is at most n divisors more has a quotient at most n higher.
LEMMA DivGrows ==
  ASSUME NEW x \in Nat, NEW y \in Nat, NEW d \in Nat \ {0}, NEW n \in Nat, y <= x + n * d
  PROVE  y \div d <= (x \div d) + n
<1> DEFINE p == x \div d
           q == y \div d
<1>1. d * p <= x /\ x < d * p + d /\ d * q <= y /\ p \in Nat /\ q \in Nat
  BY DivBounds
<1> HIDE DEF p, q
<1>2. d * q < d * (p + n + 1)
  BY <1>1
<1>3. q < p + n + 1
  BY <1>1, <1>2, Cancels
<1> QED  BY <1>1, <1>3 DEF p, q

\* The rounded share of a speed.
Share(v) == (2 * v * Kept + KeptOf) \div (2 * KeptOf)

\* A higher speed has a share that is higher by no more than the difference, and none is above its speed.
LEMMA ShareGrows ==
  ASSUME NEW v \in Nat, NEW n \in Nat
  PROVE  Share(v) \in Nat /\ Share(v) <= v /\ Share(v) <= Share(v + n) /\ Share(v + n) <= Share(v) + n
<1> USE ConstantsAssumption
<1> DEFINE d == 2 * KeptOf
           x == 2 * v * Kept + KeptOf
           y == 2 * (v + n) * Kept + KeptOf
<1>1. d \in Nat \ {0} /\ v * Kept \in Nat /\ n * Kept \in Nat /\ v * KeptOf \in Nat /\ n * KeptOf \in Nat
  OBVIOUS
<1>2. n * Kept <= n * KeptOf /\ v * Kept <= v * KeptOf
  OBVIOUS
<1>3. y = x + 2 * (n * Kept) /\ x = 2 * (v * Kept) + KeptOf /\ n * d = 2 * (n * KeptOf) /\ v * d = 2 * (v * KeptOf)
  OBVIOUS
<1>4. x \in Nat /\ y \in Nat /\ x <= y /\ y <= x + n * d /\ x <= KeptOf + v * d
  BY <1>1, <1>2, <1>3
<1>5. KeptOf \div d = 0
  OBVIOUS
<1> HIDE DEF d, x, y
<1>6. x \div d <= (y \div d) + 0 /\ y \div d <= (x \div d) + n /\ x \div d <= (KeptOf \div d) + v
  BY <1>1, <1>4, DivGrows
<1>7. x \div d \in Nat /\ y \div d \in Nat
  BY <1>1, <1>4, DivBounds
<1> QED  BY <1>5, <1>6, <1>7 DEF Share, d, x, y

LEMMA SlowedFacts ==
  ASSUME NEW v \in Speeds
  PROVE  /\ Slowed(v) \in Speeds /\ Slowed(v) <= v
         /\ Slowed(v) <= Slowed(Full)
         /\ v - Slowed(v) <= Full - Slowed(Full)
<1> USE ConstantsAssumption
<1> DEFINE n == Full - v
<1>1. v \in Nat /\ n \in Nat /\ Full = v + n /\ MinSpeed <= v
  BY DEF Speeds
<1>2. /\ Share(v) \in Nat /\ Share(v) <= v /\ Share(v) <= Share(v + n) /\ Share(v + n) <= Share(v) + n
      /\ Share(v + n) \in Nat /\ Share(v + n) <= v + n
  BY <1>1, ShareGrows
<1>3. Slowed(v) = Greatest(MinSpeed, Share(v)) /\ Slowed(Full) = Greatest(MinSpeed, Share(v + n))
  BY <1>1 DEF Slowed, Share, Least
<1> HIDE DEF n
<1> QED  BY <1>1, <1>2, <1>3 DEF Greatest, Speeds

-----------------------------------------------------------------------------
(* What the server makes of one robot *)

RobotStates == [speed : Speeds, run : Runs, holder : Users \cup {None}, held : Entries \cup {None}]

\* The cap of a held robot is the share of the speed it had before: what makes the step of its return small.
Fits(b) ==
  /\ b \in RobotStates
  /\ b.held # None => b.held \in Entries /\ b.held.cap = Slowed(b.held.original)

RobotsFit == robots \in [Robots -> RobotStates] /\ \A r \in Robots : Fits(robots[r])

\* A change of the presence that only takes away.
Lowers(b, c) ==
  /\ Fits(c)
  /\ c.speed <= b.speed
  /\ c.holder = b.holder
  /\ c.run = "playing" => b.run = "playing"

LEMMA SlowLowers ==
  ASSUME NEW b, Fits(b), NEW u \in Users
  PROVE  Lowers(b, Slow(b, u)) /\ Slow(b, u).speed <= Slowed(Full)
<1> DEFINE mine == b.held # None /\ b.held.user = u
           base == IF mine THEN b.held.original ELSE b.speed
           next == Least(b.speed, Slowed(base))
           entry == [user |-> u, original |-> base, cap |-> Slowed(base), last |-> next]
<1>1. b \in RobotStates /\ b.speed \in Speeds /\ base \in Speeds /\ (mine => b.held.cap = Slowed(base))
  BY DEF Fits, RobotStates, Entries
<1>2. Slowed(base) \in Speeds /\ Slowed(base) <= Slowed(Full)
  BY <1>1, SlowedFacts
<1>3. Full \in Speeds /\ Slowed(Full) \in Speeds
  BY SlowedFacts, ConstantsAssumption DEF Speeds
<1>4. next \in Speeds /\ next <= b.speed /\ next <= Slowed(Full)
  BY <1>1, <1>2, <1>3, ConstantsAssumption DEF Speeds, Least
<1>5. CASE mine /\ b.speed <= b.held.cap
  <2>1. Slow(b, u) = b
    BY <1>5 DEF Slow
  <2> QED  BY <1>1, <1>2, <1>3, <1>5, <2>1, ConstantsAssumption DEF Lowers, Speeds
<1>6. CASE ~(mine /\ b.speed <= b.held.cap)
  <2>1. Slow(b, u) = [b EXCEPT !.speed = next, !.held = entry]
    BY <1>6, Zenon DEF Slow
  <2>2. entry \in Entries /\ entry.cap = Slowed(entry.original)
    BY <1>1, <1>2, <1>4 DEF Entries
  <2> HIDE DEF entry, next, mine, base
  <2>3. /\ Slow(b, u) \in RobotStates
        /\ Slow(b, u).speed = next /\ Slow(b, u).held = entry
        /\ Slow(b, u).holder = b.holder /\ Slow(b, u).run = b.run
    BY <1>1, <1>4, <2>1, <2>2 DEF RobotStates
  <2> QED  BY <1>4, <2>2, <2>3 DEF Lowers, Fits
<1> QED  BY <1>5, <1>6

LEMMA HoldLowers ==
  ASSUME NEW b, Fits(b), NEW u \in Users
  PROVE  Lowers(b, Hold(b, u)) /\ IsHeld(Hold(b, u))
<1>1. b \in RobotStates /\ b.speed \in Speeds /\ b.speed <= b.speed
  BY ConstantsAssumption DEF Fits, RobotStates, Speeds
<1>2. CASE action = "slow"
  BY <1>2, SlowLowers DEF Hold, IsHeld
<1>3. CASE action = "pause"
  <2>1. Hold(b, u) = [b EXCEPT !.run = IF b.run = "playing" THEN "paused" ELSE b.run]
    BY <1>3 DEF Hold
  <2>2. /\ Hold(b, u) \in RobotStates /\ Hold(b, u).held = b.held /\ Hold(b, u).speed = b.speed
        /\ Hold(b, u).holder = b.holder /\ Hold(b, u).run # "playing"
    BY <1>1, <2>1 DEF RobotStates, Runs
  <2> QED  BY <1>1, <1>3, <2>2 DEF Lowers, Fits, IsHeld
<1>4. CASE action = "stop"
  <2>1. Hold(b, u) = [b EXCEPT !.run = "stopped"]
    BY <1>4 DEF Hold
  <2>2. /\ Hold(b, u) \in RobotStates /\ Hold(b, u).held = b.held /\ Hold(b, u).speed = b.speed
        /\ Hold(b, u).holder = b.holder /\ Hold(b, u).run = "stopped"
    BY <1>1, <2>1 DEF RobotStates, Runs
  <2> QED  BY <1>1, <1>4, <2>2 DEF Lowers, Fits, IsHeld
<1>5. CASE action \notin {"slow", "pause", "stop"}
  <2>1. Hold(b, u) = b
    BY <1>5 DEF Hold
  <2> QED  BY <1>1, <1>5, <2>1 DEF Lowers, IsHeld
<1> QED  BY <1>2, <1>3, <1>4, <1>5

LEMMA HoldAllLowers ==
  ASSUME RobotsFit, NEW us \in SUBSET Users, NEW r \in Robots
  PROVE  /\ Lowers(robots[r], HoldAll(us)[r])
         /\ robots[r].holder \in us => IsHeld(HoldAll(us)[r])
<1>1. Fits(robots[r]) /\ robots[r].speed <= robots[r].speed
  BY ConstantsAssumption DEF RobotsFit, Fits, RobotStates, Speeds
<1>2. CASE robots[r].holder \in us
  BY <1>1, <1>2, HoldLowers DEF HoldAll
<1>3. CASE robots[r].holder \notin us
  BY <1>1, <1>3 DEF HoldAll, Lowers
<1> QED  BY <1>2, <1>3

Step == Greatest(1, (Full - Slowed(Full) + RampSeconds - 1) \div RampSeconds)

\* A step of the ramp is up, and no higher than that of the highest speed.
LEMMA RampStepFacts ==
  ASSUME NEW d \in Entries, d.cap = Slowed(d.original)
  PROVE  /\ RampStep(d) \in Int
         /\ Least(d.original, d.last + RampStep(d)) \in Speeds
         /\ RampSeconds # 0 => RampStep(d) <= Step
<1> USE ConstantsAssumption
<1>1. d.original \in Speeds /\ d.last \in Speeds /\ d.cap \in Speeds
  BY DEF Entries
<1>2. Full \in Speeds /\ Slowed(Full) \in Speeds /\ Slowed(Full) <= Full /\ d.cap <= d.original
  BY <1>1, SlowedFacts DEF Speeds
<1>3. d.original - d.cap <= Full - Slowed(Full)
  BY <1>1, SlowedFacts
<1>4. CASE RampSeconds = 0
  BY <1>1, <1>4 DEF RampStep, Least, Speeds
<1>5. CASE RampSeconds # 0
  <2> DEFINE y == d.original - d.cap + RampSeconds - 1
             x == Full - Slowed(Full) + RampSeconds - 1
  <2>1. x \in Nat /\ y \in Nat /\ y <= x + 0 * RampSeconds /\ RampSeconds \in Nat \ {0}
    BY <1>1, <1>2, <1>3, <1>5 DEF Speeds
  <2>2. RampStep(d) = Greatest(1, y \div RampSeconds) /\ Step = Greatest(1, x \div RampSeconds)
    BY <1>5 DEF RampStep, Step
  <2> HIDE DEF x, y
  <2>3. y \div RampSeconds <= (x \div RampSeconds) + 0
    BY <2>1, DivGrows
  <2>4. x \div RampSeconds \in Nat /\ y \div RampSeconds \in Nat
    BY <2>1, DivBounds
  <2>5. RampStep(d) \in Nat /\ RampStep(d) >= 1 /\ RampStep(d) <= Step
    BY <2>2, <2>3, <2>4 DEF Greatest
  <2> QED  BY <1>1, <2>5 DEF Least, Speeds
<1> QED  BY <1>4, <1>5

\* The return of a robot: of its speed only, and only for a holder that is trusted or forgotten.
LEMMA RampRaises ==
  ASSUME NEW b, Fits(b), NEW os, NEW all \in BOOLEAN
  PROVE  /\ Fits(Ramp(b, os, all))
         /\ Ramp(b, os, all).holder = b.holder /\ Ramp(b, os, all).run = b.run
         /\ ~(Ramp(b, os, all).speed <= b.speed) =>
               /\ b.holder \in Users /\ (all \/ os[b.holder].state \notin Untrusted)
               /\ RampSeconds # 0 => Ramp(b, os, all).speed - b.speed <= Step
<1> DEFINE c == Ramp(b, os, all)
<1>1. b \in RobotStates /\ b.speed \in Speeds /\ b.speed <= b.speed
  BY ConstantsAssumption DEF Fits, RobotStates, Speeds
<1>2. CASE b.held = None \/ (~all /\ os[b.held.user].state \in Untrusted)
  BY <1>1, <1>2 DEF Ramp
<1>3. CASE b.held # None /\ ~(~all /\ os[b.held.user].state \in Untrusted) /\ Dropped(b)
  <2>1. c = [b EXCEPT !.held = None]
    BY <1>3 DEF Ramp
  <2>2. c \in RobotStates /\ c.held = None /\ c.speed = b.speed /\ c.holder = b.holder /\ c.run = b.run
    BY <1>1, <2>1 DEF RobotStates
  <2> QED  BY <1>1, <2>2 DEF Fits
<1>4. CASE b.held # None /\ ~(~all /\ os[b.held.user].state \in Untrusted) /\ ~Dropped(b)
  <2> DEFINE next == Least(b.held.original, b.held.last + RampStep(b.held))
             entry == IF next >= b.held.original THEN None ELSE [b.held EXCEPT !.last = next]
  <2>1. c = [b EXCEPT !.speed = next, !.held = entry]
    BY <1>4, Zenon DEF Ramp, Returned
  <2>2. b.held \in Entries /\ b.held.cap = Slowed(b.held.original)
    BY <1>4 DEF Fits
  <2>3. next \in Speeds /\ RampStep(b.held) \in Int /\ (RampSeconds # 0 => RampStep(b.held) <= Step)
    BY <2>2, RampStepFacts
  <2>4. b.speed = b.held.last /\ b.holder = b.held.user /\ b.held.last \in Speeds /\ b.held.original \in Speeds /\ b.holder \in Users
    BY <1>4, <2>2 DEF Dropped, Entries
  <2>5. entry \in Entries \cup {None} /\ (entry # None => entry \in Entries /\ entry.cap = Slowed(entry.original))
    <3> HIDE DEF next
    <3>1. [b.held EXCEPT !.last = next] \in Entries /\ [b.held EXCEPT !.last = next].cap = b.held.cap
          /\ [b.held EXCEPT !.last = next].original = b.held.original
      BY <2>2, <2>3 DEF Entries
    <3> QED  BY <2>2, <3>1
  <2>6. next - b.speed <= RampStep(b.held)
    BY <2>3, <2>4, ConstantsAssumption DEF Least, Speeds
  <2> HIDE DEF next, entry
  <2>7. c \in RobotStates /\ c.speed = next /\ c.held = entry /\ c.holder = b.holder /\ c.run = b.run
    BY <1>1, <2>1, <2>3, <2>5 DEF RobotStates
  <2>8. Fits(c)
    BY <2>5, <2>7 DEF Fits
  <2>9. Step \in Int \/ RampSeconds = 0
    BY SlowedFacts, ConstantsAssumption DEF Step, Greatest, Speeds
  <2>10. RampSeconds # 0 => next - b.speed <= Step
    BY <2>3, <2>4, <2>6, <2>9, ConstantsAssumption DEF Speeds
  <2> QED  BY <1>4, <2>4, <2>7, <2>8, <2>10
<1> QED  BY <1>2, <1>3, <1>4

-----------------------------------------------------------------------------
(* Types, and what the presence does to the robots *)

SettingsOK == enabled \in BOOLEAN /\ action \in Actions

TypeInv == OpsOK /\ RobotsFit /\ SettingsOK

LEMMA TypeInit == Init => TypeInv
<1> SUFFICES ASSUME Init PROVE RobotsFit /\ SettingsOK
  BY OpsInit DEF TypeInv
<1>1. \A r \in Robots : robots[r] \in RobotStates /\ robots[r].held = None
  BY DEF Init, RobotStates
<1>2. robots \in [Robots -> RobotStates]
  BY <1>1 DEF Init
<1> QED  BY <1>1, <1>2 DEF Init, RobotsFit, Fits, SettingsOK

\* What the heartbeats, the seconds and the ticks make of the robots: the operators that are lost
\* have theirs held, and a tick gives a step back.
LEMMA PresenceSteps ==
  ASSUME TypeInv,
         \/ \E u \in Users, says \in {"PRESENT", "LEFT"} : Accept(u, says)
         \/ Second
         \/ Tick /\ Watch
         \/ Tick /\ Forget
  PROVE  /\ RobotsFit'
         /\ UNCHANGED <<enabled, action>>
         /\ \A r \in Robots :
              /\ robots'[r].holder = robots[r].holder
              /\ robots'[r].run = "playing" => robots[r].run = "playing"
              /\ ~(robots'[r].speed <= robots[r].speed) =>
                   /\ robots[r].holder \in Users
                   /\ ops'[robots[r].holder].state \notin Untrusted
                   /\ RampSeconds # 0 => robots'[r].speed - robots[r].speed <= Step
         /\ \A u \in Users : ops'[u].state = "lost" /\ (ops[u].state # "lost" \/ (due /\ ~due')) =>
              \A r \in Robots : robots'[r].holder = u => IsHeld(robots'[r])
<1> DEFINE Presence ==
      /\ RobotsFit'
      /\ UNCHANGED <<enabled, action>>
      /\ \A r \in Robots :
           /\ robots'[r].holder = robots[r].holder
           /\ robots'[r].run = "playing" => robots[r].run = "playing"
           /\ ~(robots'[r].speed <= robots[r].speed) =>
                /\ robots[r].holder \in Users
                /\ ops'[robots[r].holder].state \notin Untrusted
                /\ RampSeconds # 0 => robots'[r].speed - robots[r].speed <= Step
      /\ \A u \in Users : ops'[u].state = "lost" /\ (ops[u].state # "lost" \/ (due /\ ~due')) =>
           \A r \in Robots : robots'[r].holder = u => IsHeld(robots'[r])
<1>1. \A r \in Robots : Fits(robots[r]) /\ robots[r] \in RobotStates /\ robots[r].speed \in Int
  BY ConstantsAssumption DEF TypeInv, RobotsFit, RobotStates, Speeds
<1>2. \A us \in SUBSET Users : \A r \in Robots :
        Lowers(robots[r], HoldAll(us)[r]) /\ (robots[r].holder \in us => IsHeld(HoldAll(us)[r]))
  BY HoldAllLowers DEF TypeInv
<1>3. ASSUME NEW u \in Users, NEW says \in {"PRESENT", "LEFT"}, Accept(u, says) PROVE Presence
  <2> DEFINE lost == Silent(ops[u]) \/ (AfterBeat(ops[u], says).state = "lost" /\ Evaluated(ops[u]).state # "lost")
  <2>1. robots' = (IF lost THEN HoldAll({u}) ELSE robots) /\ UNCHANGED <<enabled, action, due>>
    BY <1>3, Zenon DEF Accept, AfterBeat
  <2>2. AfterBeat(ops[u], says) \in Operators /\ ops' = [ops EXCEPT ![u] = [AfterBeat(ops[u], says) EXCEPT !.age = 0]]
    BY <1>3, AcceptOps DEF TypeInv
  <2>3. \A v \in Users : ops'[v].state = "lost" /\ ops[v].state # "lost" => v = u /\ lost
    <3>1. ops'[u].state = AfterBeat(ops[u], says).state
      BY <2>2 DEF TypeInv, OpsOK, Operators
    <3>2. \A v \in Users \ {u} : ops'[v] = ops[v]
      BY <2>2 DEF TypeInv, OpsOK
    <3>3. ops[u].state # "lost" => Silent(ops[u]) \/ Evaluated(ops[u]).state # "lost"
      BY DEF Evaluated
    <3> QED  BY <3>1, <3>2, <3>3
  <2> HIDE DEF lost
  <2>4. CASE lost
    <3>1. robots' = HoldAll({u})
      BY <2>1, <2>4
    <3>2. \A r \in Robots : Lowers(robots[r], robots'[r]) /\ (robots[r].holder = u => IsHeld(robots'[r]))
      BY <1>2, <3>1
    <3>3. robots' \in [Robots -> RobotStates]
      BY <3>1, <3>2 DEF HoldAll, Lowers, Fits
    <3> QED  BY <1>1, <2>1, <2>3, <3>2, <3>3 DEF RobotsFit, Lowers
  <2>5. CASE ~lost
    BY <1>1, <2>1, <2>3, <2>5, ConstantsAssumption DEF TypeInv, RobotsFit
  <2> QED  BY <2>4, <2>5
<1>4. ASSUME Second PROVE Presence
  <2>1. UNCHANGED <<robots, enabled, action>> /\ due' = TRUE
    BY <1>4 DEF Second
  <2>2. \A u \in Users : ops'[u].state = ops[u].state
    BY <1>4 DEF Second, TypeInv, OpsOK, Operators
  <2> QED  BY <1>1, <2>1, <2>2 DEF TypeInv, RobotsFit
<1>5. ASSUME Tick, Watch PROVE Presence
  <2> DEFINE us == {u \in Users : ops'[u].state = "lost"}
             kept == HoldAll(us)
  <2>1. UNCHANGED <<enabled, action>> /\ ops' = [u \in Users |-> Evaluated(ops[u])]
    BY <1>5 DEF Tick, Watch
  <2>2. robots' = [r \in Robots |-> Ramp(kept[r], ops', FALSE)]
    <3>1. us = {u \in Users : [v \in Users |-> Evaluated(ops[v])][u].state = "lost"}
      BY <2>1
    <3> QED  BY <1>5, <2>1, <3>1, Zenon DEF Watch
  <2>3. \A r \in Robots : Lowers(robots[r], kept[r]) /\ (robots[r].holder \in us => IsHeld(kept[r]))
    BY <1>2
  <2> HIDE DEF kept
  <2>4. \A r \in Robots : Fits(kept[r]) /\ kept[r].holder = robots[r].holder /\ kept[r].speed \in Int
    BY <2>3, ConstantsAssumption DEF Lowers, Fits, RobotStates, Speeds
  <2>5. \A r \in Robots :
          /\ Fits(robots'[r]) /\ robots'[r].speed \in Int
          /\ robots'[r].holder = kept[r].holder /\ robots'[r].run = kept[r].run
          /\ ~(robots'[r].speed <= kept[r].speed) =>
                /\ kept[r].holder \in Users /\ ops'[kept[r].holder].state \notin Untrusted
                /\ RampSeconds # 0 => robots'[r].speed - kept[r].speed <= Step
    <3> TAKE r \in Robots
    <3> DEFINE c == Ramp(kept[r], ops', FALSE)
    <3>1. Fits(kept[r]) /\ FALSE \in BOOLEAN
      BY <2>4
    <3>2. /\ Fits(c) /\ c.holder = kept[r].holder /\ c.run = kept[r].run
          /\ ~(c.speed <= kept[r].speed) =>
                /\ kept[r].holder \in Users /\ (FALSE \/ ops'[kept[r].holder].state \notin Untrusted)
                /\ RampSeconds # 0 => c.speed - kept[r].speed <= Step
      BY ONLY <3>1, RampRaises
    <3>3. robots'[r] = c
      BY <2>2
    <3> HIDE DEF c
    <3> QED  BY <3>2, <3>3, ConstantsAssumption DEF Fits, RobotStates, Speeds
  <2>6. RobotsFit'
    BY <2>2, <2>5 DEF RobotsFit, Fits
  <2>7. \A r \in Robots : ~(robots'[r].speed <= robots[r].speed) => ~(robots'[r].speed <= kept[r].speed)
    BY <1>1, <2>3, <2>4, <2>5 DEF Lowers
  <2>8. Step \in Int \/ RampSeconds = 0
    BY SlowedFacts, ConstantsAssumption DEF Step, Greatest, Speeds
  <2>9. \A r \in Robots : ~(robots'[r].speed <= robots[r].speed) /\ RampSeconds # 0 => robots'[r].speed - robots[r].speed <= Step
    BY <1>1, <2>3, <2>4, <2>5, <2>7, <2>8 DEF Lowers
  <2>10. ASSUME NEW r \in Robots, robots'[r].holder \in us PROVE IsHeld(robots'[r])
    <3>1. IsHeld(kept[r]) /\ robots'[r].run = kept[r].run
      BY <2>3, <2>4, <2>5, <2>10
    <3>2. robots'[r].speed <= kept[r].speed
      BY <2>4, <2>5, <2>10 DEF Untrusted
    <3>3. Slowed(Full) \in Int
      BY SlowedFacts, ConstantsAssumption DEF Speeds
    <3> QED  BY <2>4, <2>5, <3>1, <3>2, <3>3 DEF IsHeld
  <2> QED  BY <2>1, <2>3, <2>4, <2>5, <2>6, <2>7, <2>9, <2>10 DEF Lowers
<1>6. ASSUME Tick, Forget PROVE Presence
  <2>1. /\ UNCHANGED <<enabled, action>> /\ ops' = [u \in Users |-> Unknown]
        /\ robots' = [r \in Robots |-> Ramp(robots[r], ops, TRUE)]
    BY <1>6 DEF Tick, Forget
  <2>2. \A u \in Users : ops'[u].state = "unknown"
    BY <2>1 DEF Unknown
  <2>3. \A r \in Robots :
          /\ Fits(robots'[r])
          /\ robots'[r].holder = robots[r].holder /\ robots'[r].run = robots[r].run
          /\ ~(robots'[r].speed <= robots[r].speed) =>
                /\ robots[r].holder \in Users
                /\ RampSeconds # 0 => robots'[r].speed - robots[r].speed <= Step
    BY <1>1, <2>1, RampRaises
  <2>4. RobotsFit'
    BY <2>1, <2>3 DEF RobotsFit, Fits
  <2> QED  BY <2>1, <2>2, <2>3, <2>4 DEF Untrusted
<1> QED  BY <1>3, <1>4, <1>5, <1>6

LEMMA OutsideFits == ASSUME TypeInv, Outside PROVE RobotsFit' /\ SettingsOK'
<1> USE DEF TypeInv, RobotsFit, SettingsOK
<1>1. ASSUME NEW r \in Robots, NEW v \in Speeds, SetSpeed(r, v) PROVE RobotsFit'
  <2>1. [robots[r] EXCEPT !.speed = v] \in RobotStates /\ [robots[r] EXCEPT !.speed = v].held = robots[r].held
    BY DEF RobotStates
  <2> QED  BY <1>1, <2>1 DEF SetSpeed, Fits
<1>2. ASSUME NEW r \in Robots, NEW to \in Runs, Run(r, to) PROVE RobotsFit'
  <2>1. [robots[r] EXCEPT !.run = to] \in RobotStates /\ [robots[r] EXCEPT !.run = to].held = robots[r].held
    BY DEF RobotStates
  <2> QED  BY <1>2, <2>1 DEF Run, Fits
<1>3. ASSUME NEW r \in Robots, NEW who \in Users \cup {None}, Pass(r, who) PROVE RobotsFit'
  <2>1. [robots[r] EXCEPT !.holder = who] \in RobotStates /\ [robots[r] EXCEPT !.holder = who].held = robots[r].held
    BY DEF RobotStates
  <2> QED  BY <1>3, <2>1 DEF Pass, Fits
<1>4. ASSUME NEW on \in BOOLEAN, NEW what \in Actions, Configure(on, what) PROVE RobotsFit' /\ SettingsOK'
  BY <1>4 DEF Configure
<1>5. CASE UNCHANGED vars
  BY <1>5 DEF vars
<1>6. (\E r \in Robots, v \in Speeds : SetSpeed(r, v)) \/ (\E r \in Robots, to \in Runs : Run(r, to))
      \/ (\E r \in Robots, who \in Users \cup {None} : Pass(r, who)) => UNCHANGED <<enabled, action>>
  BY DEF SetSpeed, Run, Pass
<1> QED  BY <1>1, <1>2, <1>3, <1>4, <1>5, <1>6 DEF Outside

LEMMA TypeStep == TypeInv /\ [Next]_vars => TypeInv'
<1> SUFFICES ASSUME TypeInv, [Next]_vars PROVE RobotsFit' /\ SettingsOK'
  BY OpsStep DEF TypeInv
<1>1. CASE Outside
  BY <1>1, OutsideFits
<1>2. CASE ~Outside
  BY <1>2, StepCases, PresenceSteps DEF TypeInv, SettingsOK
<1> QED  BY <1>1, <1>2

LEMMA TypeInvHolds == Spec => []TypeInv
  BY TypeInit, TypeStep, PTL DEF Spec

\* The maps of the presence and the robots keep their types, for any speeds, shares and steps: no speed
\* that is lowered or given back leaves the range from MIN_SPEED to the highest.
THEOREM TypeCorrect == Spec => []TypeOK
<1>1. TypeInv => TypeOK
  BY DEF TypeInv, OpsOK, RobotsFit, SettingsOK, RobotStates, TypeOK
<1> QED  BY <1>1, TypeInvHolds, PTL

\* When an operator is lost, and after every tick while it is, the robots of its claims are held in
\* the way that is set now: also one held before for another operator, or at another speed.
THEOREM HeldCorrect == Spec => LostIsHeld
<1> DEFINE Held == \A u \in Users :
      ops'[u].state = "lost" /\ (ops[u].state # "lost" \/ (due /\ ~due')) =>
        \A r \in Robots : robots'[r].holder = u => IsHeld(robots[r])'
<1>1. TypeInv /\ [Next]_vars => [Held]_vars
  <2> SUFFICES ASSUME TypeInv, [Next]_vars PROVE Held
    OBVIOUS
  <2>1. CASE Outside
    BY <2>1, OutsideKeeps
  <2>2. CASE ~Outside
    BY <2>2, StepCases, PresenceSteps DEF IsHeld
  <2> QED  BY <2>1, <2>2
<1> QED  BY <1>1, TypeInvHolds, PTL DEF Spec, LostIsHeld

\* The presence starts no robot, and raises a speed only for a holder that is trusted, by no more than
\* the step that the highest speed would take.
THEOREM ReturnCorrect == Spec => ReturnIsSmooth
<1> DEFINE Smooth == IsPresenceStep => \A r \in Robots :
       /\ robots'[r].run = "playing" => robots[r].run = "playing"
       /\ robots'[r].speed > robots[r].speed =>
            /\ robots'[r].holder # None
            /\ ops'[robots'[r].holder].state \notin Untrusted
            /\ RampSeconds # 0 => robots'[r].speed - robots[r].speed
                 <= Greatest(1, (Full - Slowed(Full) + RampSeconds - 1) \div RampSeconds)
<1>1. TypeInv /\ [Next]_vars => [Smooth]_vars
  <2> SUFFICES ASSUME TypeInv, [Next]_vars, IsPresenceStep PROVE Smooth
    OBVIOUS
  <2>1. ~Outside
    BY OutsideKeeps DEF IsPresenceStep
  <2>2. \A r \in Robots : robots[r].speed \in Int /\ robots'[r].speed \in Int
    BY TypeStep, ConstantsAssumption DEF TypeInv, RobotsFit, RobotStates, Speeds
  <2> QED  BY <2>1, <2>2, StepCases, PresenceSteps, ConstantsAssumption DEF Step
<1> QED  BY <1>1, TypeInvHolds, PTL DEF Spec, ReturnIsSmooth
=============================================================================

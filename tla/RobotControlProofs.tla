------------------------ MODULE RobotControlProofs ------------------------
(***************************************************************************)
(* Proofs about RobotControl, for any accounts, controllers, robots and    *)
(* groups of robots: the types, a halt holds until the jog is armed again, *)
(* the safe mode leaves nothing armed, no jog moves a robot that another   *)
(* account holds, and no jog is carried out after a later command.         *)
(***************************************************************************)
EXTENDS RobotControl, SequencesExt, SequenceTheorems, FiniteSets, FiniteSetTheorems, TLAPS

-----------------------------------------------------------------------------
(* Sequences *)

\* RemoveAt closes the gap.
LEMMA RemoveAtFacts ==
  ASSUME NEW S, NEW m \in Seq(S), NEW i \in DOMAIN m
  PROVE  /\ RemoveAt(m, i) \in Seq(S)
         /\ Len(RemoveAt(m, i)) = Len(m) - 1
         /\ \A k \in 1..Len(m) - 1 : RemoveAt(m, i)[k] = m[IF k < i THEN k ELSE k + 1]
<1> DEFINE front == SubSeq(m, 1, i - 1)
           back == SubSeq(m, i + 1, Len(m))
<1>1. i \in 1..Len(m) /\ Len(m) \in Nat /\ \A k \in 1..Len(m) : m[k] \in S
  OBVIOUS
<1>2. front \in Seq(S) /\ Len(front) = i - 1 /\ \A k \in 1..i - 1 : front[k] = m[k]
  BY <1>1, SubSeqProperties
<1>3. back \in Seq(S) /\ Len(back) = Len(m) - i /\ \A k \in 1..Len(m) - i : back[k] = m[k + i]
  BY <1>1, SubSeqProperties
<1> HIDE DEF front, back
<1>4. /\ front \o back \in Seq(S)
      /\ Len(front \o back) = Len(front) + Len(back)
      /\ \A k \in 1..Len(front) + Len(back) :
           (front \o back)[k] = IF k <= Len(front) THEN front[k] ELSE back[k - Len(front)]
  BY <1>2, <1>3, ConcatProperties
<1>5. \A k \in 1..Len(m) - 1 : (front \o back)[k] = m[IF k < i THEN k ELSE k + 1]
  <2> SUFFICES ASSUME NEW k \in 1..Len(m) - 1 PROVE (front \o back)[k] = m[IF k < i THEN k ELSE k + 1]
    OBVIOUS
  <2>1. CASE k < i
    <3>1. k \in 1..Len(front) + Len(back) /\ k <= Len(front) /\ k \in 1..i - 1
      BY <1>1, <1>2, <1>3, <2>1
    <3>2. (front \o back)[k] = front[k]
      BY <1>4, <3>1
    <3> QED  BY <1>2, <2>1, <3>1, <3>2
  <2>2. CASE ~(k < i)
    <3>1. k - (i - 1) \in 1..Len(m) - i /\ k - (i - 1) + i = k + 1
      BY <1>1, <2>2
    <3>2. k \in 1..Len(front) + Len(back) /\ ~(k <= Len(front)) /\ k - Len(front) = k - (i - 1)
      BY <1>1, <1>2, <1>3, <2>2
    <3>3. (front \o back)[k] = back[k - (i - 1)]
      BY <1>4, <3>2
    <3> QED  BY <1>3, <2>2, <3>1, <3>3
  <2> QED  BY <2>1, <2>2
<1>6. RemoveAt(m, i) = front \o back
  BY DEF RemoveAt, front, back
<1>7. Len(front \o back) = Len(m) - 1
  BY <1>1, <1>2, <1>3, <1>4
<1> QED  BY <1>4, <1>5, <1>6, <1>7

-----------------------------------------------------------------------------
(* The inductive invariant *)

\* The part of the types that the proofs need.
SafetyOK ==
  /\ claim \in [Robots -> Callers \cup {NoOne}]
  /\ armed \in [Robots -> Callers \cup {NoOne}]
  /\ enabled \in [Robots -> BOOLEAN]
  /\ halted \subseteq Robots

TrafficOK ==
  /\ sent \in [Callers -> 0..MaxSent]
  /\ net \subseteq Requests
  /\ log \in Seq(Requests)

\* The arming is what a halt takes away: only Arm gives it, and Arm ends the halt.
HaltedIsDisarmed == \A r \in halted : armed[r] = NoOne

Inv == SafetyOK /\ TrafficOK /\ HaltedIsDisarmed /\ DisabledIsDisarmed

-----------------------------------------------------------------------------
(* The steps *)

LEMMA SafetyStep == Inv /\ [Next]_vars => SafetyOK' /\ HaltedIsDisarmed' /\ DisabledIsDisarmed'
<1> DEFINE Kept == SafetyOK' /\ HaltedIsDisarmed' /\ DisabledIsDisarmed'
<1> SUFFICES ASSUME Inv, [Next]_vars PROVE Kept
  OBVIOUS
<1> USE DEF Inv, SafetyOK
<1>1. ASSUME NEW c \in Callers, NEW r \in Robots, NEW force \in BOOLEAN, Claim(c, r, force) PROVE Kept
  BY <1>1 DEF Claim, HaltedIsDisarmed, DisabledIsDisarmed
<1>2. ASSUME NEW c \in Callers, NEW r \in Robots, Release(c, r) PROVE Kept
  BY <1>2 DEF Release, HaltedIsDisarmed, DisabledIsDisarmed
<1>3. ASSUME NEW r \in Robots, ClaimLapses(r) PROVE Kept
  BY <1>3 DEF ClaimLapses, HaltedIsDisarmed, DisabledIsDisarmed
<1>4. ASSUME NEW c \in Callers, NEW r \in Robots, Arm(c, r) PROVE Kept
  BY <1>4 DEF Arm, HaltedIsDisarmed, DisabledIsDisarmed
<1>5. ASSUME NEW r \in Robots, Disarm(r) PROVE Kept
  BY <1>5 DEF Disarm, HaltedIsDisarmed, DisabledIsDisarmed
<1>6. ASSUME NEW r \in Robots, Disable(r) PROVE Kept
  BY <1>6 DEF Disable, HaltedIsDisarmed, DisabledIsDisarmed
<1>7. ASSUME NEW c \in Callers, NEW r \in Robots, Enable(c, r) PROVE Kept
  BY <1>7 DEF Enable, HaltedIsDisarmed, DisabledIsDisarmed
<1>8. ASSUME StopAll PROVE Kept
  BY <1>8 DEF StopAll, HaltedIsDisarmed, DisabledIsDisarmed
<1>9. ASSUME NEW r \in Robots, PlainStop(r) PROVE Kept
  BY <1>9 DEF PlainStop, HaltedIsDisarmed, DisabledIsDisarmed
<1>10. ASSUME NEW q \in net, Stop(q) PROVE Kept
  <2>1. q.robot \in Robots
    BY DEF TrafficOK, Requests
  <2> QED  BY <1>10, <2>1 DEF Stop, HaltedIsDisarmed, DisabledIsDisarmed
<1>11. ASSUME Restart PROVE Kept
  BY <1>11 DEF Restart, HaltedIsDisarmed, DisabledIsDisarmed
<1>12. ASSUME UNCHANGED <<safety, halted>> PROVE Kept
  BY <1>12 DEF safety, HaltedIsDisarmed, DisabledIsDisarmed
<1>13. ASSUME NEW i \in 1..MaxMarks, MarkForgotten(i) PROVE Kept
  BY <1>12, <1>13 DEF MarkForgotten
<1>14. ASSUME NEW c \in Callers, NEW r \in Robots, NEW kind \in {"jog", "stop"}, Send(c, r, kind) PROVE Kept
  BY <1>12, <1>14 DEF Send
<1>15. ASSUME NEW q \in net, Jog(q) PROVE Kept
  BY <1>12, <1>15 DEF Jog
<1>16. ASSUME UNCHANGED vars PROVE Kept
  BY <1>12, <1>16 DEF vars, safety
<1> HIDE DEF Kept
<1> QED
  BY <1>1, <1>2, <1>3, <1>4, <1>5, <1>6, <1>7, <1>8, <1>9, <1>10, <1>11, <1>13, <1>14, <1>15, <1>16
  DEF Next

\* No step makes up a command, and only Jog and Stop carry one out.
LEMMA TrafficStep == Inv /\ [Next]_vars => TrafficOK'
<1> SUFFICES ASSUME Inv, [Next]_vars PROVE TrafficOK'
  OBVIOUS
<1> USE DEF Inv, TrafficOK
<1>1. ASSUME NEW c \in Callers, NEW r \in Robots, NEW kind \in {"jog", "stop"}, Send(c, r, kind)
      PROVE  TrafficOK'
  <2>1. sent' = [sent EXCEPT ![c] = sent[c] + 1] /\ sent[c] + 1 \in Numbers
    BY <1>1, ConstantsAssumption DEF Send, Numbers
  <2>2. [kind |-> kind, by |-> c, robot |-> r, seq |-> sent[c] + 1] \in Requests
    BY <2>1 DEF Requests
  <2>3. net' \subseteq Requests /\ log' = log
    BY <1>1, <2>2 DEF Send
  <2> QED  BY <2>1, <2>3 DEF Numbers
<1>2. ASSUME NEW q \in net, Jog(q) \/ Stop(q) PROVE TrafficOK'
  <2>1. net' \subseteq net /\ sent' = sent
    BY <1>2 DEF Jog, Stop, Delivered
  <2>2. log' = log \/ log' = Append(log, q)
    BY <1>2 DEF Jog, Stop
  <2> QED  BY <2>1, <2>2
<1>3. ASSUME Restart PROVE TrafficOK'
  BY <1>3 DEF Restart
<1>4. ASSUME UNCHANGED <<traffic, log>> PROVE TrafficOK'
  BY <1>4 DEF traffic
<1>5. CASE \E c \in Callers, r \in Robots, kind \in {"jog", "stop"} : Send(c, r, kind)
  BY <1>1, <1>5
<1>6. CASE \E q \in net : Jog(q) \/ Stop(q)
  BY <1>2, <1>6
<1>7. CASE \E c \in Callers, r \in Robots : \/ \E force \in BOOLEAN : Claim(c, r, force)
                                            \/ Release(c, r) \/ Arm(c, r) \/ Enable(c, r)
  BY <1>4, <1>7 DEF Claim, Release, Arm, Enable
<1>8. CASE \E r \in Robots : ClaimLapses(r) \/ Disarm(r) \/ Disable(r) \/ PlainStop(r)
  BY <1>4, <1>8 DEF ClaimLapses, Disarm, Disable, PlainStop
<1>9. CASE StopAll \/ \E i \in 1..MaxMarks : MarkForgotten(i)
  BY <1>4, <1>9 DEF StopAll, MarkForgotten
<1>10. CASE UNCHANGED vars
  BY <1>4, <1>10 DEF vars, traffic
<1> QED  BY <1>3, <1>5, <1>6, <1>7, <1>8, <1>9, <1>10 DEF Next

LEMMA InvInit == Init => Inv
  BY ConstantsAssumption DEF Init, Inv, SafetyOK, TrafficOK, HaltedIsDisarmed, DisabledIsDisarmed

LEMMA InvStep == Inv /\ [Next]_vars => Inv'
  BY SafetyStep, TrafficStep DEF Inv

LEMMA InvHolds == Spec => []Inv
  BY InvInit, InvStep, PTL DEF Spec

-----------------------------------------------------------------------------
(* The table of marks *)

\* No caller has two marks for one robot.
OneMarkEach(m) == \A i, j \in DOMAIN m : IsMarkOf(m[i], m[j]) => i = j

LEMMA WithoutFacts ==
  ASSUME NEW m \in Seq(Marks), NEW q \in Requests
  PROVE  /\ Without(m, q) \in Seq(Marks) /\ Len(Without(m, q)) <= Len(m)
         /\ OneMarkEach(m) =>
              /\ OneMarkEach(Without(m, q))
              /\ \A k \in DOMAIN Without(m, q) :
                   \E j \in DOMAIN m : Without(m, q)[k] = m[j] /\ ~IsMarkOf(q, m[j])
              /\ \A j \in DOMAIN m : ~IsMarkOf(q, m[j]) => \E k \in DOMAIN Without(m, q) : Without(m, q)[k] = m[j]
<1> DEFINE w == Without(m, q)
<1>1. CASE Own(m, q) = {}
  BY <1>1 DEF Without, Own
<1>2. CASE Own(m, q) # {}
  <2> DEFINE i == OwnMark(m, q)
  <2>1. i \in DOMAIN m /\ IsMarkOf(q, m[i]) /\ w = RemoveAt(m, i)
    BY <1>2 DEF OwnMark, Own, Without
  <2> HIDE DEF i, w
  <2>2. /\ w \in Seq(Marks) /\ Len(w) = Len(m) - 1
        /\ \A k \in 1..Len(m) - 1 : w[k] = m[IF k < i THEN k ELSE k + 1]
    BY <2>1, RemoveAtFacts
  <2>3. DOMAIN m = 1..Len(m) /\ DOMAIN w = 1..Len(m) - 1 /\ Len(m) \in Nat
    BY <2>2
  <2>4. ASSUME OneMarkEach(m), NEW j \in DOMAIN m PROVE IsMarkOf(q, m[j]) <=> j = i
    BY <2>1, <2>4 DEF OneMarkEach, IsMarkOf
  <2>5. ASSUME OneMarkEach(m), NEW k \in DOMAIN w
        PROVE  \E j \in DOMAIN m : w[k] = m[j] /\ ~IsMarkOf(q, m[j])
    <3> DEFINE j == IF k < i THEN k ELSE k + 1
    <3>1. j \in DOMAIN m /\ w[k] = m[j] /\ j # i
      BY <2>1, <2>2, <2>3
    <3> QED  BY <2>4, <2>5, <3>1
  <2>6. ASSUME OneMarkEach(m), NEW j \in DOMAIN m, ~IsMarkOf(q, m[j]) PROVE \E k \in DOMAIN w : w[k] = m[j]
    <3> DEFINE k == IF j < i THEN j ELSE j - 1
    <3>1. j # i
      BY <2>4, <2>6
    <3>2. k \in DOMAIN w /\ j = (IF k < i THEN k ELSE k + 1)
      BY <2>1, <2>3, <3>1
    <3> QED  BY <2>2, <2>3, <3>2
  <2>7. ASSUME OneMarkEach(m), NEW k \in DOMAIN w, NEW l \in DOMAIN w, IsMarkOf(w[k], w[l]) PROVE k = l
    <3> DEFINE Place(x) == IF x < i THEN x ELSE x + 1
    <3>1. Place(k) \in DOMAIN m /\ w[k] = m[Place(k)] /\ Place(l) \in DOMAIN m /\ w[l] = m[Place(l)]
      BY <2>1, <2>2, <2>3
    <3>2. Place(k) = Place(l)
      BY <2>7, <3>1 DEF OneMarkEach
    <3> QED  BY <2>1, <2>3, <3>2
  <2>8. OneMarkEach(m) => OneMarkEach(w)
    BY <2>7 DEF OneMarkEach
  <2> QED  BY <2>2, <2>3, <2>5, <2>6, <2>8 DEF w
<1> QED  BY <1>1, <1>2

LEMMA RaisedFacts ==
  ASSUME NEW m \in Seq(Marks), NEW q \in Requests, NEW n \in Numbers
  PROVE  LET new == [robot |-> q.robot, by |-> q.by, seq |-> n]
             r == Raised(m, q, n)
         IN /\ r \in Seq(Marks) /\ Len(r) <= Len(m) + 1
            /\ OneMarkEach(m) =>
                 /\ OneMarkEach(r)
                 /\ \A k \in DOMAIN r : r[k] = new \/ \E j \in DOMAIN m : r[k] = m[j] /\ ~IsMarkOf(q, m[j])
                 /\ \A j \in DOMAIN m : ~IsMarkOf(q, m[j]) => \E k \in DOMAIN r : r[k] = m[j]
                 /\ \E k \in DOMAIN r : r[k] = new
<1> DEFINE new == [robot |-> q.robot, by |-> q.by, seq |-> n]
           w == Without(m, q)
           r == Append(w, new)
<1>1. new \in Marks /\ IsMarkOf(q, new)
  BY DEF Requests, Marks, IsMarkOf
<1>2. w \in Seq(Marks) /\ Len(w) <= Len(m)
  BY WithoutFacts
<1> HIDE DEF new, w
<1>3. /\ r \in Seq(Marks) /\ DOMAIN r = 1..Len(w) + 1 /\ DOMAIN w = 1..Len(w)
      /\ \A k \in 1..Len(w) : r[k] = w[k]
      /\ r[Len(w) + 1] = new
      /\ Len(w) \in Nat /\ Len(m) \in Nat /\ Len(r) = Len(w) + 1
  BY <1>1, <1>2, AppendProperties
<1>4. r = Raised(m, q, n)
  BY DEF Raised, new, w
<1> HIDE DEF r
<1>5. ASSUME OneMarkEach(m)
      PROVE  /\ OneMarkEach(r)
             /\ \A k \in DOMAIN r : r[k] = new \/ \E j \in DOMAIN m : r[k] = m[j] /\ ~IsMarkOf(q, m[j])
             /\ \A j \in DOMAIN m : ~IsMarkOf(q, m[j]) => \E k \in DOMAIN r : r[k] = m[j]
             /\ \E k \in DOMAIN r : r[k] = new
  <2>1. /\ OneMarkEach(w)
        /\ \A k \in DOMAIN w : \E j \in DOMAIN m : w[k] = m[j] /\ ~IsMarkOf(q, m[j])
        /\ \A j \in DOMAIN m : ~IsMarkOf(q, m[j]) => \E k \in DOMAIN w : w[k] = m[j]
    BY <1>5, WithoutFacts DEF w
  <2>2. \A k \in DOMAIN w : ~IsMarkOf(q, w[k])
    BY <2>1
  <2>3. ASSUME NEW k \in DOMAIN r, NEW l \in DOMAIN r, IsMarkOf(r[k], r[l]) PROVE k = l
    <3>1. CASE k \in DOMAIN w /\ l \in DOMAIN w
      BY <1>3, <2>1, <2>3, <3>1 DEF OneMarkEach
    <3>2. CASE k = Len(w) + 1 /\ l \in DOMAIN w
      BY <1>1, <1>3, <2>2, <2>3, <3>2 DEF IsMarkOf
    <3>3. CASE l = Len(w) + 1 /\ k \in DOMAIN w
      BY <1>1, <1>3, <2>2, <2>3, <3>3 DEF IsMarkOf
    <3> QED  BY <1>3, <3>1, <3>2, <3>3
  <2>4. \A k \in DOMAIN r : k \in DOMAIN w \/ r[k] = new
    BY <1>3
  <2>5. \A k \in DOMAIN w : k \in DOMAIN r /\ r[k] = w[k]
    BY <1>3
  <2>6. Len(w) + 1 \in DOMAIN r
    BY <1>3
  <2> QED  BY <1>3, <2>1, <2>3, <2>4, <2>5, <2>6 DEF OneMarkEach
<1> QED  BY <1>2, <1>3, <1>4, <1>5 DEF new

LEMMA SeenType ==
  ASSUME NEW m \in Seq(Marks), NEW q
  PROVE  Seen(m, q) \in Numbers \cup {0}
<1>1. CASE Own(m, q) = {}
  BY <1>1 DEF Seen
<1>2. CASE Own(m, q) # {}
  <2>1. OwnMark(m, q) \in DOMAIN m
    BY <1>2 DEF OwnMark, Own
  <2>2. m[OwnMark(m, q)] \in Marks
    BY <2>1
  <2> QED  BY <1>2, <2>2 DEF Seen, Marks
<1> QED  BY <1>1, <1>2

LEMMA ForgetOldType ==
  ASSUME NEW m \in Seq(Marks), Len(m) <= MaxMarks
  PROVE  ForgetOld(m) \in Seq(Marks) /\ Len(ForgetOld(m)) < MaxMarks
<1>1. MaxMarks \in Nat \ {0} /\ Len(m) \in Nat /\ \A i \in 1..Len(m) : m[i] \in Marks
  BY ConstantsAssumption
<1>2. CASE Len(m) < MaxMarks
  BY <1>1, <1>2 DEF ForgetOld
<1>3. CASE Len(m) = MaxMarks
  <2>1. ForgetOld(m) = SubSeq(m, 2, Len(m))
    BY <1>1, <1>3 DEF ForgetOld
  <2> QED  BY <1>1, <1>3, <2>1, SubSeqProperties
<1> QED  BY <1>1, <1>2, <1>3

-----------------------------------------------------------------------------
(* The order of the commands of one caller *)

MarksOK == marks \in Seq(Marks) /\ Len(marks) <= MaxMarks
CountsOK == repeats \in 0..MaxRepeats /\ restarts \in 0..MaxRestarts

LEMMA MarksStep == Inv /\ MarksOK /\ [Next]_vars => MarksOK'
<1> SUFFICES ASSUME Inv, MarksOK, [Next]_vars PROVE MarksOK'
  OBVIOUS
<1> USE DEF MarksOK
<1>1. ASSUME NEW q \in net, NEW n \in Numbers, marks' = Raised(ForgetOld(marks), q, n) PROVE MarksOK'
  <2>1. q \in Requests /\ MaxMarks \in Nat
    BY ConstantsAssumption DEF Inv, TrafficOK
  <2>2. ForgetOld(marks) \in Seq(Marks) /\ Len(ForgetOld(marks)) < MaxMarks
    BY ForgetOldType
  <2>3. marks' \in Seq(Marks) /\ Len(marks') <= Len(ForgetOld(marks)) + 1
    BY <1>1, <2>1, <2>2, RaisedFacts
  <2> QED  BY <2>1, <2>2, <2>3
<1>2. ASSUME NEW q \in net, Jog(q) PROVE MarksOK'
  <2>1. q.seq \in Numbers
    BY DEF Inv, TrafficOK, Requests
  <2>2. marks' = marks \/ marks' = ForgetOld(marks) \/ marks' = Raised(ForgetOld(marks), q, q.seq)
    BY <1>2 DEF Jog, MarksAfterJog
  <2>3. CASE marks' = ForgetOld(marks)
    BY <2>3, ForgetOldType, ConstantsAssumption
  <2>4. CASE marks' = Raised(ForgetOld(marks), q, q.seq)
    BY <1>1, <2>1, <2>4
  <2> QED  BY <2>2, <2>3, <2>4
<1>3. ASSUME NEW q \in net, Stop(q) PROVE MarksOK'
  <2> DEFINE kept == ForgetOld(marks)
             last == Seen(kept, q)
  <2>1. q.seq \in Numbers /\ kept \in Seq(Marks)
    BY ForgetOldType DEF Inv, TrafficOK, Requests
  <2>2. last \in Numbers \cup {0}
    BY <2>1, SeenType
  <2>3. (IF q.seq > last THEN q.seq ELSE last) \in Numbers
    BY <2>1, <2>2 DEF Numbers
  <2> QED  BY <1>1, <1>3, <2>3 DEF Stop, MarksAfterStop
<1>4. ASSUME NEW i \in 1..MaxMarks, MarkForgotten(i) PROVE MarksOK'
  BY <1>4, RemoveAtFacts, ConstantsAssumption DEF MarkForgotten
<1>5. ASSUME Restart PROVE MarksOK'
  BY <1>5, ConstantsAssumption DEF Restart
<1>6. ASSUME marks' = marks PROVE MarksOK'
  BY <1>6
<1> QED
  BY <1>2, <1>3, <1>4, <1>5, <1>6
  DEF Next, Claim, Release, ClaimLapses, Arm, Disarm, Disable, Enable, StopAll, PlainStop, Send, vars

LEMMA CountsStep == CountsOK /\ [Next]_vars => CountsOK'
<1> SUFFICES ASSUME CountsOK, [Next]_vars PROVE CountsOK'
  OBVIOUS
<1> USE ConstantsAssumption DEF CountsOK
<1>1. ASSUME NEW q \in net, Jog(q) \/ Stop(q) PROVE CountsOK'
  BY <1>1 DEF Jog, Stop, Delivered
<1>2. ASSUME Restart PROVE CountsOK'
  BY <1>2 DEF Restart
<1>3. ASSUME UNCHANGED <<repeats, restarts>> PROVE CountsOK'
  BY <1>3
<1> QED
  BY <1>1, <1>2, <1>3
  DEF Next, Claim, Release, ClaimLapses, Arm, Disarm, Disable, Enable, StopAll, MarkForgotten, PlainStop, Send,
      traffic, vars

\* There is room for a mark of every caller and robot: no mark is dropped while it is needed.
MarksFit == IsFiniteSet(Numbering) /\ Cardinality(Numbering) < MaxMarks

KeysOK ==
  /\ OneMarkEach(marks)
  /\ \A i \in DOMAIN marks : <<marks[i].by, marks[i].robot>> \in Numbering

NumberedOK ==
  /\ \A q \in net : <<q.by, q.robot>> \in Numbering /\ q.seq <= sent[q.by]
  /\ \A i \in DOMAIN log : log[i].seq <= sent[log[i].by]

\* The mark of the caller and the robot of q has reached n.
Reached(m, q, n) == \E k \in DOMAIN m : IsMarkOf(q, m[k]) /\ m[k].seq >= n

\* Whatever is under way is younger than what was carried out, or its mark refuses it.
Marked ==
  \A i \in DOMAIN log, q \in net : IsMarkOf(q, log[i]) => q.seq > log[i].seq \/ Reached(marks, q, log[i].seq)

OrderInv == KeysOK /\ NumberedOK /\ Marked /\ JogsInOrder

\* One mark per caller and robot: they are fewer than MAX_ENTRIES, and none is dropped.
LEMMA NothingForgotten ==
  ASSUME MarksFit, MarksOK, KeysOK
  PROVE  ForgetOld(marks) = marks
<1> DEFINE n == Len(marks)
           key == [i \in 1..n |-> <<marks[i].by, marks[i].robot>>]
<1>1. n \in Nat /\ DOMAIN marks = 1..n /\ MaxMarks \in Nat \ {0} /\ Cardinality(Numbering) \in Nat
  BY ConstantsAssumption, FS_CardinalityType DEF MarksOK, MarksFit
<1>2. key \in [1..n -> Numbering]
  BY <1>1 DEF KeysOK
<1>3. IsFiniteSet(1..n) /\ Cardinality(1..n) = n
  <2>1. 1 \in Int /\ n \in Int
    BY <1>1
  <2>2. IsFiniteSet(1..n) /\ Cardinality(1..n) = IF 1 > n THEN 0 ELSE n - 1 + 1
    BY <2>1, FS_Interval
  <2> QED  BY <1>1, <2>2
<1>4. \A i, j \in 1..n : key[i] = key[j] => i = j
  BY <1>1 DEF KeysOK, OneMarkEach, IsMarkOf
<1>5. ~(Cardinality(Numbering) < n)
  <2> SUFFICES ASSUME Cardinality(Numbering) < n PROVE FALSE
    OBVIOUS
  <2> HIDE DEF key
  <2>1. \E i, j \in 1..n : i # j /\ key[i] = key[j]
    BY <1>2, <1>3, FS_PigeonHole DEF MarksFit
  <2> QED  BY <1>4, <2>1
<1> QED  BY <1>1, <1>5 DEF ForgetOld, MarksFit

LEMMA SeenFacts ==
  ASSUME NEW m \in Seq(Marks), OneMarkEach(m), NEW q \in Requests, NEW k \in DOMAIN m, IsMarkOf(q, m[k])
  PROVE  Seen(m, q) = m[k].seq
<1>1. Own(m, q) # {} /\ OwnMark(m, q) \in Own(m, q)
  BY DEF Own, OwnMark
<1>2. OwnMark(m, q) = k
  BY <1>1 DEF Own, OneMarkEach, IsMarkOf
<1> QED  BY <1>1, <1>2 DEF Seen

\* A mark that is raised loses nothing that was reached.
LEMMA RaisedReaches ==
  ASSUME MarksOK, KeysOK, TrafficOK, NumberedOK, NEW q \in net, NEW n \in Numbers, n >= Seen(marks, q),
         marks' = Raised(marks, q, n)
  PROVE  /\ KeysOK'
         /\ \A p \in net, v \in Numbers : Reached(marks, p, v) => Reached(marks', p, v)
         /\ \A p \in net : IsMarkOf(p, q) => Reached(marks', p, n)
<1> DEFINE new == [robot |-> q.robot, by |-> q.by, seq |-> n]
<1>1. q \in Requests /\ marks \in Seq(Marks)
  BY DEF TrafficOK, MarksOK
<1>2. /\ OneMarkEach(marks')
      /\ \A k \in DOMAIN marks' : marks'[k] = new \/ \E j \in DOMAIN marks : marks'[k] = marks[j] /\ ~IsMarkOf(q, marks[j])
      /\ \A j \in DOMAIN marks : ~IsMarkOf(q, marks[j]) => \E k \in DOMAIN marks' : marks'[k] = marks[j]
      /\ \E k \in DOMAIN marks' : marks'[k] = new
  BY <1>1, RaisedFacts DEF KeysOK
<1>3. KeysOK'
  BY <1>2 DEF KeysOK, NumberedOK
<1>4. ASSUME NEW p \in net, IsMarkOf(p, q) PROVE Reached(marks', p, n)
  <2>1. PICK k \in DOMAIN marks' : marks'[k] = new
    BY <1>2
  <2> QED  BY <1>4, <2>1 DEF Reached, IsMarkOf, Numbers
<1>5. ASSUME NEW p \in net, NEW v \in Numbers, Reached(marks, p, v) PROVE Reached(marks', p, v)
  <2>1. PICK j \in DOMAIN marks : IsMarkOf(p, marks[j]) /\ marks[j].seq >= v
    BY <1>5 DEF Reached
  <2>2. CASE ~IsMarkOf(q, marks[j])
    BY <1>2, <2>1, <2>2 DEF Reached
  <2>3. CASE IsMarkOf(q, marks[j])
    <3>1. Seen(marks, q) = marks[j].seq
      BY <1>1, <2>3, SeenFacts DEF KeysOK
    <3>2. n >= v
      <4>1. marks[j] \in Marks
        BY <1>1
      <4>2. marks[j].seq \in Nat /\ n \in Nat /\ v \in Nat
        BY <4>1 DEF Marks, Numbers
      <4> QED  BY <2>1, <3>1, <4>2
    <3>3. PICK k \in DOMAIN marks' : marks'[k] = new
      BY <1>2
    <3> QED  BY <2>1, <2>3, <3>2, <3>3 DEF Reached, IsMarkOf
  <2> QED  BY <2>2, <2>3
<1> QED  BY <1>3, <1>4, <1>5

LEMMA OrderInit == Init => OrderInv
  BY ConstantsAssumption DEF Init, OrderInv, KeysOK, OneMarkEach, NumberedOK, Marked, JogsInOrder

\* Sending makes a command that is younger than all of its caller.
LEMMA OrderSend ==
  ASSUME Inv, MarksOK, OrderInv, NEW c \in Callers, NEW r \in Robots, NEW kind \in {"jog", "stop"}, Send(c, r, kind)
  PROVE  OrderInv'
<1> DEFINE q == [kind |-> kind, by |-> c, robot |-> r, seq |-> sent[c] + 1]
<1>1. /\ net' = net \cup {q} /\ sent' = [sent EXCEPT ![c] = sent[c] + 1] /\ marks' = marks /\ log' = log
      /\ <<c, r>> \in Numbering
  BY DEF Send
<1>2. /\ sent \in [Callers -> Nat] /\ sent'[c] = sent[c] + 1
      /\ \A d \in Callers : d # c => sent'[d] = sent[d]
  BY <1>1, ConstantsAssumption DEF Inv, TrafficOK
<1>3. \A i \in DOMAIN log : log[i].by \in Callers /\ log[i].seq \in Nat
  <2>1. \A i \in DOMAIN log : log[i] \in Requests
    BY DEF Inv, TrafficOK
  <2> QED  BY <2>1 DEF Requests, Numbers
<1>4. \A p \in net : p.by \in Callers /\ p.seq \in Nat
  BY DEF Inv, TrafficOK, Requests, Numbers
<1>5. \A d \in Callers : sent[d] <= sent'[d] /\ sent[d] \in Nat /\ sent'[d] \in Nat
  BY <1>2
<1>6. NumberedOK'
  <2>1. \A p \in net' : <<p.by, p.robot>> \in Numbering /\ p.seq <= sent'[p.by]
    <3>1. ASSUME NEW p \in net PROVE <<p.by, p.robot>> \in Numbering /\ p.seq <= sent'[p.by]
      BY <1>4, <1>5, <3>1 DEF OrderInv, NumberedOK
    <3>2. <<q.by, q.robot>> \in Numbering /\ q.seq <= sent'[q.by]
      BY <1>1, <1>2
    <3> QED  BY <1>1, <3>1, <3>2
  <2>2. \A i \in DOMAIN log' : log'[i].seq <= sent'[log'[i].by]
    BY <1>1, <1>3, <1>5 DEF OrderInv, NumberedOK
  <2> QED  BY <2>1, <2>2 DEF NumberedOK
<1>7. Marked'
  <2> SUFFICES ASSUME NEW i \in DOMAIN log, NEW p \in net', IsMarkOf(p, log[i])
               PROVE  p.seq > log[i].seq \/ Reached(marks, p, log[i].seq)
    BY <1>1 DEF Marked
  <2>1. CASE p \in net
    BY <2>1 DEF OrderInv, Marked
  <2>2. CASE p = q
    <3>1. log[i].by = c /\ log[i].seq <= sent[c]
      BY <2>2 DEF IsMarkOf, OrderInv, NumberedOK
    <3> QED  BY <1>2, <1>3, <2>2, <3>1
  <2> QED  BY <1>1, <2>1, <2>2
<1> QED  BY <1>1, <1>6, <1>7 DEF OrderInv, KeysOK, JogsInOrder

\* A command that is carried out and raises its mark, a jog only above its mark.
LEMMA OrderCarriedOut ==
  ASSUME Inv, MarksOK, OrderInv, NEW q \in net, NEW n \in Numbers, n >= Seen(marks, q), n >= q.seq,
         marks' = Raised(marks, q, n), log' = Append(log, q), net' \subseteq net, sent' = sent,
         q.kind = "jog" => q.seq > Seen(marks, q)
  PROVE  OrderInv'
<1>1. /\ KeysOK'
      /\ \A p \in net, v \in Numbers : Reached(marks, p, v) => Reached(marks', p, v)
      /\ \A p \in net : IsMarkOf(p, q) => Reached(marks', p, n)
  BY RaisedReaches DEF Inv, OrderInv
<1>2. /\ q \in Requests /\ log \in Seq(Requests) /\ DOMAIN log = 1..Len(log) /\ Len(log) \in Nat
      /\ DOMAIN log' = 1..Len(log) + 1 /\ log'[Len(log) + 1] = q
      /\ \A i \in 1..Len(log) : log'[i] = log[i] /\ log[i] \in Requests
  BY AppendProperties DEF Inv, TrafficOK
<1>3. \A i \in DOMAIN log' : i \in DOMAIN log \/ i = Len(log) + 1
  BY <1>2
<1>4. NumberedOK'
  BY <1>2, <1>3 DEF OrderInv, NumberedOK
<1>5. Marked'
  <2> SUFFICES ASSUME NEW i \in DOMAIN log', NEW p \in net, IsMarkOf(p, log'[i])
               PROVE  p.seq > log'[i].seq \/ Reached(marks', p, log'[i].seq)
    BY DEF Marked
  <2>1. CASE i \in DOMAIN log
    <3>1. log'[i] = log[i] /\ log[i].seq \in Numbers
      BY <1>2, <2>1 DEF Requests
    <3> QED  BY <1>1, <2>1, <3>1 DEF OrderInv, Marked
  <2>2. CASE i = Len(log) + 1
    <3>1. IsMarkOf(p, q) /\ log'[i].seq = q.seq /\ q.seq \in Nat /\ n \in Nat
      BY <1>2, <2>2 DEF Requests, Numbers
    <3>2. PICK k \in DOMAIN marks' : IsMarkOf(p, marks'[k]) /\ marks'[k].seq >= n
      BY <1>1, <3>1 DEF Reached
    <3>3. q \in Requests /\ marks' \in Seq(Marks)
      BY <1>2, RaisedFacts DEF MarksOK
    <3>4. marks'[k] \in Marks
      BY <3>3
    <3>5. marks'[k].seq \in Nat
      BY <3>4 DEF Marks, Numbers
    <3> QED  BY <3>1, <3>2, <3>5 DEF Reached
  <2> QED  BY <1>3, <2>1, <2>2
<1>6. JogsInOrder'
  <2> SUFFICES ASSUME NEW i \in DOMAIN log', NEW j \in DOMAIN log', i < j, log'[j].kind = "jog",
                      IsMarkOf(log'[i], log'[j])
               PROVE  log'[i].seq < log'[j].seq
    BY DEF JogsInOrder
  <2>1. CASE j \in DOMAIN log
    BY <1>2, <2>1 DEF OrderInv, JogsInOrder
  <2>2. CASE j = Len(log) + 1
    <3>1. /\ i \in DOMAIN log /\ log'[i] = log[i] /\ log'[j] = q /\ q.kind = "jog" /\ IsMarkOf(q, log[i])
          /\ log[i].seq \in Nat /\ q.seq \in Nat
      BY <1>2, <2>2 DEF IsMarkOf, Requests, Numbers
    <3>2. CASE Reached(marks, q, log[i].seq)
      <4>1. PICK k \in DOMAIN marks : IsMarkOf(q, marks[k]) /\ marks[k].seq >= log[i].seq
        BY <3>2 DEF Reached
      <4>2. marks \in Seq(Marks) /\ marks[k] \in Marks
        BY DEF MarksOK
      <4>3. Seen(marks, q) = marks[k].seq
        BY <1>2, <4>1, <4>2, SeenFacts DEF OrderInv, KeysOK
      <4>4. marks[k].seq \in Nat
        BY <4>2 DEF Marks, Numbers
      <4> QED  BY <3>1, <4>1, <4>3, <4>4
    <3>3. CASE q.seq > log[i].seq
      BY <3>1, <3>3
    <3> QED  BY <3>1, <3>2, <3>3 DEF OrderInv, Marked
  <2> QED  BY <1>3, <2>1, <2>2
<1> QED  BY <1>1, <1>4, <1>5, <1>6 DEF OrderInv

\* What neither adds to the log nor changes the marks, and only takes from the commands under way.
LEMMA OrderKept ==
  ASSUME OrderInv, net' \subseteq net, UNCHANGED <<marks, log, sent>>
  PROVE  OrderInv'
  BY DEF OrderInv, KeysOK, NumberedOK, Marked, JogsInOrder

LEMMA OrderForgotten ==
  ASSUME MarksOK, OrderInv, NEW i \in 1..MaxMarks, MarkForgotten(i)
  PROVE  OrderInv'
<1>1. /\ i \in DOMAIN marks /\ marks \in Seq(Marks) /\ marks' = RemoveAt(marks, i) /\ DOMAIN marks = 1..Len(marks)
      /\ \A q \in net : ~IsMarkOf(q, marks[i])
      /\ UNCHANGED <<net, log, sent>> /\ Len(marks) \in Nat
  BY DEF MarkForgotten, MarksOK, traffic
<1>2. /\ DOMAIN marks' = 1..Len(marks) - 1
      /\ \A k \in 1..Len(marks) - 1 : marks'[k] = marks[IF k < i THEN k ELSE k + 1]
  <2> DEFINE rest == RemoveAt(marks, i)
  <2>1. /\ rest \in Seq(Marks) /\ Len(rest) = Len(marks) - 1
        /\ \A k \in 1..Len(marks) - 1 : rest[k] = marks[IF k < i THEN k ELSE k + 1]
    BY <1>1, RemoveAtFacts
  <2>2. marks' = rest
    BY <1>1
  <2> HIDE DEF rest
  <2> QED  BY <2>1, <2>2
<1> DEFINE Place(k) == IF k < i THEN k ELSE k + 1
<1>3. \A k \in DOMAIN marks' : Place(k) \in DOMAIN marks /\ marks'[k] = marks[Place(k)]
  BY <1>1, <1>2
<1>4. \A k, l \in DOMAIN marks' : Place(k) = Place(l) => k = l
  BY <1>1, <1>2
<1>5. \A j \in DOMAIN marks : j # i => \E k \in DOMAIN marks' : marks'[k] = marks[j]
  <2> SUFFICES ASSUME NEW j \in DOMAIN marks, j # i PROVE \E k \in DOMAIN marks' : marks'[k] = marks[j]
    OBVIOUS
  <2> DEFINE k == IF j < i THEN j ELSE j - 1
  <2>1. k \in DOMAIN marks' /\ Place(k) = j
    BY <1>1, <1>2
  <2> QED  BY <1>3, <2>1
<1> HIDE DEF Place
<1>6. KeysOK'
  BY <1>3, <1>4 DEF OrderInv, KeysOK, OneMarkEach
<1>7. \A v : \A q \in net : Reached(marks, q, v) => Reached(marks', q, v)
  BY <1>1, <1>5 DEF Reached
<1> QED  BY <1>1, <1>6, <1>7 DEF OrderInv, NumberedOK, Marked, JogsInOrder

LEMMA OrderStep ==
  ASSUME MarksFit, Inv, MarksOK, OrderInv, [Next]_vars
  PROVE  OrderInv'
<1>1. ForgetOld(marks) = marks
  BY NothingForgotten DEF OrderInv
<1>2. ASSUME NEW q \in net, Jog(q) PROVE OrderInv'
  <2>1. net' \subseteq net /\ sent' = sent /\ q.seq \in Numbers
    BY <1>2 DEF Jog, Delivered, Inv, TrafficOK, Requests
  <2>2. CASE MayJog(q.by, q.robot) /\ IsNew(q)
    <3>1. marks' = Raised(marks, q, q.seq) /\ log' = Append(log, q) /\ q.seq > Seen(marks, q)
      BY <1>1, <1>2, <2>2 DEF Jog, MarksAfterJog, IsNew
    <3>2. Seen(marks, q) \in Nat => q.seq >= Seen(marks, q)
      BY <2>1, <3>1 DEF Numbers
    <3>3. Seen(marks, q) \in Nat
      BY SeenType DEF MarksOK, Numbers
    <3>4. q.seq >= q.seq
      BY <2>1 DEF Numbers
    <3> QED  BY <2>1, <3>1, <3>2, <3>3, <3>4, OrderCarriedOut
  <2>3. CASE ~(MayJog(q.by, q.robot) /\ IsNew(q))
    BY <1>1, <1>2, <2>1, <2>3, OrderKept DEF Jog, MarksAfterJog
  <2> QED  BY <2>2, <2>3
<1>3. ASSUME NEW q \in net, Stop(q) PROVE OrderInv'
  <2> DEFINE last == Seen(marks, q)
             n == IF q.seq > last THEN q.seq ELSE last
  <2>1. net' \subseteq net /\ sent' = sent /\ q.seq \in Numbers /\ q.kind = "stop"
    BY <1>3 DEF Stop, Delivered, Inv, TrafficOK, Requests
  <2>2. marks' = Raised(marks, q, n) /\ log' = Append(log, q)
    BY <1>1, <1>3 DEF Stop, MarksAfterStop
  <2>3. last \in Numbers \cup {0}
    BY SeenType DEF MarksOK
  <2>4. n \in Numbers /\ n >= last /\ n >= q.seq
    BY <2>1, <2>3 DEF Numbers
  <2> HIDE DEF n
  <2> QED  BY <2>1, <2>2, <2>4, OrderCarriedOut
<1>4. ASSUME Restart PROVE OrderInv'
  BY <1>4 DEF Restart, OrderInv, KeysOK, OneMarkEach, NumberedOK, Marked, JogsInOrder
<1>5. ASSUME net' = net, UNCHANGED <<marks, log, sent>> PROVE OrderInv'
  BY <1>5, OrderKept
<1>6. CASE \E c \in Callers, r \in Robots, kind \in {"jog", "stop"} : Send(c, r, kind)
  BY <1>6, OrderSend
<1>7. CASE \E i \in 1..MaxMarks : MarkForgotten(i)
  BY <1>7, OrderForgotten
<1>8. CASE \E c \in Callers, r \in Robots : \/ \E force \in BOOLEAN : Claim(c, r, force)
                                            \/ Release(c, r) \/ Arm(c, r) \/ Enable(c, r)
  BY <1>5, <1>8 DEF Claim, Release, Arm, Enable, traffic
<1>9. CASE \E r \in Robots : ClaimLapses(r) \/ Disarm(r) \/ Disable(r) \/ PlainStop(r)
  BY <1>5, <1>9 DEF ClaimLapses, Disarm, Disable, PlainStop, traffic
<1>10. CASE StopAll \/ UNCHANGED vars
  BY <1>5, <1>10 DEF StopAll, traffic, vars
<1> QED  BY <1>2, <1>3, <1>4, <1>6, <1>7, <1>8, <1>9, <1>10 DEF Next

-----------------------------------------------------------------------------
(* The properties *)

\* The claims, the arming, the marks and the commands under way keep their types, and no more marks than
\* MAX_ENTRIES are kept, for any accounts, controllers, robots and bounds.
THEOREM TypeCorrect == Spec => []TypeOK
<1>1. Init => Inv /\ MarksOK /\ CountsOK
  BY InvInit, ConstantsAssumption DEF Init, MarksOK, CountsOK
<1>2. Inv /\ MarksOK /\ CountsOK /\ [Next]_vars => (Inv /\ MarksOK /\ CountsOK)'
  BY InvStep, MarksStep, CountsStep
<1>3. Inv /\ MarksOK /\ CountsOK => TypeOK
  BY DEF Inv, SafetyOK, TrafficOK, MarksOK, CountsOK, TypeOK
<1> QED  BY <1>1, <1>2, <1>3, PTL DEF Spec

\* No jog of a caller is carried out after a stop or a jog of the same caller for the same robot that was
\* sent later, for any number of commands, orders of arrival and repetitions, as long as there are fewer
\* callers with robots than MAX_ENTRIES (jogSequence.ts): beyond that a mark may be dropped too early.
THEOREM OrderCorrect == MarksFit => (Spec => []JogsInOrder)
<1> SUFFICES ASSUME MarksFit PROVE Spec => []JogsInOrder
  OBVIOUS
<1>1. Init => Inv /\ MarksOK /\ OrderInv
  BY InvInit, OrderInit, ConstantsAssumption DEF Init, MarksOK
<1>2. Inv /\ MarksOK /\ OrderInv /\ [Next]_vars => (Inv /\ MarksOK /\ OrderInv)'
  BY InvStep, MarksStep, OrderStep
<1>3. OrderInv => JogsInOrder
  BY DEF OrderInv
<1> QED  BY <1>1, <1>2, <1>3, PTL DEF Spec

\* A robot that was halted, by a stop of it or of all, a release, a disable or a restart, answers
\* no jog of anybody until its jog is armed again: whoever claims, forces, releases or enables.
THEOREM HaltCorrect == Spec => []HaltHolds
<1>1. Inv => HaltHolds
  BY DEF Inv, HaltedIsDisarmed, HaltHolds, MayJog, IsArmed
<1> QED  BY <1>1, InvHolds, PTL

\* A robot in safe mode has no arming left, so nothing moves it when an administrator enables it.
THEOREM SafeModeCorrect == Spec => []DisabledIsDisarmed
<1>1. Inv => DisabledIsDisarmed
  BY DEF Inv
<1> QED  BY <1>1, InvHolds, PTL

\* Only a jog that passes its checks is added to the commands carried out.
LEMMA JogIsAllowed ==
  ASSUME Inv, [Next]_vars, NEW q \in net, log' = Append(log, q), q.kind = "jog"
  PROVE  MayJog(q.by, q.robot)
<1>1. /\ log \in Seq(Requests) /\ q \in Requests
      /\ Append(log, q)[Len(log) + 1] = q /\ Len(Append(log, q)) = Len(log) + 1
  BY DEF Inv, TrafficOK
<1>2. log' # log
  BY <1>1
<1>3. \E p \in net : Jog(p) \/ Stop(p)
  BY <1>2 DEF Next, Claim, Release, ClaimLapses, Arm, Disarm, Disable, Enable, StopAll,
     MarkForgotten, PlainStop, Send, Restart, vars
<1>4. PICK p \in net : Jog(p) \/ Stop(p)
  BY <1>3
<1>5. log' = Append(log, p)
  BY <1>2, <1>4 DEF Jog, Stop
<1>6. p \in Requests /\ Append(log, p)[Len(log) + 1] = p
  BY <1>1 DEF Inv, TrafficOK
<1>7. p = q
  BY <1>1, <1>5, <1>6
<1>8. Jog(q)
  BY <1>4, <1>7 DEF Stop
<1> QED  BY <1>2, <1>8 DEF Jog

\* A jog that is carried out moves no robot, be it the one that is named or one that moves with
\* it, whose claim is of another account.
THEOREM HeldRobotsCorrect == Spec => HeldRobotsStay
<1>1. Inv /\ [Next]_vars =>
        [\A q \in net :
           log' = Append(log, q) /\ q.kind = "jog" =>
             \A r \in Affected(q.robot) : claim[r] # NoOne => AccountOf[claim[r]] = AccountOf[q.by]]_vars
  BY JogIsAllowed DEF MayJog, Conflict
<1> QED  BY <1>1, InvHolds, PTL DEF Spec, HeldRobotsStay
=============================================================================

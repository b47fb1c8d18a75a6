-------------------------- MODULE HandOverProofs --------------------------
(***************************************************************************)
(* Proofs about HandOver, for any missions, robots, outages and restarts:  *)
(* the types, and, as long as no mission goes back to a robot it was taken *)
(* from, that no two robots work on one mission and that no proof sent to  *)
(* the standby is false.                                                   *)
(***************************************************************************)
EXTENDS HandOver, SequencesExt, SequenceTheorems, TLAPS

-----------------------------------------------------------------------------
(* Sequences *)

\* RemoveAt closes the gap.
LEMMA RemoveAtFacts ==
  ASSUME NEW S, NEW m \in Seq(S), NEW i \in DOMAIN m
  PROVE  /\ RemoveAt(m, i) \in Seq(S)
         /\ Len(RemoveAt(m, i)) = Len(m) - 1
         /\ \A k \in 1..Len(m) - 1 : RemoveAt(m, i)[k] = m[IF k < i THEN k ELSE k + 1]
<1> DEFINE front == SubSeq(m, 1, i - 1)
           back == SubSeq(m, i + 1, Len(m))
<1>1. i \in 1..Len(m) /\ Len(m) \in Nat /\ \A k \in 1..Len(m) : m[k] \in S
  OBVIOUS
<1>2. front \in Seq(S) /\ Len(front) = i - 1 /\ \A k \in 1..i - 1 : front[k] = m[k]
  BY <1>1, SubSeqProperties
<1>3. back \in Seq(S) /\ Len(back) = Len(m) - i /\ \A k \in 1..Len(m) - i : back[k] = m[k + i]
  BY <1>1, SubSeqProperties
<1> HIDE DEF front, back
<1>4. /\ front \o back \in Seq(S)
      /\ Len(front \o back) = Len(front) + Len(back)
      /\ \A k \in 1..Len(front) + Len(back) :
           (front \o back)[k] = IF k <= Len(front) THEN front[k] ELSE back[k - Len(front)]
  BY <1>2, <1>3, ConcatProperties
<1>5. \A k \in 1..Len(m) - 1 : (front \o back)[k] = m[IF k < i THEN k ELSE k + 1]
  <2> SUFFICES ASSUME NEW k \in 1..Len(m) - 1 PROVE (front \o back)[k] = m[IF k < i THEN k ELSE k + 1]
    OBVIOUS
  <2>1. CASE k < i
    <3>1. k \in 1..Len(front) + Len(back) /\ k <= Len(front) /\ k \in 1..i - 1
      BY <1>1, <1>2, <1>3, <2>1
    <3>2. (front \o back)[k] = front[k]
      BY <1>4, <3>1
    <3> QED  BY <1>2, <2>1, <3>1, <3>2
  <2>2. CASE ~(k < i)
    <3>1. k - (i - 1) \in 1..Len(m) - i /\ k - (i - 1) + i = k + 1
      BY <1>1, <2>2
    <3>2. k \in 1..Len(front) + Len(back) /\ ~(k <= Len(front)) /\ k - Len(front) = k - (i - 1)
      BY <1>1, <1>2, <1>3, <2>2
    <3>3. (front \o back)[k] = back[k - (i - 1)]
      BY <1>4, <3>2
    <3> QED  BY <1>3, <2>2, <3>1, <3>3
  <2> QED  BY <2>1, <2>2
<1>6. RemoveAt(m, i) = front \o back
  BY DEF RemoveAt, front, back
<1>7. Len(front \o back) = Len(m) - 1
  BY <1>1, <1>2, <1>3, <1>4
<1> QED  BY <1>4, <1>5, <1>6, <1>7

\* What is left are the other elements, each where it was or one further to the front.
LEMMA RemoveAtKeeps ==
  ASSUME NEW S, NEW m \in Seq(S), NEW i \in DOMAIN m
  PROVE  /\ \A k \in DOMAIN RemoveAt(m, i) : \E j \in DOMAIN m \ {i} : RemoveAt(m, i)[k] = m[j]
         /\ \A k, l \in DOMAIN RemoveAt(m, i) :
              k # l => \E a, b \in DOMAIN m : a # b /\ RemoveAt(m, i)[k] = m[a] /\ RemoveAt(m, i)[l] = m[b]
<1> DEFINE w == RemoveAt(m, i)
           Place(k) == IF k < i THEN k ELSE k + 1
<1>1. i \in 1..Len(m) /\ Len(m) \in Nat /\ DOMAIN m = 1..Len(m)
  OBVIOUS
<1>2. w \in Seq(S) /\ Len(w) = Len(m) - 1 /\ \A k \in 1..Len(m) - 1 : w[k] = m[Place(k)]
  BY RemoveAtFacts
<1> HIDE DEF w
<1>3. DOMAIN w = 1..Len(m) - 1
  BY <1>1, <1>2
<1>4. \A k \in DOMAIN w : Place(k) \in DOMAIN m \ {i} /\ w[k] = m[Place(k)]
  BY <1>1, <1>2, <1>3
<1>5. \A k, l \in DOMAIN w : Place(k) = Place(l) => k = l
  BY <1>1, <1>3
<1> HIDE DEF Place
<1> QED  BY <1>4, <1>5 DEF w

\* Tail drops the first element.
LEMMA TailKeeps ==
  ASSUME NEW S, NEW m \in Seq(S), m # <<>>
  PROVE  /\ Tail(m) \in Seq(S) /\ Len(Tail(m)) = Len(m) - 1
         /\ \A k \in DOMAIN Tail(m) : k + 1 \in DOMAIN m /\ Tail(m)[k] = m[k + 1]
  OBVIOUS

LEMMA AppendKeeps ==
  ASSUME NEW S, NEW m \in Seq(S), NEW e \in S
  PROVE  /\ Append(m, e) \in Seq(S) /\ Len(Append(m, e)) = Len(m) + 1
         /\ \A k \in DOMAIN Append(m, e) : (k \in DOMAIN m /\ Append(m, e)[k] = m[k])
                                           \/ (k = Len(m) + 1 /\ Append(m, e)[k] = e)
  OBVIOUS

-----------------------------------------------------------------------------
(* Types *)

\* A mission in flight has a holder and an attempt: so has every replica of the registry.
Fits(reg) ==
  /\ reg \in [Missions -> Records]
  /\ \A m \in Missions : reg[m].flying => reg[m].owner \in Robots /\ reg[m].attempt \in 1..MaxAttempts

Works == [mission : Missions, attempt : 1..MaxAttempts]

OutsideFits ==
  /\ Fits(registry)
  /\ had \in [Missions -> SUBSET Robots]
  /\ working \in [Robots -> Works \cup {None}]
  /\ open \in [Missions -> [robot : Robots, late : BOOLEAN] \cup {None}]
  /\ up \in BOOLEAN
  /\ outages \in 0..MaxOutages

\* While an acknowledgement is under way there is a request it is of.
RelayFits ==
  /\ relay \in [at : {"idle", "passing", "acking", "acked"}, list : SUBSET Requests,
                now : Requests \cup {None}]
  /\ settled \in [Missions -> Robots \cup {None}]
  /\ relay.at \in {"acking", "acked"} => relay.now \in Requests

OneEach(ps) == \A i, j \in DOMAIN ps : ps[i].job = ps[j].job => i = j

ProofsFit == proofs \in Seq(Proofs) /\ Len(proofs) <= MaxProofs /\ OneEach(proofs)

\* An outage that is still dealt with has a delivery left.
WatchFits ==
  /\ replica # None => Fits(replica)
  /\ watch \in [state : States, failures : 0..FailuresBefore, deliveries : 0..MaxDeliveries,
                at : {"idle", "reading", "posting"}]
  /\ watch.at # "posting" /\ watch.state \notin Ended => watch.deliveries < MaxDeliveries
  /\ waiting \in BOOLEAN
  /\ sent \in SUBSET [owner : Robots, mission : Missions, attempt : 1..MaxAttempts]

TypeInv == OutsideFits /\ RelayFits /\ ProofsFit /\ WatchFits /\ restarts \in 0..MaxRestarts

LEMMA TypeInit == Init => TypeInv
<1> SUFFICES ASSUME Init PROVE TypeInv
  OBVIOUS
<1> USE ConstantsAssumption DEF Init
<1>1. OutsideFits
  <2>1. \A m \in Missions : registry[m] = [flying |-> FALSE, owner |-> None, attempt |-> 0]
    OBVIOUS
  <2>2. [flying |-> FALSE, owner |-> None, attempt |-> 0] \in Records
    BY DEF Records
  <2> QED  BY <2>1, <2>2 DEF OutsideFits, Fits
<1>2. RelayFits
  BY DEF RelayFits, RelayIdle
<1>3. ProofsFit
  BY DEF ProofsFit, OneEach
<1>4. WatchFits
  <2>1. watch = [state |-> "watching", failures |-> 0, deliveries |-> 0, at |-> "idle"]
    BY DEF Watching
  <2>2. 0 \in 0..FailuresBefore /\ 0 \in 0..MaxDeliveries /\ 0 < MaxDeliveries
    OBVIOUS
  <2>3. watch \in [state : States, failures : 0..FailuresBefore, deliveries : 0..MaxDeliveries,
                    at : {"idle", "reading", "posting"}]
    BY ONLY <2>1, <2>2 DEF States
  <2>4. waiting \in BOOLEAN
    OBVIOUS
  <2>5. watch.at # "posting" /\ watch.state \notin Ended => watch.deliveries < MaxDeliveries
    BY <2>1, <2>2
  <2>6. sent \in SUBSET [owner : Robots, mission : Missions, attempt : 1..MaxAttempts]
    OBVIOUS
  <2> QED  BY <2>3, <2>4, <2>5, <2>6 DEF WatchFits
<1> QED  BY <1>1, <1>2, <1>3, <1>4 DEF TypeInv

\* A mission that is over has a record as before, but for that.
LEMMA LandedFits ==
  \A record \in Records : [record EXCEPT !.flying = FALSE] \in Records /\ [record EXCEPT !.flying = FALSE].flying = FALSE
BY DEF Records

\* What the missions and the robots go through.
LEMMA OutsideStep == TypeInv /\ [Next]_vars => OutsideFits' /\ restarts' \in 0..MaxRestarts
<1> SUFFICES ASSUME TypeInv, [Next]_vars PROVE OutsideFits' /\ restarts' \in 0..MaxRestarts
  OBVIOUS
<1> USE ConstantsAssumption DEF TypeInv, OutsideFits, Fits
<1>0. CASE UNCHANGED <<registry, had, working, open, up, outages>>
  <2>1. restarts' \in 0..MaxRestarts
    BY DEF Next, Outside, ReadRequests, Pass, Skip, Stop, PassEnds, AckArrives, AckAnswered, AckLost, ProofLapses, Tick,
           HealthAnswered, NoAnswer, NothingToSend, Deliver, Answer, ReplicaAnswered, Delivered, RetryTime, Restart, vars
  <2> QED  BY <1>0, <2>1
<1>1. ASSUME NEW m \in Missions, NEW r \in Robots, Assign(m, r), UNCHANGED restarts PROVE OutsideFits' /\ restarts' \in 0..MaxRestarts
  <2>1. registry[m].attempt + 1 \in 1..MaxAttempts
    BY <1>1 DEF Assign, Records
  <2>2. [mission |-> m, attempt |-> registry[m].attempt + 1] \in Works
    BY <2>1 DEF Works
  <2>3. /\ registry' = [registry EXCEPT ![m] = [flying |-> TRUE, owner |-> r, attempt |-> registry[m].attempt + 1]]
        /\ had' = [had EXCEPT ![m] = had[m] \cup {r}]
        /\ working' = [working EXCEPT ![r] = [mission |-> m, attempt |-> registry[m].attempt + 1]]
        /\ UNCHANGED <<open, up, outages>>
    BY <1>1 DEF Assign
  <2>4. [flying |-> TRUE, owner |-> r, attempt |-> registry[m].attempt + 1] \in Records
    BY <2>1 DEF Records
  <2>5. Fits(registry')
    BY <2>1, <2>3, <2>4
  <2> QED  BY <1>1, <2>2, <2>3, <2>5
<1>2. ASSUME NEW m \in Missions, AskStop(m), UNCHANGED restarts PROVE OutsideFits' /\ restarts' \in 0..MaxRestarts
  <2>1. registry[m].owner \in Robots
    BY <1>2 DEF AskStop
  <2>2. [robot |-> registry[m].owner, late |-> FALSE] \in [robot : Robots, late : BOOLEAN]
    BY <2>1
  <2> QED  BY <1>2, <2>2 DEF AskStop
<1>3. ASSUME NEW m \in Missions, AnsweredOtherwise(m), UNCHANGED restarts PROVE OutsideFits' /\ restarts' \in 0..MaxRestarts
  <2>1. [registry[m] EXCEPT !.flying = FALSE] \in Records /\ [registry[m] EXCEPT !.flying = FALSE].flying = FALSE
    BY LandedFits
  <2>2. registry' = [registry EXCEPT ![m] = [registry[m] EXCEPT !.flying = FALSE]]
    BY <1>3 DEF AnsweredOtherwise
  <2>3. Fits(registry')
    BY <2>1, <2>2
  <2>4. working' \in [Robots -> Works \cup {None}]
    BY <1>3 DEF AnsweredOtherwise
  <2> QED  BY <1>3, <2>3, <2>4 DEF AnsweredOtherwise
<1>4. ASSUME NEW m \in Missions, GoLate(m), UNCHANGED restarts PROVE OutsideFits' /\ restarts' \in 0..MaxRestarts
  <2>1. [open[m] EXCEPT !.late = TRUE] \in [robot : Robots, late : BOOLEAN]
    BY <1>4 DEF GoLate
  <2> QED  BY <1>4, <2>1 DEF GoLate
<1>5. ASSUME PrimaryFails \/ PrimaryReturns, UNCHANGED restarts PROVE OutsideFits' /\ restarts' \in 0..MaxRestarts
  <2>1. up' \in BOOLEAN
    BY ONLY <1>5 DEF PrimaryFails, PrimaryReturns
  <2>2. outages' \in 0..MaxOutages
    <3>1. outages' = outages \/ (outages < MaxOutages /\ outages' = outages + 1)
      BY ONLY <1>5 DEF PrimaryFails, PrimaryReturns
    <3> QED  BY <3>1
  <2>3. UNCHANGED <<registry, had, working, open>>
    BY ONLY <1>5 DEF PrimaryFails, PrimaryReturns
  <2> QED  BY <1>5, <2>1, <2>2, <2>3
<1>6. ASSUME NEW q \in relay.list, Stop(q) PROVE OutsideFits' /\ restarts' \in 0..MaxRestarts
  <2>1. q.robot \in Robots
    BY DEF RelayFits, Requests
  <2>2. working' \in [Robots -> Works \cup {None}]
    BY <1>6, <2>1 DEF Stop
  <2> QED  BY <1>6, <2>2 DEF Stop
<1>7. ASSUME AckArrives PROVE OutsideFits' /\ restarts' \in 0..MaxRestarts
  <2> DEFINE q == relay.now
             answers == open[q.job] # None /\ open[q.job].robot = q.robot
  <2>1. q \in Requests /\ q.job \in Missions
    BY <1>7 DEF AckArrives, RelayFits, Requests
  <2>2. CASE ~answers
    BY <1>7, <2>2 DEF AckArrives
  <2>3. CASE answers
    <3>1. [registry[q.job] EXCEPT !.flying = FALSE] \in Records /\ [registry[q.job] EXCEPT !.flying = FALSE].flying = FALSE
      BY <2>1, LandedFits
    <3>2. /\ registry' = [registry EXCEPT ![q.job] = [registry[q.job] EXCEPT !.flying = FALSE]]
          /\ open' = [open EXCEPT ![q.job] = None]
          /\ UNCHANGED <<had, working, up, outages, restarts>>
      BY <1>7, <2>3 DEF AckArrives
    <3> HIDE DEF q
    <3>3. Fits(registry')
      BY <2>1, <3>1, <3>2
    <3> QED  BY <3>2, <3>3
  <2> QED  BY <2>2, <2>3
<1> QED
  BY <1>0, <1>1, <1>2, <1>3, <1>4, <1>5, <1>6, <1>7
  DEF Next, Outside, Pass, Tick, Answer, ReadRequests, Skip, PassEnds, AckAnswered, AckLost, ProofLapses,
      HealthAnswered, NoAnswer, NothingToSend, Deliver, ReplicaAnswered, Delivered, RetryTime, Restart, outside, vars

LEMMA RelayStep == TypeInv /\ [Next]_vars => RelayFits'
<1> SUFFICES ASSUME TypeInv, [Next]_vars PROVE RelayFits'
  OBVIOUS
<1> DEFINE Ats == {"idle", "passing", "acking", "acked"}
           Relays == [at : Ats, list : SUBSET Requests, now : Requests \cup {None}]
<1> USE DEF TypeInv, RelayFits
<1>0. CASE UNCHANGED <<relay, settled>>
  BY <1>0
<1>1. ASSUME ReadRequests PROVE RelayFits'
  <2>1. relay'.list \subseteq Requests
    <3>1. \A m \in Missions : open[m] # None => open[m] \in [robot : Robots, late : BOOLEAN]
      BY DEF OutsideFits
    <3>2. relay'.list = {[job |-> m, robot |-> open[m].robot, late |-> open[m].late] :
                           m \in {n \in Missions : open[n] # None}}
      BY <1>1 DEF ReadRequests
    <3> QED  BY <3>1, <3>2 DEF Requests
  <2>2. relay' = [at |-> "passing", now |-> None, list |-> relay'.list]
    BY <1>1 DEF ReadRequests
  <2>3. settled' \in [Missions -> Robots \cup {None}]
    BY <1>1 DEF ReadRequests
  <2> QED  BY <2>1, <2>2, <2>3
<1>2. ASSUME NEW q \in relay.list, Skip(q) PROVE RelayFits'
  BY <1>2 DEF Skip
<1>3. ASSUME NEW q \in relay.list, Stop(q) PROVE RelayFits'
  BY <1>3 DEF Stop
<1>4. ASSUME PassEnds PROVE RelayFits'
  BY <1>4 DEF PassEnds, RelayIdle
<1>5. ASSUME AckArrives PROVE RelayFits'
  BY <1>5 DEF AckArrives
<1>6. ASSUME AckAnswered PROVE RelayFits'
  <2>1. relay.now \in Requests /\ relay.now.job \in Missions /\ relay.now.robot \in Robots
    BY <1>6 DEF AckAnswered, Requests
  <2>2. settled' \in [Missions -> Robots \cup {None}]
    BY <1>6, <2>1 DEF AckAnswered
  <2>3. relay' = [relay EXCEPT !.at = "passing", !.now = None]
    BY <1>6 DEF AckAnswered
  <2> QED  BY <2>2, <2>3
<1>7. ASSUME AckLost PROVE RelayFits'
  BY <1>7 DEF AckLost
<1>8. ASSUME Restart PROVE RelayFits'
  BY <1>8 DEF Restart, RelayIdle
<1> QED
  BY <1>0, <1>1, <1>2, <1>3, <1>4, <1>5, <1>6, <1>7, <1>8
  DEF Next, Outside, Pass, Tick, Answer, ProofLapses, HealthAnswered, NoAnswer, NothingToSend, Deliver,
      ReplicaAnswered, Delivered, RetryTime, relaying, vars

\* A proof replaces the older one of its job, and nothing comes in that was not acknowledged.
LEMMA WithProofFacts ==
  ASSUME ProofsFit, NEW q \in Requests
  PROVE  /\ WithProof(q) \in Seq(Proofs) /\ Len(WithProof(q)) <= MaxProofs /\ OneEach(WithProof(q))
         /\ \A k \in DOMAIN WithProof(q) :
              \/ WithProof(q)[k] = [job |-> q.job, robot |-> q.robot]
              \/ \E j \in DOMAIN proofs : WithProof(q)[k] = proofs[j]
<1> DEFINE e == [job |-> q.job, robot |-> q.robot]
           rest == IF Older(q) = {} THEN proofs ELSE RemoveAt(proofs, CHOOSE i \in Older(q) : TRUE)
<1>1. e \in Proofs /\ e.job = q.job
  BY DEF Proofs, Requests
<1>2. /\ rest \in Seq(Proofs) /\ Len(rest) <= MaxProofs /\ OneEach(rest)
      /\ \A k \in DOMAIN rest : \E j \in DOMAIN proofs : rest[k] = proofs[j] /\ proofs[j].job # q.job
  <2>1. CASE Older(q) = {}
    BY <2>1 DEF ProofsFit, Older
  <2>2. CASE Older(q) # {}
    <3> DEFINE i == CHOOSE i \in Older(q) : TRUE
               w == RemoveAt(proofs, i)
    <3>1. i \in DOMAIN proofs /\ proofs[i].job = q.job /\ rest = w
      BY <2>2 DEF Older
    <3> HIDE DEF i, rest
    <3>2. /\ w \in Seq(Proofs) /\ Len(w) = Len(proofs) - 1
          /\ \A k \in DOMAIN w : \E j \in DOMAIN proofs \ {i} : w[k] = proofs[j]
          /\ \A k, l \in DOMAIN w : k # l => \E a, b \in DOMAIN proofs : a # b /\ w[k] = proofs[a] /\ w[l] = proofs[b]
      BY <3>1, RemoveAtFacts, RemoveAtKeeps DEF ProofsFit
    <3> HIDE DEF w
    <3>3. OneEach(w)
      BY <3>2 DEF ProofsFit, OneEach
    <3>4. \A j \in DOMAIN proofs \ {i} : proofs[j].job # q.job
      BY <3>1 DEF ProofsFit, OneEach
    <3>5. Len(w) <= MaxProofs
      BY <3>2, ConstantsAssumption DEF ProofsFit
    <3> QED  BY <3>1, <3>2, <3>3, <3>4, <3>5
  <2> QED  BY <2>1, <2>2
<1>3. Renewed(q) = Append(rest, e)
  BY DEF Renewed
<1> HIDE DEF rest, e
<1>4. /\ Renewed(q) \in Seq(Proofs) /\ Len(Renewed(q)) = Len(rest) + 1
      /\ \A k \in DOMAIN Renewed(q) : (k \in DOMAIN rest /\ Renewed(q)[k] = rest[k])
                                      \/ (k = Len(rest) + 1 /\ Renewed(q)[k] = e)
  BY <1>1, <1>2, <1>3, AppendKeeps
<1>5. OneEach(Renewed(q))
  <2> SUFFICES ASSUME NEW k \in DOMAIN Renewed(q), NEW l \in DOMAIN Renewed(q), Renewed(q)[k].job = Renewed(q)[l].job
               PROVE  k = l
    BY DEF OneEach
  <2>1. CASE k \in DOMAIN rest /\ l \in DOMAIN rest /\ Renewed(q)[k] = rest[k] /\ Renewed(q)[l] = rest[l]
    BY <1>2, <2>1 DEF OneEach
  <2>2. CASE k = Len(rest) + 1 /\ l = Len(rest) + 1
    BY <2>2
  <2>3. \A x \in DOMAIN rest : rest[x].job # e.job
    BY <1>1, <1>2
  <2> QED  BY <1>4, <2>1, <2>2, <2>3
<1>6. \A k \in DOMAIN Renewed(q) : Renewed(q)[k] = e \/ \E j \in DOMAIN proofs : Renewed(q)[k] = proofs[j]
  BY <1>2, <1>4
<1>7. Len(Renewed(q)) <= MaxProofs + 1 /\ Len(Renewed(q)) \in Nat /\ Len(Renewed(q)) > 0
  BY <1>2, <1>4, ConstantsAssumption
<1>8. CASE Len(Renewed(q)) <= MaxProofs
  <2>1. WithProof(q) = Renewed(q)
    BY <1>7, <1>8, ConstantsAssumption DEF WithProof
  <2> QED  BY <1>4, <1>5, <1>6, <1>8, <2>1 DEF e
<1>9. CASE ~(Len(Renewed(q)) <= MaxProofs)
  <2>1. WithProof(q) = Tail(Renewed(q)) /\ Renewed(q) # <<>>
    BY <1>4, <1>7, <1>9, ConstantsAssumption DEF WithProof
  <2> DEFINE n == Renewed(q)
             t == Tail(n)
  <2> HIDE DEF n
  <2>2. /\ t \in Seq(Proofs) /\ Len(t) = Len(n) - 1
        /\ \A k \in DOMAIN t : k + 1 \in DOMAIN n /\ t[k] = n[k + 1]
    BY <1>4, <2>1, TailKeeps DEF n
  <2>3. DOMAIN t \subseteq Int
    BY <2>2
  <2> HIDE DEF t
  <2>4. OneEach(t)
    <3> SUFFICES ASSUME NEW k \in DOMAIN t, NEW l \in DOMAIN t, t[k].job = t[l].job PROVE k = l
      BY DEF OneEach
    <3>1. k + 1 = l + 1
      BY <1>5, <2>2 DEF OneEach, n
    <3> QED  BY <2>3, <3>1
  <2>5. \A k \in DOMAIN t : t[k] = e \/ \E j \in DOMAIN proofs : t[k] = proofs[j]
    BY <1>6, <2>2 DEF n
  <2>6. Len(t) <= MaxProofs
    BY <1>7, <2>2, ConstantsAssumption DEF n
  <2>7. WithProof(q) = t
    BY <2>1 DEF t, n
  <2> QED  BY <2>2, <2>4, <2>5, <2>6, <2>7 DEF e
<1> QED  BY <1>8, <1>9

\* A step keeps the proofs, forgets some, or adds the one of the acknowledgement that was answered.
LEMMA ProofsMove ==
  ASSUME TypeInv, [Next]_vars
  PROVE  /\ ProofsFit'
         /\ \A k \in DOMAIN proofs' :
              \/ \E j \in DOMAIN proofs : proofs'[k] = proofs[j]
              \/ relay.at = "acked" /\ proofs'[k] = [job |-> relay.now.job, robot |-> relay.now.robot]
<1>1. CASE UNCHANGED proofs
  BY <1>1 DEF TypeInv, ProofsFit
<1>2. CASE AckAnswered
  <2>1. relay.now \in Requests /\ relay.at = "acked" /\ proofs' = WithProof(relay.now)
    BY <1>2 DEF AckAnswered, TypeInv, RelayFits
  <2> QED  BY <2>1, WithProofFacts DEF TypeInv, ProofsFit
<1>3. CASE ProofLapses
  <2> DEFINE t == Tail(proofs)
  <2>1. proofs' = t /\ proofs # <<>> /\ proofs \in Seq(Proofs) /\ Len(proofs) <= MaxProofs /\ OneEach(proofs)
    BY <1>3 DEF ProofLapses, TypeInv, ProofsFit
  <2>2. /\ t \in Seq(Proofs) /\ Len(t) = Len(proofs) - 1
        /\ \A k \in DOMAIN t : k + 1 \in DOMAIN proofs /\ t[k] = proofs[k + 1]
    BY <2>1, TailKeeps
  <2>3. DOMAIN t \subseteq Int
    BY <2>2
  <2> HIDE DEF t
  <2>4. OneEach(t)
    <3> SUFFICES ASSUME NEW k \in DOMAIN t, NEW l \in DOMAIN t, t[k].job = t[l].job PROVE k = l
      BY DEF OneEach
    <3>1. k + 1 = l + 1
      BY <2>1, <2>2 DEF OneEach
    <3> QED  BY <2>3, <3>1
  <2>5. Len(t) <= MaxProofs
    BY <2>1, <2>2, ConstantsAssumption
  <2> QED  BY <2>1, <2>2, <2>4, <2>5 DEF ProofsFit
<1>4. CASE Restart
  BY <1>4, ConstantsAssumption DEF Restart, ProofsFit, OneEach
<1> QED
  BY <1>1, <1>2, <1>3, <1>4
  DEF Next, Outside, Pass, ReadRequests, Skip, Stop, PassEnds, AckArrives, AckLost, Tick, Answer, HealthAnswered,
      NoAnswer, NothingToSend, Deliver, ReplicaAnswered, Delivered, RetryTime, vars

\* Whatever is sent was made from a proof that was kept, of a mission of the replica.
LEMMA EvidenceType ==
  ASSUME TypeInv, replica # None
  PROVE  /\ Evidence \in SUBSET [owner : Robots, mission : Missions, attempt : 1..MaxAttempts]
         /\ \A e \in Evidence : \E i \in DOMAIN proofs : e.mission = proofs[i].job /\ e.owner = proofs[i].robot
<1>1. \A i \in DOMAIN proofs : proofs[i] \in Proofs
  BY DEF TypeInv, ProofsFit
<1>2. \A m \in Missions : replica[m].flying => replica[m].attempt \in 1..MaxAttempts
  BY DEF TypeInv, WatchFits, Fits
<1>3. ASSUME NEW e \in Evidence
      PROVE  /\ e \in [owner : Robots, mission : Missions, attempt : 1..MaxAttempts]
             /\ \E i \in DOMAIN proofs : e.mission = proofs[i].job /\ e.owner = proofs[i].robot
  <2>1. PICK i \in DOMAIN proofs :
          /\ replica[proofs[i].job].flying
          /\ e = [owner |-> proofs[i].robot, mission |-> proofs[i].job, attempt |-> replica[proofs[i].job].attempt]
    BY DEF Evidence
  <2>2. proofs[i].job \in Missions /\ proofs[i].robot \in Robots
    BY <1>1 DEF Proofs
  <2>3. replica[proofs[i].job].attempt \in 1..MaxAttempts
    BY <1>2, <2>1, <2>2
  <2> QED  BY <2>1, <2>2, <2>3
<1> QED  BY <1>3

LEMMA CountedFacts == watch.failures \in 0..FailuresBefore => Counted \in 0..FailuresBefore
  BY ConstantsAssumption DEF Counted

LEMMA WatchStep == TypeInv /\ [Next]_vars => WatchFits'
<1> SUFFICES ASSUME TypeInv, [Next]_vars PROVE WatchFits'
  OBVIOUS
<1> DEFINE Watches == [state : States, failures : 0..FailuresBefore, deliveries : 0..MaxDeliveries,
                       at : {"idle", "reading", "posting"}]
           HasOneLeft == watch.at # "posting" /\ watch.state \notin Ended => watch.deliveries < MaxDeliveries
           Sents == SUBSET [owner : Robots, mission : Missions, attempt : 1..MaxAttempts]
<1>0. /\ replica # None => Fits(replica)
      /\ watch \in Watches /\ HasOneLeft /\ waiting \in BOOLEAN /\ sent \in Sents
      /\ Fits(registry) /\ up \in BOOLEAN
  BY DEF TypeInv, WatchFits, OutsideFits
<1>1. CASE UNCHANGED <<replica, watch, waiting, sent>>
  BY <1>0, <1>1 DEF WatchFits, Fits
<1>2. ASSUME HealthAnswered PROVE WatchFits'
  <2>1. watch' = [state |-> "watching", failures |-> 0, deliveries |-> 0, at |-> "reading"]
    BY <1>2 DEF HealthAnswered, Watching
  <2>2. 0 \in 0..FailuresBefore /\ 0 \in 0..MaxDeliveries /\ 0 < MaxDeliveries
    BY ConstantsAssumption
  <2>3. watch' \in Watches
    BY ONLY <2>1, <2>2 DEF States
  <2>4. waiting' \in BOOLEAN
    BY <1>2 DEF HealthAnswered
  <2>5. UNCHANGED <<replica, sent>>
    BY <1>2 DEF HealthAnswered
  <2> QED  BY <1>0, <2>1, <2>2, <2>3, <2>4, <2>5 DEF WatchFits, Fits
<1>3. ASSUME ReplicaAnswered PROVE WatchFits'
  <2>1. watch' = [watch EXCEPT !.at = "idle"] /\ UNCHANGED <<waiting, sent>>
    BY <1>3 DEF ReplicaAnswered
  <2>2. replica' = replica \/ replica' = registry
    BY <1>3 DEF ReplicaAnswered
  <2>3. watch' \in Watches /\ watch'.state = watch.state /\ watch'.deliveries = watch.deliveries
    BY <1>0, <2>1
  <2>4. watch.at # "posting"
    BY <1>3 DEF ReplicaAnswered
  <2>5. replica' # None => Fits(replica')
    BY <1>0, <2>2
  <2> QED  BY <1>0, <2>1, <2>3, <2>4, <2>5 DEF WatchFits, Fits
<1>4. ASSUME NoAnswer \/ NothingToSend PROVE WatchFits'
  <2>1. /\ watch.at = "idle" /\ watch.state \notin Ended
        /\ \E to \in {watch.state, "primary-silent", "refused"} :
             watch' = [watch EXCEPT !.failures = Counted, !.state = to]
        /\ UNCHANGED <<replica, waiting, sent>>
    BY <1>4 DEF NoAnswer, NothingToSend
  <2>2. Counted \in 0..FailuresBefore
    BY <1>0, CountedFacts
  <2>3. PICK to \in States : watch' = [watch EXCEPT !.failures = Counted, !.state = to]
    BY <1>0, <2>1 DEF States
  <2>4. watch' \in Watches /\ watch'.deliveries = watch.deliveries /\ watch'.at = watch.at
    BY <1>0, <2>2, <2>3
  <2> QED  BY <1>0, <2>1, <2>4 DEF WatchFits, Fits
<1>5. ASSUME Deliver PROVE WatchFits'
  <2>1. /\ watch' = [state |-> "primary-silent", failures |-> Counted,
                     deliveries |-> watch.deliveries + 1, at |-> "posting"]
        /\ sent' = Evidence /\ replica # None /\ UNCHANGED <<replica, waiting>>
    BY <1>5 DEF Deliver
  <2>2. watch.deliveries < MaxDeliveries
    BY <1>0, <1>5 DEF Deliver
  <2>3. Counted \in 0..FailuresBefore /\ watch.deliveries + 1 \in 0..MaxDeliveries
    BY <1>0, <2>2, CountedFacts, ConstantsAssumption
  <2>4. watch' \in Watches
    BY ONLY <2>1, <2>3 DEF States
  <2> QED  BY <1>0, <2>1, <2>4, EvidenceType DEF WatchFits, Fits
<1>6. ASSUME NEW outcome \in {"delivered", "refused", "none"}, Delivered(outcome) PROVE WatchFits'
  <2> DEFINE over == watch.deliveries >= MaxDeliveries
             to == IF outcome # "none" THEN outcome ELSE IF over THEN "gave-up" ELSE watch.state
  <2>1. watch' = [watch EXCEPT !.at = "idle", !.state = to] /\ sent' = {} /\ UNCHANGED replica
    BY <1>6 DEF Delivered
  <2>2. waiting' \in BOOLEAN
    BY <1>6 DEF Delivered
  <2>3. to \in States /\ (to \notin Ended => watch.deliveries < MaxDeliveries)
    BY <1>0, ConstantsAssumption DEF States, Ended
  <2> HIDE DEF to
  <2>4. watch' \in Watches /\ watch'.deliveries = watch.deliveries /\ watch'.state = to
    BY <1>0, <2>1, <2>3
  <2> QED  BY <1>0, <2>1, <2>2, <2>3, <2>4 DEF WatchFits, Fits
<1>7. ASSUME RetryTime PROVE WatchFits'
  BY <1>0, <1>7 DEF RetryTime, WatchFits, Fits
<1>8. ASSUME Restart PROVE WatchFits'
  <2>1. watch' = [state |-> "watching", failures |-> 0, deliveries |-> 0, at |-> "idle"]
    BY <1>8 DEF Restart, Watching
  <2>2. 0 \in 0..FailuresBefore /\ 0 \in 0..MaxDeliveries /\ 0 < MaxDeliveries
    BY ConstantsAssumption
  <2>3. watch' \in Watches
    BY ONLY <2>1, <2>2 DEF States
  <2>4. waiting' \in BOOLEAN /\ replica' = None /\ sent' = {}
    BY <1>8 DEF Restart
  <2> QED  BY <2>1, <2>2, <2>3, <2>4 DEF WatchFits
<1> QED
  BY <1>1, <1>2, <1>3, <1>4, <1>5, <1>6, <1>7, <1>8
  DEF Next, Outside, Pass, Tick, Answer, ReadRequests, Skip, Stop, PassEnds, AckArrives, AckAnswered, AckLost,
      ProofLapses, watching, vars

LEMMA TypeStep == TypeInv /\ [Next]_vars => TypeInv'
  BY OutsideStep, RelayStep, ProofsMove, WatchStep DEF TypeInv

LEMMA TypeInvHolds == Spec => []TypeInv
  BY TypeInit, TypeStep, PTL DEF Spec

\* The registry, the pass of the relay, the proofs and the takeover keep their types: no more proofs than
\* maxProofs, one for each job, and no delivery beyond maxDeliveryAttempts.
THEOREM TypeCorrect == Spec => []TypeOK
<1>1. TypeInv => TypeOK
  <2> SUFFICES ASSUME TypeInv PROVE TypeOK
    OBVIOUS
  <2>1. \A i \in DOMAIN proofs : proofs[i] \in Proofs
    BY DEF TypeInv, ProofsFit
  <2>2. replica \in [Missions -> Records] \cup {None}
    BY DEF TypeInv, WatchFits, Fits
  <2> QED  BY <2>1, <2>2 DEF TypeInv, OutsideFits, Fits, Works, RelayFits, ProofsFit, OneEach, WatchFits, TypeOK
<1> QED  BY <1>1, TypeInvHolds, PTL

-----------------------------------------------------------------------------
(* Who works on what *)

\* The mission was with that robot.
Past(m, r) == r \in had[m]

\* The robot that had the mission does not work on it.
Gone(m, r) == Past(m, r) /\ (working[r] # None => working[r].mission # m)

\* The same after a step, of the same mission and robot.
PastNext(m, r) == r \in had'[m]
GoneNext(m, r) == PastNext(m, r) /\ (working'[r] # None => working'[r].mission # m)

\* A robot works on what the registry says it holds, the holder had the mission, and a stop is asked of it.
HolderHadIt == \A m \in Missions : registry[m].flying => Past(m, registry[m].owner)

WorkIsAssigned ==
  \A r \in Robots : working[r] # None =>
    /\ registry[working[r].mission].flying
    /\ registry[working[r].mission].owner = r

AskedIsHolder == \A m \in Missions : open[m] # None => registry[m].flying /\ open[m].robot = registry[m].owner

\* What the relay has in hand was asked of a holder; from the stop on the robot is gone from the mission.
RelayIsTrue ==
  /\ \A q \in relay.list : Past(q.job, q.robot)
  /\ relay.at \in {"acking", "acked"} => Gone(relay.now.job, relay.now.robot)

ProofsAreTrue == \A i \in DOMAIN proofs : Gone(proofs[i].job, proofs[i].robot)

SentIsTrue == \A e \in sent : Gone(e.mission, e.owner)

StopInv == TypeInv /\ HolderHadIt /\ WorkIsAssigned /\ AskedIsHolder /\ RelayIsTrue /\ ProofsAreTrue /\ SentIsTrue

LEMMA StopInit == Init => StopInv
<1> SUFFICES ASSUME Init PROVE HolderHadIt /\ WorkIsAssigned /\ AskedIsHolder /\ RelayIsTrue /\ ProofsAreTrue /\ SentIsTrue
  BY TypeInit DEF StopInv
<1> QED  BY DEF Init, HolderHadIt, WorkIsAssigned, AskedIsHolder, RelayIsTrue, RelayIdle, ProofsAreTrue, SentIsTrue

\* Nothing but an assignment gives a robot work or a mission in flight.
LEMMA WorkMoves ==
  ASSUME TypeInv, [Next]_vars
  PROVE  \/ \E m \in Missions, r \in Robots : Assign(m, r)
         \/ /\ \A r \in Robots : working'[r] = working[r] \/ working'[r] = None
            /\ had' = had
            /\ \A m \in Missions : registry'[m].flying => registry[m].flying /\ registry'[m].owner = registry[m].owner
<1> USE DEF TypeInv, OutsideFits, Fits
<1> DEFINE Kept == /\ \A r \in Robots : working'[r] = working[r] \/ working'[r] = None
                   /\ had' = had
                   /\ \A m \in Missions : registry'[m].flying => registry[m].flying /\ registry'[m].owner = registry[m].owner
<1>1. ASSUME NEW m \in Missions, AnsweredOtherwise(m) PROVE Kept
  BY <1>1 DEF AnsweredOtherwise, Records
<1>2. ASSUME AckArrives PROVE Kept
  BY <1>2 DEF AckArrives, Records
<1>3. ASSUME NEW q \in relay.list, Stop(q) PROVE Kept
  BY <1>3 DEF Stop
<1> QED
  BY <1>1, <1>2, <1>3
  DEF Next, Outside, AskStop, GoLate, PrimaryFails, PrimaryReturns, Pass, Tick, Answer, ReadRequests, Skip, PassEnds,
      AckAnswered, AckLost, ProofLapses, HealthAnswered, NoAnswer, NothingToSend, Deliver, ReplicaAnswered, Delivered,
      RetryTime, Restart, outside, vars

LEMMA HolderStep ==
  ASSUME TypeInv, HolderHadIt, [Next]_vars
  PROVE  HolderHadIt'
<1>1. ASSUME NEW n \in Missions, NEW s \in Robots, Assign(n, s) PROVE HolderHadIt'
  <2>1. /\ registry' = [registry EXCEPT ![n] = [flying |-> TRUE, owner |-> s, attempt |-> registry[n].attempt + 1]]
        /\ had' = [had EXCEPT ![n] = had[n] \cup {s}]
    BY <1>1 DEF Assign
  <2>2. registry'[n].owner = s /\ s \in had'[n]
    BY <2>1 DEF TypeInv, OutsideFits, Fits
  <2>3. \A m \in Missions \ {n} : registry'[m] = registry[m] /\ had'[m] = had[m]
    BY <2>1 DEF TypeInv, OutsideFits, Fits
  <2> QED  BY <2>2, <2>3 DEF HolderHadIt, Past
<1>2. CASE /\ had' = had
           /\ \A m \in Missions : registry'[m].flying => registry[m].flying /\ registry'[m].owner = registry[m].owner
  BY <1>2 DEF HolderHadIt, Past
<1> QED  BY <1>1, <1>2, WorkMoves

\* As long as no mission goes back, a robot that had one and is gone from it stays so.
LEMMA GoneStays ==
  ASSUME TypeInv, ~SameAgain, [Next]_vars, NEW m \in Missions, NEW r \in Robots
  PROVE  (Past(m, r) => PastNext(m, r)) /\ (Gone(m, r) => GoneNext(m, r))
<1>1. ASSUME NEW n \in Missions, NEW s \in Robots, Assign(n, s)
      PROVE  (Past(m, r) => PastNext(m, r)) /\ (Gone(m, r) => GoneNext(m, r))
  <2> DEFINE work == [mission |-> n, attempt |-> registry[n].attempt + 1]
  <2>1. /\ had' = [had EXCEPT ![n] = had[n] \cup {s}]
        /\ working' = [working EXCEPT ![s] = work]
        /\ s \notin had[n]
    BY <1>1 DEF Assign
  <2>2. Past(m, r) => PastNext(m, r)
    BY <2>1 DEF Past, PastNext, TypeInv, OutsideFits
  <2>3. working'[r] = IF r = s THEN work ELSE working[r]
    BY <2>1 DEF TypeInv, OutsideFits
  <2>4. Past(m, r) => ~(m = n /\ r = s)
    BY <2>1 DEF Past
  <2> QED  BY <2>2, <2>3, <2>4 DEF Gone, GoneNext
<1>2. CASE had' = had /\ \A s \in Robots : working'[s] = working[s] \/ working'[s] = None
  BY <1>2 DEF Past, Gone, PastNext, GoneNext
<1> QED  BY <1>1, <1>2, WorkMoves

\* A mission is given back only when nobody works on it.
LEMMA WorkStep ==
  ASSUME StopInv, [Next]_vars
  PROVE  WorkIsAssigned' /\ AskedIsHolder'
<1> USE DEF StopInv, WorkIsAssigned, AskedIsHolder
<1>0. /\ registry \in [Missions -> Records] /\ working \in [Robots -> Works \cup {None}]
      /\ \A r \in Robots : working[r] # None => working[r].mission \in Missions
      /\ open \in [Missions -> [robot : Robots, late : BOOLEAN] \cup {None}]
  BY DEF TypeInv, OutsideFits, Fits, Works
<1>1. CASE UNCHANGED <<registry, working, open>>
  BY <1>1
<1>2. ASSUME NEW m \in Missions, NEW s \in Robots, Assign(m, s) PROVE WorkIsAssigned' /\ AskedIsHolder'
  <2> DEFINE a == registry[m].attempt + 1
  <2>1. /\ registry' = [registry EXCEPT ![m] = [flying |-> TRUE, owner |-> s, attempt |-> a]]
        /\ working' = [working EXCEPT ![s] = [mission |-> m, attempt |-> a]]
        /\ ~registry[m].flying /\ open' = open
    BY <1>2 DEF Assign
  <2> HIDE DEF a
  <2>2. \A r \in Robots : r # s /\ working[r] # None => working[r].mission # m
    BY <2>1
  <2>3. registry'[m].flying /\ registry'[m].owner = s /\ \A n \in Missions \ {m} : registry'[n] = registry[n]
    BY <1>0, <2>1
  <2>4. working'[s].mission = m /\ \A r \in Robots \ {s} : working'[r] = working[r]
    BY <1>0, <2>1
  <2> QED  BY <1>0, <2>1, <2>2, <2>3, <2>4
<1>3. ASSUME NEW m \in Missions, AskStop(m) PROVE WorkIsAssigned' /\ AskedIsHolder'
  BY <1>0, <1>3 DEF AskStop
<1>4. ASSUME NEW m \in Missions, AnsweredOtherwise(m) PROVE WorkIsAssigned' /\ AskedIsHolder'
  <2>1. /\ open' = [open EXCEPT ![m] = None] /\ open[m] # None
        /\ registry' = [registry EXCEPT ![m].flying = FALSE]
        /\ \A r \in Robots : working'[r] = IF r = open[m].robot THEN None ELSE working[r]
    BY <1>4 DEF AnsweredOtherwise
  <2>2. \A n \in Missions \ {m} : registry'[n] = registry[n]
    BY <1>0, <2>1
  <2>3. \A r \in Robots : working'[r] # None => working'[r] = working[r] /\ working[r].mission # m
    BY <2>1
  <2> QED  BY <1>0, <2>1, <2>2, <2>3
<1>5. ASSUME NEW m \in Missions, GoLate(m) PROVE WorkIsAssigned' /\ AskedIsHolder'
  <2>1. open' = [open EXCEPT ![m].late = TRUE] /\ UNCHANGED <<registry, working>> /\ open[m] # None
    BY <1>5 DEF GoLate
  <2>2. open[m] \in [robot : Robots, late : BOOLEAN]
    BY <1>0, <2>1
  <2>3. \A n \in Missions : open'[n] # None => open[n] # None /\ open'[n].robot = open[n].robot
    BY <1>0, <2>1, <2>2
  <2> QED  BY <2>1, <2>3
<1>6. ASSUME NEW q \in relay.list, Stop(q) PROVE WorkIsAssigned' /\ AskedIsHolder'
  BY <1>0, <1>6 DEF Stop
<1>7. ASSUME AckArrives PROVE WorkIsAssigned' /\ AskedIsHolder'
  <2> DEFINE q == relay.now
             answers == open[q.job] # None /\ open[q.job].robot = q.robot
  <2>1. q \in Requests /\ q.job \in Missions /\ q.robot \in Robots /\ Gone(q.job, q.robot)
    BY <1>7 DEF AckArrives, TypeInv, RelayFits, RelayIsTrue, Requests
  <2>2. CASE ~answers
    BY <1>7, <2>2 DEF AckArrives
  <2>3. CASE answers
    <3>1. /\ registry' = [registry EXCEPT ![q.job].flying = FALSE]
          /\ open' = [open EXCEPT ![q.job] = None]
          /\ working' = working
      BY <1>7, <2>3 DEF AckArrives
    <3>2. registry[q.job].owner = q.robot
      BY <2>1, <2>3
    <3>3. \A r \in Robots : working[r] # None => working[r].mission # q.job
      BY <2>1, <3>2 DEF Gone
    <3> HIDE DEF q
    <3>4. \A n \in Missions \ {q.job} : registry'[n] = registry[n] /\ open'[n] = open[n]
      BY <1>0, <3>1
    <3> QED  BY <1>0, <2>1, <3>1, <3>3, <3>4
  <2> QED  BY <2>2, <2>3
<1> QED
  BY <1>1, <1>2, <1>3, <1>4, <1>5, <1>6, <1>7
  DEF Next, Outside, PrimaryFails, PrimaryReturns, Pass, Tick, Answer, ReadRequests, Skip, PassEnds, AckAnswered,
      AckLost, ProofLapses, HealthAnswered, NoAnswer, NothingToSend, Deliver, ReplicaAnswered, Delivered, RetryTime,
      Restart, outside, vars

\* The stop comes before the acknowledgement.
LEMMA RelayTrueStep ==
  ASSUME StopInv, ~SameAgain, [Next]_vars
  PROVE  RelayIsTrue'
<1> USE DEF StopInv
<1>1. \A q \in Requests : /\ Past(q.job, q.robot) => PastNext(q.job, q.robot)
                          /\ Gone(q.job, q.robot) => GoneNext(q.job, q.robot)
  <2> TAKE q \in Requests
  <2>1. q.job \in Missions /\ q.robot \in Robots
    BY DEF Requests
  <2> QED  BY <2>1, GoneStays
<1>2. relay.list \subseteq Requests /\ (relay.at \in {"acking", "acked"} => relay.now \in Requests)
  BY DEF TypeInv, RelayFits
<1>3. CASE /\ relay'.list \subseteq relay.list
           /\ relay'.at \in {"acking", "acked"} => relay.at \in {"acking", "acked"} /\ relay'.now = relay.now
  <2>1. \A q \in relay'.list : PastNext(q.job, q.robot)
    BY <1>1, <1>2, <1>3 DEF RelayIsTrue
  <2>2. relay'.at \in {"acking", "acked"} => GoneNext(relay'.now.job, relay'.now.robot)
    BY <1>1, <1>2, <1>3 DEF RelayIsTrue
  <2> QED  BY <2>1, <2>2 DEF RelayIsTrue, Past, Gone, PastNext, GoneNext
<1>4. ASSUME ReadRequests PROVE RelayIsTrue'
  <2>1. /\ relay'.at = "passing" /\ UNCHANGED had
        /\ relay'.list = {[job |-> m, robot |-> open[m].robot, late |-> open[m].late] :
                            m \in {n \in Missions : open[n] # None}}
    BY <1>4 DEF ReadRequests, outside
  <2>2. \A m \in Missions : open[m] # None => Past(m, open[m].robot)
    BY DEF AskedIsHolder, HolderHadIt
  <2>3. \A q \in relay'.list : Past(q.job, q.robot)
    BY <2>1, <2>2
  <2> QED  BY <2>1, <2>3 DEF RelayIsTrue, Past
<1>5. ASSUME NEW p \in relay.list, Stop(p) PROVE RelayIsTrue'
  <2>1. /\ working' = [working EXCEPT ![p.robot] = None] /\ UNCHANGED had
        /\ relay' = [at |-> "acking", list |-> relay.list \ {p}, now |-> p]
    BY <1>5 DEF Stop
  <2>2. p.robot \in Robots /\ working'[p.robot] = None
    BY <1>2, <2>1 DEF Requests, TypeInv, OutsideFits
  <2>3. Past(p.job, p.robot) /\ \A q \in relay.list : Past(q.job, q.robot)
    BY DEF RelayIsTrue
  <2> QED  BY <2>1, <2>2, <2>3 DEF RelayIsTrue, Gone, Past
<1>6. CASE UNCHANGED relay
  BY <1>3, <1>6
<1>7. ASSUME AckArrives \/ AckAnswered \/ AckLost PROVE RelayIsTrue'
  BY <1>3, <1>7 DEF AckArrives, AckAnswered, AckLost, TypeInv, RelayFits
<1>8. ASSUME PassEnds \/ Restart PROVE RelayIsTrue'
  BY <1>3, <1>8 DEF PassEnds, Restart, RelayIdle
<1>9. ASSUME NEW p \in relay.list, Skip(p) PROVE RelayIsTrue'
  BY <1>3, <1>9 DEF Skip, TypeInv, RelayFits
<1> QED
  BY <1>4, <1>5, <1>6, <1>7, <1>8, <1>9
  DEF Next, Outside, Pass, Tick, Answer, ProofLapses, HealthAnswered, NoAnswer, NothingToSend, Deliver,
      ReplicaAnswered, Delivered, RetryTime, relaying, vars

LEMMA ProofsTrueStep ==
  ASSUME StopInv, ~SameAgain, [Next]_vars
  PROVE  ProofsAreTrue'
<1> SUFFICES ASSUME NEW k \in DOMAIN proofs' PROVE GoneNext(proofs'[k].job, proofs'[k].robot)
  BY DEF ProofsAreTrue, Gone, Past, GoneNext, PastNext
<1> USE DEF StopInv
<1>1. ASSUME NEW j \in DOMAIN proofs, proofs'[k] = proofs[j] PROVE GoneNext(proofs'[k].job, proofs'[k].robot)
  <2>1. proofs[j].job \in Missions /\ proofs[j].robot \in Robots
    <3>1. proofs[j] \in Proofs
      BY DEF TypeInv, ProofsFit
    <3> QED  BY <3>1 DEF Proofs
  <2>2. Gone(proofs[j].job, proofs[j].robot)
    BY DEF ProofsAreTrue
  <2> QED  BY <1>1, <2>1, <2>2, GoneStays
<1>2. ASSUME relay.at = "acked", proofs'[k] = [job |-> relay.now.job, robot |-> relay.now.robot]
      PROVE  GoneNext(proofs'[k].job, proofs'[k].robot)
  <2>1. relay.now.job \in Missions /\ relay.now.robot \in Robots /\ Gone(relay.now.job, relay.now.robot)
    BY <1>2 DEF TypeInv, RelayFits, Requests, RelayIsTrue
  <2> QED  BY <1>2, <2>1, GoneStays
<1> QED  BY <1>1, <1>2, ProofsMove

LEMMA SentTrueStep ==
  ASSUME StopInv, ~SameAgain, [Next]_vars
  PROVE  SentIsTrue'
<1> SUFFICES ASSUME NEW e \in sent' PROVE GoneNext(e.mission, e.owner)
  BY DEF SentIsTrue, Gone, Past, GoneNext, PastNext
<1> USE DEF StopInv
<1>1. CASE e \in sent
  <2>1. e.mission \in Missions /\ e.owner \in Robots /\ Gone(e.mission, e.owner)
    BY <1>1 DEF TypeInv, WatchFits, SentIsTrue
  <2> QED  BY <2>1, GoneStays
<1>2. CASE Deliver
  <2>1. sent' = Evidence /\ replica # None /\ UNCHANGED <<had, working>>
    BY <1>2 DEF Deliver, outside
  <2>2. PICK i \in DOMAIN proofs : e.mission = proofs[i].job /\ e.owner = proofs[i].robot
    BY <2>1, EvidenceType
  <2> QED  BY <2>1, <2>2 DEF ProofsAreTrue, Gone, Past, GoneNext, PastNext
<1>3. sent' = sent \/ sent' = {} \/ Deliver
  BY DEF Next, Outside, Pass, Tick, Answer, ReadRequests, Skip, Stop, PassEnds, AckArrives, AckAnswered, AckLost,
         ProofLapses, HealthAnswered, NoAnswer, NothingToSend, ReplicaAnswered, Delivered, RetryTime, Restart, watching, vars
<1> QED  BY <1>1, <1>2, <1>3

LEMMA StopStep == ~SameAgain /\ StopInv /\ [Next]_vars => StopInv'
  BY TypeStep, HolderStep, WorkStep, RelayTrueStep, ProofsTrueStep, SentTrueStep DEF StopInv

\* As long as no mission goes back to a robot it was taken from, no two robots ever work on one mission:
\* whatever is lost, late, answered in another way or restarted, the dispatcher is told of a stop only
\* after the robot that had the mission stopped (jobStopRelay.ts).
THEOREM OneRobotCorrect == ~SameAgain => (Spec => []OneRobotWorks)
<1> SUFFICES ASSUME ~SameAgain PROVE Spec => []OneRobotWorks
  OBVIOUS
<1>1. StopInv /\ [Next]_vars => StopInv'
  BY StopStep
<1>2. StopInv => OneRobotWorks
  BY DEF StopInv, WorkIsAssigned, OneRobotWorks
<1> QED  BY <1>1, <1>2, StopInit, PTL DEF Spec

\* Under the same condition no proof that is sent to the standby says of a robot that it stopped while it
\* works on that attempt, however old the replica is that the proof was matched with.
THEOREM EvidenceCorrect == ~SameAgain => (Spec => []EvidenceIsTrue)
<1> SUFFICES ASSUME ~SameAgain PROVE Spec => []EvidenceIsTrue
  OBVIOUS
<1>1. StopInv /\ [Next]_vars => StopInv'
  BY StopStep
<1>2. StopInv => EvidenceIsTrue
  <2> SUFFICES ASSUME StopInv, NEW e \in sent
               PROVE  working[e.owner] # [mission |-> e.mission, attempt |-> e.attempt]
    BY DEF EvidenceIsTrue
  <2>1. e \in [owner : Robots, mission : Missions, attempt : 1..MaxAttempts] /\ Gone(e.mission, e.owner)
    BY DEF StopInv, TypeInv, WatchFits, SentIsTrue
  <2>2. [mission |-> e.mission, attempt |-> e.attempt] # None
    BY <2>1, ConstantsAssumption
  <2>3. [mission |-> e.mission, attempt |-> e.attempt].mission = e.mission
    OBVIOUS
  <2> QED  BY <2>1, <2>2, <2>3 DEF Gone
<1> QED  BY <1>1, <1>2, StopInit, PTL DEF Spec
===========================================================================

----------------------------- MODULE HandOver -----------------------------
(***************************************************************************)
(* The delivery of the stops that the job dispatcher asks for, and the     *)
(* hand-over of the missions to a standby orchestrator with those stops as *)
(* proofs.                                                                 *)
(*                                                                         *)
(* The relay reads the open stop requests, stops each robot and only then  *)
(* acknowledges. The takeover keeps the last replica of the primary        *)
(* orchestrator and, when the primary is silent, sends the replica and the *)
(* proofs to the standby. Both wait for answers over the network, and      *)
(* everything else goes on while they wait.                                *)
(*                                                                         *)
(* The dispatcher and the primary are external; one registry of missions   *)
(* stands for both, for a mission has the id of its job.                   *)
(***************************************************************************)
EXTENDS Integers, Sequences, SequencesExt

CONSTANTS Missions, Robots, None,
          Mapped,        \* the robots that robotMap names and the server has
          SameAgain,     \* whether a mission may go back to a robot it was taken from
          FailuresBefore, \* failuresBeforeTakeover
          MaxDeliveries, \* maxDeliveryAttempts
          MaxProofs,
          MaxAttempts,   \* bound: assignments of a mission
          MaxOutages,    \* bound: outages of the primary
          MaxRestarts    \* bound: restarts of the server

ASSUME ConstantsAssumption ==
  /\ None \notin Robots \cup Missions \cup [mission : Missions, attempt : 1..MaxAttempts]
  /\ Mapped \subseteq Robots
  /\ SameAgain \in BOOLEAN
  /\ FailuresBefore \in Nat \ {0} /\ MaxDeliveries \in Nat \ {0} /\ MaxProofs \in Nat \ {0}
  /\ MaxAttempts \in Nat /\ MaxOutages \in Nat /\ MaxRestarts \in Nat

VARIABLES
  \* outside
  registry, \* the missions: in flight or not, the holder and the attempt
  had,      \* history: the robots each mission was with
  working,  \* the mission and the attempt each robot works on
  open,     \* the open stop request of each job, late once it is expired or too old
  up,       \* whether the primary answers
  \* the relay
  relay,    \* where the pass is, the requests still to do and the one in hand
  settled,  \* the robot acknowledged for each job
  \* the takeover
  proofs,   \* the stops acknowledged, the oldest first
  replica,  \* the last replica of the primary
  watch,    \* the state, the failures in a row, the deliveries tried and where the tick is
  waiting,  \* nextAttemptMs is still to come
  sent,     \* the proofs in the delivery under way
  outages, restarts

vars == <<registry, had, working, open, up, relay, settled, proofs, replica, watch, waiting, sent,
          outages, restarts>>
outside == <<registry, had, working, open, up, outages>>
relaying == <<relay, settled>>
watching == <<replica, watch, waiting, sent>>

Requests == [job : Missions, robot : Robots, late : BOOLEAN]
Records == [flying : BOOLEAN, owner : Robots \cup {None}, attempt : 0..MaxAttempts]
Proofs == [job : Missions, robot : Robots]
States == {"watching", "primary-silent", "delivered", "gave-up", "refused"}
Ended == {"delivered", "gave-up", "refused"}

TypeOK ==
  /\ registry \in [Missions -> Records]
  /\ had \in [Missions -> SUBSET Robots]
  /\ working \in [Robots -> [mission : Missions, attempt : 1..MaxAttempts] \cup {None}]
  /\ open \in [Missions -> [robot : Robots, late : BOOLEAN] \cup {None}]
  /\ up \in BOOLEAN
  /\ relay \in [at : {"idle", "passing", "acking", "acked"}, list : SUBSET Requests,
                now : Requests \cup {None}]
  /\ settled \in [Missions -> Robots \cup {None}]
  /\ Len(proofs) <= MaxProofs
  /\ \A i \in DOMAIN proofs : proofs[i] \in Proofs
  /\ \A i, j \in DOMAIN proofs : proofs[i].job = proofs[j].job => i = j
  /\ replica \in [Missions -> Records] \cup {None}
  /\ watch \in [state : States, failures : 0..FailuresBefore, deliveries : 0..MaxDeliveries,
                at : {"idle", "reading", "posting"}]
  /\ waiting \in BOOLEAN
  /\ sent \in SUBSET [owner : Robots, mission : Missions, attempt : 1..MaxAttempts]
  /\ outages \in 0..MaxOutages
  /\ restarts \in 0..MaxRestarts

RelayIdle == [at |-> "idle", list |-> {}, now |-> None]
Watching == [state |-> "watching", failures |-> 0, deliveries |-> 0, at |-> "idle"]

Init ==
  /\ registry = [m \in Missions |-> [flying |-> FALSE, owner |-> None, attempt |-> 0]]
  /\ had = [m \in Missions |-> {}]
  /\ working = [r \in Robots |-> None]
  /\ open = [m \in Missions |-> None]
  /\ up = TRUE
  /\ relay = RelayIdle
  /\ settled = [m \in Missions |-> None]
  /\ proofs = <<>>
  /\ replica = None
  /\ watch = Watching
  /\ waiting = FALSE
  /\ sent = {}
  /\ outages = 0
  /\ restarts = 0

---------------------------------------------------------------------------
(* The dispatcher, the primary and the robots. The definitions called variants, here and      *)
(* below, are mistakes that the checks must notice; no action uses them.                      *)

Assign(m, r) ==
  /\ up /\ ~registry[m].flying /\ registry[m].attempt < MaxAttempts
  /\ working[r] = None
  /\ SameAgain \/ r \notin had[m]
  /\ registry' = [registry EXCEPT ![m] = [flying |-> TRUE, owner |-> r, attempt |-> @.attempt + 1]]
  /\ had' = [had EXCEPT ![m] = @ \cup {r}]
  /\ working' = [working EXCEPT ![r] = [mission |-> m, attempt |-> registry[m].attempt + 1]]
  /\ UNCHANGED <<open, up, outages>>

\* The holder seems silent, whether it works or not.
AskStop(m) ==
  /\ registry[m].flying /\ open[m] = None
  /\ open' = [open EXCEPT ![m] = [robot |-> registry[m].owner, late |-> FALSE]]
  /\ UNCHANGED <<registry, had, working, up, outages>>

\* The robot itself answered that it stopped, so that nothing is open any more.
AnsweredOtherwise(m) ==
  /\ open[m] # None
  /\ open' = [open EXCEPT ![m] = None]
  /\ registry' = [registry EXCEPT ![m].flying = FALSE]
  /\ working' = [r \in Robots |-> IF r = open[m].robot THEN None ELSE working[r]]
  /\ UNCHANGED <<had, up, outages>>

\* Expired at the dispatcher, or older than maxRequestAgeSeconds.
GoLate(m) ==
  /\ open[m] # None /\ ~open[m].late
  /\ open' = [open EXCEPT ![m].late = TRUE]
  /\ UNCHANGED <<registry, had, working, up, outages>>

PrimaryFails ==
  /\ up /\ outages < MaxOutages
  /\ up' = FALSE
  /\ outages' = outages + 1
  /\ UNCHANGED <<registry, had, working, open>>

PrimaryReturns ==
  /\ ~up
  /\ up' = TRUE
  /\ UNCHANGED <<registry, had, working, open, outages>>

Outside ==
  /\ \/ \E m \in Missions, r \in Robots : Assign(m, r)
     \/ \E m \in Missions : AskStop(m) \/ AnsweredOtherwise(m) \/ GoLate(m)
     \/ PrimaryFails
     \/ PrimaryReturns
  /\ UNCHANGED <<relaying, proofs, watching, restarts>>

---------------------------------------------------------------------------
(* The relay *)

\* Only what the dispatcher does not list any more is forgotten.
ReadRequests ==
  /\ relay.at = "idle"
  /\ relay' = [at |-> "passing", now |-> None,
               list |-> {[job |-> m, robot |-> open[m].robot, late |-> open[m].late] :
                           m \in {n \in Missions : open[n] # None}}]
  /\ settled' = [m \in Missions |-> IF open[m] = None THEN None ELSE settled[m]]
  /\ UNCHANGED <<outside, proofs, watching, restarts>>

\* Variant: whoever was acknowledged for the job.
SettledForJob(q) == settled[q.job] # None

Settled(q) == settled[q.job] = q.robot

\* The list says so, or it may have become so since the list was read.
Undeliverable(q) == Settled(q) \/ q.late \/ q.robot \notin Mapped
TooOld(q) == open[q.job] # None => open[q.job].late

Skip(q) ==
  /\ relay.at = "passing" /\ q \in relay.list
  /\ Undeliverable(q) \/ TooOld(q)
  /\ relay' = [relay EXCEPT !.list = @ \ {q}]
  /\ UNCHANGED <<outside, settled, proofs, watching, restarts>>

\* Variant: the acknowledgement of a stop that was not applied.
StopFirstAskedNothing(q) ==
  /\ relay.at = "passing" /\ q \in relay.list
  /\ ~Undeliverable(q)
  /\ relay' = [at |-> "acking", list |-> relay.list \ {q}, now |-> q]
  /\ UNCHANGED <<outside, settled, proofs, watching, restarts>>

\* The stop takes effect before the acknowledgement is sent.
Stop(q) ==
  /\ relay.at = "passing" /\ q \in relay.list
  /\ ~Undeliverable(q)
  /\ working' = [working EXCEPT ![q.robot] = None]
  /\ relay' = [at |-> "acking", list |-> relay.list \ {q}, now |-> q]
  /\ UNCHANGED <<registry, had, open, up, outages, settled, proofs, watching, restarts>>

PassEnds ==
  /\ relay.at = "passing" /\ relay.list = {}
  /\ relay' = RelayIdle
  /\ UNCHANGED <<outside, settled, proofs, watching, restarts>>

\* The dispatcher takes the acknowledgement: the job goes back to be assigned. When nothing is
\* open for it any more it answers 409 and changes nothing.
AckArrives ==
  LET q == relay.now
      answers == open[q.job] # None /\ open[q.job].robot = q.robot
  IN  /\ relay.at = "acking"
      /\ relay' = [relay EXCEPT !.at = "acked"]
      /\ open' = IF answers THEN [open EXCEPT ![q.job] = None] ELSE open
      /\ registry' = IF answers THEN [registry EXCEPT ![q.job].flying = FALSE] ELSE registry
      /\ UNCHANGED <<had, working, up, outages, settled, proofs, watching, restarts>>

\* The newest proof of a job replaces the older one; the oldest goes when they are too many.
Older(q) == {i \in DOMAIN proofs : proofs[i].job = q.job}
Renewed(q) ==
  Append(IF Older(q) = {} THEN proofs ELSE RemoveAt(proofs, CHOOSE i \in Older(q) : TRUE),
         [job |-> q.job, robot |-> q.robot])

WithProof(q) == IF Len(Renewed(q)) > MaxProofs THEN Tail(Renewed(q)) ELSE Renewed(q)

AckAnswered ==
  /\ relay.at = "acked"
  /\ relay' = [relay EXCEPT !.at = "passing", !.now = None]
  /\ settled' = [settled EXCEPT ![relay.now.job] = relay.now.robot]
  /\ proofs' = WithProof(relay.now)
  /\ UNCHANGED <<outside, watching, restarts>>

\* The acknowledgement or its answer is lost or refused: the next pass does it all again.
AckLost ==
  /\ relay.at \in {"acking", "acked"}
  /\ relay' = [relay EXCEPT !.at = "passing", !.now = None]
  /\ UNCHANGED <<outside, settled, proofs, watching, restarts>>

---------------------------------------------------------------------------
(* The takeover *)

\* A proof older than proofMaxAgeSeconds does not apply any more.
ProofLapses ==
  /\ proofs # <<>>
  /\ proofs' = Tail(proofs)
  /\ UNCHANGED <<outside, relaying, watching, restarts>>

\* Variant: whoever holds the mission.
EvidenceOfAnybody ==
  {[owner |-> replica[p.job].owner, mission |-> p.job, attempt |-> replica[p.job].attempt] :
     p \in {proofs[i] : i \in {j \in DOMAIN proofs : replica[proofs[j].job].flying}}}

\* The proofs of the missions that are in flight in the replica, held by the robot that
\* acknowledged. The attempt is the one of the replica.
Evidence ==
  {[owner |-> p.robot, mission |-> p.job, attempt |-> replica[p.job].attempt] :
     p \in {proofs[i] : i \in {j \in DOMAIN proofs :
              replica[proofs[j].job].flying /\ replica[proofs[j].job].owner = proofs[j].robot}}}

\* The primary answers: an outage that was handed over ends, and so do the failures in a row.
\* nextAttemptMs is forgotten only after an outage that ended in a state that is not tried again.
HealthAnswered ==
  /\ watch.at = "idle" /\ up
  /\ watch' = [Watching EXCEPT !.at = "reading"]
  /\ waiting' = (waiting /\ watch.state \notin Ended)
  /\ UNCHANGED <<outside, relaying, proofs, replica, sent, restarts>>

\* The replica is read, or it is not and the previous one is kept.
ReplicaAnswered ==
  /\ watch.at = "reading"
  /\ watch' = [watch EXCEPT !.at = "idle"]
  /\ replica' \in {replica} \cup (IF up THEN {registry} ELSE {})
  /\ UNCHANGED <<outside, relaying, proofs, waiting, sent, restarts>>

\* A check without an answer, of a primary that is down or that only answered too late.
Counted == IF watch.failures < FailuresBefore THEN watch.failures + 1 ELSE FailuresBefore

NoAnswer ==
  /\ watch.at = "idle" /\ watch.state \notin Ended
  /\ Counted < FailuresBefore \/ waiting
  /\ watch' = [watch EXCEPT !.failures = Counted,
                            !.state = IF Counted < FailuresBefore THEN @ ELSE "primary-silent"]
  /\ UNCHANGED <<outside, relaying, proofs, replica, waiting, sent, restarts>>

\* No replica was ever read, or the last one was too old when the silence began, or too large.
NothingToSend ==
  /\ watch.at = "idle" /\ watch.state \notin Ended
  /\ Counted = FailuresBefore /\ ~waiting
  /\ watch' = [watch EXCEPT !.failures = Counted, !.state = "refused"]
  /\ UNCHANGED <<outside, relaying, proofs, replica, waiting, sent, restarts>>

Deliver ==
  /\ watch.at = "idle" /\ watch.state \notin Ended
  /\ Counted = FailuresBefore /\ ~waiting
  /\ replica # None
  /\ watch' = [state |-> "primary-silent", failures |-> Counted,
               deliveries |-> watch.deliveries + 1, at |-> "posting"]
  /\ sent' = Evidence
  /\ UNCHANGED <<outside, relaying, proofs, replica, waiting, restarts>>

\* Variant: one delivery more.
DeliveredOnceMore(outcome) ==
  /\ watch.at = "posting"
  /\ sent' = {}
  /\ LET over == watch.deliveries > MaxDeliveries
     IN  /\ watch' = [watch EXCEPT !.at = "idle",
                                   !.state = IF outcome # "none" THEN outcome
                                             ELSE IF over THEN "gave-up" ELSE @]
         /\ waiting' = (waiting \/ (outcome = "none" /\ ~over))
  /\ UNCHANGED <<outside, relaying, proofs, replica, restarts>>

\* Variant: an answer that was lost is tried for ever.
DeliveredForEver(outcome) ==
  /\ watch.at = "posting"
  /\ sent' = {}
  /\ watch' = [watch EXCEPT !.at = "idle", !.deliveries = 0,
                            !.state = IF outcome # "none" THEN outcome ELSE @]
  /\ waiting' = (waiting \/ outcome = "none")
  /\ UNCHANGED <<outside, relaying, proofs, replica, restarts>>

\* Taken, refused, or no answer, which is tried again after retrySeconds until it is enough.
Delivered(outcome) ==
  /\ watch.at = "posting"
  /\ sent' = {}
  /\ LET over == watch.deliveries >= MaxDeliveries
     IN  /\ watch' = [watch EXCEPT !.at = "idle",
                                   !.state = IF outcome # "none" THEN outcome
                                             ELSE IF over THEN "gave-up" ELSE @]
         /\ waiting' = (waiting \/ (outcome = "none" /\ ~over))
  /\ UNCHANGED <<outside, relaying, proofs, replica, restarts>>

RetryTime ==
  /\ waiting
  /\ waiting' = FALSE
  /\ UNCHANGED <<outside, relaying, proofs, replica, watch, sent, restarts>>

\* Both components keep everything in memory.
Restart ==
  /\ restarts < MaxRestarts
  /\ restarts' = restarts + 1
  /\ relay' = RelayIdle
  /\ settled' = [m \in Missions |-> None]
  /\ proofs' = <<>>
  /\ replica' = None
  /\ watch' = Watching
  /\ waiting' = FALSE
  /\ sent' = {}
  /\ UNCHANGED outside

---------------------------------------------------------------------------
Pass ==
  \/ \E q \in relay.list : Skip(q) \/ Stop(q)
  \/ PassEnds

Tick == HealthAnswered \/ NoAnswer \/ NothingToSend \/ Deliver

Answer ==
  \/ ReplicaAnswered
  \/ \E outcome \in {"delivered", "refused", "none"} : Delivered(outcome)

Next ==
  \/ Outside
  \/ ReadRequests
  \/ Pass
  \/ AckArrives
  \/ AckAnswered
  \/ AckLost
  \/ ProofLapses
  \/ Tick
  \/ Answer
  \/ RetryTime
  \/ Restart

\* Both loops set their next timer whatever became of the last pass, and every call ends in an
\* answer or in its timeout. A read of the requests is answered in the end.
Fairness ==
  /\ WF_vars(ReadRequests) /\ WF_vars(Pass) /\ WF_vars(AckAnswered \/ AckLost)
  /\ WF_vars(Tick) /\ WF_vars(Answer) /\ WF_vars(RetryTime)

Spec == Init /\ [][Next]_vars /\ Fairness

---------------------------------------------------------------------------
(* Properties *)

\* No two robots ever work on one mission: an acknowledgement gives it back only when the robot
\* that had it was stopped.
OneRobotWorks ==
  \A r, s \in Robots : r # s /\ working[r] # None /\ working[s] # None
                       => working[r].mission # working[s].mission

\* No proof that is sent says of a robot that it stopped while it works on that attempt.
EvidenceIsTrue ==
  \A e \in sent : working[e.owner] # [mission |-> e.mission, attempt |-> e.attempt]

\* The robot of a request that stays open and does not get late is stopped.
RequestIsDelivered ==
  \A m \in Missions, r \in Mapped :
    LET asked == open[m] # None /\ open[m].robot = r /\ ~open[m].late
    IN  asked ~> (~asked \/ working[r] = None \/ working[r].mission # m)

\* A primary that stays down is given up in the end, with the missions handed over or not, and
\* one that stays up is watched again.
OutageIsDecided ==
  /\ <>[](~up) => <>[](watch.state \in Ended)
  /\ <>[]up => []<>(watch.state = "watching")
===========================================================================

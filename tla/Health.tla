------------------------------- MODULE Health -------------------------------
(***************************************************************************)
(* The health of the sibling services (ecosystemHealth.ts): two scans, one *)
(* for administrators and one for operators, may run at once over one      *)
(* memory of when each service last answered, and that memory is kept in a *)
(* file between runs of the server. And the signal of life of each robot   *)
(* (robotLiveness.ts, routes/livenessRoutes.ts), which is kept in memory   *)
(* alone: a robot had news when its state went out to the clients or when  *)
(* a bridge says that it is alive.                                         *)
(***************************************************************************)
EXTENDS Integers, FiniteSets, Sequences

CONSTANTS Ports,     \* services that declare a port
          Units,     \* services that declare a systemd unit
          Limits,    \* the values that the limit of remembered services may be set to
          Interval,  \* least time between two writes
          Ahead,     \* how far in the future a stored time may lie
          None, Damaged,   \* no scan; a file that is not ours
          MaxTime, MaxFaults,
          Robots,          \* the ids a robot may have
          Rosters,         \* sequences of them: what the settings may be at the start
          DefaultStale, MostStale, \* DEFAULT_STALE_AFTER_S, MAX_STALE_AFTER_S
          MaxHalves        \* bound: the clock, in half seconds

VARIABLES now, seen, dirty, lastSave, stored, scan, heard, faults

vars == <<now, seen, dirty, lastSave, stored, scan, heard, faults>>

Services == Ports \union Units
Readers == {"admin", "operator"}
Never == -Interval
UnitStates == {"active", "starting", "stopped", "unknown"}
\* What asking a port gave: an answer in the 200s that reports nothing or a good state, a poor state or another one; another
\* status; nothing in time; or the asking itself threw.
Answers == {"good", "poor", "failed", "refused", "silent", "error"}
Reachable == {"good", "poor", "failed", "refused"}

Init ==
  /\ now = 1 /\ seen = <<>> /\ dirty = FALSE /\ lastSave = Never /\ stored = <<>>
  /\ scan = [r \in Readers |-> None]
  /\ heard = {} /\ faults = 0

\* A request for a report starts a scan, dated now; one that comes while a scan for the same kind of reader runs shares it.
Ask(r) ==
  /\ scan[r] = None
  /\ scan' = [scan EXCEPT ![r] = now]
  /\ UNCHANGED <<now, seen, dirty, lastSave, stored, heard, faults>>

\* ---- the verdict --------------------------------------------------------

Verdict(state, wasHeard) == [state |-> state, heard |-> wasHeard]

\* A service with a port is judged by its answer and then by its unit, one without by its unit alone.
Judge(s, answer, unit) ==
  IF s \in Ports THEN
    IF answer = "error" THEN Verdict("unknown", FALSE)
    ELSE IF answer = "silent" THEN Verdict(IF unit = "active" THEN "degraded" ELSE "down", FALSE)
    ELSE IF answer \in {"refused", "failed"} THEN Verdict("down", TRUE)
    ELSE IF answer = "poor" \/ unit \in {"starting", "stopped"} THEN Verdict("degraded", TRUE)
    ELSE Verdict("ok", TRUE)
  ELSE IF unit = "unknown" THEN Verdict("unknown", FALSE)
  ELSE IF unit = "active" THEN Verdict("ok", TRUE)
  ELSE Verdict(IF unit = "starting" THEN "degraded" ELSE "down", FALSE)

\* What asking a service may give: an answer of its port and a state of its unit, when it has them.
Looks(s) == [answer : IF s \in Ports THEN Answers ELSE {None}, unit : IF s \in Units THEN UnitStates ELSE {"unknown"}]

Judged(s, look) == Judge(s, look.answer, look.unit)

\* A sign of life: an answer of the port, or for a service without a port its unit.
Alive(s, look) == IF s \in Ports THEN look.answer \in Reachable ELSE look.unit = "active"

\* What a look leaves behind: whether the service counts as heard, and whether it really gave a sign of life.
Signs(s) == {[told |-> Judged(s, look).heard, alive |-> Alive(s, look)] : look \in Looks(s)}

\* Those of all services; a folder of manifests that cannot be read leaves no service to ask.
Outcomes ==
  LET signs == [s \in Services |-> Signs(s)]
  IN  {<<>>} \union {f \in [Services -> UNION {signs[s] : s \in Services}] : \A s \in Services : f[s] \in signs[s]}

\* ---- the memory ---------------------------------------------------------

Marked(told, at) == [s \in DOMAIN seen \union told |-> IF s \in told THEN at ELSE seen[s]]

\* The most recently heard services when there are more than the limit, whichever of those heard at the same time.
Trimmed(memory, limit) ==
  IF Cardinality(DOMAIN memory) <= limit THEN {memory}
  ELSE {[s \in kept |-> memory[s]] : kept \in {k \in SUBSET DOMAIN memory :
          Cardinality(k) = limit /\ \A s \in k, t \in DOMAIN memory \ k : memory[s] >= memory[t]}}

\* The times are written when something changed and the last try was long enough ago; a write that fails is tried again
\* after another interval.
Persist(memory, changed, at) ==
  IF ~changed \/ at - lastSave < Interval
    THEN dirty' = changed /\ UNCHANGED <<lastSave, stored, faults>>
    ELSE /\ lastSave' = at
         /\ \/ stored' = memory /\ dirty' = FALSE /\ UNCHANGED faults
            \/ faults < MaxFaults /\ faults' = faults + 1 /\ dirty' = TRUE /\ UNCHANGED stored

\* Every answer is in: the memory is brought up to date and the report made from it.
Report(r) ==
  /\ scan[r] # None
  /\ \E outcome \in Outcomes :
       LET marked == Marked({s \in DOMAIN outcome : outcome[s].told}, scan[r]) IN
         \E memory \in UNION {Trimmed(marked, limit) : limit \in Limits} :
             /\ seen' = memory
             /\ Persist(memory, dirty \/ marked # seen \/ memory # marked, scan[r])
             /\ heard' = heard \union {<<s, scan[r]>> : s \in {t \in DOMAIN outcome : outcome[t].alive}}
  /\ scan' = [scan EXCEPT ![r] = None]
  /\ UNCHANGED now

\* ---- time, files and restarts -------------------------------------------

Tick == now < MaxTime /\ now' = now + 1 /\ UNCHANGED <<seen, dirty, lastSave, stored, scan, heard, faults>>

Spoil == faults < MaxFaults /\ faults' = faults + 1 /\ stored' = Damaged
         /\ UNCHANGED <<now, seen, dirty, lastSave, scan, heard>>

\* The file is read back without the times that are from the future; the clock may have been set back while the server was down.
Restart ==
  /\ faults < MaxFaults /\ faults' = faults + 1
  /\ \E t \in 1..now :
       /\ now' = t
       /\ seen' = IF stored = Damaged THEN <<>>
                  ELSE [s \in {d \in DOMAIN stored : stored[d] <= t + Ahead} |-> stored[s]]
  /\ dirty' = FALSE /\ lastSave' = Never
  /\ scan' = [r \in Readers |-> None]
  /\ UNCHANGED <<stored, heard>>

Next ==
  \/ \E r \in Readers : Ask(r) \/ Report(r)
  \/ Tick \/ Spoil \/ Restart

Spec == Init /\ [][Next]_vars

\* ---- the signal of life of the robots ------------------------------------

VARIABLES
  half, roster,      \* the clock in half seconds; the ids of the robots of the settings, one after another
  stale,             \* what the file says of the limit, in seconds; None for what is no whole number
  touches,           \* the last news of each id since the start: by the clock, and from where
  elapsed, clockSet, \* history: the half seconds that went by, and was the clock set back meanwhile?
  news               \* history: when each id had its last news, in half seconds that went by
lifeVars == <<half, roster, stale, touches, elapsed, clockSet, news>>

Words == {None} \union -1..(MostStale + 1)
StaleAfterFrom(word) == IF word # None /\ word \in 1..MostStale THEN word ELSE DefaultStale

Named(list, id) == Cardinality({i \in DOMAIN list : list[i] = id})

LifeInit ==
  /\ half = 0 /\ elapsed = 0 /\ clockSet = FALSE /\ roster \in Rosters /\ stale = None
  /\ touches = [id \in Robots |-> None] /\ news = [id \in Robots |-> None]

Touch(id, source) ==
  /\ touches' = [touches EXCEPT ![id] = [at |-> half, source |-> source]]
  /\ news' = [news EXCEPT ![id] = elapsed]
  /\ UNCHANGED <<half, roster, stale, elapsed, clockSet>>

\* A change of its state goes out to the clients.
StateGoesOut(id) == Named(roster, id) > 0 /\ Touch(id, "state")

\* Variant: whichever robot has that id.
HeartbeatOfAny(id) == Touch(id, "heartbeat")

\* POST heartbeat: for a robot of the roster that is the only one of its id.
Heartbeat(id) == Named(roster, id) = 1 /\ Touch(id, "heartbeat")

\* The settings are saved with other robots, none of them a new twin; what was heard of an id stays.
RosterChanges ==
  /\ roster' \in {list \in Rosters : \A id \in Robots : Named(list, id) > 1 => Named(roster, id) > 1}
  /\ UNCHANGED <<half, stale, touches, elapsed, clockSet, news>>

StaleChanges == stale' \in Words /\ UNCHANGED <<half, roster, touches, elapsed, clockSet, news>>

HalfSecond ==
  /\ half < MaxHalves /\ half' = half + 1 /\ elapsed' = elapsed + 1
  /\ UNCHANGED <<roster, stale, touches, clockSet, news>>

ClockIsSetBack ==
  /\ ~clockSet /\ clockSet' = TRUE /\ half' \in 0..(half - 1)
  /\ UNCHANGED <<roster, stale, touches, elapsed, news>>

LifeRestart ==
  /\ touches' = [id \in Robots |-> None] /\ news' = [id \in Robots |-> None]
  /\ UNCHANGED <<half, roster, stale, elapsed, clockSet>>

LifeNext ==
  \/ RosterChanges \/ StaleChanges \/ HalfSecond \/ ClockIsSetBack \/ LifeRestart
  \/ \E id \in Robots : StateGoesOut(id) \/ Heartbeat(id)

\* The report, in whole seconds, rounded; news from the future are of now.
Age(touch) == IF half <= touch.at THEN 0 ELSE (half - touch.at + 1) \div 2
Life(id) ==
  IF touches[id] = None THEN "unknown" ELSE IF Age(touches[id]) <= StaleAfterFrom(stale) THEN "live" ELSE "stale"

-----------------------------------------------------------------------------

TypeOK ==
  /\ now \in 1..MaxTime /\ dirty \in BOOLEAN /\ lastSave \in {Never} \union 1..MaxTime /\ faults \in 0..MaxFaults
  /\ DOMAIN seen \subseteq Services
  /\ stored = Damaged \/ DOMAIN stored \subseteq Services
  /\ \A r \in Readers : scan[r] = None \/ scan[r] \in 1..MaxTime

\* A time in the memory or in the file is one of a scan that did hear from that service (LastSeenMemory), whatever the
\* order in which two scans end and through failed writes, damage and restarts.
SeenWasHeard ==
  /\ \A s \in DOMAIN seen : <<s, seen[s]>> \in heard
  /\ stored # Damaged => \A s \in DOMAIN stored : <<s, stored[s]>> \in heard

\* What the file does not hold yet is marked to be written, so that nothing heard is forgotten for good.
UnsavedIsDirty == stored # Damaged /\ ~dirty => \A s \in DOMAIN seen : s \in DOMAIN stored /\ stored[s] = seen[s]

\* A report calls a service ok only when it was heard from and its answer and its unit both say so, down only when it
\* answered badly or when neither its port nor its unit shows it alive, and counts as heard what gave a sign of life
\* (judge): for every look.
VerdictsAreTrue ==
  \A s \in Services : \A look \in Looks(s) :
    LET verdict == Judged(s, look) IN
      /\ verdict.heard = Alive(s, look)
      /\ verdict.state = "ok" => /\ s \in Ports => look.answer = "good"
                                 /\ look.unit \notin {"starting", "stopped"}
      /\ verdict.state = "down" => look.answer \in {"refused", "failed"} \/ look.unit # "active"

LifeTypeOK ==
  /\ half \in 0..MaxHalves /\ elapsed \in 0..(2 * MaxHalves) /\ roster \in Rosters /\ stale \in Words
  /\ \A id \in Robots : touches[id] = None \/ (touches[id].at \in 0..MaxHalves /\ touches[id].source \in {"state", "heartbeat"})

\* A robot is unknown exactly if it had no news since the start of the server, and live exactly if the last of them is within the limit,
\* to half a second, whatever the file says of the limit, however the roster changed and also under a clock that was set back, as far
\* as it still tells the time since; a robot that never was the only one of its id is kept alive by no heartbeat (robotLiveness.ts).
LifeIsTrue ==
  \A id \in Robots :
    /\ Life(id) = "unknown" <=> news[id] = None
    /\ ~clockSet /\ news[id] # None => (Life(id) = "live" <=> elapsed - news[id] <= 2 * StaleAfterFrom(stale))
    /\ Life(id) = "stale" => elapsed - news[id] > 2 * StaleAfterFrom(stale)
    /\ Named(roster, id) > 1 => touches[id] = None \/ touches[id].source = "state"
=============================================================================

------------------------------- MODULE Feeds -------------------------------
(***************************************************************************)
(* The signed records of what other programs tell (ChainedLog) and the two *)
(* feeds that keep their state in one: the active faults and the latest    *)
(* verdict of each series of the anomaly detector. A broker repeats and    *)
(* reorders what it delivers. A verdict that changed is told to the voice  *)
(* interface, which answers later.                                         *)
(*                                                                         *)
(* A record goes into the memory before it goes into the file. A log keeps *)
(* so many records; one that drops some is written anew. A record stands   *)
(* for its own hash; its signature fails with the hash only, as the key of *)
(* the server does not change here.                                        *)
(***************************************************************************)
EXTENDS Integers, Sequences, SequencesExt, FiniteSets

CONSTANTS Things,      \* faults (source, robot and code) and series (source, kind and field)
          Verdicts,    \* of a series; "normal" is never spoken
          None,
          MaxRecords,  \* maxRecords of the retention
          MaxMade,     \* bound: records made
          MaxRelays,   \* bound: alerts that wait for the voice interface
          MaxFaults    \* bound: appends that fail, restarts

VARIABLES
  memory,   \* of each log: records
  file,     \* of each log: the lines of its file
  made,     \* history: each record, with the one before it
  active,   \* FaultFeed.active
  latest,   \* AnomalyFeed.latest
  alerts,   \* AnomalyFeed.alerts: the verdict each answer is about
  relays,   \* alerts sent to the voice interface and not answered
  taken,    \* history: of each log, the records answered as written
  faults

vars == <<memory, file, made, active, latest, alerts, relays, taken, faults>>

Logs == {"fault", "verdict"}
States == {"raised", "cleared"} \cup Verdicts
Made == [prev : 0..MaxMade, thing : Things, state : States]
Alerts == [thing : Things, verdict : Verdicts]

TypeOK ==
  /\ memory \in [Logs -> Seq(1..MaxMade)] /\ \A l \in Logs : Len(memory[l]) <= MaxRecords
  /\ file \in [Logs -> Seq(1..MaxMade)]
  /\ made \in Seq(Made) /\ Len(made) <= MaxMade
  /\ active \subseteq Things
  /\ latest \in [Things -> Verdicts \cup {None}]
  /\ alerts \in [Things -> Verdicts \cup {None}]
  /\ relays \subseteq Alerts
  /\ taken \in [Logs -> Seq(1..MaxMade)] /\ faults \in 0..MaxFaults

-----------------------------------------------------------------------------
(* ChainedLog                                                              *)

Newest(records) == IF records = <<>> THEN 0 ELSE Last(records)

\* Variant: a log that keeps one record more.
TrimmedLate(records) ==
  IF Len(records) > MaxRecords + 1 THEN SubSeq(records, Len(records) - MaxRecords, Len(records)) ELSE records

Trimmed(records) ==
  IF Len(records) > MaxRecords THEN SubSeq(records, Len(records) - MaxRecords + 1, Len(records)) ELSE records

Prev(log) == Newest(memory[log])

\* The record is in the memory whatever the file does; a log that dropped records is written anew from it.
Append2(log, thing, state, written) ==
  LET record == Len(made) + 1
      longer == Append(memory[log], record)
      kept == Trimmed(longer)
  IN  /\ Len(made) < MaxMade
      /\ written \/ faults < MaxFaults
      /\ faults' = faults + (IF written THEN 0 ELSE 1)
      /\ made' = Append(made, [prev |-> Prev(log), thing |-> thing, state |-> state])
      /\ memory' = [memory EXCEPT ![log] = kept]
      /\ file' = [file EXCEPT ![log] = CASE ~written -> @ [] kept # longer -> kept [] OTHER -> Append(@, record)]
      /\ taken' = [taken EXCEPT ![log] = IF written THEN Append(@, record) ELSE @]

Verifies(records) == \A i \in 2..Len(records) : made[records[i]].prev = records[i - 1]

-----------------------------------------------------------------------------
(* FaultFeed                                                               *)

\* Oldest first, so the last word on each fault wins.
ActiveIn(records) ==
  {t \in Things : \E i \in DOMAIN records :
     /\ made[records[i]].thing = t /\ made[records[i]].state = "raised"
     /\ \A j \in i + 1..Len(records) : made[records[j]].thing # t}

\* A message of the broker: the state changes once the record is written.
Fault(t, state, written) ==
  /\ Append2("fault", t, state, written)
  /\ active' = IF ~written THEN active ELSE IF state = "cleared" THEN active \ {t} ELSE active \cup {t}
  /\ UNCHANGED <<latest, alerts, relays>>

-----------------------------------------------------------------------------
(* AnomalyFeed                                                             *)

LatestIn(records) ==
  [t \in Things |->
     LET of == {i \in DOMAIN records : made[records[i]].thing = t} IN
     IF of = {} THEN None ELSE made[records[CHOOSE i \in of : \A j \in of : j <= i]].state]

Changed(t, v) == latest[t] # v

\* Only a change is recorded, and told to the voice interface unless it is normal.
Verdict(t, v, written) ==
  IF Changed(t, v)
  THEN /\ Append2("verdict", t, v, written)
       /\ latest' = IF written THEN [latest EXCEPT ![t] = v] ELSE latest
       /\ relays' = IF written /\ v # "normal" /\ Cardinality(relays) < MaxRelays
                    THEN relays \cup {[thing |-> t, verdict |-> v]} ELSE relays
       /\ UNCHANGED <<active, alerts>>
  ELSE /\ latest' = [latest EXCEPT ![t] = v]
       /\ UNCHANGED <<memory, file, made, active, alerts, relays, taken, faults>>

\* The voice interface answers, or cannot be told; the answer is kept for the series.
RelayToVoice(r) ==
  /\ r \in relays
  /\ relays' = relays \ {r}
  /\ alerts' \in {alerts, [alerts EXCEPT ![r.thing] = r.verdict]}
  /\ UNCHANGED <<memory, file, made, active, latest, taken, faults>>

\* What is shown with the verdicts: the answer to an earlier one stays until another comes.
Shown == {t \in Things : alerts[t] # None /\ latest[t] \notin {None, "normal"}}

-----------------------------------------------------------------------------
\* The logs are read from their files and the feeds are built from the logs.
Restart ==
  /\ faults < MaxFaults
  /\ faults' = faults + 1
  /\ memory' = file
  /\ active' = ActiveIn(file["fault"])
  /\ latest' = LatestIn(file["verdict"])
  /\ alerts' = [t \in Things |-> None]
  /\ relays' = {}
  /\ UNCHANGED <<file, made, taken>>

Init ==
  /\ memory = [l \in Logs |-> <<>>] /\ file = memory /\ made = <<>>
  /\ active = {} /\ latest = [t \in Things |-> None] /\ alerts = latest /\ relays = {}
  /\ taken = memory /\ faults = 0

Next ==
  \/ \E t \in Things, written \in BOOLEAN :
       \/ \E state \in {"raised", "cleared"} : Fault(t, state, written)
       \/ \E v \in Verdicts : Verdict(t, v, written)
  \/ \E r \in relays : RelayToVoice(r)
  \/ Restart

Spec == Init /\ [][Next]_vars

-----------------------------------------------------------------------------
\* While every record of a log was written and none dropped, its feed is what the record says, so a restart
\* changes nothing, and the record verifies.
Whole(l) == memory[l] = taken[l]
FeedsAreTheirRecords ==
  /\ \A l \in Logs : Whole(l) => file[l] = memory[l] /\ Verifies(memory[l])
  /\ Whole("fault") => active = ActiveIn(file["fault"])
  /\ Whole("verdict") => latest = LatestIn(file["verdict"])

\* No record that was answered as written is lost but the oldest ones, before or after any restart.
AnsweredAreKept ==
  \A l \in Logs : \A records \in {memory[l], file[l]} :
    IsSuffix(SelectSeq(records, LAMBDA r : r \in ToSet(taken[l])), taken[l])
=============================================================================

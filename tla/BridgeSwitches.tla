---------------------------- MODULE BridgeSwitches ----------------------------
(***************************************************************************)
(* The switches of one machine bridge as a signed, retained message        *)
(* (bridgeSettings.ts, bridgeSettingsSigning.ts, announceSettings of       *)
(* bridgeGateway.ts): made again when they are saved, on every connect and *)
(* at each refresh.  The counter of a message is the clock, or one more    *)
(* than the last of this process.  The bridge applies a message that is    *)
(* signed, current and not older than the last it applied, and remembers   *)
(* that counter; a restart of the bridge forgets it.  The clock of the     *)
(* server may be set back.                                                 *)
(***************************************************************************)
EXTENDS Naturals, Sequences

CONSTANTS
  Expires,    \* life of a message
  Skew,       \* how far ahead of the bridge's clock a message may be
  MaxTime,    \* bound: the clock
  MaxSaves,   \* bound: times the switches are saved
  MaxFaults   \* bound: restarts, broken connections, lost keys, clocks set back

VARIABLES
  saved,      \* version of the switches in the configuration file
  key,        \* is the key of the bridge usable
  time, skewed, \* the clock of the server, and how far the bridge's is behind it
  connected, lastSeq, \* of this process of the server
  retained,   \* the message the broker keeps
  wire,       \* messages on the way to the bridge, in order
  applied, bridgeSeq, \* what the bridge applied, and its counter; 0: none since it started
  remembered, \* the last version the bridge ever applied
  setBack,    \* was the clock ever set back
  faults

vars == <<saved, key, time, skewed, connected, lastSeq, retained, wire, applied, bridgeSeq, remembered, setBack, faults>>

Nothing == [version |-> 0, seq |-> 0, issued |-> 0]

Init ==
  /\ saved = 0 /\ key \in {"missing", "present", "unusable"} /\ time = 1 /\ skewed = 0
  /\ connected = FALSE /\ lastSeq = 0 /\ retained = Nothing /\ wire = <<>>
  /\ applied = 0 /\ bridgeSeq = 0 /\ remembered = 0 /\ setBack = FALSE /\ faults = 0

\* sign: a missing key is made once; an unusable one signs nothing. The counter only goes up.
UsableKey == IF key = "missing" THEN "present" ELSE key
NextSeq == IF time > lastSeq + 1 THEN time ELSE lastSeq + 1
Message(version) == [version |-> version + 1, seq |-> NextSeq, issued |-> time]

\* announceSettings with the switches that are saved.
Announced(version) ==
  /\ key' = UsableKey
  /\ IF UsableKey = "unusable" THEN UNCHANGED <<lastSeq, retained, wire>>
     ELSE /\ lastSeq' = NextSeq /\ retained' = Message(version) /\ wire' = Append(wire, Message(version))

Bridge == <<applied, bridgeSeq, remembered>>

\* PUT server-config with bridges: saved, then announced if the gateway is connected.
Save ==
  /\ saved < MaxSaves /\ saved' = saved + 1
  /\ IF connected THEN Announced(saved') ELSE UNCHANGED <<key, lastSeq, retained, wire>>
  /\ UNCHANGED <<time, skewed, connected, setBack, faults>> /\ UNCHANGED Bridge

Connect ==
  /\ ~connected /\ connected' = TRUE /\ Announced(saved)
  /\ UNCHANGED <<saved, time, skewed, setBack, faults>> /\ UNCHANGED Bridge

\* The refresh comes once per life of a message at least.
Refresh ==
  /\ connected /\ Announced(saved) /\ time < MaxTime /\ time' = time + 1
  /\ UNCHANGED <<saved, skewed, connected, setBack, faults>> /\ UNCHANGED Bridge

\* verifySettings at the bridge, whose clock is behind by skewed.
Accepts(m) ==
  /\ m.issued <= (time - skewed) + Skew /\ time - skewed <= m.issued + Expires
  /\ m.seq >= bridgeSeq

AtBridge ==
  /\ wire # <<>> /\ wire' = Tail(wire)
  /\ IF Accepts(Head(wire))
       THEN applied' = Head(wire).version /\ bridgeSeq' = Head(wire).seq /\ remembered' = Head(wire).version
       ELSE UNCHANGED Bridge
  /\ UNCHANGED <<saved, key, time, skewed, connected, lastSeq, retained, setBack, faults>>

Fault == faults < MaxFaults /\ faults' = faults + 1

\* The bridge starts again: it subscribes and is given the retained message.
BridgeRestarts ==
  /\ Fault /\ applied' = 0 /\ bridgeSeq' = 0 /\ wire' = IF retained = Nothing THEN <<>> ELSE <<retained>>
  /\ UNCHANGED <<saved, key, time, skewed, connected, lastSeq, retained, remembered, setBack>>

ServerRestarts ==
  /\ Fault /\ connected' = FALSE /\ lastSeq' = 0
  /\ time' = IF setBack \/ lastSeq <= time THEN time ELSE lastSeq \* longer than the milliseconds it counted ahead
  /\ UNCHANGED <<saved, key, skewed, retained, wire, setBack>> /\ UNCHANGED Bridge

Break ==
  /\ Fault /\ connected /\ connected' = FALSE
  /\ UNCHANGED <<saved, key, time, skewed, lastSeq, retained, wire, setBack>> /\ UNCHANGED Bridge

\* The operator mends or breaks the key; the clock is set back; the bridge's clock is behind.
KeyChanges == Fault /\ key' \in {"present", "unusable"} \ {key}
  /\ UNCHANGED <<saved, time, skewed, connected, lastSeq, retained, wire, setBack>> /\ UNCHANGED Bridge
ClockBack == Fault /\ time > 1 /\ time' = time - 1 /\ skewed' = 0 /\ setBack' = TRUE
  /\ UNCHANGED <<saved, key, connected, lastSeq, retained, wire>> /\ UNCHANGED Bridge
BridgeBehind == Fault /\ skewed < time /\ skewed' = skewed + 1
  /\ UNCHANGED <<saved, key, time, connected, lastSeq, retained, wire, setBack>> /\ UNCHANGED Bridge

Tick == time < MaxTime /\ time' = time + 1
  /\ UNCHANGED <<saved, key, skewed, connected, lastSeq, retained, wire, setBack, faults>> /\ UNCHANGED Bridge

Next == Save \/ Connect \/ Refresh \/ AtBridge \/ BridgeRestarts \/ ServerRestarts \/ Break \/ KeyChanges
  \/ ClockBack \/ BridgeBehind \/ Tick

Spec == Init /\ [][Next]_vars

-----------------------------------------------------------------------------
Messages == [version : 1..MaxSaves + 1, seq : Nat, issued : Nat]

TypeOK ==
  /\ saved \in 0..MaxSaves /\ key \in {"missing", "present", "unusable"} /\ time \in Nat
  /\ skewed \in 0..MaxFaults /\ faults \in 0..MaxFaults
  /\ connected \in BOOLEAN /\ setBack \in BOOLEAN /\ lastSeq \in Nat
  /\ retained \in Messages \union {Nothing} /\ wire \in Seq(Messages)
  /\ applied \in 0..MaxSaves + 1 /\ remembered \in 0..MaxSaves + 1 /\ bridgeSeq \in Nat

\* The bridge never goes back to switches older than those it had, whatever restarts, repeats and clocks do, and
\* no message is refused for its counter unless the clock was set back
\* (bridgeSettingsSigning.ts).
SwitchesGoForward ==
  /\ \A i, j \in DOMAIN wire : i < j => wire[i].version <= wire[j].version
  /\ applied # 0 => applied = remembered
  /\ \A i \in DOMAIN wire : wire[i].version >= remembered
  /\ ~setBack => \A i \in DOMAIN wire : wire[i].seq >= bridgeSeq
=============================================================================

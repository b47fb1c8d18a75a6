----------------------------- MODULE MCSettling -----------------------------
(***************************************************************************)
(* The links on a small scale: in each behaviour one of them moves and     *)
(* comes to rest once faults end; the others are switched off, and stay    *)
(* so.                                                                     *)
(***************************************************************************)
EXTENDS Links

CONSTANTS c1, r1, r2, p1, p2

\* A camera of the network, the same with another path and what is left of one of this machine, one of this machine, one without
\* an address, and one that is switched off. A password goes through the environment unless the first camera is yet to come.
Door == [connected |-> TRUE, source |-> "ip", hardware |-> None, host |-> "h", port |-> None, path |-> "live", user |-> "u", pass |-> "p"]
Desk == [connected |-> TRUE, source |-> "usb", hardware |-> "USB_DEV_0", host |-> None, port |-> 0, path |-> None, user |-> None, pass |-> None]
MCKeys == {c1}
MCConfigs == {Door, [Door EXCEPT !.hardware = "0", !.path = None], Desk, [Door EXCEPT !.host = None], [Door EXCEPT !.connected = FALSE]}
MCSlots == 1..2
MCArms == {r1, r2}
MCPhones == {p1, p2}
MCLengths == {1, 3, 5}
MCRequests == 1..3
MCVerbs == {"stop", "go"}
MCMoving == {{part} : part \in {"cameras", "broker", "radio", "frames", "gateway"}}

Moves(part) == part \in moving

Init ==
  /\ LinksInit
  /\ (Moves("cameras") /\ asked[c1] # None => viaEnv) /\ asked[c1] \in (IF Moves("cameras") THEN {None, Door} ELSE {None})
  /\ ~Moves("cameras") => viaEnv
  /\ ~Moves("broker") => said /\ tree = Broker!Nothing
  /\ ~Moves("radio") => ended
  /\ ~Moves("gateway") => ~on /\ verb = [r \in MCRequests |-> "stop"]
  /\ verb[1] = verb[2] /\ verb[3] = "stop" \* three of one verb, or two of one and one of another

\* The timers, the network and the others do their part.
Spec ==
  /\ Init /\ [][LinksNext]_linkVars
  /\ Camera!Fairness /\ Broker!Fairness /\ Radio!Fairness /\ Gateway!Fairness

-----------------------------------------------------------------------------
\* Once saves and faults end: a camera has its one process, which serves, or none (cameraSupervisor.ts); the broker
\* shows the robots as they are (mqttBridge.ts); a phone that listens was told the newest state
\* (ble/bleGateway.ts); and a request to a machine bridge is answered (bridgeGateway.ts).
PartsSettle ==
  /\ Camera!CamerasSettle
  /\ Broker!BrokerCatchesUp
  /\ Radio!PhonesCatchUp
  /\ Gateway!RequestsEnd
=============================================================================

------------------------------- MODULE Access -------------------------------
(***************************************************************************)
(* What lets people, commands and switches in, side by side: the codes of  *)
(* the second factor, the keys of the login tokens, the limits of          *)
(* requests, the tickets, the commands relayed from the broker and the     *)
(* phones, and the signed switches of a machine bridge. They share         *)
(* nothing; in a behaviour some of them move, in any order, and the others *)
(* stay as they are at the start.                                          *)
(***************************************************************************)
EXTENDS Integers

CONSTANTS
  None,
  Together, \* which parts may move in one behaviour
  \* SecondFactor
  RecoveryCodes, FailLimit, MaxWait, MaxEnrolments, MaxStep, MaxFactorFaults,
  \* JwtKeys
  Lifetime, Overlap, MaxSeconds, MaxMade, MaxTokens, MaxKeyFaults,
  \* Requests
  LimitNumbers, Window, MaxMinutes, MaxHits, MaxSignIns,
  MediaLife, InfoLife, MinLife, LongestLife, Configured, Requested, MaxHalfSeconds, MaxTickets, MaxSecrets,
  \* CommandRelays
  Mqtt, Phone, Rate, MaxIssued,
  \* BridgeSwitches
  Expires, Skew, MaxMoments, MaxSaves, MaxSwitchFaults

\* Bounds and numbers are what they are called; a retired key is taken for as long as a token lives, and a limit that is set
\* lets something through.
ASSUME AccessAssumption ==
  /\ {RecoveryCodes, FailLimit, MaxWait, MaxEnrolments, MaxStep, MaxFactorFaults} \subseteq Nat
  /\ {Lifetime, Overlap, MaxSeconds, MaxMade, MaxTokens, MaxKeyFaults} \subseteq Nat
  /\ None \notin Nat /\ Lifetime <= Overlap /\ 1 <= MaxSeconds
  /\ {Window, MaxMinutes, MaxHits, MaxSignIns} \subseteq Nat
  /\ LimitNumbers \subseteq Nat \ {0}
  /\ {MediaLife, InfoLife, MinLife, LongestLife, MaxHalfSeconds, MaxTickets, MaxSecrets} \subseteq Nat
  /\ MinLife <= InfoLife /\ InfoLife <= LongestLife /\ MinLife <= MediaLife
  /\ Configured \union Requested \subseteq Nat \union {None}
  /\ {Rate, MaxIssued} \subseteq Nat /\ Mqtt \intersect Phone = {}
  /\ {Expires, Skew, MaxMoments, MaxSaves, MaxSwitchFaults} \subseteq Nat

VARIABLE together

\* SecondFactor
VARIABLES memory, factorDisk, fails, clock, begun, worked, twice, factorFaults
factorVars == <<memory, factorDisk, fails, clock, begun, worked, twice, factorFaults>>
Factor == INSTANCE SecondFactor WITH
  MaxSecrets <- MaxEnrolments, MaxFaults <- MaxFactorFaults, disk <- factorDisk, faults <- factorFaults

\* JwtKeys
VARIABLES keys, keyFile, policy, up, seconds, tokens, keysMade, keyFaults
keyVars == <<keys, keyFile, policy, up, seconds, tokens, keysMade, keyFaults>>
Jwt == INSTANCE JwtKeys WITH
  MaxTime <- MaxSeconds, MaxFaults <- MaxKeyFaults,
  file <- keyFile, clock <- seconds, made <- keysMade, faults <- keyFaults

\* Requests: two parts
VARIABLES minute, limiting, number, built, hits, until, signing, failed, late, held
VARIABLES now, secret, options, tickets, opened
limitVars == <<minute, limiting, number, built, hits, until, signing, failed, late, held>>
ticketVars == <<now, secret, options, tickets, opened>>
Limit == INSTANCE Requests WITH
  Numbers <- LimitNumbers, MaxTime <- MaxMinutes, TicketTime <- MaxHalfSeconds, clock <- minute, enabled <- limiting, open <- signing

\* CommandRelays
VARIABLES stage, holds, tries, done, reply, cached, issued, alive, window, bucket
relayVars == <<stage, holds, tries, done, reply, cached, issued, alive, window, bucket>>
Relay == INSTANCE CommandRelays WITH MaxTokens <- MaxIssued

\* BridgeSwitches
VARIABLES switches, key, time, skewed, connected, lastSeq, retained, wire, applied, bridgeSeq, remembered, setBack, switchFaults
switchVars == <<switches, key, time, skewed, connected, lastSeq, retained, wire, applied, bridgeSeq, remembered, setBack, switchFaults>>
Switches == INSTANCE BridgeSwitches WITH
  MaxTime <- MaxMoments, MaxFaults <- MaxSwitchFaults, saved <- switches, faults <- switchFaults

accessVars == <<together, factorVars, keyVars, limitVars, ticketVars, relayVars, switchVars>>

Parts == {"factor", "keys", "limits", "tickets", "relays", "switches"}

\* A part that does not move has one start.
AccessInit ==
  /\ together \in Together
  /\ Factor!Init /\ Jwt!Init
  /\ Limit!Init /\ ("limits" \notin together => number = CHOOSE n \in LimitNumbers : TRUE)
  /\ Limit!TicketInit /\ ("tickets" \notin together => options.limits = CHOOSE lives \in Limit!Lives : TRUE)
  /\ Relay!Init /\ ("relays" \notin together => alive = {})
  /\ Switches!Init /\ ("switches" \notin together => key = "present")

\* One part takes a step.
Step(part) ==
  /\ IF part = "factor" THEN Factor!Next ELSE UNCHANGED factorVars
  /\ IF part = "keys" THEN Jwt!Next ELSE UNCHANGED keyVars
  /\ IF part = "limits" THEN Limit!Next ELSE UNCHANGED limitVars
  /\ IF part = "tickets" THEN Limit!TicketNext ELSE UNCHANGED ticketVars
  /\ IF part = "relays" THEN Relay!Next ELSE UNCHANGED relayVars
  /\ IF part = "switches" THEN Switches!Next ELSE UNCHANGED switchVars

AccessNext ==
  /\ together' = together
  /\ \E part \in together : Step(part)

AccessSpec == AccessInit /\ [][AccessNext]_accessVars

-----------------------------------------------------------------------------
\* Every variable has its type, and no table exceeds its limit.
AccessTypeOK ==
  /\ Factor!TypeOK /\ Jwt!TypeOK
  /\ Limit!TypeOK /\ Limit!TicketTypeOK
  /\ Relay!TypeOK /\ Switches!TypeOK

\* A code of the second factor lets somebody in once, and the file knows it (totp.ts); one key signs the tokens, and a token
\* that was issued verifies until it expires (jwtKeys.ts); the limits of requests count failed sign-ins alone and hold back no
\* stop (auth.ts); a ticket opens what it was issued for while it lives (mediaTickets.ts, infoTickets.ts).
SignInsAreTrue ==
  /\ Factor!CodesWorkOnce /\ Factor!NothingUsedOnDisk
  /\ Jwt!OneKeySigns /\ Jwt!TokensLive
  /\ Limit!OnlyFailuresCount /\ Limit!StopsGoThrough
  /\ Limit!TicketsOpenTheirOwn /\ ("tickets" \in together /\ now = 0 /\ tickets = {} => Limit!LivesAreBounded)

\* A command that comes over the broker or from a phone is carried out at most once and its reply says what happened
\* (mqttBridge.ts, ble/bleGateway.ts), and the switches of a bridge never go back (bridgeSettingsSigning.ts).
CommandsComeOnce ==
  /\ Relay!RepliesAreTrue
  /\ Switches!SwitchesGoForward
=============================================================================

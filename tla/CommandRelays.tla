--------------------------- MODULE CommandRelays ---------------------------
(***************************************************************************)
(* Commands that reach the server over the broker (mqttBridge.ts) and over *)
(* Bluetooth (ble/bleGateway.ts): each is checked, held to a pace, and     *)
(* carried out by the command route of this same server over the loopback  *)
(* address (ble/start.ts); the answer of the route is the reply.  The      *)
(* broker's commands travel with one account, whose token is kept until    *)
(* the route says it ended; a phone presents its own.                      *)
(***************************************************************************)
EXTENDS Naturals, FiniteSets

CONSTANTS
  Mqtt, Phone,  \* commands that arrive over the broker, and over a Bluetooth link
  Rate,         \* commandsPerSecond
  MaxTokens     \* bound: sign-ins of the account

VARIABLES
  stage,        \* [command -> where it is]
  holds,        \* [command -> the token it travels with], 0: none yet
  tries,        \* [command -> requests made to the route]
  done,         \* [command -> times the route carried it out]
  reply,        \* [command -> the code of the reply]
  cached,       \* the token the account keeps, 0: none
  issued,       \* tokens given so far
  alive,        \* the tokens the server still accepts
  window,       \* commands counted against the pace of the broker in this second
  bucket        \* commands the link may still send before it is held back

vars == <<stage, holds, tries, done, reply, cached, issued, alive, window, bucket>>

Commands == Mqtt \cup Phone
PhoneToken == MaxTokens + 1

Init ==
  /\ stage = [c \in Commands |-> "sent"] /\ holds = [c \in Commands |-> 0]
  /\ tries = [c \in Commands |-> 0] /\ done = [c \in Commands |-> 0] /\ reply = [c \in Commands |-> "none"]
  /\ cached = 0 /\ issued = 0 /\ alive \in {{}, {PhoneToken}}
  /\ window = 0 /\ bucket = 2 * Rate

Answer(c, code) == stage' = [stage EXCEPT ![c] = "answered"] /\ reply' = [reply EXCEPT ![c] = code]
SameAccount == UNCHANGED <<cached, issued, alive>>

\* account.token(): the kept one, or a sign-in.
Travels(c) ==
  IF cached # 0
    THEN stage' = [stage EXCEPT ![c] = "asked"] /\ holds' = [holds EXCEPT ![c] = cached]
    ELSE stage' = [stage EXCEPT ![c] = "signing"] /\ UNCHANGED holds

\* onMessage up to its first await; a stop is not counted against the pace.
MqttArrives(c) ==
  /\ c \in Mqtt /\ stage[c] = "sent"
  /\ UNCHANGED <<tries, done, bucket>> /\ SameAccount
  /\ \/ Answer(c, "refused") /\ UNCHANGED <<holds, window>> \* unknown-command, payload-too-large, invalid-payload
     \/ Travels(c) /\ UNCHANGED <<reply, window>>           \* stop
     \/ /\ window' = IF window > Rate THEN window ELSE window + 1 \* the count past the limit is all the same
        /\ IF window >= Rate
             THEN Answer(c, "rate-limited") /\ UNCHANGED holds
             ELSE Travels(c) /\ UNCHANGED reply

\* handleCommand up to its first await.
PhoneArrives(c) ==
  /\ c \in Phone /\ stage[c] = "sent"
  /\ UNCHANGED <<tries, done, window>> /\ SameAccount
  /\ \/ Answer(c, "refused") /\ UNCHANGED <<holds, bucket>> \* malformed, token-required, commands-disabled...
     \/ /\ stage' = [stage EXCEPT ![c] = "asked"] /\ holds' = [holds EXCEPT ![c] = PhoneToken]
        /\ bucket' \in {bucket} \cup {b \in {bucket - 1} : bucket >= 1} \* a stop takes nothing from the bucket
        /\ UNCHANGED reply
     \/ bucket < 1 /\ Answer(c, "rate-limited") /\ UNCHANGED <<holds, bucket>>

\* The answer of POST /api/login: a token, or none (the account changed, the limit of sign-ins, no answer).
SignedIn(c) ==
  /\ stage[c] \in {"signing", "again"}
  /\ \/ /\ issued < MaxTokens /\ issued' = issued + 1
        /\ alive' = alive \cup {issued'} /\ cached' = issued'
        /\ stage' = [stage EXCEPT ![c] = "asked"] /\ holds' = [holds EXCEPT ![c] = issued']
        /\ UNCHANGED reply
     \/ cached' = 0 /\ Answer(c, "session-expired") /\ UNCHANGED <<issued, alive, holds>>
  /\ UNCHANGED <<tries, done, window, bucket>>

\* What the route says: it never reached it or its answer was lost (unreachable), or the session ended before
\* anything was done, or it carried the command out or refused it.
Outcomes(c) ==
  IF holds[c] \in alive
    THEN {<<"ok", 1>>, <<"rejected", 0>>, <<"unreachable", 0>>, <<"unreachable", 1>>}
    ELSE {<<"session-expired", 0>>, <<"unreachable", 0>>}

\* A variant that also repeats a request without an answer.
MayRetryUnreachable(code) == code \in {"session-expired", "unreachable"}
\* The request is made once more with a new token when the session had ended.
MayRetry(code) == code = "session-expired"

RouteAnswers(c) ==
  /\ stage[c] = "asked"
  /\ \E o \in Outcomes(c) :
       /\ done' = [done EXCEPT ![c] = @ + o[2]]
       /\ tries' = [tries EXCEPT ![c] = @ + 1]
       /\ IF c \in Mqtt /\ tries[c] = 0 /\ MayRetry(o[1])
            THEN cached' = 0 /\ stage' = [stage EXCEPT ![c] = "again"] /\ UNCHANGED reply
            ELSE Answer(c, o[1]) /\ UNCHANGED cached
  /\ UNCHANGED <<holds, issued, alive, window, bucket>>

\* A session ends: it expires, or an administrator ends it.
SessionEnds == \E t \in alive :
  /\ alive' = alive \ {t}
  /\ UNCHANGED <<stage, holds, tries, done, reply, cached, issued, window, bucket>>

\* Variant: the bucket of the link has no brim.
SecondWithoutBrim ==
  /\ window' = 0 /\ bucket' = bucket + Rate
  /\ UNCHANGED <<stage, holds, tries, done, reply, cached, issued, alive>>

\* A second passes: a new window, and the bucket of the link fills up again.
Second ==
  /\ window' = 0 /\ bucket' = IF bucket + Rate > 2 * Rate THEN 2 * Rate ELSE bucket + Rate
  /\ UNCHANGED <<stage, holds, tries, done, reply, cached, issued, alive>>

Next ==
  \/ \E c \in Commands : MqttArrives(c) \/ PhoneArrives(c) \/ SignedIn(c) \/ RouteAnswers(c)
  \/ SessionEnds \/ Second

Spec == Init /\ [][Next]_vars

-----------------------------------------------------------------------------
Replies == {"none", "refused", "rate-limited", "rejected", "unreachable", "session-expired", "ok"}

TypeOK ==
  /\ reply \in [Commands -> Replies]
  /\ stage \in [Commands -> {"sent", "signing", "again", "asked", "answered"}]
  /\ holds \in [Commands -> 0..PhoneToken] /\ tries \in [Commands -> 0..2] /\ done \in [Commands -> 0..2]
  /\ cached \in 0..MaxTokens /\ issued \in 0..MaxTokens /\ alive \subseteq 1..PhoneToken
  /\ window \in 0..(Rate + 1) /\ bucket \in 0..(2 * Rate)

\* A command is carried out at most once whatever its sessions and answers go through, and its reply says it:
\* ok when it was, anything but "unreachable" else when it was not (mqttBridge.ts, ble/bleGateway.ts).
RepliesAreTrue == \A c \in Commands :
  /\ done[c] <= 1
  /\ reply[c] = "ok" => done[c] = 1
  /\ reply[c] \in {"refused", "rate-limited", "rejected", "session-expired"} => done[c] = 0
=============================================================================

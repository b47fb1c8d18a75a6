--------------------------- MODULE ServiceSwitches ---------------------------
(***************************************************************************)
(* The relays to sibling services that change something there              *)
(* (routes/upstreamRoutes.ts): three switches, the decision on a proposal  *)
(* of the node watchdog, and the flash of a firmware image.  The service   *)
(* has the last word; this server checks the request, carries it, passes   *)
(* the answer on and writes the attempt to its audit record.               *)
(***************************************************************************)
EXTENDS Integers, Sequences, FiniteSets

CONSTANTS Requests,    \* the requests of one behaviour
          Configured,  \* the services that this server knows an address of
          Users,       \* who may speak
          SafeNames,   \* those whose name can be the subject of a confirmation
          Ids,         \* the names clients give to their requests
          MaxTurns, MaxAsks, MaxVoiceFaults,
          None

VARIABLES switch, proposal, image, request, record, made

vars == <<switch, proposal, image, request, record, made>>

Switch == {"gate", "planner", "twin"}
Kinds == Switch \union {"proposal", "flash"}

\* What needs a confirmation: to open the gate, to relax the planner, any change of the twin, to approve.
Risky(what, to) ==
  \/ what = "gate" /\ to
  \/ what = "planner" /\ ~to
  \/ what = "twin"
  \/ what = "proposal" /\ to

Init ==
  /\ switch = [s \in Switch |-> s = "planner"] /\ proposal = "pending" /\ image = "old"
  /\ request = [r \in Requests |-> None]
  /\ record = {} /\ made = {}

Line(r, outcome) == record \union {[of |-> r, outcome |-> outcome]}

\* ---- a request of an administrator --------------------------------------

Arrives(r, what, to, confirm, stage, status) ==
  /\ request[r] = None
  /\ request' = [request EXCEPT ![r] =
       [what |-> what, to |-> to, confirm |-> confirm, stage |-> stage, status |-> status, phase |-> "unknown", here |-> TRUE]]
  /\ UNCHANGED <<switch, proposal, image, made>>

\* A body that is not what it should be is refused before anything leaves, with a line in the record unless it was a flash.
Malformed(r, what) ==
  /\ Arrives(r, what, FALSE, FALSE, "closed", 400)
  /\ record' = IF what = "flash" THEN record ELSE Line(r, "refused")

\* So is what needs a confirmation and has none; a service without an address is answered for with 503.
Post(r, what, to, confirm) ==
  LET refused == Risky(what, to) /\ ~confirm
  IN  /\ what = "flash" => to /\ confirm
      /\ IF refused THEN Arrives(r, what, to, confirm, "closed", 400)
         ELSE IF what \in Configured THEN Arrives(r, what, to, confirm, "sent", 0)
         ELSE Arrives(r, what, to, confirm, "answered", 503)
      /\ record' = IF refused THEN Line(r, "refused") ELSE record

To(r, stage) == request[r] # None /\ request[r].stage = stage

Moves(r, stage, status) == request' = [request EXCEPT ![r].stage = stage, ![r].status = status]

\* ---- the services -------------------------------------------------------

\* The service does what it is asked and answers 200.
ServiceSwitches(r) ==
  /\ To(r, "sent") /\ request[r].what \in Switch
  /\ switch' = [switch EXCEPT ![request[r].what] = request[r].to]
  /\ made' = made \union {r}
  /\ Moves(r, "replied", 200)
  /\ UNCHANGED <<proposal, image, record>>

\* A proposal that still waits is decided once; the watchdog refuses another decision.
WatchdogDecides(r) ==
  /\ To(r, "sent") /\ request[r].what = "proposal"
  /\ IF proposal = "pending"
       THEN /\ proposal' = IF request[r].to THEN "approved" ELSE "rejected"
            /\ made' = made \union {r} /\ Moves(r, "replied", 200)
       ELSE Moves(r, "replied", 404) /\ UNCHANGED <<proposal, made>>
  /\ UNCHANGED <<switch, image, record>>

\* The service refuses: it does not believe the token, wants a confirmation or more, or is broken.
ServiceRefuses(r) ==
  /\ To(r, "sent")
  /\ \E status \in {403, 500} : Moves(r, "replied", status)
  /\ UNCHANGED <<switch, proposal, image, record, made>>

\* The bridge to the boards takes the image and tells its phases one after the other.
FlashStarts(r) ==
  /\ To(r, "sent") /\ request[r].what = "flash"
  /\ image' = "partial" /\ Moves(r, "streaming", 0)
  /\ UNCHANGED <<switch, proposal, record, made>>

\* Each line of progress goes to the open connections of administrators; the last one is not read when its end of line is
\* missing.
Progress(r) ==
  /\ To(r, "streaming") /\ r \notin made
  /\ \E phase \in {"writing", "failed", "done"}, read \in BOOLEAN :
       /\ ~read => phase = "done"
       /\ request' = IF read THEN [request EXCEPT ![r].phase = phase] ELSE request
       /\ image' = IF phase = "done" THEN "new" ELSE image
       /\ made' = IF phase = "done" THEN made \union {r} ELSE made
  /\ UNCHANGED <<switch, proposal, record>>

\* What a flash is answered with: success when the last phase that was read is the end.
Success(r) == request[r].status = 200 /\ request[r].phase = "done"

StreamEnds(r) ==
  /\ To(r, "streaming")
  /\ \E whole \in BOOLEAN : Moves(r, "answered", IF whole THEN 200 ELSE 502)
  /\ UNCHANGED <<switch, proposal, image, record, made>>

\* ---- the answer ---------------------------------------------------------

\* The answer of the service comes back as it is.
Reply(r) ==
  /\ To(r, "replied")
  /\ Moves(r, "answered", IF request[r].what = "flash" THEN 502 ELSE request[r].status)
  /\ UNCHANGED <<switch, proposal, image, record, made>>

\* The service is not reached, or its answer does not come in time: whether it acted is not known here.
NoReply(r) ==
  /\ To(r, "sent") \/ To(r, "replied")
  /\ Moves(r, "answered", 503)
  /\ UNCHANGED <<switch, proposal, image, record, made>>

\* The client closes its connection, which matters to the switches alone.
Leaves(r) ==
  /\ request[r] # None /\ request[r].here /\ request[r].stage # "closed" /\ request[r].what \in Switch
  /\ request' = [request EXCEPT ![r].here = FALSE]
  /\ UNCHANGED <<switch, proposal, image, record, made>>

Outcome(status) == IF status = 200 THEN "ok" ELSE IF status >= 500 THEN "failed" ELSE "refused"

\* The response is handed over. The line of a switch is written when the whole response was handed over, so not when the
\* client has gone; the line of a decision is written by the handler itself; a flash has none.
Respond(r) ==
  /\ To(r, "answered")
  /\ request' = [request EXCEPT ![r].stage = "closed"]
  /\ record' = IF request[r].what = "proposal" \/ (request[r].what \in Switch /\ request[r].here)
                 THEN Line(r, Outcome(request[r].status)) ELSE record
  /\ UNCHANGED <<switch, proposal, image, made>>

Next ==
  \E r \in Requests :
    \/ \E what \in Kinds : Malformed(r, what) \/ \E to, confirm \in BOOLEAN : Post(r, what, to, confirm)
    \/ ServiceSwitches(r) \/ WatchdogDecides(r) \/ ServiceRefuses(r)
    \/ FlashStarts(r) \/ Progress(r) \/ StreamEnds(r)
    \/ Reply(r) \/ NoReply(r) \/ Leaves(r) \/ Respond(r)

Spec == Init /\ [][Next]_vars

-----------------------------------------------------------------------------

TypeOK ==
  /\ switch \in [Switch -> BOOLEAN] /\ proposal \in {"pending", "approved", "rejected"} /\ image \in {"old", "partial", "new"}
  /\ \A r \in Requests : request[r] # None => request[r].what \in Kinds
  /\ made \subseteq Requests /\ \A line \in record : line.of \in Requests /\ line.outcome \in {"ok", "refused", "failed"}

\* The record says ok only of what the service did, and says refused of nothing that it did (the routes of upstreamRoutes.ts),
\* with late answers, refusals and clients that go away in between.
RecordIsTrue ==
  \A line \in record :
    /\ line.outcome = "ok" => line.of \in made
    /\ line.outcome = "refused" => line.of \notin made

\* Whatever a service did for a request is in the record once the request is over, unless it was a flash or the client of a
\* switch went away before the answer.
MadeIsRecorded ==
  \A r \in made : request[r].stage = "closed" /\ request[r].what # "flash" /\ (request[r].here \/ request[r].what = "proposal")
                    => \E line \in record : line.of = r

\* Nothing risky was done for a request without its confirmation, and what was decided was decided by one request.
RiskIsConfirmed ==
  /\ \A r \in made : request[r].what # "flash" /\ Risky(request[r].what, request[r].to) => request[r].confirm
  /\ Cardinality({r \in made : request[r].what = "proposal"}) <= 1

\* A flash is answered with success only when the bridge told its end.
FlashIsTrue == \A r \in Requests : request[r] # None /\ request[r].what = "flash" /\ Success(r) => r \in made
-----------------------------------------------------------------------------
(* Spoken requests.  The Voice UI gives a token with a request that moves something, and confirms it for its subject once.  Its *)
(* answer is believed when it is signed with the key that both know.                                                            *)

VARIABLES spoken,       \* the tokens in the order they were given
          signed,       \* the results that the Voice UI signed
          asking,       \* the confirmation that each user waits for
          told,         \* what was answered as confirmed, and to whom
          rule,         \* what the administrator and the environment say
          asks, voiceFaults

voiceVars == <<spoken, signed, asking, told, rule, asks, voiceFaults>>

\* A key of fewer than 16 characters is no key; the words are "1", another one, and none.
Rules == [key : {"none", "short", "shared", "another"}, word : {"", "1", "yes"}, option : BOOLEAN, remote : BOOLEAN]

VoiceInit ==
  /\ spoken = <<>> /\ signed = {} /\ told = {} /\ asking = [u \in Users |-> None] /\ asks = 0 /\ voiceFaults = 0
  /\ rule = [key |-> "shared", word |-> "", option |-> FALSE, remote |-> TRUE]

SubjectOf(u) == IF u \in SafeNames THEN u ELSE None

VoiceResultKey == IF rule.key \in {"shared", "another"} THEN rule.key ELSE None

\* A word of the environment decides, also an odd one; the saved option is asked when there is none.
RequireSignature == IF rule.word # "" THEN rule.word = "1" ELSE rule.option

\* The HMAC covers the signed fields in one order; two results have the same only when those are the same.
SignResult(result, key) == [key |-> key, status |-> result.status, id |-> result.id, subject |-> result.subject]

Signed(result, key) == [result EXCEPT !.signature = SignResult(result, key)]

Verifies(result, key) == result.signature = SignResult(result, key)

\* What leaves for the Voice UI names the user of the session; what the client says of a subject is taken out.
Forwarded(u, claimed) == SubjectOf(u)
ForwardedVariant(u, claimed) == claimed

\* A spoken request, when the client is let in (TogglesKeepOut of Decisions) and the address of the Voice UI is known. The reply
\* is passed on when it answers this very request, and with it the token.
VoiceTurn(u, id, claimed) ==
  /\ rule.remote /\ Len(spoken) < MaxTurns
  /\ \E passed \in BOOLEAN :
       spoken' = Append(spoken, [id |-> id, subject |-> Forwarded(u, claimed), by |-> u, used |-> FALSE, passed |-> passed])
  /\ UNCHANGED <<signed, asking, told, rule, asks, voiceFaults>>

\* A user confirms a token that somebody was given, not only the one who asked.
VoiceConfirm(u, t) ==
  /\ rule.remote /\ SubjectOf(u) # None /\ asking[u] = None /\ asks < MaxAsks /\ spoken[t].passed
  /\ asks' = asks + 1 /\ asking' = [asking EXCEPT ![u] = [token |-> t, result |-> None]]
  /\ UNCHANGED <<spoken, signed, told, rule, voiceFaults>>

Waits(u) == asking[u] # None /\ asking[u].result = None

Result(status, id, subject) == [status |-> status, id |-> id, subject |-> subject, signature |-> None]

Comes(u, result) == asking' = [asking EXCEPT ![u].result = result]

\* The Voice UI confirms an unused token for its own subject, once, and says of any other that it is invalid.
VoiceUIAnswers(u) ==
  /\ Waits(u)
  /\ LET t == asking[u].token
         good == ~spoken[t].used /\ spoken[t].subject = SubjectOf(u)
         result == IF good THEN Signed(Result("confirmed", spoken[t].id, SubjectOf(u)), "shared") ELSE Result("invalid", None, None)
     IN  /\ Comes(u, result)
         /\ spoken' = IF good THEN [spoken EXCEPT ![t].used = TRUE] ELSE spoken
         /\ signed' = IF good THEN signed \union {result} ELSE signed
  /\ UNCHANGED <<told, rule, asks, voiceFaults>>

\* Something else answers in its place: an older result, one that was changed, or one that was made without the key.
OtherAnswers(u) ==
  /\ Waits(u) /\ voiceFaults < MaxVoiceFaults /\ voiceFaults' = voiceFaults + 1
  /\ \/ \E old \in signed : Comes(u, old)
     \/ \E old \in signed, id \in Ids, v \in Users : Comes(u, [old EXCEPT !.id = id, !.subject = v])
     \/ \E id \in Ids \union {None}, v \in Users : Comes(u, Result("confirmed", id, v))
     \/ \E id \in Ids, v \in Users : Comes(u, Signed(Result("confirmed", id, v), "guessed"))
  /\ UNCHANGED <<spoken, signed, told, rule, asks>>

\* What becomes of a confirmed result: the status of a refusal, or 200 and whether it was verified.
Refused(status) == [status |-> status, verified |-> FALSE]
Judge(result, subject) ==
  IF result.id = None THEN Refused(502)
  ELSE IF result.subject # subject THEN Refused(502)
  ELSE IF VoiceResultKey = None THEN Refused(IF RequireSignature THEN 503 ELSE 200)
  ELSE [status |-> IF Verifies(result, VoiceResultKey) THEN 200 ELSE 502, verified |-> TRUE]
JudgeVariant(result, subject) ==
  IF result.id = None THEN Refused(502)
  ELSE IF VoiceResultKey = None THEN Refused(IF RequireSignature THEN 503 ELSE 200)
  ELSE [status |-> IF Verifies(result, VoiceResultKey) THEN 200 ELSE 502, verified |-> TRUE]

\* The answer is judged by the keys and the rule of now; one that confirms nothing is passed on as it is.
VoiceAnswered(u) ==
  /\ asking[u] # None /\ asking[u].result # None
  /\ LET result == asking[u].result
         verdict == Judge(result, SubjectOf(u))
     IN  told' = IF result.status = "confirmed" /\ verdict.status = 200
                   THEN told \union {[user |-> u, id |-> result.id, verified |-> verdict.verified]} ELSE told
  /\ asking' = [asking EXCEPT ![u] = None]
  /\ UNCHANGED <<spoken, signed, rule, asks, voiceFaults>>

\* No answer in time, one that is not ok or no object: the user is told so, the Voice UI may have used up the token.
VoiceUnanswered(u) ==
  /\ asking[u] # None /\ asking' = [asking EXCEPT ![u] = None]
  /\ UNCHANGED <<spoken, signed, told, rule, asks, voiceFaults>>

\* The environment and the saved options change, each read when it is used.
VoiceRule ==
  /\ voiceFaults < MaxVoiceFaults /\ voiceFaults' = voiceFaults + 1
  /\ rule' \in Rules
  /\ UNCHANGED <<spoken, signed, asking, told, asks>>

VoiceNext ==
  \/ VoiceRule
  \/ \E u \in Users :
       \/ \E id \in Ids, claimed \in Users \union {None} : VoiceTurn(u, id, claimed)
       \/ \E t \in DOMAIN spoken : VoiceConfirm(u, t)
       \/ VoiceUIAnswers(u) \/ OtherAnswers(u) \/ VoiceAnswered(u) \/ VoiceUnanswered(u)

VoiceTypeOK ==
  /\ rule \in Rules /\ Len(spoken) <= MaxTurns
  /\ told \subseteq [user : SafeNames, id : Ids, verified : BOOLEAN]
  /\ \A result \in signed : result.signature = SignResult(result, "shared")

\* What is told as verified is a request that this very user made, and confirmed to the Voice UI (voiceConfirm.ts:1-12); a user
\* whose name cannot be a subject is told nothing.
VerifiedIsTheirs ==
  /\ \A a \in told : a.verified => \E t \in DOMAIN spoken : spoken[t].by = a.user /\ spoken[t].id = a.id /\ spoken[t].used
  /\ \A u \in Users \ SafeNames : asking[u] = None
=============================================================================

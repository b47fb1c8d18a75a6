------------------------------- MODULE Outbound -------------------------------
(***************************************************************************)
(* What the server sends out by itself: the numbers of the robots to the   *)
(* collector (telemetryProducer.ts), notifications to the phones           *)
(* (pushNotifications.ts, routes/pushRoutes.ts), and signed requests to    *)
(* the edge node (opsAgentChannel.ts).  The parts share nothing: each has  *)
(* its variables, its initial states and its steps; the connection to the  *)
(* push service is a part of its own.                                      *)
(***************************************************************************)
EXTENDS Naturals, Sequences, FiniteSets, SequencesExt

CONSTANTS
  None,
  Sources,      \* robots
  MaxSources,   \* sources that may wait; MAX_SOURCES
  MaxRecords,   \* bound: deltas recorded
  MaxTime,      \* bound: the clock of the channel to the edge
  Tokens, Accounts, MaxDevices, MaxEvents, MaxFaults,
  Window,       \* replayWindowSeconds
  MaxReplies,   \* bound: requests to the edge
  TokenLife, TokenHour,  \* a provider token is used so long, and is good so long; in quarters of an hour
  MaxSessions, MaxSends, MaxQuarters

-----------------------------------------------------------------------------
\* The telemetry producer.

VARIABLES
  pending,      \* [Sources -> newest value that waits], 0: none
  sequences,    \* [Sources -> samples taken]
  outbox,       \* samples taken by the flush under way that are not posted yet
  posting,      \* the sample whose answer is awaited
  paused,       \* failure pause
  recorded,     \* deltas recorded so far
  collector     \* samples posted, in order
telemetryVars == <<pending, sequences, outbox, posting, paused, recorded, collector>>

Samples == [source : Sources, value : 1..MaxRecords, sequence : 1..MaxRecords]

TelemetryInit ==
  /\ pending = [s \in Sources |-> 0] /\ sequences = [s \in Sources |-> 0] /\ outbox = <<>> /\ posting = None
  /\ paused = FALSE /\ recorded = 0 /\ collector = <<>>

Waiting == {s \in Sources : pending[s] # 0}

\* record: the newest number of a field wins; a source too many is dropped.
Record(s) ==
  /\ recorded < MaxRecords /\ recorded' = recorded + 1
  /\ pending' = IF s \in Waiting \/ Cardinality(Waiting) < MaxSources THEN [pending EXCEPT ![s] = recorded'] ELSE pending
  /\ UNCHANGED <<sequences, outbox, posting, paused, collector>>

\* flush may begin when none is under way and the last did not fail a moment ago.
Sending == outbox # <<>> \/ posting # None
MayFlush == ~Sending /\ Waiting # {} /\ ~paused

\* takeSamples: everything that waits, each source with its next number.
Flush ==
  /\ MayFlush
  /\ LET ids == SetToSeq(Waiting) IN
       outbox' = [i \in DOMAIN ids |-> [source |-> ids[i], value |-> pending[ids[i]], sequence |-> sequences[ids[i]] + 1]]
  /\ sequences' = [s \in Sources |-> sequences[s] + IF s \in Waiting THEN 1 ELSE 0]
  /\ pending' = [s \in Sources |-> 0]
  /\ UNCHANGED <<posting, paused, recorded, collector>>

Post ==
  /\ posting = None /\ outbox # <<>>
  /\ posting' = Head(outbox) /\ outbox' = Tail(outbox) /\ collector' = Append(collector, Head(outbox))
  /\ UNCHANGED <<pending, sequences, paused, recorded>>

\* The answer: taken or refused, and the next follows; an outage drops the rest and pauses.
Posted ==
  /\ posting # None /\ posting' = None
  /\ \/ UNCHANGED <<outbox, paused>>
     \/ outbox' = <<>> /\ paused' = TRUE
  /\ UNCHANGED <<pending, sequences, recorded, collector>>

PauseEnds == paused /\ paused' = FALSE /\ UNCHANGED <<pending, sequences, outbox, posting, recorded, collector>>

TelemetryNext == Flush \/ Post \/ Posted \/ PauseEnds \/ \E s \in Sources : Record(s)

TelemetryTypeOK ==
  /\ pending \in [Sources -> 0..MaxRecords] /\ Cardinality(Waiting) <= MaxSources
  /\ Range(outbox) \subseteq Samples /\ posting \in Samples \cup {None}

\* The collector is never sent an older sample of a robot after a newer one, nor a number twice.
SamplesInOrder == \A i, j \in DOMAIN collector : i < j /\ collector[i].source = collector[j].source =>
  collector[i].sequence < collector[j].sequence /\ collector[i].value < collector[j].value

-----------------------------------------------------------------------------
\* The phones and the push service.

VARIABLES
  devices,      \* [Tokens -> account], None: not registered
  stored,       \* the same in the file
  owed,         \* registrations that were answered and nobody has taken back
  dead,         \* tokens the push service no longer knows
  loops,        \* notifications under way: what of the snapshot of the devices is left
  notified,     \* pairs <<event, token>> sent
  events, pushFaults
pushVars == <<devices, stored, owed, dead, loops, notified, events, pushFaults>>

NoDevices == [t \in Tokens |-> None]
Registered == {t \in Tokens : devices[t] # None}

PushInit ==
  /\ devices = NoDevices /\ stored = NoDevices /\ owed = NoDevices /\ dead = {} /\ loops = [e \in 1..MaxEvents |-> {}]
  /\ notified = {} /\ events = 0 /\ pushFaults = 0

\* save(): the whole list over a temporary file; a failure leaves the old file and the request fails.
SaveFails == pushFaults < MaxFaults /\ pushFaults' = pushFaults + 1 /\ UNCHANGED stored
Saved == stored' = devices' /\ UNCHANGED pushFaults

\* register: a token seen again moves to the account that registered it last.
Register(t, a) ==
  /\ t \in Registered \/ Cardinality(Registered) < MaxDevices
  /\ devices' = [devices EXCEPT ![t] = a]
  /\ \/ Saved /\ owed' = [owed EXCEPT ![t] = a]
     \/ SaveFails /\ owed' = [owed EXCEPT ![t] = None] \* it is not known whether the old one or the new one stands
  /\ UNCHANGED <<dead, loops, notified, events>>

Without(ts) == [t \in Tokens |-> IF t \in ts THEN None ELSE devices[t]]
Dropped(ts) ==
  /\ devices' = Without(ts) /\ owed' = [t \in Tokens |-> IF t \in ts THEN None ELSE owed[t]]
  /\ IF ts \cap Registered = {} THEN UNCHANGED <<stored, pushFaults>> ELSE Saved \/ SaveFails

\* remove by its account, and removeAccount.
Unregister(t, a) == Dropped({t} \cap {u \in Tokens : devices[u] = a}) /\ UNCHANGED <<dead, loops, notified, events>>
RemoveAccount(a) == Dropped({u \in Tokens : devices[u] = a}) /\ UNCHANGED <<dead, loops, notified, events>>

\* notify: the devices of the moment, one after another.
Event ==
  /\ events < MaxEvents /\ events' = events + 1
  /\ loops' = [loops EXCEPT ![events'] = Registered]
  /\ UNCHANGED <<devices, stored, owed, dead, notified, pushFaults>>

\* One of them is sent and answered: a token the service no longer knows is removed, whoever has it now.
Notify(e, t) ==
  /\ t \in loops[e] /\ loops' = [loops EXCEPT ![e] = @ \ {t}]
  /\ notified' = notified \cup {<<e, t>>}
  /\ IF t \in dead THEN Dropped({t}) ELSE UNCHANGED <<devices, stored, owed, pushFaults>>
  /\ UNCHANGED <<dead, events>>

TokenDies(t) == t \notin dead /\ dead' = dead \cup {t}
  /\ UNCHANGED <<devices, stored, owed, loops, notified, events, pushFaults>>

PushRestart ==
  /\ pushFaults < MaxFaults /\ pushFaults' = pushFaults + 1
  /\ devices' = stored /\ loops' = [e \in 1..MaxEvents |-> {}]
  /\ UNCHANGED <<stored, owed, dead, notified, events>>

PushNext ==
  \/ Event \/ PushRestart
  \/ \E t \in Tokens : TokenDies(t) \/ (\E e \in 1..MaxEvents : Notify(e, t))
       \/ (\E a \in Accounts : Register(t, a) \/ Unregister(t, a))
  \/ \E a \in Accounts : RemoveAccount(a)

PushTypeOK == devices \in [Tokens -> Accounts \cup {None}] /\ Cardinality(Registered) <= MaxDevices

\* A phone whose registration was answered stays registered, for its account, until somebody takes it back or
\* the push service says that it is gone, over failed saves and restarts.
PhonesAreKept == \A t \in Tokens : owed[t] # None => devices[t] = owed[t] /\ stored[t] = owed[t]

-----------------------------------------------------------------------------
\* The signed channel to the edge node. A secret stands for those of both nodes, and what is signed with it is the one text of a message.

VARIABLES
  now,          \* our clock
  behind,       \* how far the clock of the edge is behind it
  book,         \* what the registry file says, None: nothing that can be used
  theirs,       \* the secret the edge uses
  channel,      \* the one this server uses since it opened the channel, None: not opened
  requests,     \* requests of this server: [id -> with what it was signed and when]
  replies,      \* what the edge made of each of them
  answer,       \* what the client of each of them was told
  seen,         \* [id of a reply -> when it was accepted], 0: not kept
  accepted,     \* history: [id of a reply -> times it was accepted in this life of the server]
  edgeFaults
edgeVars == <<now, behind, book, theirs, channel, requests, replies, answer, seen, accepted, edgeFaults>>

Ids == 1..MaxReplies
Secrets == {1, 2}
None0 == [n \in Ids |-> 0]
Blank == [n \in Ids |-> None]

EdgeInit ==
  /\ now = Window + 1 /\ behind \in 0..1 /\ book \in Secrets \union {None} /\ theirs = 1 /\ channel = None
  /\ requests = Blank /\ replies = Blank /\ answer = Blank
  /\ seen = None0 /\ accepted = None0 /\ edgeFaults = 0

\* The registry is read when the channel is first needed, and again as long as it cannot be used.
Registry == IF channel # None THEN channel ELSE book

Ask(n) ==
  /\ answer[n] = None /\ \A m \in 1..(n - 1) : answer[m] # None
  /\ IF Registry = None
       THEN answer' = [answer EXCEPT ![n] = "registry-invalid"] /\ UNCHANGED <<channel, requests>>
       ELSE /\ channel' = Registry /\ answer' = [answer EXCEPT ![n] = "waiting"]
            /\ requests' = [requests EXCEPT ![n] = [secret |-> Registry, at |-> now]]
  /\ UNCHANGED <<now, behind, book, theirs, replies, seen, accepted, edgeFaults>>

\* The edge takes a request that is signed as it knows, and a moment old; anything else it refuses, unsigned. A reply may have lost
\* its way from another node, be for another one, or speak another version.
Reply(n) ==
  /\ requests[n] # None /\ replies[n] = None
  /\ LET age == now - behind - requests[n].at IN
     IF requests[n].secret # theirs \/ age > Window \/ age < -Window
       THEN replies' = [replies EXCEPT ![n] = [kind |-> "refusal", secret |-> 0, at |-> 0]] /\ UNCHANGED edgeFaults
       ELSE \E kind \in {"reply", "foreign", "misdirected", "newer"} :
              /\ kind # "reply" => edgeFaults < MaxFaults
              /\ edgeFaults' = IF kind = "reply" THEN edgeFaults ELSE edgeFaults + 1
              /\ replies' = [replies EXCEPT ![n] = [kind |-> kind, secret |-> theirs, at |-> now - behind]]
  /\ UNCHANGED <<now, behind, book, theirs, channel, requests, answer, seen, accepted>>

\* Variant: what was accepted is forgotten a moment early.
RememberedTooShort == {n \in Ids : seen[n] # 0 /\ now - seen[n] < Window}

\* What is too old is forgotten before a new nonce is looked for.
Remembered == {n \in Ids : seen[n] # 0 /\ now - seen[n] <= Window}

VerifyReply(m) ==
  IF replies[m].kind = "refusal" THEN "refused"
  ELSE IF replies[m].kind = "foreign" THEN "reply-impersonation"
  ELSE IF replies[m].kind = "misdirected" THEN "reply-wrong-recipient"
  ELSE IF replies[m].kind = "newer" THEN "reply-incompatible-version"
  ELSE IF replies[m].secret # channel THEN "reply-bad-signature"
  ELSE IF now - replies[m].at > Window \/ replies[m].at - now > Window THEN "reply-stale"
  ELSE IF m \in Remembered THEN "reply-replay" ELSE "ok"

\* The answer to a request is a reply of the edge: its own, or one that came before, once more.
Arrives(n, m) ==
  /\ answer[n] = "waiting" /\ replies[m] # None /\ m <= n
  /\ LET verdict == VerifyReply(m) IN
       /\ answer' = [answer EXCEPT ![n] = verdict]
       /\ seen' = IF verdict \notin {"ok", "reply-replay"} THEN seen
                  ELSE [k \in Ids |-> IF k = m /\ verdict = "ok" THEN now ELSE IF k \in Remembered THEN seen[k] ELSE 0]
       /\ accepted' = IF verdict = "ok" THEN [accepted EXCEPT ![m] = @ + 1] ELSE accepted
  /\ UNCHANGED <<now, behind, book, theirs, channel, requests, replies, edgeFaults>>

\* Nobody is there, or no answer comes in time; the edge may have done what it was asked.
Unreachable(n) ==
  /\ answer[n] = "waiting" /\ answer' = [answer EXCEPT ![n] = "unreachable"]
  /\ UNCHANGED <<now, behind, book, theirs, channel, requests, replies, seen, accepted, edgeFaults>>

\* Somebody changes the secrets, on one side or the other.
SecretsChange ==
  /\ edgeFaults < MaxFaults /\ edgeFaults' = edgeFaults + 1
  /\ \/ book' \in (Secrets \union {None}) \ {book} /\ UNCHANGED theirs
     \/ theirs' \in Secrets \ {theirs} /\ UNCHANGED book
  /\ UNCHANGED <<now, behind, channel, requests, replies, answer, seen, accepted>>

\* The channel and the nonces are in memory alone.
EdgeRestart ==
  /\ edgeFaults < MaxFaults /\ edgeFaults' = edgeFaults + 1
  /\ channel' = None /\ seen' = None0 /\ accepted' = None0
  /\ answer' = [n \in Ids |-> IF answer[n] = "waiting" THEN "gone" ELSE answer[n]]
  /\ UNCHANGED <<now, behind, book, theirs, requests, replies>>

EdgeTick == now < MaxTime /\ now' = now + 1 /\ UNCHANGED <<behind, book, theirs, channel, requests, replies, answer, seen, accepted, edgeFaults>>

EdgeNext ==
  \/ EdgeTick \/ SecretsChange \/ EdgeRestart
  \/ \E n \in Ids : Ask(n) \/ Reply(n) \/ Unreachable(n) \/ \E m \in Ids : Arrives(n, m)

EdgeTypeOK ==
  /\ now \in 0..MaxTime /\ seen \in [Ids -> 0..MaxTime] /\ channel \in Secrets \union {None} /\ edgeFaults \in 0..MaxFaults
  /\ \A n \in Ids : replies[n] # None => requests[n] # None

\* A reply is accepted at most once in a life of the server although its nonce is forgotten after a while, as long as the clock of the
\* edge is not ahead, and it is one the edge signed for this server as the open channel knows it; what waits was signed so too, however
\* secrets change, replies stray and the registry is mended (opsAgentChannel.ts).
RepliesCountOnce ==
  /\ \A n \in Ids : accepted[n] <= 1 /\ (accepted[n] = 1 => replies[n].kind = "reply" /\ replies[n].secret = channel)
  /\ \A n \in Ids : answer[n] = "waiting" => channel # None /\ requests[n].secret = channel
-----------------------------------------------------------------------------
\* The connection to the push service: one session and one provider token, both kept while they are good.

VARIABLES
  quarter,      \* the clock
  files,        \* what the environment and the key file are now
  credentials,  \* what was read of them: None, a problem, or "good"
  current,      \* the session of the client, 0: none
  sessions,     \* [1..MaxSessions -> what each is]
  token,        \* when the provider token was made, None: never
  made,         \* when each of them was made
  sends         \* the notifications sent: over which session, with a token of when, and how it ended
apnsVars == <<quarter, files, credentials, current, sessions, token, made, sends>>

Problems == {"missing", "invalid", "key-in-repo", "key-unreadable"}

\* readApnsCredentials: the first thing that is wrong.
Environments == [named : BOOLEAN, wellFormed : BOOLEAN, outside : BOOLEAN, readable : BOOLEAN]
ReadCredentials(e) ==
  IF ~e.named THEN "missing" ELSE IF ~e.wellFormed THEN "invalid"
  ELSE IF ~e.outside THEN "key-in-repo" ELSE IF ~e.readable THEN "key-unreadable" ELSE "good"

ApnsInit ==
  /\ quarter = 0 /\ files \in Environments /\ credentials = None /\ current = 0 /\ sessions = [i \in 1..MaxSessions |-> "none"]
  /\ token = None /\ made = <<>> /\ sends = <<>>

\* Good ones are kept, a problem is looked at again each time.
Credentials == IF credentials = "good" THEN "good" ELSE ReadCredentials(files)

\* connect: the session is used again unless it was closed or destroyed, also when nothing was told of it yet.
Opened == Cardinality({i \in 1..MaxSessions : sessions[i] # "none"})
Connected == IF current # 0 /\ sessions[current] = "open" THEN current ELSE Opened + 1

\* providerToken: made when there is none or it is old.
Renewed == token = None \/ quarter - token >= TokenLife
RenewedVariant == token = None
ProviderToken == IF Renewed THEN quarter ELSE token

ApnsSend ==
  /\ Len(sends) < MaxSends /\ Connected \in 1..MaxSessions
  /\ credentials' = Credentials
  /\ IF Credentials # "good" THEN UNCHANGED <<current, sessions, token, made, sends>>
     ELSE /\ current' = Connected /\ sessions' = [sessions EXCEPT ![Connected] = "open"]
          /\ token' = ProviderToken /\ made' = IF Renewed THEN Append(made, quarter) ELSE made
          /\ sends' = Append(sends, [over |-> Connected, at |-> quarter, token |-> ProviderToken, result |-> None, answered |-> FALSE])
  /\ UNCHANGED <<quarter, files>>

\* A send ends once: what comes after its end is not heard.
Done(i, result) == [sends[i] EXCEPT !.result = IF @ = None THEN result ELSE @]

\* The service answers, also a send that was given up.
Answer(i) ==
  /\ sends[i].result \in {None, "timeout"} /\ ~sends[i].answered /\ sessions[sends[i].over] # "gone"
  /\ \E result \in {"taken", "refused"} : sends' = [sends EXCEPT ![i] = [Done(i, result) EXCEPT !.answered = TRUE]]
  /\ UNCHANGED <<quarter, files, credentials, current, sessions, token, made>>

\* Five seconds without an answer: the request is cancelled and the notification given up.
GivesUp(i) ==
  /\ sends[i].result = None /\ sends' = [sends EXCEPT ![i] = Done(i, "timeout")]
  /\ UNCHANGED <<quarter, files, credentials, current, sessions, token, made>>

\* A session breaks, or is told to go away; its end is told later, and then the client forgets it if it is still its own.
SessionEnds(i) ==
  /\ sessions[i] = "open" /\ sessions' = [sessions EXCEPT ![i] = "ending"]
  /\ UNCHANGED <<quarter, files, credentials, current, token, made, sends>>

Forgets(i) == current = i
ForgetsVariant(i) == TRUE
SessionEnded(i) ==
  /\ sessions[i] = "ending" /\ sessions' = [sessions EXCEPT ![i] = "gone"]
  /\ current' = IF Forgets(i) THEN 0 ELSE current
  /\ sends' = [j \in DOMAIN sends |-> IF sends[j].over = i /\ ~sends[j].answered THEN Done(j, "network") ELSE sends[j]]
  /\ UNCHANGED <<quarter, files, credentials, token, made>>

\* The service of the notifications is closed; a notification that goes through its phones may still open a session.
ApnsClose ==
  /\ current # 0 /\ current' = 0 /\ sessions' = [sessions EXCEPT ![current] = IF @ = "open" THEN "ending" ELSE @]
  /\ UNCHANGED <<quarter, files, credentials, token, made, sends>>

FilesChange == quarter = 0 /\ files' \in Environments /\ UNCHANGED <<quarter, credentials, current, sessions, token, made, sends>>
ApnsTick == quarter < MaxQuarters /\ quarter' = quarter + 1 /\ UNCHANGED <<files, credentials, current, sessions, token, made, sends>>

ApnsNext ==
  \/ ApnsSend \/ ApnsClose \/ FilesChange \/ ApnsTick
  \/ \E i \in DOMAIN sends : Answer(i) \/ GivesUp(i)
  \/ \E i \in 1..MaxSessions : SessionEnds(i) \/ SessionEnded(i)

ApnsTypeOK ==
  /\ credentials \in Problems \cup {None, "good"} /\ current \in 0..MaxSessions
  /\ sessions \in [1..MaxSessions -> {"none", "open", "ending", "gone"}]
  /\ \A s \in Range(sends) : s.result \in {None, "taken", "refused", "timeout", "network"}

\* No session stays open that the client has forgotten, whatever order sessions end and are opened in (connect, close), and
\* each notification goes with a token that the service still takes, made no more often than every 20 minutes (providerToken).
OneSession == \A i \in 1..MaxSessions : sessions[i] = "open" => i = current
TokensAreFresh ==
  /\ \A s \in Range(sends) : s.at - s.token < TokenHour
  /\ \A i \in 2..Len(made) : made[i] - made[i - 1] > 1
=============================================================================

---------------------------- MODULE BridgeGateway ----------------------------
(***************************************************************************)
(* Commands to the machine bridges (bridgeGateway.ts, routes/              *)
(* bridgeRoutes.ts) of one bridge: a request is checked, published and     *)
(* waits for the answer on the result topic, which carries no name of the  *)
(* request: `pending` holds who waits for a verb.  The broker delivers     *)
(* what is published, late if the connection breaks, and the bridge        *)
(* answers a command, late, or not at all.                                 *)
(***************************************************************************)
EXTENDS Naturals, FiniteSets

CONSTANTS
  None,
  Requests,    \* requests of the clients
  Verbs,       \* allowed verbs; "stop" may be one
  Rate,        \* commandsPerSecond
  MaxFaults    \* bound: broken connections

VARIABLES
  verb,        \* [request -> verb]
  phase,       \* [request -> how far it got]
  given,       \* [request -> whose answer it was given], None: no answer
  pending,     \* [Verbs -> request that waits], None: nobody
  timers,      \* requests whose timer runs
  known,       \* has the bridge been seen
  on,          \* the switch bridgeGateway.enabled
  connected,
  window,      \* commands counted in this second
  toBridge,    \* requests published and not yet at the bridge
  answers,     \* requests the bridge carried out and will answer
  displaced,   \* requests that no longer wait because another's publication failed
  faults

vars == <<verb, phase, given, pending, timers, known, on, connected, window, toBridge, answers, displaced, faults>>

Init ==
  /\ verb \in [Requests -> Verbs]
  /\ phase = [r \in Requests |-> "idle"] /\ given = [r \in Requests |-> None]
  /\ pending = [v \in Verbs |-> None] /\ timers = {} /\ known = FALSE /\ on \in BOOLEAN /\ connected = FALSE
  /\ window = 0 /\ toBridge = {} /\ answers = {} /\ displaced = {} /\ faults = 0

End(r, p) == phase' = [phase EXCEPT ![r] = p]

\* withinPace: a refused command is counted too; a stop is not.
Paced(v) == v # "stop"
Within(v) == Paced(v) => window < Rate
CountedIn(v) == IF Paced(v) /\ window <= Rate THEN window + 1 ELSE window

\* command() up to its first await: the checks in their order, then the request waits and is published.
Send(r) ==
  /\ phase[r] = "idle"
  /\ \/ End(r, "refused") /\ UNCHANGED <<pending, timers, window>> \* 400, 403, 413, and 404 while it is off
     \/ on /\ ~known /\ End(r, "refused") /\ UNCHANGED <<pending, timers, window>> \* 404
     \/ on /\ known /\ ~connected /\ End(r, "unavailable") /\ UNCHANGED <<pending, timers, window>>
     \/ /\ on /\ known /\ connected /\ window' = CountedIn(verb[r])
        /\ IF ~Within(verb[r])
             THEN End(r, "rate-limited") /\ UNCHANGED <<pending, timers>>
           ELSE IF pending[verb[r]] # None
             THEN End(r, "busy") /\ UNCHANGED <<pending, timers>>
           ELSE /\ End(r, "publishing")
                /\ pending' = [pending EXCEPT ![verb[r]] = r] /\ timers' = timers \cup {r}
  /\ UNCHANGED <<on, verb, given, known, connected, toBridge, answers, displaced, faults>>

\* The library writes it and the broker confirms it.
Published(r) ==
  /\ phase[r] = "publishing" /\ connected
  /\ toBridge' = toBridge \cup {r}
  /\ End(r, IF given[r] # None \/ r \notin timers THEN "answered" ELSE "waiting")
  /\ UNCHANGED <<on, verb, given, pending, timers, known, connected, window, answers, displaced, faults>>

\* It could not be written: whoever waits for the verb is forgotten.
NotPublished(r) ==
  /\ phase[r] = "publishing" /\ faults < MaxFaults /\ faults' = faults + 1
  /\ End(r, "failed") /\ pending' = [pending EXCEPT ![verb[r]] = None]
  /\ displaced' = displaced \cup ({pending[verb[r]]} \ {r, None})
  /\ UNCHANGED <<on, verb, given, timers, known, connected, window, toBridge, answers>>

\* The timer deletes only its own resolver.
Forgotten(r) == IF pending[verb[r]] = r THEN [pending EXCEPT ![verb[r]] = None] ELSE pending

TimeOut(r) ==
  /\ r \in timers /\ timers' = timers \ {r}
  /\ pending' = Forgotten(r)
  /\ IF phase[r] = "waiting" THEN End(r, "answered") ELSE UNCHANGED phase
  /\ UNCHANGED <<on, verb, given, known, connected, window, toBridge, answers, displaced, faults>>

\* The bridge gets the command, and carries it out or ignores it.
AtBridge(r) ==
  /\ r \in toBridge /\ toBridge' = toBridge \ {r}
  /\ answers' \in {answers, answers \cup {r}}
  /\ UNCHANGED <<on, verb, phase, given, pending, timers, known, connected, window, displaced, faults>>

\* The waiter is taken from `pending` before it is given the answer.
Taken(v) == [pending EXCEPT ![v] = None]

\* onMessage on the result topic of the verb: the answer goes to whoever waits for the verb.
Result(q) ==
  /\ q \in answers /\ connected /\ answers' = answers \ {q}
  /\ LET v == verb[q] w == pending[v] IN
       IF w = None THEN UNCHANGED <<phase, given, pending, timers>>
       ELSE /\ pending' = Taken(v) /\ timers' = timers \ {w}
            /\ given' = [given EXCEPT ![w] = q]
            /\ IF phase[w] = "waiting" THEN End(w, "answered") ELSE UNCHANGED phase
  /\ UNCHANGED <<on, verb, known, connected, window, toBridge, displaced, faults>>

\* onMessage: availability, state or health of the bridge.
Seen == connected /\ ~known /\ known' = TRUE
  /\ UNCHANGED <<on, verb, phase, given, pending, timers, connected, window, toBridge, answers, displaced, faults>>

Connect == on /\ ~connected /\ connected' = TRUE
  /\ UNCHANGED <<on, verb, phase, given, pending, timers, known, window, toBridge, answers, displaced, faults>>
Break == connected /\ faults < MaxFaults /\ faults' = faults + 1 /\ connected' = FALSE
  /\ UNCHANGED <<on, verb, phase, given, pending, timers, known, window, toBridge, answers, displaced>>

Second == window > 0 /\ window' = 0
  /\ UNCHANGED <<on, verb, phase, given, pending, timers, known, connected, toBridge, answers, displaced, faults>>

Next ==
  \/ \E r \in Requests :
       Send(r) \/ Published(r) \/ NotPublished(r) \/ TimeOut(r) \/ AtBridge(r) \/ Result(r)
  \/ Seen \/ Connect \/ Break \/ Second

\* Timers fire and the library reconnects and publishes.
Fairness ==
  WF_vars(Connect) /\ WF_vars(\E r \in Requests : Published(r)) /\ WF_vars(\E r \in Requests : TimeOut(r))

Spec == Init /\ [][Next]_vars /\ Fairness

-----------------------------------------------------------------------------
Phases == {"idle", "refused", "unavailable", "rate-limited", "busy", "publishing", "waiting", "answered", "failed"}
TypeOK ==
  /\ verb \in [Requests -> Verbs] /\ phase \in [Requests -> Phases] /\ given \in [Requests -> Requests \cup {None}]
  /\ pending \in [Verbs -> Requests \cup {None}] /\ timers \subseteq Requests /\ window \in 0..(Rate + 1)
  /\ on \in BOOLEAN /\ toBridge \subseteq Requests /\ answers \subseteq Requests /\ displaced \subseteq Requests

GivenUp(q) == (phase[q] \in {"answered", "failed"} \/ q \notin timers \/ q \in displaced) /\ given[q] # q

\* The answer a client is given is the one to its own command, or a late one to a command of the same bridge and
\* verb that timed out, failed or was displaced before: never one that another client waits for or was given
\* (bridgeGateway.ts).
AnswersMatch == \A r \in Requests : given[r] # None =>
  /\ verb[given[r]] = verb[r]
  /\ given[r] # r => GivenUp(given[r])
  /\ \A s \in Requests : given[s] = given[r] => s = r

\* A verb never stays busy: whoever is entered as waiting is waiting, and its timer runs.
BusyEnds == \A v \in Verbs : pending[v] # None =>
  phase[pending[v]] \in {"publishing", "waiting"} /\ pending[v] \in timers

\* A request ends, however the broker and the bridge behave, if the connection returns for good.
RequestsEnd == \A r \in Requests : phase[r] \in {"publishing", "waiting"} ~> phase[r] \in {"answered", "failed"}
=============================================================================

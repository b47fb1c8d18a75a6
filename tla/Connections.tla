---------------------------- MODULE Connections ----------------------------
(***************************************************************************)
(* Who signs in to the server (ConnectionTracker): a table of clients with *)
(* the sign-ins counted for each, and the history of what they did, both   *)
(* with a limit and saved together from time to time. A cut loses what was *)
(* not saved yet. Time is left out: a save is due or not, a client was     *)
(* seen long ago or not, and the clients are kept in the order in which    *)
(* they were last seen. How a request is told to be of a client, and the   *)
(* pages of the history that a user is shown. The addresses, and `seen`    *)
(* and `ended`, which nothing calls, are left out.                         *)
(***************************************************************************)
EXTENDS Integers, Sequences, SequencesExt, FiniteSets

CONSTANTS None,
          Clients,        \* identifiers (clientIdOf)
          UserOf,         \* the user that a client signs in as, None of one whose name was no account's
          EventCapacity, ClientCapacity,
          MaxEvents,      \* bound: events numbered
          MaxFaults       \* bound: saves that fail, restarts

VARIABLES
  now,      \* what the tracker holds: clients, events and the next number
  file,     \* the same, as last saved
  dirty,    \* something changed since
  faults

vars == <<now, file, dirty, faults>>

Failures == {"login_failed", "second_factor_failed"}
Ends == {"logout", "session_expired"}
Actions == {"first_seen", "login"} \cup Failures \cup Ends
Records == [id : Clients, ok : 0..MaxEvents, failed : 0..MaxEvents]
Events == [n : 1..MaxEvents, client : Clients, action : Actions]
Histories == [clients : Seq(Records), events : Seq(Events), next : 1..MaxEvents + 1]
Empty == [clients |-> <<>>, events |-> <<>>, next |-> 1]

TypeOK ==
  /\ now \in Histories /\ file \in Histories
  /\ Len(now.clients) <= ClientCapacity /\ Len(now.events) <= EventCapacity
  /\ dirty \in BOOLEAN /\ faults \in 0..MaxFaults

-----------------------------------------------------------------------------

Known(h, c) == \E i \in 1..Len(h.clients) : h.clients[i].id = c
RecordOf(h, c) ==
  IF Known(h, c) THEN h.clients[CHOOSE i \in 1..Len(h.clients) : h.clients[i].id = c]
  ELSE [id |-> c, ok |-> 0, failed |-> 0]

\* The client seen longest ago makes room for a new one.
Evicted(clients) == Tail(clients)

\* Variant: a second factor that is refused is not counted.
CountedPasswords(r, action) ==
  [r EXCEPT !.ok = @ + (IF action = "login" THEN 1 ELSE 0),
            !.failed = @ + (IF action = "login_failed" THEN 1 ELSE 0)]

Counted(r, action) ==
  [r EXCEPT !.ok = @ + (IF action = "login" THEN 1 ELSE 0),
            !.failed = @ + (IF action \in Failures THEN 1 ELSE 0)]

Touched(h, c, action) ==
  LET others == SelectSeq(h.clients, LAMBDA r : r.id # c)
      room == IF ~Known(h, c) /\ Len(others) >= ClientCapacity THEN Evicted(others) ELSE others
  IN  Append(room, Counted(RecordOf(h, c), action))

Kept(events) ==
  IF Len(events) > EventCapacity THEN SubSeq(events, Len(events) - EventCapacity + 1, Len(events)) ELSE events

Written(h, c, action) ==
  [clients |-> Touched(h, c, action),
   events |-> Kept(Append(h.events, [n |-> h.next, client |-> c, action |-> action])),
   next |-> h.next + 1]

\* A client that shows up for the first time has an event that says so before the event of what it did.
Introduced(h, c) == IF Known(h, c) THEN h ELSE Written(h, c, "first_seen")

\* A save is due after an event or not: it writes the history as it is then, or fails. The first event of a
\* client may be the one that saves.
Tell(c, action) ==
  LET first == Introduced(now, c)
      all == Written(first, c, action)
  IN  /\ all.next <= MaxEvents + 1
      /\ now' = all
      /\ \/ dirty' = FALSE /\ file' = all
         \/ dirty' = TRUE /\ file' \in {file} \cup ({first} \ {now})
      /\ UNCHANGED faults

Login(c) == Tell(c, "login")
Refused(c) == \E action \in Failures : Tell(c, action)

\* A session whose client is no longer remembered says nothing.
EndedClient(c) == Known(now, c) /\ \E action \in Ends : Tell(c, action)

\* The tick of the server, and the end of an orderly stop.
Flush == dirty /\ dirty' = FALSE /\ file' = now /\ UNCHANGED <<now, faults>>

\* A save that fails leaves the file as it was and what changed to be saved.
FlushFails ==
  /\ dirty /\ faults < MaxFaults /\ faults' = faults + 1
  /\ UNCHANGED <<now, file, dirty>>

\* Clients that were seen too long ago are not taken from the file; the numbers go on from the last one.
Loaded(saved, from) ==
  [saved EXCEPT !.clients = SubSeq(@, from, Len(@)),
                !.next = IF saved.events # <<>> /\ Last(saved.events).n + 1 > @ THEN Last(saved.events).n + 1 ELSE @]

Restart ==
  /\ faults < MaxFaults /\ faults' = faults + 1
  /\ \E from \in 1..Len(file.clients) + 1 : now' = Loaded(file, from)
  /\ dirty' = FALSE /\ UNCHANGED file

Init == now = Empty /\ file = Empty /\ dirty = FALSE /\ faults = 0

Next ==
  \/ \E c \in Clients : Login(c) \/ Refused(c) \/ EndedClient(c)
  \/ Flush \/ FlushFails \/ Restart

Spec == Init /\ [][Next]_vars

\* ---- who a request is of -------------------------------------------------

\* A request: what it says of itself (X-Hydra-Client), well formed or not, and its user agent: a browser on a system, an application of
\* the project, or a library; each with a version.
Headers == [kind : {"studio", "android", "watch"}, version : 1..2, odd : BOOLEAN] \cup {None}
Agents == [browser : {"chrome", "firefox"}, system : {"windows", "android"}, name : {None}, version : 1..2]
          \cup [browser : {None}, system : {None, "android"}, name : {"studio", "watch", "okhttp", "darwin"}, version : 1..2]
          \cup {None}

\* The kind: as the request says, else as its agent shows.
Identify(header, agent) ==
  IF header # None /\ ~header.odd THEN header.kind
  ELSE IF agent = None THEN "other"
  ELSE IF agent.name \in {"studio", "watch"} THEN agent.name
  ELSE IF agent.name = "okhttp" THEN "android"
  ELSE IF agent.name = "darwin" THEN "ios"
  ELSE "other"

\* An update of the browser is not another device.
Family(agent) ==
  IF agent = None THEN <<>>
  ELSE IF agent.browser # None THEN <<agent.browser, agent.system>>
  ELSE <<agent.name>>

\* The name of the user counts in small letters: "Ada" signs in as "ada".
Small(user) == IF user = "Ada" THEN "ada" ELSE user

ClientIdOf(header, agent, user) == <<Identify(header, agent), Small(user), Family(agent)>>

\* ---- what is shown of the history ----------------------------------------

Users == {UserOf[c] : c \in Clients} \ {None}

\* Only an administrator chooses whose entries; anybody else is shown their own.
Wanted(asker, chosen) == IF asker = "admin" THEN chosen ELSE asker

\* Their entries, the newest first.
Matching(user, action) ==
  SelectSeq(Reverse(now.events), LAMBDA e : (user = None \/ UserOf[e.client] = user) /\ (action = None \/ e.action = action))

\* One page of them: what is older than the number asked for, from one to as many as the history holds.
Page(matching, before, limit) ==
  LET older == SelectSeq(matching, LAMBDA e : before = None \/ e.n < before)
      most == IF limit < 1 THEN 1 ELSE IF limit > EventCapacity THEN EventCapacity ELSE limit
  IN  SubSeq(older, 1, IF most < Len(older) THEN most ELSE Len(older))

\* What somebody has read who asked for that many pages, each from the last number of the one before.
Read(matching, limit, pages) ==
  LET read[k \in 0..pages] ==
        IF k = 0 THEN <<>>
        ELSE LET before == read[k - 1] IN before \o Page(matching, IF before = <<>> THEN None ELSE Last(before).n, limit)
  IN  read[pages]

-----------------------------------------------------------------------------

\* The sign-ins counted for a client are those that the history shows since it was first seen, whatever was
\* evicted, saved, lost and forgotten in between; when the history no longer reaches back that far, it shows
\* no more of them than were counted, and it is full.
CountsAgree ==
  \A i \in 1..Len(now.clients) :
    LET r == now.clients[i]
        mine == {k \in 1..Len(now.events) : now.events[k].client = r.id}
        firsts == {k \in mine : now.events[k].action = "first_seen"}
        since(A) == Cardinality({k \in mine : now.events[k].action \in A /\ \A f \in firsts : f <= k})
    IN  IF firsts # {} THEN since({"login"}) = r.ok /\ since(Failures) = r.failed
        ELSE Len(now.events) = EventCapacity /\ since({"login"}) <= r.ok /\ since(Failures) <= r.failed

\* Whoever turns the pages of the history, whatever their length, reads every entry they may see once, the newest first, and of nobody
\* else unless they administer (connectionRoutes.ts); what has no changes to save is what the file holds.
PagesAreWhole ==
  /\ ~dirty => \A user \in {None} \cup Users, action \in {None, "login"} : \* a save changes no entry
       LET matching == Matching(user, action)
       IN  /\ \A limit \in {0, 2} : Read(matching, limit, EventCapacity) = matching
           /\ \A asker \in Users, chosen \in {None} \cup Users : Wanted(asker, chosen) = user => \A i \in 1..Len(matching) : UserOf[matching[i].client] = asker
  /\ \A j, k \in 1..Len(now.events) : j < k => now.events[j].n < now.events[k].n
  /\ ~dirty => now.events = file.events

\* An update of an application, of a browser or of the name it is typed with makes no other client, and two users are never one
\* (connections.ts). Said of no state.
ClientsStay ==
  \A header, other \in Headers, agent \in Agents :
    LET sameHeader == other = header \/ (other # None /\ header # None /\ [other EXCEPT !.version = 1] = [header EXCEPT !.version = 1])
        updated == IF agent = None THEN None ELSE [agent EXCEPT !.version = 3 - @]
    IN  /\ sameHeader => ClientIdOf(header, agent, "Ada") = ClientIdOf(other, updated, "ada")
        /\ ClientIdOf(header, agent, "ada") # ClientIdOf(other, updated, "oto")

HistoryAgrees == CountsAgree /\ PagesAreWhole

=============================================================================

------------------------------ MODULE Requests ------------------------------
(***************************************************************************)
(* What the requests of one address pass before a route does anything: the *)
(* rule for requests from outside the house (trustedNetworks.ts), the      *)
(* limits of requests, whose numbers may change at any time, and the       *)
(* account with its role (auth.ts).  A sign-in takes its time: others come *)
(* and limits change while it is looked at.  The counting itself is that   *)
(* of express-rate-limit: fixed windows that start with the first request. *)
(* As a part of its own, the tickets that open pictures and the read-only  *)
(* information to who is not signed in (mediaTickets.ts, infoTickets.ts).  *)
(***************************************************************************)
EXTENDS Integers, FiniteSets

CONSTANTS Numbers,   \* the limits that may be set, each for every limiter
          Window, MaxTime, MaxHits, MaxSignIns,
          None,
          MediaLife, InfoLife, MinLife, LongestLife, \* lives of tickets in seconds, by default, at least and at most
          Configured, \* what a configuration may say of a life of information tickets, None: nothing
          Requested, \* the lives a client may ask for
          TicketTime, MaxTickets, MaxSecrets

VARIABLES clock, enabled, number,
          built,     \* the number each limiter was built with, 0 before its first request
          hits, until,
          open,      \* sign-ins that are being looked at
          failed, late, \* history: failures counted in this window, and successes taken off it that began before it
          held       \* history: a stop of somebody who may stop was held back

counts == <<built, hits, until>>
vars == <<clock, enabled, number, counts, open, failed, late, held>>

\* Tickets: the time in half seconds, the server's secret, the options, the tickets, the last request that was let in.
VARIABLES now, secret, options, tickets, opened
ticketVars == <<now, secret, options, tickets, opened>>

Limiters == {"signin", "stop-all", "api"}
Roles == {"admin", "operator", "viewer"}
Kinds == {"stop-all", "stop", "move", "read", "administer"}

Init ==
  /\ clock = 0 /\ enabled = TRUE /\ number \in Numbers
  /\ built = [l \in Limiters |-> 0] /\ hits = [l \in Limiters |-> 0] /\ until = [l \in Limiters |-> 0]
  /\ open = {} /\ failed = 0 /\ late = 0 /\ held = FALSE

\* ---- the rule for requests from outside ---------------------------------

\* Variant: only looking is allowed.
OnlyLooking(policy, kind) == kind # "administer" /\ (policy = "operate" \/ kind = "read")

\* From outside nobody administers; where only looking is allowed a stop still goes through.
OutsideAllows(policy, kind) == kind # "administer" /\ (policy = "operate" \/ kind \in {"read", "stop-all", "stop"})

\* The address is one of the house or its VPN, or the option is off, or what it is set to allows the request.
Places == {"house", "operate", "view"}
GateAllows(place, kind) == place # "house" => OutsideAllows(place, kind)

\* ---- the limits ---------------------------------------------------------

\* The stop of everything has a limit of its own, the commands of a robot have none.
LimitersOf(kind) ==
  IF ~enabled THEN {} ELSE IF kind = "stop-all" THEN {"stop-all"} ELSE IF kind \in {"read", "administer"} THEN {"api"} ELSE {}

\* A limiter is built again, without what it counted, when its number is not the one in force, and the count starts again
\* when its time is over.
Rebuilt(l) == built[l] # number
Starts(l) == Rebuilt(l) \/ until[l] <= clock
Before(l) == IF Starts(l) THEN 0 ELSE hits[l]
Within(l) == Before(l) < number

\* A request is counted even when it is refused.
Count(l) ==
  /\ Before(l) < MaxHits
  /\ built' = [built EXCEPT ![l] = number]
  /\ hits' = [hits EXCEPT ![l] = Before(l) + 1]
  /\ until' = [until EXCEPT ![l] = IF Starts(l) THEN clock + Window ELSE @]

\* ---- requests -----------------------------------------------------------

\* A viewer reads, an administrator administers; the role is the one that the account has now.
MayCall(role, kind) == (role = "viewer" => kind = "read") /\ (kind = "administer" => role = "admin")

\* The rule for outside comes first, then the limit, which for the stop of everything comes after the account. A request
\* that is not counted and in which no stop is held back changes nothing here.
Request(place, role, kind) ==
  LET limiters == LimitersOf(kind)
      reached == GateAllows(place, kind) /\ (kind = "stop-all" => MayCall(role, kind))
      passed == reached /\ MayCall(role, kind) /\ \A l \in limiters : Within(l)
      withheld == /\ kind \in {"stop", "stop-all"} /\ role # "viewer" /\ ~passed
                  /\ kind = "stop-all" /\ enabled => Within("stop-all")
  IN  /\ (reached /\ limiters # {}) \/ withheld
      /\ IF reached /\ limiters # {} THEN \E l \in limiters : Count(l) ELSE UNCHANGED counts
      /\ held' = (held \/ withheld)
      /\ UNCHANGED <<clock, enabled, number, open, failed, late>>

\* A sign-in is counted when it comes and looked at when it is within the limit.
SignIn ==
  /\ Cardinality(open) < MaxSignIns
  /\ LET passed == enabled => Within("signin")
         again == enabled /\ Starts("signin")
         id == CHOOSE i \in 1..MaxSignIns : \A o \in open : o.id # i
         others == {[id |-> o.id, here |-> o.here /\ ~(enabled /\ Rebuilt("signin")), now |-> o.now /\ ~again] : o \in open}
     IN  /\ IF enabled THEN Count("signin") ELSE UNCHANGED counts
         /\ open' = IF passed THEN others \union {[id |-> id, here |-> enabled, now |-> enabled]} ELSE others
         /\ failed' = (IF again THEN 0 ELSE failed) + (IF passed THEN 0 ELSE 1)
         /\ late' = IF again THEN 0 ELSE late
  /\ UNCHANGED <<clock, enabled, number, held>>

\* Variant: a success stays counted.
StaysCounted(o) ==
  /\ o \in open /\ open' = open \ {o}
  /\ UNCHANGED <<clock, enabled, number, counts, failed, late, held>>

\* A success is taken off the count of the limiter that counted it, if that is still there, in whichever window it is now.
SignInSucceeds(o) ==
  /\ o \in open /\ open' = open \ {o}
  /\ LET off == o.here /\ hits["signin"] > 0
     IN  /\ hits' = IF off THEN [hits EXCEPT !["signin"] = @ - 1] ELSE hits
         /\ late' = IF off /\ ~o.now THEN late + 1 ELSE late
  /\ UNCHANGED <<clock, enabled, number, built, until, failed, held>>

SignInFails(o) ==
  /\ o \in open /\ open' = open \ {o}
  /\ failed' = IF o.now THEN failed + 1 ELSE failed
  /\ UNCHANGED <<clock, enabled, number, counts, late, held>>

\* ---- options and time ---------------------------------------------------

Configure ==
  /\ number' \in Numbers /\ enabled' \in BOOLEAN /\ <<number', enabled'>> # <<number, enabled>>
  /\ UNCHANGED <<clock, counts, open, failed, late, held>>

Tick ==
  /\ clock < MaxTime /\ clock' = clock + 1
  /\ UNCHANGED <<enabled, number, counts, open, failed, late, held>>

Next ==
  \/ \E place \in Places, role \in Roles, kind \in Kinds : Request(place, role, kind)
  \/ SignIn \/ \E o \in open : SignInSucceeds(o) \/ SignInFails(o)
  \/ Configure \/ Tick

Spec == Init /\ [][Next]_vars

\* ---- tickets ------------------------------------------------------------

Least(a, b) == IF a < b THEN a ELSE b
Most(a, b) == IF a > b THEN a ELSE b

\* A number of the configuration within its bounds, or the default.
Clamp(value) == IF value = None THEN InfoLife ELSE Least(LongestLife, Most(MinLife, value))

\* The life that was asked for within the configured maximum, or the configured one.
InfoTicketSeconds(limits, asked) ==
  IF asked = None THEN Least(Clamp(limits.max), Clamp(limits.ttl)) ELSE Least(Clamp(limits.max), Most(MinLife, asked))

\* Only an administrator gets more than the default.
InfoSeconds(limits, asked, admin) ==
  IF admin THEN InfoTicketSeconds(limits, asked)
  ELSE Least(InfoTicketSeconds(limits, asked), InfoTicketSeconds([ttl |-> None, max |-> None], None))

\* What a ticket says, and when it was issued to compare with.
Ticket(kind, life) == [kind |-> kind, until |-> now \div 2 + life, secret |-> secret, at |-> now, life |-> life]

\* Variant: the second it ends in counts whole.
VerifiesLonger(kind, ticket) == ticket.kind = kind /\ ticket.secret = secret /\ ticket.until >= now \div 2

\* It opens its own kind until its second has begun, while the secret is the same.
Verifies(kind, ticket) == ticket.kind = kind /\ ticket.secret = secret /\ ticket.until * 2 >= now

\* What a configuration says of the lives of information tickets: the usual one and the greatest.
Lives == [ttl : Configured, max : Configured]

Options == [cameraOpen : BOOLEAN, infoAsked : BOOLEAN, infoTickets : BOOLEAN, limits : Lives]

TicketInit ==
  /\ now = 0 /\ secret = 0 /\ tickets = {} /\ opened = None
  /\ \E limits \in Lives : options = [cameraOpen |-> FALSE, infoAsked |-> TRUE, infoTickets |-> TRUE, limits |-> limits]

\* A client that is signed in asks for a ticket.
Issue ==
  /\ Cardinality(tickets) < MaxTickets
  /\ \/ tickets' = tickets \union {Ticket("media", MediaLife)}
     \/ /\ options.infoTickets
        /\ \E asked \in Requested, admin \in BOOLEAN :
             tickets' = tickets \union {Ticket("info", InfoSeconds(options.limits, asked, admin))}
  /\ UNCHANGED <<now, secret, options, opened>>

\* A picture or the information is asked for, with a ticket or without, by somebody who is not signed in.
Ask ==
  /\ \E kind \in {"media", "info"}, ticket \in tickets \union {None} :
       LET free == IF kind = "media" THEN options.cameraOpen ELSE ~options.infoAsked
           good == ticket # None /\ (kind = "info" => options.infoTickets) /\ Verifies(kind, ticket)
       IN opened' = IF free THEN [kind |-> kind, with |-> None] ELSE IF good THEN [kind |-> kind, with |-> ticket] ELSE None
  /\ UNCHANGED <<now, secret, options, tickets>>

\* An administrator changes an option; it is read at the next request.
Change ==
  /\ \/ \E name \in {"cameraOpen", "infoAsked", "infoTickets"} : options' = [options EXCEPT ![name] = ~@]
     \/ \E limits \in Lives : options' = [options EXCEPT !.limits = limits]
  /\ opened' = None
  /\ UNCHANGED <<now, secret, tickets>>

TicketTick ==
  /\ now < TicketTime /\ now' = now + 1 /\ opened' = None
  /\ UNCHANGED <<secret, options, tickets>>

\* The server is started again with a new secret; tickets are not kept by it, and with the old secret nothing changes.
NewSecret ==
  /\ secret < MaxSecrets /\ secret' = secret + 1 /\ opened' = None
  /\ UNCHANGED <<now, options, tickets>>

TicketNext == Issue \/ Ask \/ Change \/ TicketTick \/ NewSecret

-----------------------------------------------------------------------------

SignIns == [id : 1..MaxSignIns, here : BOOLEAN, now : BOOLEAN]

TypeOK ==
  /\ clock \in 0..MaxTime /\ enabled \in BOOLEAN /\ number \in Numbers
  /\ built \in [Limiters -> Numbers \union {0}]
  /\ hits \in [Limiters -> 0..MaxHits]
  /\ until \in [Limiters -> 0..MaxTime + Window]
  /\ open \in SUBSET SignIns /\ Cardinality(open) <= MaxSignIns
  /\ failed \in Nat /\ late \in Nat /\ held \in BOOLEAN

Tickets == [kind : {"media", "info"}, until : Nat, secret : 0..MaxSecrets, at : 0..TicketTime,
            life : MinLife..Most(MediaLife, LongestLife)]

TicketTypeOK ==
  /\ now \in 0..TicketTime /\ secret \in 0..MaxSecrets /\ options \in Options
  /\ tickets \in SUBSET Tickets
  /\ opened # None => opened \in [kind : {"media", "info"}, with : tickets \union {None}]

\* What the count of sign-ins stands for: the failures of this window, and those of it that are still looked at.
Mine == failed + Cardinality({o \in open : o.now})

\* Only failures use up the limit of sign-ins (loginRateLimiter, skipSuccessfulRequests): what is counted is never more than
\* the failures of this window and the sign-ins still looked at, and less only by what successes of an earlier window took off.
OnlyFailuresCount ==
  built["signin"] # 0 => hits["signin"] \in Mine - late..Mine

\* Somebody who may stop is never held back by the place he is in or by what else his address asked for: only the stop of
\* everything has a limit, its own (stopAllRateLimiter, outsideVerdict, viewerMayCall).
StopsGoThrough == ~held

\* A ticket opens what it was issued for and nothing else, for its seconds and not longer, but for the part of the second it was
\* asked in; and nobody but an administrator has one that lives longer than the default (mediaTickets.ts, infoTickets.ts).
TicketsOpenTheirOwn ==
  /\ opened # None => (opened.with # None => opened.with.kind = opened.kind /\ now <= opened.with.at + 2 * opened.with.life)
  /\ \A t \in tickets : t.secret = secret /\ now < t.at + 2 * t.life => Verifies(t.kind, t)

\* Whatever is configured and asked for, a ticket lives within the bounds of the program and of the configuration.
LivesAreBounded ==
  \A limits \in Lives, asked \in Requested, admin \in BOOLEAN :
    LET life == InfoSeconds(limits, asked, admin) IN
    /\ life \in MinLife..LongestLife
    /\ limits.max # None => life <= Most(limits.max, MinLife)
    /\ ~admin \/ limits.max = None => life <= InfoLife
=============================================================================

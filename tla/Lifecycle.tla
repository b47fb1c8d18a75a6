----------------------------- MODULE Lifecycle -----------------------------
(***************************************************************************)
(* A life of the server (server.ts): the first start of an installation    *)
(* and its TLS (newInstallTls.ts), the port (listenPort.ts), the first     *)
(* account, the listener, and the end: clean with its two seconds, asked   *)
(* for by an administrator, refused, or a cut. The streamers of cameras,   *)
(* which outlive the server, have their own module, as have the services   *)
(* that start with the listener.                                           *)
(* And the two loops for the job dispatcher, from the words that turn them *)
(* on to the signal that ends them (jobStopRelay.ts, the relay of stops;   *)
(* orchestratorTakeover.ts, the hand-over to a standby).                   *)
(***************************************************************************)
EXTENDS Integers, FiniteSets

CONSTANTS None,
          MaxStarts, MaxEvents, \* bounds: starts of the server, entries of the history
          MaxPasses             \* bound: passes of a loop

VARIABLES
  stage, starts, leaving,    \* how far this life is, and was it asked to end soon?
  env, certs,                \* what the deployment says, and the certificates it made
  config, file,              \* server-config.json: what it says, and is it there?
  settings, users, seeded,   \* are there settings and users, and how often was the first account made?
  scheme, port,              \* what is served, and where the listener is or is to be
  events, kept,              \* the history of connections, in memory and in its file
  \* history
  first, touched,            \* how was served at first, and did somebody choose since?
  due                        \* what had happened when the history was last written at an end

vars == <<stage, starts, leaving, env, certs, config, file, settings, users, seeded, scheme, port, events, kept, first, touched, due>>

-----------------------------------------------------------------------------
\* A word of the environment for a port: none, one that is no port, or a port.
Words == {None, 0, 65536, 3100}

\* The certificates the environment names, what it says of TLS by default, the account it names, and the words for the port.
Quiet == [paths |-> "none", newTls |-> None, production |-> TRUE, seed |-> "sound", own |-> None, shared |-> None]
Envs ==
  [paths : {"none", "bad", "good"}, newTls : {None, "on", "off"}, production : {TRUE}, seed : {"none", "sound"}, own : {None}, shared : {None}]
  \cup [paths : {"none"}, newTls : {None}, production : BOOLEAN, seed : {"none", "example", "sound"}, own : {None}, shared : {None}]
  \cup {[Quiet EXCEPT !.own = own, !.shared = shared] : own, shared \in Words}

\* What the file says; one that is not there or cannot be read says nothing. Somebody who writes it by hand may name a port that is none.
Nothing == [tls |-> "unset", newTls |-> "unset", port |-> None]
Configs == [tls : {"unset", "on", "off"}, newTls : {"unset", "off"}, port : {None, 8080, 9090, 70000}]

Init ==
  /\ stage = "down" /\ starts = 0 /\ leaving = FALSE
  /\ env \in Envs /\ certs \in {"none", "bad", "good"}
  /\ config \in {Nothing, [Nothing EXCEPT !.newTls = "off"], [Nothing EXCEPT !.port = 8080], [Nothing EXCEPT !.port = 70000]}
  /\ file \in BOOLEAN /\ (config # Nothing => file)
  /\ settings \in BOOLEAN /\ users = "none" /\ seeded = 0
  /\ scheme = None /\ port = None /\ first = None /\ touched = FALSE
  /\ events = 0 /\ kept = 0 /\ due = 0

\* ---- the start ----------------------------------------------------------

\* None of the three files that say that the installation ran before.
IsNew == ~file /\ ~settings /\ users = "none"

\* Variant: a file of users is no sign.
IsNewWithUsers == ~file /\ ~settings

\* The environment first, then the file: is TLS the default of a new installation?
NewInstallTls == IF env.newTls # None THEN env.newTls # "off" ELSE config.newTls # "off"

\* The default is saved as an administrator would, if the certificates can be used together.
TlsByDefault == NewInstallTls /\ IsNew /\ config.tls = "unset" /\ certs = "good"

ParseListenPort(word) == IF word # None /\ word > 0 /\ word < 65536 THEN word ELSE None

\* The word of this service, the word all services read, what was saved (however large), the port of this program.
ResolveListenPort(saved) ==
  IF ParseListenPort(env.own) # None THEN env.own
  ELSE IF ParseListenPort(env.shared) # None THEN env.shared
  ELSE IF saved # None THEN saved ELSE 3000

Start ==
  /\ stage = "down" /\ starts < MaxStarts
  /\ starts' = starts + 1 /\ stage' = "seeding"
  /\ IF TlsByDefault THEN config' = [config EXCEPT !.tls = "on"] /\ file' = TRUE ELSE UNCHANGED <<config, file>>
  /\ port' = ResolveListenPort(config.port) /\ events' = kept
  /\ UNCHANGED <<leaving, env, certs, settings, users, seeded, scheme, kept, first, touched, due>>

\* A process ends: everything in memory is gone.
Dies == stage' = "down" /\ leaving' = FALSE /\ scheme' = None /\ port' = None

\* May the first account be made of what the deployment says? In production not of an example or of nothing.
SeedAllowed == env.production => env.seed = "sound"

\* The first account is made unless there are users. Users that cannot be read are never replaced: the start is refused.
Seed ==
  /\ stage = "seeding"
  /\ \/ users = "sound" /\ stage' = "opening" /\ UNCHANGED <<leaving, users, seeded, scheme, port>>
     \/ /\ users = "none" /\ SeedAllowed
        /\ users' = "sound" /\ seeded' = seeded + 1 /\ stage' = "opening" /\ UNCHANGED <<leaving, scheme, port>>
     \/ /\ users = "damaged" \/ (users = "none" /\ ~SeedAllowed)
        /\ Dies /\ UNCHANGED <<users, seeded>>
  /\ UNCHANGED <<starts, env, certs, config, file, settings, events, kept, first, touched, due>>

\* The certificates of the environment win, also when they cannot be used; then what was saved.
TlsWanted == env.paths # "none" \/ config.tls = "on"
TlsUsable == IF env.paths # "none" THEN env.paths = "good" ELSE certs = "good"

\* The certificate is read and the port is taken; either may fail, and the process with it: nothing is served plain instead.
Open ==
  /\ stage = "opening"
  /\ \/ /\ TlsWanted => TlsUsable
        /\ port < 65536
        /\ stage' = "serving" /\ scheme' = (IF TlsWanted THEN "https" ELSE "http")
        /\ first' = IF first = None THEN scheme' ELSE first
        /\ UNCHANGED <<leaving, port>>
     \/ Dies /\ first' = first
  /\ UNCHANGED <<starts, env, certs, config, file, settings, users, seeded, events, kept, touched, due>>

\* ---- at work ------------------------------------------------------------

AtWork == stage \in {"serving", "grace"}

\* An administrator saves a port and switches TLS, for the next start. The port is saved before the rest is looked at, so it stays
\* when the rest is refused: TLS of the environment cannot be changed, and it is switched on only with certificates that can be used.
Choose ==
  /\ AtWork
  /\ \E asked \in {None, 0, 9090}, tls \in {"unset", "on", "off"} :
       LET saved == IF asked = None THEN config ELSE [config EXCEPT !.port = asked]
           taken == tls # "unset" /\ env.paths = "none" /\ (tls = "on" => certs = "good")
       IN /\ asked # 0
          /\ config' = IF taken THEN [saved EXCEPT !.tls = tls] ELSE saved
          /\ file' = (file \/ asked # None \/ taken) /\ touched' = (touched \/ taken)
  /\ UNCHANGED <<stage, starts, leaving, env, certs, settings, users, seeded, scheme, port, events, kept, first, due>>

\* The settings are saved for the first time.
Save ==
  /\ AtWork /\ settings' = TRUE
  /\ UNCHANGED <<stage, starts, leaving, env, certs, config, file, users, seeded, scheme, port, events, kept, first, touched, due>>

\* Somebody signs in, and the history of connections grows; it is written now and then.
SignIn ==
  /\ AtWork /\ events < MaxEvents /\ events' = events + 1
  /\ UNCHANGED <<stage, starts, leaving, env, certs, config, file, settings, users, seeded, scheme, port, kept, first, touched, due>>

Written ==
  /\ AtWork /\ kept' = events
  /\ UNCHANGED <<stage, starts, leaving, env, certs, config, file, settings, users, seeded, scheme, port, events, first, touched, due>>

\* ---- the end ------------------------------------------------------------

\* What the end is to leave written.
Flushed == events

\* Variant: the history is left as it was last written.
NotFlushed == kept

\* The first signal: the services are told to stop and the history is written, if the disk takes it. A second signal changes nothing.
Shutdown ==
  /\ stage = "serving" /\ stage' = "grace"
  /\ \/ kept' = Flushed /\ due' = events
     \/ UNCHANGED <<kept, due>>
  /\ UNCHANGED <<starts, leaving, env, certs, config, file, settings, users, seeded, scheme, port, events, first, touched>>

\* An administrator asks for a restart: it is answered, and the process ends a quarter of a second later, in whatever state it is.
AdminRestart ==
  /\ AtWork /\ leaving' = TRUE
  /\ UNCHANGED <<stage, starts, env, certs, config, file, settings, users, seeded, scheme, port, events, kept, first, touched, due>>

\* Its requests are over, or two seconds are, or the quarter of a second of a restart.
Exit ==
  /\ stage = "grace" \/ leaving
  /\ Dies
  /\ UNCHANGED <<starts, env, certs, config, file, settings, users, seeded, events, kept, first, touched, due>>

\* A cut, or a signal before the handlers are there.
Cut ==
  /\ stage # "down" /\ Dies
  /\ UNCHANGED <<starts, env, certs, config, file, settings, users, seeded, events, kept, first, touched, due>>

\* While the server is down, the certificates of the installation are made, spoiled or removed, the first administrator is named, the
\* file of the users is damaged or brought back.
Provision ==
  /\ stage = "down"
  /\ \/ certs' \in {"none", "bad", "good"} /\ UNCHANGED <<env, users>>
     \/ env' = [env EXCEPT !.seed = "sound"] /\ UNCHANGED <<certs, users>>
     \/ users # "none" /\ users' \in {"sound", "damaged"} /\ UNCHANGED <<env, certs>>
  /\ UNCHANGED <<starts, stage, leaving, config, file, settings, seeded, scheme, port, events, kept, first, touched, due>>

Next == Start \/ Seed \/ Open \/ Choose \/ Save \/ SignIn \/ Written \/ Shutdown \/ AdminRestart \/ Exit \/ Cut \/ Provision

Spec == Init /\ [][Next]_vars

\* ---- the loops for the job dispatcher -------------------------------------

\* A number of the file: from where to where, whether it must be whole, and what counts without it. In tenths.
Number(least, most, whole, usual) == [least |-> least, most |-> most, whole |-> whole, usual |-> usual]

RelayNumbers ==
  [pollSeconds |-> Number(5, 36000, FALSE, 20), requestTimeoutMs |-> Number(1000, 600000, FALSE, 30000),
   maxRequestAgeSeconds |-> Number(10, 864000, FALSE, 1200), maxFailureBackoffSeconds |-> Number(10, 36000, FALSE, 600)]

TakeoverNumbers ==
  [pollSeconds |-> Number(10, 36000, FALSE, 50), requestTimeoutMs |-> Number(1000, 600000, FALSE, 30000),
   failuresBeforeTakeover |-> Number(10, 10000, TRUE, 30), maxSnapshotAgeSeconds |-> Number(10, 864000, FALSE, 600),
   proofMaxAgeSeconds |-> Number(10, 6048000, FALSE, 36000), maxProofs |-> Number(10, 50000, TRUE, 10000),
   maxDeliveryAttempts |-> Number(10, 1000, TRUE, 50), retrySeconds |-> Number(10, 36000, FALSE, 100)]

Numbers(service) == IF service = "relay" THEN RelayNumbers ELSE TakeoverNumbers

\* Numbers of a file that says one of them at most: at its limits, beyond them, and one that is not whole.
OneNumber(numbers) ==
  {<<>>} \cup UNION {{[k \in {key} |-> n] : n \in {numbers[key].least - 1, numbers[key].least, numbers[key].least + 5, numbers[key].most, numbers[key].most + 1}}
                     : key \in DOMAIN numbers}

InRange(given, number) == given \in number.least..number.most /\ (number.whole => given % 10 = 0)

\* What the environment and the file say of a loop: its words in every way, its numbers of a loop that is on.
\* The relay knows one address and a map of the robots, the hand-over two addresses.
Said(service) ==
  [word : {"", "1", "0"}, enabled : {"unset", "true", "false", "odd"}, envAddress : {None, "", "a"}, fileAddress : {None, "b", "b/"},
   standby : IF service = "relay" THEN {None} ELSE {"", "b"}, map : IF service = "relay" THEN {"robots", "odd"} ELSE {"robots"}, numbers : {<<>>}]
  \cup [word : {""}, enabled : {"true"}, envAddress : {None}, fileAddress : {"a"}, standby : IF service = "relay" THEN {None} ELSE {"b"},
        map : {"robots"}, numbers : OneNumber(Numbers(service))]

\* The address in force: an empty one of the environment wins too, a slash at the end says nothing.
Address(said) == IF said.envAddress # None THEN said.envAddress ELSE IF said.fileAddress = "b/" THEN "b" ELSE IF said.fileAddress = None THEN "" ELSE said.fileAddress

Asked(said) == IF said.word # "" THEN said.word = "1" ELSE said.enabled = "true"

\* Anything wrong is an error, also what would not be used, and the loop is not started.
IsError(service, said) ==
  \/ said.enabled = "odd" \/ said.map = "odd"
  \/ \E key \in DOMAIN said.numbers : ~InRange(said.numbers[key], Numbers(service)[key])
  \/ Asked(said) /\ Address(said) = ""
  \/ Asked(said) /\ service = "takeover" /\ said.standby \in {"", Address(said)}

Used(service, said, key) == IF key \in DOMAIN said.numbers THEN said.numbers[key] ELSE Numbers(service)[key].usual

VARIABLES service, said,
          running, timer,  \* does the loop go on, and after how long is its next pass? None: no timer
          passes,          \* passes under way
          failures,        \* reads of the relay that failed in a row
          shown,           \* what Server Admin shows of the relay
          begun, lastBegun \* passes that began, and how many had when the signal came

loopVars == <<service, said, running, timer, passes, failures, shown, begun, lastBegun>>

NotStarted ==
  /\ running = FALSE /\ timer = None /\ passes = 0 /\ failures = 0 /\ shown = None /\ begun = 0 /\ lastBegun = None

LoopInit == NotStarted /\ \E which \in {"relay", "takeover"} : service = which /\ said \in Said(which)

\* The options are shown as they are read at the start, and the loop starts with the listener. Its first pass is at once.
LoopStarts ==
  LET on == ~IsError(service, said) /\ Asked(said) IN
  /\ shown = None /\ shown' = IF service # "relay" THEN "nothing" ELSE IF on THEN "on" ELSE "off"
  /\ running' = on /\ timer' = IF on THEN 0 ELSE None
  /\ UNCHANGED <<service, said, passes, failures, begun, lastBegun>>

PassBegins ==
  /\ timer # None /\ begun < MaxPasses
  /\ timer' = None /\ passes' = passes + 1 /\ begun' = begun + 1
  /\ UNCHANGED <<service, said, running, failures, shown, lastBegun>>

Least(a, b) == IF a < b THEN a ELSE b
Most(a, b) == IF a > b THEN a ELSE b

\* The pause of the relay doubles with each read that failed, up to a limit which is never less than the pause.
Delay(n) ==
  LET pause == Used(service, said, "pollSeconds") IN
  IF service = "takeover" \/ n = 0 THEN pause
  ELSE Least(pause * 2 ^ Least(n, 20), Most(Used(service, said, "maxFailureBackoffSeconds"), pause))

\* A pass is over, however it went: the next one is timed unless the loop was ended meanwhile.
PassEnds ==
  /\ passes > 0 /\ passes' = passes - 1
  /\ failures' \in {0, failures + 1}
  /\ timer' = IF running THEN Delay(failures') ELSE None
  /\ UNCHANGED <<service, said, running, shown, begun, lastBegun>>

\* The signal that ends the server ends the loops; a pass under way goes on for the rest of the two seconds.
LoopStops ==
  /\ shown # None /\ lastBegun = None
  /\ running' = FALSE /\ timer' = None /\ lastBegun' = begun
  /\ UNCHANGED <<service, said, passes, failures, shown, begun>>

LoopNext == LoopStarts \/ PassBegins \/ PassEnds \/ LoopStops

-----------------------------------------------------------------------------
TypeOK ==
  /\ stage \in {"down", "seeding", "opening", "serving", "grace"} /\ starts \in 0..MaxStarts
  /\ env \in Envs /\ certs \in {"none", "bad", "good"} /\ config \in Configs
  /\ {leaving, file, settings, touched} \subseteq BOOLEAN /\ users \in {"none", "sound", "damaged"} /\ seeded \in 0..MaxStarts
  /\ {scheme, first} \subseteq {None, "http", "https"} /\ port \in Nat \cup {None}
  /\ kept <= events /\ events <= MaxEvents

\* An installation goes on serving as it did at first, plain or encrypted, until an administrator chooses (newInstallTls.ts): certificates
\* that are made later switch nothing on, ones that are spoiled nothing off, and what the environment says of TLS holds.
SchemeStays ==
  /\ stage = "serving" /\ ~touched => scheme = first
  /\ scheme # None /\ env.paths # "none" => scheme = "https" /\ env.paths = "good"

\* Nobody is served before the installation has an account, in production one that the deployment named (users.ts, secretsPolicy.ts), and
\* the first account is made once, however often a start was refused or cut and whatever became of the file of the users.
AccountsFirst ==
  /\ scheme # None => seeded = 1 /\ (env.production => env.seed = "sound")
  /\ seeded <= 1

\* A word that is no port moves the server nowhere, the word that all services read moves it only if it has none of its own (listenPort.ts),
\* and it never serves at a port that there is not, whatever the file says.
PortsAreOwn ==
  /\ scheme # None => port \in 1..65535
  /\ port # None =>
       /\ ParseListenPort(env.own) # None => port = env.own
       /\ stage \in {"seeding", "opening"} /\ env.own \notin 1..65535 /\ env.shared \notin 1..65535 /\ config.port # None => port = config.port

\* What had happened when a server was told to end is in its history (server.ts), also after later lives, though it is written now and then
\* only; a restart from the screen does not promise it.
EndIsClean == kept >= due

LoopTypeOK ==
  /\ said \in Said(service) /\ running \in BOOLEAN /\ timer \in Nat \cup {None} /\ failures \in 0..MaxPasses /\ begun \in 0..MaxPasses
  /\ shown \in {None, "nothing", "on", "off"} /\ lastBegun \in 0..MaxPasses \cup {None}

\* Nobody stops robots or hands missions over unasked: a loop goes on only if the word of the environment or, without one, the file says so, with
\* what is said of it right as a whole and, for a hand-over, two orchestrators that differ; a mistake never becomes a default
\* (jobStopRelay.ts:72), and Server Admin shows of the relay what it does.
LoopsAreAskedFor ==
  /\ running => /\ said.word = "1" \/ (said.word = "" /\ said.enabled = "true")
                /\ \A key \in DOMAIN Numbers(service) : InRange(Used(service, said, key), Numbers(service)[key])
                /\ Address(said) # "" /\ (service = "takeover" => said.standby \notin {"", Address(said)})
  /\ shown # None /\ lastBegun = None /\ service = "relay" => (shown = "on") = running
  /\ begun > 0 => said.enabled # "odd" /\ said.map # "odd"

\* One pass at a time, none begins after the signal, and none is waited for longer than was said nor, after one that went well, than the usual
\* pause (jobStopRelay.ts, nextDelaySeconds, start and stop).
LoopsAreOrderly ==
  /\ passes \in 0..1 /\ (timer # None => passes = 0)
  /\ lastBegun # None => begun = lastBegun /\ timer = None
  /\ timer # None /\ begun > 0 =>
       LET pause == Used(service, said, "pollSeconds") IN
       /\ timer >= pause /\ (failures = 0 => timer = pause)
       /\ timer <= Most(pause, IF service = "relay" THEN Used(service, said, "maxFailureBackoffSeconds") ELSE 0)
=============================================================================

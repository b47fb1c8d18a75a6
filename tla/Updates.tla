------------------------------- MODULE Updates -------------------------------
(***************************************************************************)
(* The look at the newest published versions (updateCheck.ts): a report is *)
(* kept for a time, one look runs at a time and is shared, and what it     *)
(* asks of a small and shared quota is limited.                            *)
(***************************************************************************)
EXTENDS Integers, Sequences

CONSTANTS Owners, Programs,
          Least, Keeps,      \* the least time a report is kept, and the times that may be configured
          None, MaxTime, MaxLooks, MaxChanges

VARIABLES clock, owner, cached, look, looks, answer, changes

vars == <<clock, owner, cached, look, looks, answer, changes>>

Parts == 0..1
Versions == UNION {[1..n -> Parts] : n \in 1..2}

Init ==
  /\ clock = 0 /\ owner \in Owners
  /\ cached = None /\ look = None /\ looks = <<>> /\ answer = None /\ changes = 0

\* ---- versions -----------------------------------------------------------

Component(v, i) == IF i <= Len(v) THEN v[i] ELSE 0

\* A component that is missing counts as 0; the first one that differs decides.
Compare(a, b) ==
  LET differ == {i \in 1..2 : Component(a, i) # Component(b, i)}
      first == CHOOSE i \in differ : \A j \in differ : i <= j
  IN  IF differ = {} THEN 0 ELSE IF Component(a, first) < Component(b, first) THEN -1 ELSE 1

\* ---- a request ----------------------------------------------------------

Age == clock - cached.at

Kept(limit) == cached # None /\ Age < limit /\ cached.owner = owner

\* The kept report while it is fresh, else the look that runs, else a new look. One that is forced keeps it the least time.
Request(limit) ==
  /\ IF Kept(limit)
       THEN answer' = [owner |-> cached.owner, wanted |-> owner, age |-> Age, limit |-> limit] /\ UNCHANGED look
       ELSE /\ look' = IF look = None THEN [owner |-> owner, start |-> clock, asked |-> 0, refused |-> FALSE] ELSE look
            /\ look = None => Len(looks) < MaxLooks
            /\ answer' = None
  /\ UNCHANGED <<clock, owner, cached, looks, changes>>

\* ---- a look -------------------------------------------------------------

\* One program after the other is asked about: GitHub knows a version, knows none or does not answer in time, or refuses
\* for quota, which ends the asking.
AskGitHub ==
  /\ look # None /\ ~look.refused /\ look.asked < Programs
  /\ \E refused \in BOOLEAN : look' = [look EXCEPT !.asked = @ + 1, !.refused = refused]
  /\ answer' = None
  /\ UNCHANGED <<clock, owner, cached, looks, changes>>

\* The look ends: its report is kept, with what it knows until the refusal, and whoever waited has it.
LookEnds ==
  /\ look # None /\ (look.refused \/ look.asked = Programs)
  /\ cached' = [owner |-> look.owner, at |-> clock]
  /\ looks' = Append(looks, [owner |-> look.owner, start |-> look.start, end |-> clock])
  /\ look' = None /\ answer' = None
  /\ UNCHANGED <<clock, owner, changes>>

\* The programs that are installed cannot be read: the look fails before it asked anything, and nothing is kept.
LookFails ==
  /\ look # None /\ look.asked = 0
  /\ look' = None /\ answer' = None
  /\ UNCHANGED <<clock, owner, cached, looks, changes>>

\* ---- options and time ---------------------------------------------------

Configure ==
  /\ changes < MaxChanges /\ changes' = changes + 1
  /\ owner' \in Owners \ {owner} /\ answer' = None
  /\ UNCHANGED <<clock, cached, look, looks>>

Tick ==
  /\ clock < MaxTime /\ clock' = clock + 1 /\ answer' = None
  /\ UNCHANGED <<owner, cached, look, looks, changes>>

Next ==
  \/ \E limit \in Keeps \union {Least} : Request(limit)
  \/ AskGitHub \/ LookEnds \/ LookFails \/ Configure \/ Tick

Spec == Init /\ [][Next]_vars

-----------------------------------------------------------------------------

TypeOK ==
  /\ clock \in 0..MaxTime /\ owner \in Owners /\ changes \in 0..MaxChanges
  /\ look # None => look.asked \in 0..Programs
  /\ Len(looks) <= MaxLooks

\* Two looks that follow each other with the same owner are at least the least time apart, whatever is forced, configured or
\* shared (UpdateChecker.report): the quota, which the network shares, is not spent twice.
LooksAreSpaced ==
  \A i \in 1..Len(looks) - 1 :
    looks[i].owner = looks[i + 1].owner => looks[i + 1].start - looks[i].end >= Least

\* A kept report is answered only while it is fresh for the one who asks and is about the owner who is configured, even when
\* the owner was changed and changed back while a look ran.
AnswersAreFresh == answer # None => answer.age < answer.limit /\ answer.owner = answer.wanted

\* The order of versions is one: what is behind is not ahead, and behind of behind is behind (compareVersions).
VersionsAreOrdered ==
  \A a, b, c \in Versions :
    /\ Compare(a, b) = -Compare(b, a)
    /\ Compare(a, b) <= 0 /\ Compare(b, c) <= 0 => Compare(a, c) <= 0
    /\ Compare(a, b) = 0 => Compare(a, c) = Compare(b, c)
=============================================================================

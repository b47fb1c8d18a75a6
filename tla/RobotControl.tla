--------------------------- MODULE RobotControl ---------------------------
(***************************************************************************)
(* Who may move a robot: the reservations (claims), the arming of the jog, *)
(* the safe mode and the numbers of the motion commands. A handler checks  *)
(* and changes all of it before it first awaits, so it is one step; what   *)
(* happens to the write is in SettingsCore.                                *)
(*                                                                         *)
(* A caller is one client: an account and the controller id it sends, if   *)
(* it sends one. Its numbered jogs and stops travel over connections that  *)
(* may deliver them in any order and, after a lost answer, twice. The      *)
(* times to live of a claim, of an arming and of a mark are not counted:   *)
(* each may lapse at any moment, a mark only when nothing of its caller is *)
(* still under way, for no request travels for an hour.                    *)
(***************************************************************************)
EXTENDS Integers, Sequences, SequencesExt

CONSTANTS Robots, Callers,
          Accounts,
          Controllers,  \* the controller ids
          Anonymous,    \* stands for the controller id of a caller that sends none
          AccountOf,    \* the account of each caller
          ControllerOf, \* the controller id of each caller
          Numbering,    \* the callers, each with a robot, that number their jogs and stops of it
          Admins,       \* the accounts of administrators
          CombinedWith, \* the robots that move with each robot
          NoOne,        \* no caller
          MaxMarks,     \* MAX_ENTRIES, the marks that are kept
          MaxSent,      \* bound: numbered commands of each caller
          MaxRepeats,   \* bound: commands delivered once more
          MaxRestarts   \* bound: restarts of the server

ASSUME ConstantsAssumption ==
  /\ Anonymous \notin Controllers
  /\ AccountOf \in [Callers -> Accounts]
  /\ ControllerOf \in [Callers -> Controllers \cup {Anonymous}]
  /\ \A c, d \in Callers : AccountOf[c] = AccountOf[d] /\ ControllerOf[c] = ControllerOf[d] => c = d
  /\ Numbering \subseteq Callers \X Robots
  /\ Admins \subseteq Accounts
  /\ CombinedWith \in [Robots -> SUBSET Robots]
  /\ NoOne \notin Callers
  /\ MaxMarks \in Nat \ {0}
  /\ MaxSent \in Nat
  /\ MaxRepeats \in Nat
  /\ MaxRestarts \in Nat

VARIABLES
  claim,    \* the caller whose reservation of each robot is active, or NoOne
  armed,    \* the caller that armed the jog of each robot, or NoOne
  enabled,  \* FALSE for a robot in safe mode
  marks,    \* the highest number seen per robot and caller, the oldest mark first
  net,      \* the numbered commands under way
  sent,     \* the last number each caller used
  repeats, restarts,
  \* history
  log,      \* the numbered commands that were carried out, in order
  halted    \* the robots halted since their jog was last armed

vars == <<claim, armed, enabled, marks, net, sent, repeats, restarts, log, halted>>
safety == <<claim, armed, enabled>>
traffic == <<net, sent, repeats>>

Numbers == 1..MaxSent
Requests == [kind : {"jog", "stop"}, by : Callers, robot : Robots, seq : Numbers]
Marks == [robot : Robots, by : Callers, seq : Numbers]

TypeOK ==
  /\ claim \in [Robots -> Callers \cup {NoOne}]
  /\ armed \in [Robots -> Callers \cup {NoOne}]
  /\ enabled \in [Robots -> BOOLEAN]
  /\ marks \in Seq(Marks)
  /\ Len(marks) <= MaxMarks
  /\ net \in SUBSET Requests
  /\ sent \in [Callers -> 0..MaxSent]
  /\ repeats \in 0..MaxRepeats
  /\ restarts \in 0..MaxRestarts
  /\ log \in Seq(Requests)
  /\ halted \in SUBSET Robots

Init ==
  /\ claim = [r \in Robots |-> NoOne]
  /\ armed = [r \in Robots |-> NoOne]
  /\ enabled = [r \in Robots |-> TRUE]
  /\ marks = <<>>
  /\ net = {}
  /\ sent = [c \in Callers |-> 0]
  /\ repeats = 0
  /\ restarts = 0
  /\ log = <<>>
  /\ halted = Robots

-----------------------------------------------------------------------------
(* Reservations. The definitions called variants are mistakes that the checks must notice; no
   specification uses them. *)

\* claimConflict: the claim is another account's, or it names a controller and the caller is
\* not that controller.
Conflict(c, r) ==
  /\ claim[r] # NoOne
  /\ \/ AccountOf[claim[r]] # AccountOf[c]
     \/ ControllerOf[claim[r]] # Anonymous /\ ControllerOf[claim[r]] # ControllerOf[c]

IsAdmin(c) == AccountOf[c] \in Admins

\* Variant: the claim keeps the account only.
ClaimOfAccount(c, r, force) ==
  /\ Conflict(c, r) => force /\ IsAdmin(c)
  /\ claim' = [claim EXCEPT ![r] = AccountOf[c]]
  /\ UNCHANGED <<armed, enabled, marks, traffic, restarts, log, halted>>

\* POST /api/robot/:id/claim: granted or renewed, or forced by an administrator.
Claim(c, r, force) ==
  /\ Conflict(c, r) => force /\ IsAdmin(c)
  /\ claim' = [claim EXCEPT ![r] = c]
  /\ UNCHANGED <<armed, enabled, marks, traffic, restarts, log, halted>>

\* Variant: a release leaves the jog armed.
ReleaseKeepsArming(c, r) ==
  /\ Conflict(c, r) => IsAdmin(c)
  /\ claim' = [claim EXCEPT ![r] = NoOne]
  /\ halted' = halted \cup {r}
  /\ UNCHANGED <<armed, enabled, marks, traffic, restarts, log>>

\* POST /api/robot/:id/release, which disarms the jog too.
Release(c, r) ==
  /\ Conflict(c, r) => IsAdmin(c)
  /\ claim' = [claim EXCEPT ![r] = NoOne]
  /\ armed' = [armed EXCEPT ![r] = NoOne]
  /\ halted' = halted \cup {r}
  /\ UNCHANGED <<enabled, marks, traffic, restarts, log>>

\* The reservation is older than its time to live.
ClaimLapses(r) ==
  /\ claim[r] # NoOne
  /\ claim' = [claim EXCEPT ![r] = NoOne]
  /\ UNCHANGED <<armed, enabled, marks, traffic, restarts, log, halted>>

-----------------------------------------------------------------------------
(* Arming *)

\* POST /api/robot/:id/jog-arm with armed true.
Arm(c, r) ==
  /\ enabled[r]
  /\ ~Conflict(c, r)
  /\ armed' = [armed EXCEPT ![r] = c]
  /\ halted' = halted \ {r}
  /\ UNCHANGED <<claim, enabled, marks, traffic, restarts, log>>

\* POST /api/robot/:id/jog-arm with armed false, from anybody, and the end of the time to live.
Disarm(r) ==
  /\ armed[r] # NoOne
  /\ armed' = [armed EXCEPT ![r] = NoOne]
  /\ UNCHANGED <<claim, enabled, marks, traffic, restarts, log, halted>>

\* JogArming.isArmed: the same account and the same controller.
IsArmed(c, r) ==
  /\ armed[r] # NoOne
  /\ AccountOf[armed[r]] = AccountOf[c]
  /\ ControllerOf[armed[r]] = ControllerOf[c]

-----------------------------------------------------------------------------
(* Safe mode *)

\* The command disable, open to every caller.
Disable(r) ==
  /\ enabled' = [enabled EXCEPT ![r] = FALSE]
  /\ armed' = [armed EXCEPT ![r] = NoOne]
  /\ halted' = halted \cup {r}
  /\ UNCHANGED <<claim, marks, traffic, restarts, log>>

\* The command enable of an administrator, on a server that allows it.
Enable(c, r) ==
  /\ IsAdmin(c)
  /\ ~Conflict(c, r)
  /\ enabled' = [enabled EXCEPT ![r] = TRUE]
  /\ UNCHANGED <<claim, armed, marks, traffic, restarts, log, halted>>

\* POST /api/stop-all.
StopAll ==
  /\ armed' = [r \in Robots |-> NoOne]
  /\ halted' = Robots
  /\ UNCHANGED <<claim, enabled, marks, traffic, restarts, log>>

-----------------------------------------------------------------------------
(* The marks (JogSequence) *)

\* forgetOld makes room for one more mark.
ForgetOld(m) == IF Len(m) >= MaxMarks THEN SubSeq(m, Len(m) - MaxMarks + 2, Len(m)) ELSE m

IsMarkOf(q, mark) == mark.robot = q.robot /\ mark.by = q.by

\* Where the mark of the robot and the caller of q is, if there is one.
Own(m, q) == {i \in DOMAIN m : IsMarkOf(q, m[i])}
OwnMark(m, q) == CHOOSE i \in Own(m, q) : TRUE

\* The highest number seen of the robot and the caller of q.
Seen(m, q) == IF Own(m, q) = {} THEN 0 ELSE m[OwnMark(m, q)].seq

Without(m, q) == IF Own(m, q) = {} THEN m ELSE RemoveAt(m, OwnMark(m, q))

\* The mark of q becomes n and the youngest.
Raised(m, q, n) == Append(Without(m, q), [robot |-> q.robot, by |-> q.by, seq |-> n])

\* JogSequence.accept: a number that is not above the mark is refused and records nothing.
IsNew(q) == q.seq > Seen(ForgetOld(marks), q)
MarksAfterJog(q) == IF IsNew(q) THEN Raised(ForgetOld(marks), q, q.seq) ELSE ForgetOld(marks)

\* Variant: a stop lowers the mark.
MarksAfterAnyStop(q) == Raised(ForgetOld(marks), q, q.seq)

\* JogSequence.noteStop: the mark is never lowered.
MarksAfterStop(q) ==
  LET kept == ForgetOld(marks)
      last == Seen(kept, q)
  IN Raised(kept, q, IF q.seq > last THEN q.seq ELSE last)

\* An hour passed since the last command of that robot and caller.
MarkForgotten(i) ==
  /\ i \in DOMAIN marks
  /\ \A q \in net : ~IsMarkOf(q, marks[i])
  /\ marks' = RemoveAt(marks, i)
  /\ UNCHANGED <<safety, traffic, restarts, log, halted>>

-----------------------------------------------------------------------------
(* Numbered commands *)

\* A caller sends its next jog or stop.
Send(c, r, kind) ==
  /\ <<c, r>> \in Numbering
  /\ sent[c] < MaxSent
  /\ sent' = [sent EXCEPT ![c] = @ + 1]
  /\ net' = net \cup {[kind |-> kind, by |-> c, robot |-> r, seq |-> sent[c] + 1]}
  /\ UNCHANGED <<safety, marks, repeats, restarts, log, halted>>

\* A command is delivered, for the last time or to be sent again.
Delivered(q) ==
  \/ net' = net \ {q} /\ UNCHANGED repeats
  \/ repeats < MaxRepeats /\ repeats' = repeats + 1 /\ UNCHANGED net

Affected(r) == {r} \cup CombinedWith[r]

\* Variant: only the claim of the robot that is named is looked at.
MayJogTheNamed(c, r) ==
  /\ \A s \in Affected(r) : enabled[s]
  /\ ~Conflict(c, r)
  /\ IsArmed(c, r)

\* The checks of a jog before its number: no robot it moves is disabled or another's, and
\* its own is armed.
MayJog(c, r) ==
  /\ \A s \in Affected(r) : enabled[s] /\ ~Conflict(c, s)
  /\ IsArmed(c, r)

Jog(q) ==
  /\ q \in net /\ q.kind = "jog"
  /\ Delivered(q)
  /\ marks' = IF MayJog(q.by, q.robot) THEN MarksAfterJog(q) ELSE marks
  /\ log' = IF MayJog(q.by, q.robot) /\ IsNew(q) THEN Append(log, q) ELSE log
  /\ UNCHANGED <<safety, sent, restarts, halted>>

\* A stop is never refused: it raises the mark and disarms its robot.
Stop(q) ==
  /\ q \in net /\ q.kind = "stop"
  /\ Delivered(q)
  /\ marks' = MarksAfterStop(q)
  /\ armed' = [armed EXCEPT ![q.robot] = NoOne]
  /\ log' = Append(log, q)
  /\ halted' = halted \cup {q.robot}
  /\ UNCHANGED <<claim, enabled, sent, restarts>>

\* A stop without a number disarms its robot and leaves the marks.
PlainStop(r) ==
  /\ armed' = [armed EXCEPT ![r] = NoOne]
  /\ halted' = halted \cup {r}
  /\ UNCHANGED <<claim, enabled, marks, traffic, restarts, log>>

\* A restart forgets the arming and the marks and breaks every connection; claims and the
\* safe mode are in the settings.
Restart ==
  /\ restarts < MaxRestarts
  /\ restarts' = restarts + 1
  /\ armed' = [r \in Robots |-> NoOne]
  /\ marks' = <<>>
  /\ net' = {}
  /\ halted' = Robots
  /\ UNCHANGED <<claim, enabled, sent, repeats, log>>

-----------------------------------------------------------------------------
Next ==
  \/ \E c \in Callers, r \in Robots, force \in BOOLEAN : Claim(c, r, force)
  \/ \E c \in Callers, r \in Robots : Release(c, r)
  \/ \E r \in Robots : ClaimLapses(r)
  \/ \E c \in Callers, r \in Robots : Arm(c, r)
  \/ \E r \in Robots : Disarm(r)
  \/ \E r \in Robots : Disable(r)
  \/ \E c \in Callers, r \in Robots : Enable(c, r)
  \/ StopAll
  \/ \E i \in 1..MaxMarks : MarkForgotten(i)
  \/ \E r \in Robots : PlainStop(r)
  \/ \E c \in Callers, r \in Robots, kind \in {"jog", "stop"} : Send(c, r, kind)
  \/ \E q \in net : Jog(q)
  \/ \E q \in net : Stop(q)
  \/ Restart

Spec == Init /\ [][Next]_vars

-----------------------------------------------------------------------------
(* Properties *)

\* No jog of a caller is carried out after a stop or a jog of the same caller for the same
\* robot that was sent later, however the network reorders and repeats them (jogSequence.ts).
JogsInOrder ==
  \A i, j \in DOMAIN log :
    i < j /\ log[j].kind = "jog" /\ IsMarkOf(log[i], log[j]) => log[i].seq < log[j].seq

\* A robot that was stopped, released or disabled, alone or with all the others, answers no
\* jog of anybody until its jog is armed again, also after a restart.
HaltHolds == \A r \in halted, c \in Callers : ~MayJog(c, r)

\* A robot in safe mode keeps no arming that would let it move as soon as it is enabled.
DisabledIsDisarmed == \A r \in Robots : ~enabled[r] => armed[r] = NoOne

\* A jog is never carried out on a robot that another account holds, not through the group
\* of another robot either.
HeldRobotsStay ==
  [][\A q \in net :
       log' = Append(log, q) /\ q.kind = "jog" =>
         \A r \in Affected(q.robot) : claim[r] # NoOne => AccountOf[claim[r]] = AccountOf[q.by]]_vars
=============================================================================

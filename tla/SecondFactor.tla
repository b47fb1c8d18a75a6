--------------------------- MODULE SecondFactor ---------------------------
(***************************************************************************)
(* The second factor of an account: codes of thirty-second steps, recovery *)
(* codes, and the wait after wrong ones.                                   *)
(*                                                                         *)
(* Every change is made in the memory and then saved; a save that fails    *)
(* leaves the two apart, and the request with an error. The wrong codes    *)
(* are counted in the memory only. The password that a sign-in, an         *)
(* enrolment and a turning off ask for is checked before (Sessions), and   *)
(* the account is looked at again after it.                                *)
(***************************************************************************)
EXTENDS Integers, FiniteSets

CONSTANTS None,
          RecoveryCodes, \* RECOVERY_CODES
          FailLimit,     \* wrong codes before the next one waits (5)
          MaxWait,       \* the longest wait, in steps of thirty seconds (an hour)
          MaxSecrets,    \* bound: enrolments begun
          MaxStep,       \* bound: steps of the clock
          MaxFaults      \* bound: saves that fail, restarts

VARIABLES
  memory,  \* the record of the account, as the server has it
  disk,    \* the same in data/totp.json
  fails,   \* wrong codes in a row, and the step until which the next waits
  clock,
  begun,   \* enrolments so far: a secret is their number
  worked,  \* history: the codes that let somebody in
  twice,   \* history: did one work again?
  faults

vars == <<memory, disk, fails, clock, begun, worked, twice, faults>>

Secrets == 1..MaxSecrets
Steps == -1..MaxStep + 1
\* Recovery codes are those of the secret they were given with.
Codes == [secret : Secrets, step : Steps] \cup [secret : Secrets, recovery : 1..RecoveryCodes]
Records == [secret : Secrets \cup {None}, pending : Secrets \cup {None},
            recovery : SUBSET [secret : Secrets, recovery : 1..RecoveryCodes], lastStep : Steps]
NoFails == [count |-> 0, until |-> 0]

TypeOK ==
  /\ memory \in Records \cup {None} /\ disk \in Records \cup {None}
  /\ fails \in [count : Nat, until : Nat]
  /\ clock \in 0..MaxStep /\ begun \in 0..MaxSecrets
  /\ worked \subseteq Codes /\ twice \in BOOLEAN /\ faults \in 0..MaxFaults

Enabled == memory # None /\ memory.secret # None
WaitFor == IF fails.until > clock THEN fails.until - clock ELSE 0

\* The memory is changed first; the save may fail.
Persist(record, saved) ==
  /\ saved \/ faults < MaxFaults
  /\ faults' = faults + (IF saved THEN 0 ELSE 1)
  /\ memory' = record
  /\ disk' = IF saved THEN record ELSE disk

\* Variant: a code of the last step that worked is taken again.
MatchesAgain(secret, code, lastStep) ==
  "step" \in DOMAIN code /\ code.secret = secret /\ code.step \in clock - 1..clock + 1 /\ code.step >= lastStep

\* A code of this step or of one beside it, later than the last that worked.
Matches(secret, code, lastStep) ==
  "step" \in DOMAIN code /\ code.secret = secret /\ code.step \in clock - 1..clock + 1 /\ code.step > lastStep

\* A new secret, not in force until it is confirmed.
Begin(saved) ==
  /\ ~Enabled /\ begun < MaxSecrets
  /\ begun' = begun + 1
  /\ Persist([secret |-> None, pending |-> begun + 1,
              recovery |-> IF memory = None THEN {} ELSE memory.recovery,
              lastStep |-> IF memory = None THEN 0 ELSE memory.lastStep], saved)
  /\ UNCHANGED <<fails, clock, worked, twice>>

\* The code that confirms it is used up as well.
Confirm(code, saved) ==
  /\ memory # None /\ memory.pending # None
  /\ Matches(memory.pending, code, 0)
  /\ Persist([secret |-> memory.pending, pending |-> None, lastStep |-> code.step,
              recovery |-> [secret : {memory.pending}, recovery : 1..RecoveryCodes]], saved)
  /\ worked' = IF saved THEN worked \cup {code} ELSE worked
  /\ UNCHANGED <<fails, clock, begun, twice>>

WaitAfter(count) ==
  LET doubled == 2 ^ (count - FailLimit) IN
  IF count < FailLimit THEN fails.until ELSE clock + (IF doubled \in 1..MaxWait THEN doubled ELSE MaxWait)

Works(code) == Matches(memory.secret, code, memory.lastStep) \/ code \in memory.recovery

\* A code of the app, or a recovery code, which is then gone.
Used(code) ==
  IF Matches(memory.secret, code, memory.lastStep) THEN [memory EXCEPT !.lastStep = code.step]
  ELSE [memory EXCEPT !.recovery = @ \ {code}]

\* A sign-in with a code. What is not saved lets nobody in, and leaves the wrong codes counted.
Verify(code, saved) ==
  /\ Enabled /\ WaitFor = 0
  /\ IF Works(code)
     THEN /\ Persist(Used(code), saved)
          /\ fails' = IF saved THEN NoFails ELSE fails
          /\ worked' = IF saved THEN worked \cup {code} ELSE worked
          /\ twice' = (twice \/ (saved /\ code \in worked))
     ELSE /\ saved
          /\ fails' = [count |-> fails.count + 1, until |-> WaitAfter(fails.count + 1)]
          /\ UNCHANGED <<memory, disk, worked, twice, faults>>
  /\ UNCHANGED <<clock, begun>>

\* By the person, with a code (which Verify takes), or by an administrator.
Disable(code, saved) ==
  /\ memory # None
  /\ code # None => Enabled /\ WaitFor = 0 /\ Works(code)
  /\ saved \/ faults < MaxFaults
  /\ faults' = faults + (IF saved THEN 0 ELSE 1)
  /\ memory' = None /\ fails' = NoFails
  /\ disk' = IF saved THEN None ELSE IF code # None THEN Used(code) ELSE disk
  /\ worked' = IF code # None THEN worked \cup {code} ELSE worked
  /\ twice' = (twice \/ (code # None /\ code \in worked))
  /\ UNCHANGED <<clock, begun>>

Tick == clock < MaxStep /\ clock' = clock + 1 /\ UNCHANGED <<memory, disk, fails, begun, worked, twice, faults>>

Restart ==
  /\ faults < MaxFaults /\ faults' = faults + 1
  /\ memory' = disk /\ fails' = NoFails
  /\ UNCHANGED <<disk, clock, begun, worked, twice>>

Init ==
  /\ memory = None /\ disk = None /\ fails = NoFails /\ clock = 0 /\ begun = 0
  /\ worked = {} /\ twice = FALSE /\ faults = 0

Next ==
  \/ \E saved \in BOOLEAN :
       \/ Begin(saved)
       \/ \E code \in Codes : Confirm(code, saved) \/ Verify(code, saved)
       \/ \E code \in Codes \cup {None} : Disable(code, saved)
  \/ Tick \/ Restart

Spec == Init /\ [][Next]_vars

-----------------------------------------------------------------------------
\* A code works once: of the app, also the one that confirmed the enrolment, or a recovery code, over failed
\* saves, restarts, and a factor that was turned off and on again.
CodesWorkOnce == ~twice

\* What the server would accept after a restart it would accept now: the file is never ahead of a code that let
\* somebody in.
NothingUsedOnDisk ==
  disk # None /\ disk.secret # None =>
    \A code \in worked : code \notin disk.recovery /\
      ("step" \in DOMAIN code /\ code.secret = disk.secret => code.step <= disk.lastStep)
=============================================================================

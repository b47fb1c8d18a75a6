----------------------------- MODULE TxnFiles -----------------------------
(***************************************************************************)
(* The journalled settings store: the write queue of settingsStore.ts      *)
(* (queueSettingsWrite) over the transactions of transactionalFiles.ts     *)
(* (commitFiles, recoverTransactions).                                     *)
(*                                                                         *)
(* File 1 is settings.json, the others are points files, one per robot.    *)
(* The k-th write ever queued has the number k; the content it gives a     *)
(* file is represented by k, and 0 is the content before the first write.  *)
(* The directory .txn/<id> of write k is represented by staged[k] (its     *)
(* <i>.new files) and by k \in manifest (it holds manifest.json). The ids  *)
(* begin with the time of the commit, so their order is that of the        *)
(* numbers; the wall clock is assumed not to go back.                      *)
(*                                                                         *)
(* Each await point of the code is a step, so that a cut (Crash) can come  *)
(* between any two of them, the steps of the recovery included.            *)
(***************************************************************************)
EXTENDS Integers

CONSTANTS NFiles,      \* the number of files
          MaxWrites,   \* bound: writes queued
          MaxCrashes,  \* bound: cuts
          MaxFaults    \* bound: calls to the file system that fail for good

ASSUME ConstantsAssumption ==
  /\ NFiles \in Nat \ {0}
  /\ MaxWrites \in Nat
  /\ MaxCrashes \in Nat
  /\ MaxFaults \in Nat

Files  == 1..NFiles
Writes == 1..MaxWrites
Moments == 0..MaxWrites

VARIABLES
  disk,      \* the moment of the content of each target file
  staged,    \* the .new files present in the directory of each write
  manifest,  \* the writes whose directory holds manifest.json
  phase,     \* what the store is doing
  cur,       \* the write being performed, or the last directory the recovery has done with
  skip,      \* the files of the directory being recovered whose rename failed
  queued,    \* the number of writes queued so far
  taken,     \* the last write taken from the queue, or lost with it
  touch,     \* the files each write replaces
  outcome,   \* what the caller of each write has been told
  crashes, faults,
  committed, \* history: the newest committed write of each file
  gaveUp     \* history: a committed transaction could not be applied in full

stored == <<disk, staged, manifest>>
caller == <<queued, touch, outcome>>
vars == <<disk, staged, manifest, phase, cur, skip, queued, taken, touch,
          outcome, crashes, faults, committed, gaveUp>>

Phases   == {"idle", "staging", "applying", "down", "recovering"}
Outcomes == {"none", "waiting", "ok", "failed", "lost"}

TypeOK ==
  /\ disk \in [Files -> Moments]
  /\ staged \in [Writes -> SUBSET Files]
  /\ manifest \in SUBSET Writes
  /\ phase \in Phases
  /\ cur \in Moments
  /\ skip \in SUBSET Files
  /\ queued \in Moments
  /\ taken \in Moments
  /\ touch \in [Writes -> SUBSET Files]
  /\ outcome \in [Writes -> Outcomes]
  /\ crashes \in 0..MaxCrashes
  /\ faults \in 0..MaxFaults
  /\ committed \in [Files -> Moments]
  /\ gaveUp \in BOOLEAN

Init ==
  /\ disk = [f \in Files |-> 0]
  /\ staged = [w \in Writes |-> {}]
  /\ manifest = {}
  /\ phase = "idle"
  /\ cur = 0
  /\ skip = {}
  /\ queued = 0
  /\ taken = 0
  /\ touch = [w \in Writes |-> {}]
  /\ outcome = [w \in Writes |-> "none"]
  /\ crashes = 0
  /\ faults = 0
  /\ committed = [f \in Files |-> 0]
  /\ gaveUp = FALSE

\* The first file of a set, in the order of the files of a transaction.
IsFirst(f, S) == f \in S /\ \A g \in S : f <= g

Up == phase \notin {"down", "recovering"}

\* A call to the file system fails.
Fault == faults < MaxFaults /\ faults' = faults + 1

-----------------------------------------------------------------------------
(* The queue *)

\* queueSettingsWrite: the content is fixed when the write is queued. Every write has
\* settings.json and the points file of each robot that carries its points.
Enqueue(S) ==
  /\ Up
  /\ queued < MaxWrites
  /\ 1 \in S
  /\ queued' = queued + 1
  /\ touch' = [touch EXCEPT ![queued + 1] = S]
  /\ outcome' = [outcome EXCEPT ![queued + 1] = "waiting"]
  /\ UNCHANGED <<stored, phase, cur, skip, taken, crashes, faults, committed, gaveUp>>

\* Variant: the queue counts the write that is running as taken twice.
NextWriteSkips == taken + 2

\* The write the queue performs next: the oldest, one at a time.
NextWrite == taken + 1

\* Variant: the queue is the chain of the results themselves, so that a failed write stops it.
BeginUnlessFailed ==
  /\ phase = "idle"
  /\ taken < queued
  /\ \A w \in Writes : outcome[w] # "failed"
  /\ cur' = NextWrite
  /\ taken' = NextWrite
  /\ phase' = "staging"
  /\ UNCHANGED <<stored, skip, caller, crashes, faults, committed, gaveUp>>

\* The callback of the promise chain: commitFiles makes the directory.
Begin ==
  /\ phase = "idle"
  /\ taken < queued
  /\ cur' = NextWrite
  /\ taken' = NextWrite
  /\ phase' = "staging"
  /\ UNCHANGED <<stored, skip, caller, crashes, faults, committed, gaveUp>>

-----------------------------------------------------------------------------
(* commitFiles *)

\* One <i>.new is written and flushed.
Stage(f) ==
  /\ phase = "staging"
  /\ IsFirst(f, touch[cur] \ staged[cur])
  /\ staged' = [staged EXCEPT ![cur] = @ \cup {f}]
  /\ UNCHANGED <<disk, manifest, phase, cur, skip, caller, taken, crashes, faults,
                 committed, gaveUp>>

\* Variant: the rename of the manifest is done when the error is reported.
StageFailsLate(removed) ==
  /\ phase = "staging"
  /\ Fault
  /\ staged[cur] = touch[cur]
  /\ manifest' = manifest \cup {cur}
  /\ outcome' = [outcome EXCEPT ![cur] = "failed"]
  /\ phase' = "idle"
  /\ UNCHANGED <<disk, staged, cur, skip, queued, taken, touch, crashes, committed, gaveUp>>

\* Anything before the commit point fails: the directory is discarded, as far as that
\* works, and the caller gets the error. The queue goes on.
StageFails(removed) ==
  /\ phase = "staging"
  /\ Fault
  /\ staged' = [staged EXCEPT ![cur] = IF removed THEN {} ELSE @]
  /\ outcome' = [outcome EXCEPT ![cur] = "failed"]
  /\ phase' = "idle"
  /\ UNCHANGED <<disk, manifest, cur, skip, queued, taken, touch, crashes, committed, gaveUp>>

\* Variant: the manifest is written as soon as settings.json is staged.
ReadyToCommitEarly == 1 \in staged[cur]

\* The manifest may be written: every file is staged.
ReadyToCommit == touch[cur] \subseteq staged[cur]

\* manifest.tmp is renamed to manifest.json: the commit point.
Commit ==
  /\ phase = "staging"
  /\ ReadyToCommit
  /\ manifest' = manifest \cup {cur}
  /\ committed' = [f \in Files |-> IF f \in touch[cur] THEN cur ELSE committed[f]]
  /\ phase' = "applying"
  /\ UNCHANGED <<disk, staged, cur, skip, caller, taken, crashes, faults, gaveUp>>

\* One <i>.new is renamed over its target.
Apply(f) ==
  /\ phase = "applying"
  /\ IsFirst(f, staged[cur])
  /\ disk' = [disk EXCEPT ![f] = cur]
  /\ staged' = [staged EXCEPT ![cur] = @ \ {f}]
  /\ UNCHANGED <<manifest, phase, cur, skip, caller, taken, crashes, faults, committed, gaveUp>>

\* renameWithRetry throws after its four tries. The error reaches the caller, and the
\* directory stays with its manifest and the files that were not renamed.
ApplyGivesUp ==
  /\ phase = "applying"
  /\ staged[cur] # {}
  /\ Fault
  /\ outcome' = [outcome EXCEPT ![cur] = "failed"]
  /\ phase' = "idle"
  /\ gaveUp' = TRUE
  /\ UNCHANGED <<stored, cur, skip, queued, taken, touch, crashes, committed>>

\* What is left of the manifests once the directory of write w has been removed; the
\* removal is best effort.
Removed(w) == {manifest \ {w}, manifest}

\* Every file is in place: the directory is removed and the caller gets its answer.
Finish ==
  /\ phase = "applying"
  /\ staged[cur] = {}
  /\ manifest' \in Removed(cur)
  /\ outcome' = [outcome EXCEPT ![cur] = "ok"]
  /\ phase' = "idle"
  /\ UNCHANGED <<disk, staged, cur, skip, queued, taken, touch, crashes, faults,
                 committed, gaveUp>>

-----------------------------------------------------------------------------
(* A cut and the recovery *)

\* Power loss or kill: the queue is lost, the files stay.
Crash ==
  /\ phase # "down"
  /\ crashes < MaxCrashes
  /\ crashes' = crashes + 1
  /\ phase' = "down"
  /\ cur' = 0
  /\ skip' = {}
  /\ taken' = queued
  /\ outcome' = [w \in Writes |-> IF outcome[w] = "waiting" THEN "lost" ELSE outcome[w]]
  /\ UNCHANGED <<stored, queued, touch, faults, committed, gaveUp>>

Restart ==
  /\ phase = "down"
  /\ phase' = "recovering"
  /\ UNCHANGED <<stored, cur, skip, caller, taken, crashes, faults, committed, gaveUp>>

\* The directories found under .txn.
Dirs == {w \in Writes : staged[w] # {} \/ w \in manifest}

\* The recovery looks at the directories in the order of their names.
IsNextDir(d) == d \in Dirs /\ d > cur /\ \A e \in Dirs : e > cur => d <= e

\* Variant: every directory found is discarded, as if no manifest could be read.
RollBackAny(d) ==
  /\ phase = "recovering"
  /\ IsNextDir(d)
  /\ staged' = [staged EXCEPT ![d] = {}]
  /\ manifest' = manifest \ {d}
  /\ cur' = d
  /\ UNCHANGED <<disk, phase, skip, caller, taken, crashes, faults, committed, gaveUp>>

\* No manifest: never committed, and the directory is discarded.
RollBack(d) ==
  /\ phase = "recovering"
  /\ IsNextDir(d)
  /\ d \notin manifest
  /\ staged' = [staged EXCEPT ![d] = {}]
  /\ cur' = d
  /\ UNCHANGED <<disk, manifest, phase, skip, caller, taken, crashes, faults, committed, gaveUp>>

\* A staged file of a committed directory is renamed over its target.
RollForward(d, f) ==
  /\ phase = "recovering"
  /\ IsNextDir(d)
  /\ d \in manifest
  /\ IsFirst(f, staged[d] \ skip)
  /\ disk' = [disk EXCEPT ![f] = d]
  /\ staged' = [staged EXCEPT ![d] = @ \ {f}]
  /\ UNCHANGED <<manifest, phase, cur, skip, caller, taken, crashes, faults, committed, gaveUp>>

\* That rename, or the check of its hash, fails: a problem is noted and the next file is tried.
RollForwardFails(d, f) ==
  /\ phase = "recovering"
  /\ IsNextDir(d)
  /\ d \in manifest
  /\ IsFirst(f, staged[d] \ skip)
  /\ Fault
  /\ skip' = skip \cup {f}
  /\ gaveUp' = TRUE
  /\ UNCHANGED <<stored, phase, cur, caller, taken, crashes, committed>>

\* All the files of a directory have been tried: it is removed if none failed.
CloseDir(d) ==
  /\ phase = "recovering"
  /\ IsNextDir(d)
  /\ d \in manifest
  /\ staged[d] \subseteq skip
  /\ manifest' = IF staged[d] = {} THEN manifest \ {d} ELSE manifest
  /\ cur' = d
  /\ skip' = {}
  /\ UNCHANGED <<disk, staged, phase, caller, taken, crashes, faults, committed, gaveUp>>

\* A directory cannot be removed: recoverTransactions throws, createSettingsStore logs it
\* and goes on with the files as they are.
RecoveryAborts(d) ==
  /\ phase = "recovering"
  /\ IsNextDir(d)
  /\ d \notin manifest \/ staged[d] = {}
  /\ Fault
  /\ phase' = "idle"
  /\ skip' = {}
  /\ gaveUp' = (gaveUp \/ \E w \in manifest : staged[w] # {})
  /\ UNCHANGED <<stored, cur, caller, taken, crashes, committed>>

RecoveryEnds ==
  /\ phase = "recovering"
  /\ \A d \in Dirs : d <= cur
  /\ phase' = "idle"
  /\ UNCHANGED <<stored, cur, skip, caller, taken, crashes, faults, committed, gaveUp>>

-----------------------------------------------------------------------------
Perform ==
  \/ Begin
  \/ \E f \in Files : Stage(f)
  \/ Commit
  \/ \E f \in Files : Apply(f)
  \/ Finish

Recover ==
  \/ Restart
  \/ \E d \in Writes : RollBack(d)
  \/ \E d \in Writes, f \in Files : RollForward(d, f)
  \/ \E d \in Writes : CloseDir(d)
  \/ RecoveryEnds

Faulty ==
  \/ \E removed \in BOOLEAN : StageFails(removed)
  \/ ApplyGivesUp
  \/ \E d \in Writes, f \in Files : RollForwardFails(d, f)
  \/ \E d \in Writes : RecoveryAborts(d)

Next ==
  \/ \E S \in SUBSET Files : Enqueue(S)
  \/ Perform
  \/ Recover
  \/ Faulty
  \/ Crash

Spec == Init /\ [][Next]_vars

\* A write that is under way goes on, and a start of the server runs its recovery to the
\* end. Nothing is assumed of the callers, of faults or of cuts.
Fairness == WF_vars(Perform) /\ WF_vars(Recover)

FairSpec == Spec /\ Fairness
-----------------------------------------------------------------------------
(* What a start of the server finds *)

\* The committed directories that still hold a new content for file f.
Pending(f) == {w \in manifest : f \in staged[w]}

\* The moment of file f after an undisturbed recovery.
Recovered(f) ==
  IF Pending(f) = {} THEN disk[f]
  ELSE CHOOSE w \in Pending(f) : \A v \in Pending(f) : v <= w

\* A cut at any point, in a write or in the recovery of an earlier cut, leaves either the
\* whole of a write or nothing of it: as long as every committed transaction could be
\* applied, a start finds in every file the content of the newest committed write
\* (commitFiles and recoverTransactions together).
CutIsAllOrNothing == ~gaveUp => \A f \in Files : Recovered(f) = committed[f]

\* What the caller of a write was told is what a later start finds: an acknowledged write
\* is in all of its files unless a newer one replaced it, and a write that was reported as
\* failed is in none, whatever was cut afterwards (queueSettingsWrite's promise).
OutcomeIsHonest ==
  ~gaveUp => \A w \in Writes, f \in Files :
    /\ outcome[w] = "ok" /\ f \in touch[w] => Recovered(f) >= w
    /\ outcome[w] = "failed" => Recovered(f) # w

\* Between two writes the files on the disk, which GET /api/settings and the If-Match check
\* read without asking the queue, are all of the newest committed write.
IdleFilesMatch == phase = "idle" /\ ~gaveUp => \A f \in Files : disk[f] = committed[f]

\* No file goes back to an older moment ("Last Write Wins" by request order): neither while
\* the server writes, whatever fails, nor in a recovery after which nothing was given up.
DiskNeverGoesBack ==
  [][(phase = "recovering" /\ gaveUp) \/ \A f \in Files : disk'[f] >= disk[f]]_vars

\* A failed write never wedges the ones behind it: the caller of every write gets an answer,
\* or its server is cut.
EveryWriteAnswered ==
  \A w \in Writes : outcome[w] = "waiting" ~> outcome[w] # "waiting"

\* The store implements the atomic replacement of a set of files.
Atomic == INSTANCE AtomicFiles WITH
            stored <- [f \in Files |-> Recovered(f)],
            promised <- ~gaveUp

ImplementsAtomicFiles == Atomic!Spec
=============================================================================

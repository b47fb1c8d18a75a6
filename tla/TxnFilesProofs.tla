-------------------------- MODULE TxnFilesProofs --------------------------
(***************************************************************************)
(* Proofs about TxnFiles, for any number of files, writes, cuts and        *)
(* faults: its types, the all-or-nothing cut, the honest outcome, and that *)
(* it implements AtomicFiles.                                              *)
(***************************************************************************)
EXTENDS TxnFiles, TLAPS

-----------------------------------------------------------------------------
(* The inductive invariant *)

\* The write under way is the last one taken, and nothing of it has been committed before.
CurIsNew ==
  /\ phase \in {"staging", "applying"} => cur = taken /\ cur \in Writes
  /\ phase = "staging" =>
       /\ cur \notin manifest
       /\ staged[cur] \subseteq touch[cur]
       /\ \A f \in Files : committed[f] < cur
  /\ phase = "applying" => cur \in manifest
  /\ phase = "down" => cur = 0

\* Nothing on the disk is newer than the last write taken from the queue.
NothingFromTheFuture ==
  /\ taken <= queued
  /\ \A w \in manifest : w <= taken
  /\ \A f \in Files : disk[f] <= taken /\ committed[f] <= taken
  /\ \A w \in Writes : w > taken => staged[w] = {} /\ outcome[w] \notin {"ok", "failed"}

\* As long as nothing was given up, a committed directory with something left to apply is
\* the one of the write under way, or one that a cut left behind.
OneToApply ==
  ~gaveUp =>
    /\ skip = {}
    /\ \A w \in manifest : staged[w] # {} =>
         \/ phase = "applying" /\ w = cur
         \/ phase = "down"
         \/ phase = "recovering" /\ w > cur

\* What it still holds is the newest committed content, and every other file is in place.
StagedIsNewest ==
  ~gaveUp =>
    /\ \A w \in manifest : \A f \in staged[w] : committed[f] = w
    /\ \A f \in Files :
         /\ disk[f] <= committed[f]
         /\ (\A w \in manifest : f \notin staged[w]) => disk[f] = committed[f]

\* The answers given so far, against the newest committed writes.
AnswersMatch ==
  ~gaveUp =>
    /\ phase = "applying" => \A f \in touch[cur] : committed[f] = cur
    /\ \A w \in Writes, f \in Files :
         /\ outcome[w] = "ok" /\ f \in touch[w] => committed[f] >= w
         /\ outcome[w] = "failed" =>
              committed[f] # w /\ (phase \in {"staging", "applying"} => w # cur)

Inv == /\ TypeOK
       /\ CurIsNew
       /\ NothingFromTheFuture
       /\ OneToApply
       /\ StagedIsNewest
       /\ AnswersMatch

-----------------------------------------------------------------------------
(* The invariant is inductive, one lemma per part *)

\* Types: the number of the write under way is that of a write.
LEMMA TypeStep == Inv /\ [Next]_vars => TypeOK'
<1> SUFFICES ASSUME Inv, [Next]_vars PROVE TypeOK'
  OBVIOUS
<1> USE ConstantsAssumption DEF Inv, TypeOK, stored, caller, CurIsNew, Files, Writes, Moments, Phases, Outcomes
<1>1. ASSUME NEW S \in SUBSET Files, Enqueue(S) PROVE TypeOK'
  BY <1>1 DEF Enqueue
<1>2. CASE Begin
  BY <1>2 DEF Begin, NextWrite
<1>3. ASSUME NEW f \in Files, Stage(f) PROVE TypeOK'
  BY <1>3 DEF Stage, IsFirst
<1>4. ASSUME NEW removed \in BOOLEAN, StageFails(removed) PROVE TypeOK'
  <2>1. faults' \in 0..MaxFaults /\ staged' \in [Writes -> SUBSET Files] /\ outcome' \in [Writes -> Outcomes]
    BY <1>4 DEF StageFails, Fault
  <2> QED  BY <1>4, <2>1 DEF StageFails
<1>5. CASE Commit
  BY <1>5 DEF Commit, ReadyToCommit
<1>6. ASSUME NEW f \in Files, Apply(f) PROVE TypeOK'
  BY <1>6 DEF Apply, IsFirst
<1>7. CASE ApplyGivesUp
  <2>1. faults' \in 0..MaxFaults /\ outcome' \in [Writes -> Outcomes]
    BY <1>7 DEF ApplyGivesUp, Fault
  <2> QED BY <1>7, <2>1 DEF ApplyGivesUp
<1>8. CASE Finish
  BY <1>8 DEF Finish, Removed
<1>9. CASE Crash
  BY <1>9 DEF Crash
<1>10. CASE Restart
  BY <1>10 DEF Restart
<1>11. ASSUME NEW d \in Writes, RollBack(d) PROVE TypeOK'
  <2>1. staged' \in [Writes -> SUBSET Files] /\ cur' \in Moments
    BY <1>11 DEF RollBack
  <2> QED BY <1>11, <2>1 DEF RollBack
<1>12. ASSUME NEW d \in Writes, NEW f \in Files, RollForward(d, f) PROVE TypeOK'
  <2>1. disk' \in [Files -> Moments]
    BY <1>12 DEF RollForward
  <2>2. staged' \in [Writes -> SUBSET Files]
    BY <1>12 DEF RollForward
  <2> QED  BY <1>12, <2>1, <2>2 DEF RollForward
<1>13. ASSUME NEW d \in Writes, NEW f \in Files, RollForwardFails(d, f) PROVE TypeOK'
  BY <1>13 DEF RollForwardFails, IsFirst, Fault, IsNextDir, Dirs
<1>14. ASSUME NEW d \in Writes, CloseDir(d) PROVE TypeOK'
  BY <1>14 DEF CloseDir, IsNextDir, Dirs
<1>15. ASSUME NEW d \in Writes, RecoveryAborts(d) PROVE TypeOK'
  <2>1. faults' \in 0..MaxFaults
    BY <1>15 DEF RecoveryAborts, Fault
  <2>2. skip' \in SUBSET Files /\ phase' \in Phases /\ gaveUp' \in BOOLEAN
    BY <1>15 DEF RecoveryAborts
  <2> QED  BY <1>15, <2>1, <2>2 DEF RecoveryAborts
<1>16. CASE RecoveryEnds
  BY <1>16 DEF RecoveryEnds, Dirs
<1>17. CASE UNCHANGED vars
  BY <1>17 DEF vars
<1> QED
  BY <1>1, <1>2, <1>3, <1>4, <1>5, <1>6, <1>7, <1>8,
     <1>9, <1>10, <1>11, <1>12, <1>13, <1>14, <1>15, <1>16, <1>17
     DEF Next, Perform, Recover, Faulty

\* The write under way is new: it comes from the queue, after all earlier ones.
LEMMA CurStep == Inv /\ [Next]_vars => CurIsNew'
<1> SUFFICES ASSUME Inv, [Next]_vars PROVE CurIsNew'
  OBVIOUS
<1> USE DEF Inv, TypeOK, stored, caller, CurIsNew, NothingFromTheFuture, Writes, Moments
<1>1. ASSUME NEW S \in SUBSET Files, Enqueue(S) PROVE CurIsNew'
  BY <1>1 DEF Enqueue
<1>2. CASE Begin
  <2>1. cur' = taken + 1 /\ taken' = taken + 1 /\ taken + 1 \in Writes
    BY <1>2, ConstantsAssumption DEF Begin, NextWrite
  <2>2. taken + 1 \notin manifest /\ staged[taken + 1] = {}
    BY <2>1
  <2>3. \A f \in Files : committed[f] < taken + 1
    OBVIOUS
  <2> QED BY <1>2, <2>1, <2>2, <2>3 DEF Begin
<1>3. ASSUME NEW f \in Files, Stage(f) PROVE CurIsNew'
  BY <1>3 DEF Stage, IsFirst
<1>4. ASSUME NEW removed \in BOOLEAN, StageFails(removed) PROVE CurIsNew'
  BY <1>4 DEF StageFails, Fault
<1>5. CASE Commit
  BY <1>5 DEF Commit, ReadyToCommit
<1>6. ASSUME NEW f \in Files, Apply(f) PROVE CurIsNew'
  BY <1>6 DEF Apply, IsFirst
<1>7. CASE ApplyGivesUp
  BY <1>7 DEF ApplyGivesUp, Fault
<1>8. CASE Finish
  BY <1>8 DEF Finish, Removed
<1>9. CASE Crash
  BY <1>9 DEF Crash
<1>10. CASE Restart
  BY <1>10 DEF Restart
<1>11. ASSUME NEW d \in Writes, RollBack(d) PROVE CurIsNew'
  BY <1>11 DEF RollBack, IsNextDir, Dirs
<1>12. ASSUME NEW d \in Writes, NEW f \in Files, RollForward(d, f) PROVE CurIsNew'
  BY <1>12 DEF RollForward, IsFirst, IsNextDir, Dirs
<1>13. ASSUME NEW d \in Writes, NEW f \in Files, RollForwardFails(d, f) PROVE CurIsNew'
  BY <1>13 DEF RollForwardFails, IsFirst, Fault, IsNextDir, Dirs
<1>14. ASSUME NEW d \in Writes, CloseDir(d) PROVE CurIsNew'
  BY <1>14 DEF CloseDir, IsNextDir, Dirs
<1>15. ASSUME NEW d \in Writes, RecoveryAborts(d) PROVE CurIsNew'
  BY <1>15 DEF RecoveryAborts, Fault, IsNextDir, Dirs
<1>16. CASE RecoveryEnds
  BY <1>16 DEF RecoveryEnds, Dirs
<1>17. CASE UNCHANGED vars
  BY <1>17 DEF vars
<1> QED
  BY <1>1, <1>2, <1>3, <1>4, <1>5, <1>6, <1>7, <1>8,
     <1>9, <1>10, <1>11, <1>12, <1>13, <1>14, <1>15, <1>16, <1>17
     DEF Next, Perform, Recover, Faulty

\* Only the write under way puts anything on the disk.
LEMMA FutureStep == Inv /\ [Next]_vars => NothingFromTheFuture'
<1> SUFFICES ASSUME Inv, [Next]_vars PROVE NothingFromTheFuture'
  OBVIOUS
<1> USE DEF Inv, TypeOK, stored, caller, CurIsNew, NothingFromTheFuture, Writes, Moments
<1>1. ASSUME NEW S \in SUBSET Files, Enqueue(S) PROVE NothingFromTheFuture'
  BY <1>1 DEF Enqueue
<1>2. CASE Begin
  <2>1. taken' = taken + 1 /\ taken \in Nat /\ queued \in Nat
    BY <1>2 DEF Begin, NextWrite
  <2> QED BY <1>2, <2>1 DEF Begin
<1>3. ASSUME NEW f \in Files, Stage(f) PROVE NothingFromTheFuture'
  BY <1>3 DEF Stage, IsFirst
<1>4. ASSUME NEW removed \in BOOLEAN, StageFails(removed) PROVE NothingFromTheFuture'
  BY <1>4 DEF StageFails, Fault
<1>5. CASE Commit
  BY <1>5 DEF Commit, ReadyToCommit
<1>6. ASSUME NEW f \in Files, Apply(f) PROVE NothingFromTheFuture'
  BY <1>6 DEF Apply, IsFirst
<1>7. CASE ApplyGivesUp
  BY <1>7 DEF ApplyGivesUp, Fault
<1>8. CASE Finish
  BY <1>8 DEF Finish, Removed
<1>9. CASE Crash
  BY <1>9 DEF Crash
<1>10. CASE Restart
  BY <1>10 DEF Restart
<1>11. ASSUME NEW d \in Writes, RollBack(d) PROVE NothingFromTheFuture'
  BY <1>11 DEF RollBack, IsNextDir, Dirs
<1>12. ASSUME NEW d \in Writes, NEW f \in Files, RollForward(d, f) PROVE NothingFromTheFuture'
  BY <1>12 DEF RollForward, IsFirst, IsNextDir, Dirs
<1>13. ASSUME NEW d \in Writes, NEW f \in Files, RollForwardFails(d, f) PROVE NothingFromTheFuture'
  BY <1>13 DEF RollForwardFails, IsFirst, Fault, IsNextDir, Dirs
<1>14. ASSUME NEW d \in Writes, CloseDir(d) PROVE NothingFromTheFuture'
  BY <1>14 DEF CloseDir, IsNextDir, Dirs
<1>15. ASSUME NEW d \in Writes, RecoveryAborts(d) PROVE NothingFromTheFuture'
  BY <1>15 DEF RecoveryAborts, Fault, IsNextDir, Dirs
<1>16. CASE RecoveryEnds
  BY <1>16 DEF RecoveryEnds, Dirs
<1>17. CASE UNCHANGED vars
  BY <1>17 DEF vars
<1> QED
  BY <1>1, <1>2, <1>3, <1>4, <1>5, <1>6, <1>7, <1>8,
     <1>9, <1>10, <1>11, <1>12, <1>13, <1>14, <1>15, <1>16, <1>17
     DEF Next, Perform, Recover, Faulty

\* A directory is left with something to apply by a cut alone.
LEMMA OneStep == Inv /\ [Next]_vars => OneToApply'
<1> SUFFICES ASSUME Inv, [Next]_vars PROVE OneToApply'
  OBVIOUS
<1> USE DEF Inv, TypeOK, stored, caller, CurIsNew, NothingFromTheFuture, OneToApply, Writes, Moments
<1>1. ASSUME NEW S \in SUBSET Files, Enqueue(S) PROVE OneToApply'
  BY <1>1 DEF Enqueue
<1>2. CASE Begin
  BY <1>2 DEF Begin, NextWrite
<1>3. ASSUME NEW f \in Files, Stage(f) PROVE OneToApply'
  BY <1>3 DEF Stage, IsFirst
<1>4. ASSUME NEW removed \in BOOLEAN, StageFails(removed) PROVE OneToApply'
  BY <1>4 DEF StageFails, Fault
<1>5. CASE Commit
  BY <1>5 DEF Commit, ReadyToCommit
<1>6. ASSUME NEW f \in Files, Apply(f) PROVE OneToApply'
  BY <1>6 DEF Apply, IsFirst
<1>7. CASE ApplyGivesUp
  BY <1>7 DEF ApplyGivesUp, Fault
<1>8. CASE Finish
  BY <1>8 DEF Finish, Removed
<1>9. CASE Crash
  BY <1>9 DEF Crash
<1>10. CASE Restart
  BY <1>10 DEF Restart
<1>11. ASSUME NEW d \in Writes, RollBack(d) PROVE OneToApply'
  BY <1>11 DEF RollBack, IsNextDir, Dirs
<1>12. ASSUME NEW d \in Writes, NEW f \in Files, RollForward(d, f) PROVE OneToApply'
  BY <1>12 DEF RollForward, IsFirst, IsNextDir, Dirs
<1>13. ASSUME NEW d \in Writes, NEW f \in Files, RollForwardFails(d, f) PROVE OneToApply'
  BY <1>13 DEF RollForwardFails, IsFirst, Fault, IsNextDir, Dirs
<1>14. ASSUME NEW d \in Writes, CloseDir(d) PROVE OneToApply'
  BY <1>14 DEF CloseDir, IsNextDir, Dirs
<1>15. ASSUME NEW d \in Writes, RecoveryAborts(d) PROVE OneToApply'
  BY <1>15 DEF RecoveryAborts, Fault, IsNextDir, Dirs
<1>16. CASE RecoveryEnds
  BY <1>16 DEF RecoveryEnds, Dirs
<1>17. CASE UNCHANGED vars
  BY <1>17 DEF vars
<1> QED
  BY <1>1, <1>2, <1>3, <1>4, <1>5, <1>6, <1>7, <1>8,
     <1>9, <1>10, <1>11, <1>12, <1>13, <1>14, <1>15, <1>16, <1>17
     DEF Next, Perform, Recover, Faulty

\* A rename puts the newest committed content of its file in place.
LEMMA StagedStep == Inv /\ [Next]_vars => StagedIsNewest'
<1> SUFFICES ASSUME Inv, [Next]_vars PROVE StagedIsNewest'
  OBVIOUS
<1> USE DEF Inv, TypeOK, stored, caller, CurIsNew, NothingFromTheFuture, OneToApply, StagedIsNewest, Writes, Moments
<1>1. ASSUME NEW S \in SUBSET Files, Enqueue(S) PROVE StagedIsNewest'
  BY <1>1 DEF Enqueue
<1>2. CASE Begin
  BY <1>2 DEF Begin, NextWrite
<1>3. ASSUME NEW f \in Files, Stage(f) PROVE StagedIsNewest'
  BY <1>3 DEF Stage, IsFirst
<1>4. ASSUME NEW removed \in BOOLEAN, StageFails(removed) PROVE StagedIsNewest'
  BY <1>4 DEF StageFails, Fault
<1>5. CASE Commit
  <2>1. \A f \in Files : committed'[f] = IF f \in touch[cur] THEN cur ELSE committed[f]
    BY <1>5 DEF Commit
  <2>2. staged[cur] = touch[cur] /\ touch[cur] \subseteq Files
    BY <1>5 DEF Commit, ReadyToCommit
  <2>3. ~gaveUp => \A w \in manifest : staged[w] = {}
    BY <1>5 DEF Commit
  <2> QED BY <1>5, <2>1, <2>2, <2>3 DEF Commit
<1>6. ASSUME NEW f \in Files, Apply(f) PROVE StagedIsNewest'
  BY <1>6 DEF Apply, IsFirst
<1>7. CASE ApplyGivesUp
  BY <1>7 DEF ApplyGivesUp, Fault
<1>8. CASE Finish
  BY <1>8 DEF Finish, Removed
<1>9. CASE Crash
  BY <1>9 DEF Crash
<1>10. CASE Restart
  BY <1>10 DEF Restart
<1>11. ASSUME NEW d \in Writes, RollBack(d) PROVE StagedIsNewest'
  BY <1>11 DEF RollBack, IsNextDir, Dirs
<1>12. ASSUME NEW d \in Writes, NEW f \in Files, RollForward(d, f) PROVE StagedIsNewest'
  BY <1>12 DEF RollForward, IsFirst, IsNextDir, Dirs
<1>13. ASSUME NEW d \in Writes, NEW f \in Files, RollForwardFails(d, f) PROVE StagedIsNewest'
  BY <1>13 DEF RollForwardFails, IsFirst, Fault, IsNextDir, Dirs
<1>14. ASSUME NEW d \in Writes, CloseDir(d) PROVE StagedIsNewest'
  BY <1>14 DEF CloseDir, IsNextDir, Dirs
<1>15. ASSUME NEW d \in Writes, RecoveryAborts(d) PROVE StagedIsNewest'
  BY <1>15 DEF RecoveryAborts, Fault, IsNextDir, Dirs
<1>16. CASE RecoveryEnds
  BY <1>16 DEF RecoveryEnds, Dirs
<1>17. CASE UNCHANGED vars
  BY <1>17 DEF vars
<1> QED
  BY <1>1, <1>2, <1>3, <1>4, <1>5, <1>6, <1>7, <1>8,
     <1>9, <1>10, <1>11, <1>12, <1>13, <1>14, <1>15, <1>16, <1>17
     DEF Next, Perform, Recover, Faulty

\* An answer is given after the commit point, or without reaching it.
LEMMA AnswersStep == Inv /\ [Next]_vars => AnswersMatch'
<1> SUFFICES ASSUME Inv, [Next]_vars PROVE AnswersMatch'
  OBVIOUS
<1> USE DEF Inv, TypeOK, stored, caller, CurIsNew, NothingFromTheFuture, OneToApply, AnswersMatch, Writes, Moments
<1>1. ASSUME NEW S \in SUBSET Files, Enqueue(S) PROVE AnswersMatch'
  BY <1>1 DEF Enqueue
<1>2. CASE Begin
  BY <1>2 DEF Begin, NextWrite
<1>3. ASSUME NEW f \in Files, Stage(f) PROVE AnswersMatch'
  BY <1>3 DEF Stage, IsFirst
<1>4. ASSUME NEW removed \in BOOLEAN, StageFails(removed) PROVE AnswersMatch'
  BY <1>4 DEF StageFails, Fault
<1>5. CASE Commit
  <2>1. \A f \in Files : committed'[f] = IF f \in touch[cur] THEN cur ELSE committed[f]
    BY <1>5 DEF Commit
  <2>2. touch[cur] \subseteq Files /\ cur = taken
    BY <1>5 DEF Commit
  <2>3. \A w \in Writes : outcome[w] \in {"ok", "failed"} => w <= cur
    BY <2>2
  <2> QED BY <1>5, <2>1, <2>2, <2>3 DEF Commit
<1>6. ASSUME NEW f \in Files, Apply(f) PROVE AnswersMatch'
  BY <1>6 DEF Apply, IsFirst
<1>7. CASE ApplyGivesUp
  BY <1>7 DEF ApplyGivesUp, Fault
<1>8. CASE Finish
  BY <1>8 DEF Finish, Removed
<1>9. CASE Crash
  BY <1>9 DEF Crash
<1>10. CASE Restart
  BY <1>10 DEF Restart
<1>11. ASSUME NEW d \in Writes, RollBack(d) PROVE AnswersMatch'
  BY <1>11 DEF RollBack, IsNextDir, Dirs
<1>12. ASSUME NEW d \in Writes, NEW f \in Files, RollForward(d, f) PROVE AnswersMatch'
  BY <1>12 DEF RollForward, IsFirst, IsNextDir, Dirs
<1>13. ASSUME NEW d \in Writes, NEW f \in Files, RollForwardFails(d, f) PROVE AnswersMatch'
  BY <1>13 DEF RollForwardFails, IsFirst, Fault, IsNextDir, Dirs
<1>14. ASSUME NEW d \in Writes, CloseDir(d) PROVE AnswersMatch'
  BY <1>14 DEF CloseDir, IsNextDir, Dirs
<1>15. ASSUME NEW d \in Writes, RecoveryAborts(d) PROVE AnswersMatch'
  BY <1>15 DEF RecoveryAborts, Fault, IsNextDir, Dirs
<1>16. CASE RecoveryEnds
  BY <1>16 DEF RecoveryEnds, Dirs
<1>17. CASE UNCHANGED vars
  BY <1>17 DEF vars
<1> QED
  BY <1>1, <1>2, <1>3, <1>4, <1>5, <1>6, <1>7, <1>8,
     <1>9, <1>10, <1>11, <1>12, <1>13, <1>14, <1>15, <1>16, <1>17
     DEF Next, Perform, Recover, Faulty

-----------------------------------------------------------------------------
(* The theorems *)

\* The parts together: every step of the store, with its faults and cuts, keeps them.
THEOREM InvCorrect == Spec => []Inv
<1>1. Init => Inv
  <2> SUFFICES ASSUME Init PROVE Inv
    OBVIOUS
  <2> USE ConstantsAssumption DEF Init
  <2>1. TypeOK
    <3>1. 0 \in Moments /\ 0 \in 0..MaxCrashes /\ 0 \in 0..MaxFaults
      BY DEF Moments
    <3>2. phase \in Phases /\ outcome \in [Writes -> Outcomes]
      BY DEF Phases, Outcomes
    <3> QED BY <3>1, <3>2 DEF TypeOK
  <2>2. CurIsNew /\ OneToApply
    BY DEF CurIsNew, OneToApply
  <2>3. NothingFromTheFuture
    BY DEF NothingFromTheFuture
  <2>4. StagedIsNewest
    BY DEF StagedIsNewest
  <2>5. AnswersMatch
    BY DEF AnswersMatch
  <2> QED BY <2>1, <2>2, <2>3, <2>4, <2>5 DEF Inv
<1>2. Inv /\ [Next]_vars => Inv'
  BY TypeStep, CurStep, FutureStep, OneStep, StagedStep, AnswersStep DEF Inv
<1> QED BY <1>1, <1>2, PTL DEF Spec

\* Every variable of the store keeps its type.
THEOREM TypeCorrect == Spec => []TypeOK
<1>1. Inv => TypeOK
  BY DEF Inv
<1> QED BY <1>1, InvCorrect, PTL

\* As long as nothing was given up, a start finds the newest committed content: what is
\* still to be applied to a file is that content, and otherwise it is in place.
LEMMA RecoveredIsCommitted == Inv => CutIsAllOrNothing
<1> SUFFICES ASSUME Inv, ~gaveUp, NEW f \in Files PROVE Recovered(f) = committed[f]
  BY DEF CutIsAllOrNothing
<1> USE DEF Inv, StagedIsNewest, Pending, Recovered
<1>1. CASE Pending(f) = {}
  BY <1>1
<1>2. CASE Pending(f) # {}
  <2>1. \A w \in Pending(f) : w = committed[f]
    OBVIOUS
  <2>2. committed[f] \in Pending(f)
    BY <1>2, <2>1
  <2>3. committed[f] \in Int
    BY DEF TypeOK, Moments
  <2>4. Pending(f) = {committed[f]} /\ committed[f] <= committed[f]
    BY <2>1, <2>2, <2>3
  <2> QED BY <2>4
<1> QED BY <1>1, <1>2

\* The same after a step.
LEMMA RecoveredIsCommittedNext == Inv' => CutIsAllOrNothing'
BY RecoveredIsCommitted, PTL

\* A cut at any point of a write or of a recovery leaves a whole write or nothing of it.
THEOREM CutCorrect == Spec => []CutIsAllOrNothing
BY RecoveredIsCommitted, InvCorrect, PTL

\* What the caller of a write was told is what a later start finds.
THEOREM OutcomeCorrect == Spec => []OutcomeIsHonest
<1>1. Inv => OutcomeIsHonest
  BY RecoveredIsCommitted DEF CutIsAllOrNothing, OutcomeIsHonest, Inv, AnswersMatch
<1> QED BY <1>1, InvCorrect, PTL

\* Between two writes the files are all of the newest committed write.
THEOREM IdleCorrect == Spec => []IdleFilesMatch
<1>1. Inv => IdleFilesMatch
  <2> SUFFICES ASSUME Inv, phase = "idle", ~gaveUp, NEW f \in Files
               PROVE disk[f] = committed[f]
    BY DEF IdleFilesMatch
  <2>1. \A w \in manifest : staged[w] = {}
    BY DEF Inv, OneToApply
  <2> QED BY <2>1 DEF Inv, StagedIsNewest
<1> QED BY <1>1, InvCorrect, PTL

\* No file goes back to an older moment, unless a recovery runs after something was given up.
THEOREM NeverBackCorrect == Spec => DiskNeverGoesBack
<1>1. Inv /\ [Next]_vars
        => [(phase = "recovering" /\ gaveUp) \/ \A f \in Files : disk'[f] >= disk[f]]_vars
  <2> SUFFICES ASSUME Inv, Next, ~(phase = "recovering" /\ gaveUp), NEW g \in Files
               PROVE disk'[g] >= disk[g]
    OBVIOUS
  <2> USE DEF Inv, TypeOK
  <2>1. disk[g] \in Int
    BY DEF Moments
  <2>2. ASSUME NEW f \in Files, Apply(f) PROVE disk'[g] >= disk[g]
    BY <2>1, <2>2 DEF Apply, CurIsNew, NothingFromTheFuture, Moments
  <2>3. ASSUME NEW d \in Writes, NEW f \in Files, RollForward(d, f) PROVE disk'[g] >= disk[g]
    BY <2>1, <2>3 DEF RollForward, IsFirst, StagedIsNewest, Moments
  <2>4. ASSUME UNCHANGED disk PROVE disk'[g] >= disk[g]
    BY <2>1, <2>4
  <2> QED BY <2>2, <2>3, <2>4
        DEF Next, Perform, Recover, Faulty, Enqueue, Begin, Stage, Commit, Finish, Restart,
            RollBack, CloseDir, RecoveryEnds, StageFails, ApplyGivesUp, RollForwardFails,
            RecoveryAborts, Crash, stored
<1> QED BY <1>1, InvCorrect, PTL DEF Spec, DiskNeverGoesBack

-----------------------------------------------------------------------------
(* Refinement *)

\* Only the commit point changes what was committed, and nothing that was given up is
\* taken back or changes the files by itself.
LEMMA StepKinds ==
  ASSUME Inv, Next
  PROVE  /\ Commit \/ UNCHANGED committed
         /\ gaveUp => gaveUp'
         /\ gaveUp' => gaveUp \/ UNCHANGED stored
<1> USE DEF stored
<1>0. gaveUp \in BOOLEAN
  BY DEF Inv, TypeOK
<1>1. CASE \E S \in SUBSET Files : Enqueue(S)
  BY <1>1 DEF Enqueue
<1>2. CASE Perform
  BY <1>2 DEF Perform, Begin, Stage, Commit, Apply, Finish
<1>3. CASE Recover
  <2>1. CASE Restart \/ RecoveryEnds
    BY <2>1 DEF Restart, RecoveryEnds
  <2>2. CASE \E d \in Writes : RollBack(d) \/ CloseDir(d)
    BY <2>2 DEF RollBack, CloseDir
  <2>3. CASE \E d \in Writes, f \in Files : RollForward(d, f)
    BY <2>3 DEF RollForward
  <2> QED BY <1>3, <2>1, <2>2, <2>3 DEF Recover
<1>4. CASE Faulty
  <2>1. CASE \E removed \in BOOLEAN : StageFails(removed)
    BY <2>1 DEF StageFails
  <2>2. CASE ApplyGivesUp
    BY <2>2 DEF ApplyGivesUp
  <2>3. CASE \E d \in Writes, f \in Files : RollForwardFails(d, f)
    BY <2>3 DEF RollForwardFails
  <2>4. ASSUME NEW d \in Writes, RecoveryAborts(d)
        PROVE  UNCHANGED committed /\ UNCHANGED stored /\ (gaveUp => gaveUp')
    BY <1>0, <2>4 DEF RecoveryAborts
  <2> QED BY <1>4, <2>1, <2>2, <2>3, <2>4 DEF Faulty
<1>5. CASE Crash
  BY <1>5 DEF Crash
<1> QED BY <1>1, <1>2, <1>3, <1>4, <1>5 DEF Next

\* The commit point replaces all the files of a write at once; giving up ends the promise;
\* every other step leaves what a start would find as it was.
LEMMA StepImplements ==
  ASSUME Inv, Inv', Next
  PROVE  Atomic!Next \/ UNCHANGED Atomic!avars
<1> DEFINE view == [f \in Files |-> Recovered(f)]
<1>1. CASE ~gaveUp'
  <2>1. ~gaveUp
    BY <1>1, StepKinds
  <2>2. view = committed
    BY <2>1, RecoveredIsCommitted DEF CutIsAllOrNothing, Inv, TypeOK
  <2>3. view' = committed'
    BY <1>1, RecoveredIsCommittedNext DEF CutIsAllOrNothing, Inv, TypeOK
  <2>4. CASE Commit
    <3>1. cur \in Moments /\ touch[cur] \in SUBSET Files /\ \A f \in Files : committed[f] < cur
      BY <2>4 DEF Commit, Inv, TypeOK, CurIsNew, Writes, Moments
    <3>2. committed' = [f \in Files |-> IF f \in touch[cur] THEN cur ELSE committed[f]]
      BY <2>4 DEF Commit
    <3>3. \A f \in Files : Recovered(f) = committed[f]
      BY <2>1, RecoveredIsCommitted DEF CutIsAllOrNothing
    <3>4. view' = [f \in Files |-> IF f \in touch[cur] THEN cur ELSE view[f]]
      BY <2>2, <2>3, <3>2
    <3>5. Atomic!Replace(cur, touch[cur])
      BY <1>1, <2>1, <3>1, <3>3, <3>4 DEF Atomic!Replace
    <3> QED BY <3>1, <3>5 DEF Atomic!Next
  <2>5. CASE UNCHANGED committed
    <3>1. view' = view
      BY <2>2, <2>3, <2>5
    <3> QED BY <1>1, <2>1, <3>1 DEF Atomic!avars
  <2> QED BY <2>4, <2>5, StepKinds
<1>2. CASE gaveUp' /\ ~gaveUp
  <2>1. UNCHANGED stored
    BY <1>2, StepKinds
  <2>2. view' = view
    BY <2>1 DEF stored, Recovered, Pending
  <2> QED BY <1>2, <2>2 DEF Atomic!Next, Atomic!Lapse
<1>3. CASE gaveUp' /\ gaveUp
  BY <1>3 DEF Atomic!Next, Atomic!Unpromised
<1> QED BY <1>1, <1>2, <1>3

\* The journalled store implements the atomic replacement of a set of files.
THEOREM RefinementCorrect == Spec => ImplementsAtomicFiles
<1>1. Init => Atomic!Init
  <2> SUFFICES ASSUME Init PROVE Atomic!Init
    OBVIOUS
  <2>1. 0 \in Moments
    BY ConstantsAssumption DEF Moments
  <2>2. \A f \in Files : Recovered(f) = 0
    BY DEF Init, Recovered, Pending
  <2> QED BY <2>1, <2>2 DEF Init, Atomic!Init
<1>2. Inv /\ Inv' /\ [Next]_vars => [Atomic!Next]_(Atomic!avars)
  <2>1. UNCHANGED vars => UNCHANGED Atomic!avars
    BY DEF vars, Atomic!avars, Recovered, Pending
  <2> QED BY <2>1, StepImplements
<1> QED BY <1>1, <1>2, InvCorrect, PTL DEF Spec, ImplementsAtomicFiles, Atomic!Spec
=============================================================================

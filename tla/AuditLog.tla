----------------------------- MODULE AuditLog -----------------------------
(***************************************************************************)
(* The audit record: a chain of lines, each with the hash of the one       *)
(* before it, in a live file that is rotated by its size. The server       *)
(* continues the chain after a restart from what the live file shows.      *)
(*                                                                         *)
(* An append may be refused by the disk, be cut in the middle of its line, *)
(* or reach the disk although it failed; the file is renamed before the    *)
(* line that fills the next one is written. A line stands for its own      *)
(* hash: two lines never have the same content, as each has its moment.    *)
(*                                                                         *)
(* The second part is the log of the server (runtime.ts, logRotation.ts),  *)
(* whose lines wait in a stream until the disk takes them.                 *)
(***************************************************************************)
EXTENDS Integers, Sequences, SequencesExt, FiniteSetsExt

CONSTANTS None,
          MaxBytes,  \* lines, for maxBytes: the size at which the live file is rotated
          Keep,      \* keep: rotated files kept
          MaxEvents, \* bound: events recorded
          MaxFaults, \* bound: appends that fail, restarts
          MaxLogLines, \* lines, for MAX_LOG_BYTES
          KeepWord,  \* what the environment says of the rotated logs to keep
          MaxLogged, MaxLogFaults

VARIABLES
  live,     \* audit.jsonl: its lines (None: no such file); 0 is a line that is not valid JSON
  cut,      \* does the live file end in the middle of a line?
  rotated,  \* the rotated files, by the number in their name
  lines,    \* what each line says: its number in the record and the line before it
  last,     \* the memory: the number and the line it will continue from
  taken,    \* history: the lines whose event was answered as recorded
  faults

vars == <<live, cut, rotated, lines, last, taken, faults>>

Genesis == 0
Damaged == 0
Lines == 1..MaxEvents

TypeOK ==
  /\ live = None \/ (live \in Seq(Lines \cup {Damaged}) /\ Len(live) <= MaxBytes)
  /\ cut \in BOOLEAN
  /\ DOMAIN rotated \subseteq 0..MaxEvents /\ \A n \in DOMAIN rotated : rotated[n] \in Seq(Lines \cup {Damaged})
  /\ lines \in Seq([seq : 1..MaxEvents, prev : Lines \cup {Genesis}])
  /\ last \in [seq : 0..MaxEvents, line : Lines \cup {Genesis}]
  /\ taken \in Seq(Lines) /\ faults \in 0..MaxFaults

LiveLines == IF live = None THEN <<>> ELSE live
OldestFirst == SetToSortSeq(DOMAIN rotated, <)
OnDisk == FlattenSeq([i \in 1..Len(OldestFirst) |-> rotated[OldestFirst[i]]]) \o LiveLines

-----------------------------------------------------------------------------
\* The newest files by their name are kept.
Kept(files) == LET names == SetToSortSeq(DOMAIN files, <)
                   old == {names[i] : i \in 1..(Len(names) - Keep)}
               IN  [n \in DOMAIN files \ old |-> files[n]]

\* The files when the next line is about to be appended; a line that was cut counts for its size.
MustRotate == live # None /\ Len(live) + (IF cut THEN 1 ELSE 0) >= MaxBytes
WithLive(n) == [m \in DOMAIN rotated \cup {n} |-> IF m = n THEN LiveLines \o (IF cut THEN <<Damaged>> ELSE <<>>) ELSE rotated[m]]
Rotated == IF MustRotate THEN Kept(WithLive(last.seq)) ELSE rotated
LiveAfter == IF MustRotate THEN None ELSE live
CutAfter == IF MustRotate THEN FALSE ELSE cut

\* A line that follows one that was cut makes one line of both, which nobody can read.
Append1(file, line, wasCut) == Append(IF file = None THEN <<>> ELSE file, IF wasCut THEN Damaged ELSE line)

NextLine == [seq |-> last.seq + 1, prev |-> last.line]

Record ==
  /\ Len(lines) < MaxEvents
  /\ LET line == Len(lines) + 1 IN
       /\ lines' = Append(lines, NextLine)
       /\ rotated' = Rotated
       /\ live' = Append1(LiveAfter, line, CutAfter)
       /\ cut' = FALSE
       /\ last' = [seq |-> NextLine.seq, line |-> line]
       /\ taken' = Append(taken, line)
  /\ UNCHANGED faults

\* The disk refuses the line, cuts it, or takes it and fails all the same: it is logged, and the memory stays.
RecordFails ==
  /\ Len(lines) < MaxEvents /\ faults < MaxFaults
  /\ faults' = faults + 1
  /\ rotated' = Rotated
  /\ lines' = Append(lines, NextLine)
  /\ \/ live' = LiveAfter /\ cut' = CutAfter
     \/ live' = (IF LiveAfter = None THEN <<>> ELSE LiveAfter) /\ cut' = TRUE
     \/ live' = Append1(LiveAfter, Len(lines) + 1, CutAfter) /\ cut' = FALSE
  /\ UNCHANGED <<last, taken>>

\* From the last readable line of the live file, if there is one.
Resumed(readable) ==
  IF readable = <<>> THEN [seq |-> 0, line |-> Genesis]
  ELSE [seq |-> lines[Last(readable)].seq, line |-> Last(readable)]

Restart ==
  /\ faults < MaxFaults
  /\ faults' = faults + 1
  /\ last' = Resumed(SelectSeq(LiveLines, LAMBDA l : l # Damaged))
  /\ UNCHANGED <<live, cut, rotated, lines, taken>>

Init ==
  /\ live = None /\ cut = FALSE /\ rotated = [n \in {} |-> <<>>] /\ lines = <<>>
  /\ last = [seq |-> 0, line |-> Genesis] /\ taken = <<>> /\ faults = 0

Next == Record \/ RecordFails \/ Restart

Spec == Init /\ [][Next]_vars

-----------------------------------------------------------------------------
\* Variant: a verification that looks at each file by itself.
FollowsInFile(all, i) ==
  lines[all[i]].prev = all[i - 1] \/ \E n \in DOMAIN rotated : all[i - 1] = Last(rotated[n])

\* Does a line name the one before it?
Follows(all, i) == lines[all[i]].prev = all[i - 1]

Verifies ==
  LET all == OnDisk IN
    /\ ~cut
    /\ \A i \in DOMAIN all : all[i] # Damaged
    /\ \A i \in 2..Len(all) : Follows(all, i)

\* A record that verifies is whole: its lines are the newest ones the server took, in their order and without a
\* gap, whatever failed or was cut before. It is said while there is a live file: between a rotation and the
\* next line nothing tells a missing one.
VerifiedIsWhole ==
  Verifies /\ live # None =>
    LET took == SelectSeq(OnDisk, LAMBDA l : \E i \in DOMAIN taken : taken[i] = l) IN
      IsSuffix(took, taken)

-----------------------------------------------------------------------------
\* The log of the server: a line waits in a stream. A stream opens the file of the log some time after it was made, and writes
\* to the file it opened also when that has another name by then.

VARIABLES
  inodes,    \* the files there ever were: their lines
  names,     \* the file of the log (0) and the rotated ones (1, 2, ...): which file each name is of, 0: of none
  streams,   \* the streams there ever were; the last one takes the lines
  newest,    \* the lines logged so far
  logged,    \* those that no stream lost
  mixed,     \* did a rotation fail?
  logFaults
logVars == <<inodes, names, streams, newest, logged, mixed, logFaults>>

ResolveLogKeep(raw) == IF raw = None \/ raw < 1 THEN 1 ELSE IF raw > 50 THEN 50 ELSE raw
LogKeep == ResolveLogKeep(KeepWord)
Numbers == 0..LogKeep

NewStream == [file |-> 0, queue |-> <<>>, broken |-> FALSE]

LogInit ==
  /\ inodes = <<>> /\ names = [n \in Numbers |-> 0] /\ streams = <<NewStream>> /\ newest = 0 /\ logged = <<>>
  /\ mixed = FALSE /\ logFaults = 0

\* The size on the disk counts; what waits is not there yet.
LogIsFull == names[0] # 0 /\ Len(inodes[names[0]]) >= MaxLogLines

\* The oldest is removed, then the names move up from the oldest on, so many of them.
Shifted(moves) ==
  [n \in Numbers |-> IF n > LogKeep - moves THEN names[n - 1] ELSE IF n = LogKeep - moves THEN 0 ELSE names[n]]

\* From the newest on, each would take the name of the one before it was moved.
ShiftedVariant(moves) == [n \in Numbers |-> IF n = 0 THEN 0 ELSE IF n <= moves THEN names[0] ELSE names[n]]

LogFault == logFaults < MaxLogFaults /\ logFaults' = logFaults + 1

\* industrialLog, with rotateLogIfNeeded: the stream is ended and another one made, also when a name could not be moved.
LogLine ==
  /\ newest < MaxLogged /\ newest' = newest + 1
  /\ IF LogIsFull
       THEN \/ names' = Shifted(LogKeep) /\ UNCHANGED <<mixed, logFaults>>
            \/ LogFault /\ mixed' = TRUE /\ \E moves \in 0..LogKeep - 1 : names' = Shifted(moves)
       ELSE UNCHANGED <<names, mixed, logFaults>>
  /\ LET all == IF LogIsFull THEN Append(streams, NewStream) ELSE streams
         taken1 == ~Last(all).broken
     IN  /\ streams' = IF taken1 THEN [all EXCEPT ![Len(all)].queue = Append(@, newest')] ELSE all
         /\ logged' = IF taken1 THEN Append(logged, newest') ELSE logged
  /\ UNCHANGED inodes

StreamOpens(s) ==
  /\ streams[s].file = 0 /\ ~streams[s].broken
  /\ IF names[0] # 0 THEN UNCHANGED <<inodes, names>>
     ELSE inodes' = Append(inodes, <<>>) /\ names' = [names EXCEPT ![0] = Len(inodes')]
  /\ streams' = [streams EXCEPT ![s].file = names'[0]]
  /\ UNCHANGED <<newest, logged, mixed, logFaults>>

StreamWrites(s) ==
  /\ streams[s].file # 0 /\ streams[s].queue # <<>>
  /\ inodes' = [inodes EXCEPT ![streams[s].file] = Append(@, Head(streams[s].queue))]
  /\ streams' = [streams EXCEPT ![s].queue = Tail(@)]
  /\ UNCHANGED <<names, newest, logged, mixed, logFaults>>

Lost(queues) == logged' = SelectSeq(logged, LAMBDA line : line \notin UNION {Range(streams[s].queue) : s \in queues})

\* The disk refuses a write: the stream is destroyed, with what waits in it and every line until the next rotation.
StreamBreaks(s) ==
  /\ streams[s].queue # <<>> /\ LogFault /\ Lost({s})
  /\ streams' = [streams EXCEPT ![s] = [@ EXCEPT !.queue = <<>>, !.broken = TRUE]]
  /\ UNCHANGED <<inodes, names, newest, mixed>>

LogRestart ==
  /\ LogFault /\ Lost(DOMAIN streams) /\ streams' = <<NewStream>>
  /\ UNCHANGED <<inodes, names, newest, mixed>>

LogNext ==
  \/ LogLine \/ LogRestart
  \/ \E s \in DOMAIN streams : StreamOpens(s) \/ StreamWrites(s) \/ StreamBreaks(s)

LogTypeOK ==
  /\ names \in [Numbers -> 0..Len(inodes)] /\ \A s \in Range(streams) : s.file \in 0..Len(inodes)
  /\ newest \in 0..MaxLogged /\ Range(logged) \subseteq 1..newest

LogOldestFirst == FlattenSeq([i \in 1..LogKeep + 1 |-> IF names[LogKeep + 1 - i] = 0 THEN <<>> ELSE inodes[names[LogKeep + 1 - i]]])
Quiet == \A s \in Range(streams) : s.queue = <<>>

\* Once no line waits, the files hold the newest of the lines that no stream lost, in their order and without a gap, whatever waited
\* in which stream while names moved, unless a move failed; and no line is ever in two places (runtime.ts, industrialLog).
LogIsWhole ==
  /\ Quiet /\ ~mixed => IsSuffix(LogOldestFirst, logged)
  /\ ~mixed => \A i, j \in DOMAIN LogOldestFirst : i < j => LogOldestFirst[i] < LogOldestFirst[j]
  /\ IsInjective(LogOldestFirst)
=============================================================================

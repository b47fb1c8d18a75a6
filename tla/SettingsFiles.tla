--------------------------- MODULE SettingsFiles ---------------------------
(***************************************************************************)
(* What the settings are made of on the disk (settingsStore.ts,            *)
(* settingsBackups.ts): settings.json, one file of points per robot, which *)
(* is found by the robot's ids made safe for a path, and the copies of     *)
(* settings.json that a damaged one is restored from. The steps of a write *)
(* are those of TxnFiles; here it is one step. The clock goes forward.     *)
(***************************************************************************)
EXTENDS Integers, FiniteSets

CONSTANTS Robots,     \* robots, each with its controller and its id
          Segments,   \* path of the points file of each robot
          None, Damaged,
          Keep, Interval,              \* copies kept and least time between two
          MaxTime, MaxWrites, MaxFaults

VARIABLES now, mem, file, points, copies, times, hurt, faults

vars == <<now, mem, file, points, copies, times, hurt, faults>>

Paths == {Segments[r] : r \in Robots}
\* A list of points is the number of the write that brought it, 0 if it is empty.
Lists == 0..MaxWrites
\* A tree of settings: the write that made it and the lists of its robots, None for a robot that carries none.
TreeOf(version, lists) == [version |-> version, lists |-> lists]
Blank == TreeOf(-1, <<>>)
Versions == -1..MaxWrites
Writes == Cardinality(DOMAIN times)
Newest(stamps) == CHOOSE t \in stamps : \A u \in stamps : u <= t

\* The server has just started for the first time with the store: the settings of the older one are as they were, lists inside.
Init ==
  /\ now = 0 /\ copies = <<>> /\ times = <<>> /\ hurt = FALSE /\ faults = 0
  /\ points = [p \in Paths |-> None]
  /\ \E present \in SUBSET Robots : file = TreeOf(0, [r \in present |-> 0])
  /\ mem = file

\* ---- reading ------------------------------------------------------------

\* The tree with every list: of the robot's file, none if that is damaged; without a file the one inside.
Assembled(core) ==
  TreeOf(core.version,
    [r \in DOMAIN core.lists |->
      LET own == points[Segments[r]] IN
      IF own = Damaged THEN 0 ELSE IF own # None THEN own ELSE IF core.lists[r] = None THEN 0 ELSE core.lists[r]])

Readable == {t \in DOMAIN copies : copies[t] # Damaged}

\* A damaged settings.json gives way to the newest copy that can be read.
Restored == IF file = Damaged /\ Readable # {} THEN copies[Newest(Readable)] ELSE file

\* Variant: the newest copy, whatever is in it.
RestoredBlindly == IF file = Damaged /\ DOMAIN copies # {} THEN copies[Newest(DOMAIN copies)] ELSE file

Loaded(core) == IF core \in {None, Damaged} THEN Blank ELSE Assembled(core)

\* A client reads the settings: always from the disk.
Read ==
  /\ file = Damaged /\ file' = Restored /\ file' # file
  /\ UNCHANGED <<now, mem, points, copies, times, hurt, faults>>

Restart ==
  /\ file' = Restored /\ mem' = Loaded(file') /\ hurt' = FALSE
  /\ UNCHANGED <<now, points, copies, times, faults>>

\* The damaged file is renamed away and the server is cut before the copy is written in its place.
RestoreIsCut ==
  /\ faults < MaxFaults /\ Restored # file
  /\ faults' = faults + 1 /\ file' = None /\ mem' = Blank /\ hurt' = FALSE
  /\ UNCHANGED <<now, points, copies, times>>

\* ---- writing ------------------------------------------------------------

\* Is a copy due? Not without a file, nor while the newest copy is young.
CopyIsDue == Keep > 0 /\ file # None /\ (DOMAIN copies # {} => now - Newest(DOMAIN copies) >= Interval)

\* The newest copies, at most Keep of them.
Pruned(all) ==
  LET kept == {t \in DOMAIN all : Cardinality({u \in DOMAIN all : u > t}) < Keep} IN [t \in kept |-> all[t]]

\* The file as it is, damaged or not, is copied under the second it is; two copies of a second are one.
WithCopy == Pruned([t \in DOMAIN copies \cup {now} |-> IF t = now THEN file ELSE copies[t]])

\* Variant: a copy at every other time only.
WithCopyTwiceAsOld == IF DOMAIN copies # {} /\ now - Newest(DOMAIN copies) < 2 * Interval THEN copies ELSE WithCopy

\* A tree is stored: settings.json without the lists, and the list of each robot that carries one in its file. Robots whose
\* ids make the same path write the same file, and the last of them in the tree stays. The files of others are left.
Write(lists) ==
  LET carrying == {r \in DOMAIN lists : lists[r] # None}
      version == Writes + 1
  IN
  /\ version <= MaxWrites
  /\ \/ copies' = (IF CopyIsDue THEN WithCopy ELSE copies) /\ faults' = faults
     \/ CopyIsDue /\ faults < MaxFaults /\ faults' = faults + 1 /\ copies' = copies
  /\ mem' = TreeOf(version, lists)
  /\ file' = TreeOf(version, [r \in DOMAIN lists |-> None])
  /\ \E last \in [Paths -> Robots] :
       /\ \A p \in Paths : (\E r \in carrying : Segments[r] = p) => last[p] \in carrying /\ Segments[last[p]] = p
       /\ points' = [p \in Paths |-> IF \E r \in carrying : Segments[r] = p THEN lists[last[p]] ELSE points[p]]
  /\ times' = [v \in 1..version |-> IF v = version THEN now ELSE times[v]]
  /\ hurt' = FALSE
  /\ UNCHANGED now

\* A client stores a tree in which each robot carries the list it had, a new one or none.
Save ==
  \E present \in SUBSET Robots : \E fresh, bare \in SUBSET present :
    /\ fresh \cap bare = {}
    /\ Write([r \in present |-> IF r \in bare THEN None
                               ELSE IF r \in fresh \/ r \notin DOMAIN mem.lists THEN Writes + 1 ELSE mem.lists[r]])

Tick == now < MaxTime /\ now' = now + 1 /\ UNCHANGED <<mem, file, points, copies, times, hurt, faults>>

\* A file is damaged from outside.
Damage ==
  /\ faults < MaxFaults /\ faults' = faults + 1
  /\ \/ file \notin {None, Damaged} /\ file' = Damaged /\ UNCHANGED <<points, copies>>
     \/ \E p \in Paths : points[p] \notin {None, Damaged} /\ points' = [points EXCEPT ![p] = Damaged] /\ UNCHANGED <<file, copies>>
     \/ \E t \in DOMAIN copies : copies[t] # Damaged /\ copies' = [copies EXCEPT ![t] = Damaged] /\ UNCHANGED <<file, points>>
  /\ hurt' = TRUE
  /\ UNCHANGED <<now, mem, times>>

Next == Read \/ Restart \/ RestoreIsCut \/ Save \/ Tick \/ Damage

Spec == Init /\ [][Next]_vars

-----------------------------------------------------------------------------
IsTree(t) == t.version \in Versions /\ DOMAIN t.lists \subseteq Robots /\ \A r \in DOMAIN t.lists : t.lists[r] \in Lists \cup {None}

\* Every variable has its type, and no more copies are kept than are to be.
TypeOK ==
  /\ now \in 0..MaxTime /\ faults \in 0..MaxFaults /\ hurt \in BOOLEAN
  /\ IsTree(mem) /\ (file \notin {None, Damaged} => IsTree(file))
  /\ \A p \in Paths : points[p] \in Lists \cup {None, Damaged}
  /\ \A t \in DOMAIN copies : copies[t] # Damaged => IsTree(copies[t])
  /\ Cardinality(DOMAIN copies) <= Keep
  /\ Writes <= MaxWrites

\* A restart gives back the tree that the server works on, lists included, whatever robots came and went (settingsStore.ts):
\* unless a file was damaged since the last write, two robots of the tree share a path, or a robot without a list
\* has the file that an earlier one left.
RestartGivesBack ==
  LET own == DOMAIN mem.lists IN
  \/ hurt
  \/ \E r, s \in own : r # s /\ Segments[r] = Segments[s]
  \/ \E r \in own : mem.lists[r] = None /\ points[Segments[r]] # None
  \/ Loaded(file) = TreeOf(mem.version, [r \in own |-> IF mem.lists[r] = None THEN 0 ELSE mem.lists[r]])

\* When settings.json is damaged, a copy brings back all but what was written in the last interval before the last write
\* (settingsBackups.ts): said while that is the only thing that went wrong.
LittleIsLost ==
  file = Damaged /\ faults = 1 /\ Writes > 0 =>
    LET back == Restored IN
    /\ back # Damaged
    /\ \A v \in DOMAIN times : v > back.version => times[Writes] - times[v] < Interval

\* The server works on an empty tree only after two things went wrong, or before anything was ever written.
ComesBack == mem = Blank => faults > 1 \/ Writes = 0
=============================================================================

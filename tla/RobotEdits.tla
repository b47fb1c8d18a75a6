---------------------------- MODULE RobotEdits -----------------------------
(***************************************************************************)
(* What a command or a save may make of a robot: the heated bed and the    *)
(* table within the limits of its model (safetyLimits.ts, tableCommand.ts, *)
(* routes/commandRoutes.ts), the edits of one robot (robotEdit.ts), and    *)
(* ids that name one robot each (robotIds.ts). Limits change while saves   *)
(* run, and both are awaited. A robot has one axis of the table; claims,   *)
(* arming and safe mode are those of RobotControl.                         *)
(***************************************************************************)
EXTENDS Integers, Sequences, FiniteSets

CONSTANTS Robots,        \* places of the tree, of one controller
          Ids, Models, Odd,
          Hard,          \* the ceiling of every limit
          MaxCombined, MaxSteps

VARIABLES tree, saving, limits, limitFile, changing, owed, loose, steps, twins

vars == <<tree, saving, limits, limitFile, changing, owed, loose, steps, twins>>

\* What a model may do: the target of its bed, one relative move, a position.
Limits == [bed : 1..Hard, step : 1..Hard, reach : 1..Hard]
Defaults == [m \in Models |-> [bed |-> 2, step |-> 1, reach |-> 1]]
Abs(n) == IF n < 0 THEN -n ELSE n
New(i, m) == [id |-> i, model |-> m, bed |-> 0, at |-> 0, shown |-> 0, playing |-> FALSE, combined |-> {}]

\* The ids that more than one robot has.
Repeated(t) == {i \in Ids : Cardinality({r \in Robots : t[r].id = i}) > 1}

\* A configuration of an older version may repeat ids.
Init ==
  /\ \E ids \in [Robots -> Ids], m \in Models : tree = [r \in Robots |-> New(ids[r], m)]
  /\ saving = <<>> /\ limits = Defaults /\ limitFile = Defaults /\ changing = {} /\ owed = {}
  /\ loose = [bed |-> {}, at |-> {}]
  /\ steps = 0 /\ twins = Repeated(tree)

Step == steps < MaxSteps /\ steps' = steps + 1

\* ---- ids ----------------------------------------------------------------

\* What a save may bring: no repeated id that the tree at work does not have already.
IdsAllow(t) == Repeated(t) \subseteq Repeated(tree)

\* A route by id answers 409 for one that is repeated.
Named(r) == tree[r].id \notin Repeated(tree)

\* A command reaches the robots of the ids combined with its own, all of them where such an id is repeated.
Group(r) == {s \in Robots : tree[s].id \in {tree[r].id} \cup tree[r].combined}

\* ---- saves of the tree --------------------------------------------------

\* A target above the limit of the model, or no number, is lowered before a tree is stored.
Clamped(t) ==
  [r \in Robots |-> [t[r] EXCEPT !.bed = IF @ = Odd THEN 0 ELSE IF @ > limits[t[r].model].bed THEN limits[t[r].model].bed ELSE @]]

\* Variant: each bed by the limit of the model that the robot had.
ClampedAsBefore(t) ==
  [r \in Robots |-> [t[r] EXCEPT !.bed = IF @ = Odd THEN 0 ELSE IF @ > limits[tree[r].model].bed THEN limits[tree[r].model].bed ELSE @]]

\* A client saves its tree: ids and targets are its own, and it is checked before the write is awaited.
SaveBegins ==
  /\ Step
  /\ \E ids \in [Robots -> Ids], m \in Models, target \in {Odd, 0, Hard} :
       LET sent == [r \in Robots |-> [tree[r] EXCEPT !.id = ids[r], !.model = m, !.bed = target]] IN
       IdsAllow(sent) /\ saving' = Append(saving, [tree |-> Clamped(sent), bed |-> {}])
  /\ UNCHANGED <<tree, limits, limitFile, changing, owed, loose, twins>>

\* Its write ends and it is the tree at work. Where its tables are the client alone knows.
SaveEnds ==
  /\ saving # <<>>
  /\ tree' = Head(saving).tree /\ saving' = Tail(saving)
  /\ loose' = [bed |-> Head(saving).bed, at |-> Robots]
  /\ UNCHANGED <<limits, limitFile, changing, owed, steps, twins>>

\* ---- commands -----------------------------------------------------------

Become(t) == tree' = t /\ UNCHANGED <<saving, limits, limitFile, changing, owed, twins>>

Moved(robot, to, synced) == [robot EXCEPT !.at = to, !.shown = IF synced THEN to ELSE @]

\* A jog of the tables of a group: each is moved if its limits allow it. A relative one has no end, and leaves the second copy.
Jog(r, absolute, by) ==
  LET allowed(s) == Abs(by) <= IF absolute THEN limits[tree[s].model].reach ELSE limits[tree[s].model].step
      moves == {s \in Group(r) : allowed(s)}
  IN
  /\ Step /\ Named(r) /\ moves # {}
  /\ Become([s \in Robots |-> IF s \in moves THEN Moved(tree[s], IF absolute THEN by ELSE tree[s].at + by, absolute) ELSE tree[s]])
  /\ loose' = [loose EXCEPT !.at = IF absolute THEN @ \ moves ELSE @ \cup moves]

\* One move of the table, planned as a whole: the move and where it ends are within the limits.
TableAllows(r, relative, by, to) ==
  LET own == limits[tree[r].model] IN Abs(by) <= (IF relative THEN own.step ELSE own.reach) /\ Abs(to) <= own.reach

\* Variant: the end is not looked at.
TableAllowsMove(r, relative, by, to) ==
  LET own == limits[tree[r].model] IN Abs(by) <= IF relative THEN own.step ELSE own.reach

Table(r, relative, by) ==
  LET to == IF relative THEN tree[r].at + by ELSE by IN
  /\ Step /\ Named(r) /\ TableAllows(r, relative, by, to)
  /\ Become([tree EXCEPT ![r] = Moved(@, to, TRUE)])
  /\ loose' = [loose EXCEPT !.at = @ \ {r}]

\* The tables of a group go home.
ResetTables(r) ==
  /\ Step /\ Named(r)
  /\ Become([s \in Robots |-> IF s \in Group(r) THEN Moved(tree[s], 0, TRUE) ELSE tree[s]])
  /\ loose' = [loose EXCEPT !.at = @ \ Group(r)]

\* A robot gets another model while it does not play: its bed and its table stay as they are.
Model(r, m) ==
  /\ Step /\ Named(r) /\ ~tree[r].playing /\ m # tree[r].model
  /\ Become([tree EXCEPT ![r].model = m])
  /\ loose' = [bed |-> loose.bed \cup {r}, at |-> loose.at \cup {r}]

Combine(r, with) ==
  /\ Step /\ Named(r)
  /\ Cardinality(with) <= MaxCombined /\ tree[r].id \notin with /\ with \subseteq {tree[s].id : s \in Robots}
  /\ Become([tree EXCEPT ![r].combined = with]) /\ UNCHANGED loose

Play(r, playing) ==
  /\ Step /\ Named(r)
  /\ Become([s \in Robots |-> IF s \in Group(r) THEN [tree[s] EXCEPT !.playing = playing] ELSE tree[s]]) /\ UNCHANGED loose

\* ---- limits -------------------------------------------------------------

\* The robots of a tree whose limit the next limits lower.
Lowered(t, next, part) == {r \in Robots : next[t[r].model][part] < limits[t[r].model][part]}

\* The limits are others from now on.
Take(t, next) ==
  /\ limits' = next
  /\ loose' = [bed |-> loose.bed \cup Lowered(t, next, "bed"), at |-> loose.at \cup Lowered(t, next, "reach")]

\* A change is made to the limits as they are now, and its write is awaited; several at once are not kept apart.
LimitsBegin(m, part, value) ==
  /\ Step /\ Cardinality(changing) < 2
  /\ changing' = changing \cup {[next |-> [limits EXCEPT ![m][part] = value], written |-> FALSE]}
  /\ UNCHANGED <<tree, saving, limits, limitFile, owed, loose, twins>>

\* The file is written, or not: then the limits stay. A write that fails when its files were committed is done at the next start.
LimitsWritten(c) ==
  /\ ~c.written
  /\ \/ limitFile' = c.next /\ changing' = (changing \ {c}) \cup {[c EXCEPT !.written = TRUE]} /\ owed' = owed
     \/ changing' = changing \ {c} /\ UNCHANGED <<limitFile, owed>>
     \/ owed = {} /\ owed' = {c.next} /\ changing' = changing \ {c} /\ limitFile' = limitFile
  /\ UNCHANGED <<tree, saving, limits, loose, steps, twins>>

\* The handler goes on when the directory of its write is gone too, so not always in the order of the writes.
LimitsTaken(c) ==
  /\ c.written /\ changing' = changing \ {c}
  /\ Take(tree, c.next) /\ saving' = [i \in DOMAIN saving |-> [saving[i] EXCEPT !.bed = @ \cup Lowered(saving[i].tree, c.next, "bed")]]
  /\ UNCHANGED <<tree, limitFile, owed, steps, twins>>

\* The server starts again with the tree of a save that was written or not: what was owed is written, and a file that is
\* damaged or holds a value beyond the ceilings gives the defaults.
Restart(damaged) ==
  LET read == IF damaged THEN Defaults ELSE IF owed = {} THEN limitFile ELSE CHOOSE l \in owed : TRUE IN
  /\ Step
  /\ limitFile' = read /\ owed' = {} /\ changing' = {} /\ saving' = <<>>
  /\ \/ tree' = tree /\ Take(tree, read)
     \/ \E i \in DOMAIN saving :
          /\ tree' = saving[i].tree /\ limits' = read
          /\ loose' = [bed |-> saving[i].bed \cup Lowered(tree', read, "bed"), at |-> Robots]
  /\ UNCHANGED twins

Next ==
  \/ SaveBegins \/ SaveEnds
  \/ \E r \in Robots :
       \/ \E flag \in BOOLEAN, by \in -1..1 : Jog(r, flag, by) \/ Table(r, flag, by)
       \/ ResetTables(r)
       \/ \E m \in Models : Model(r, m)
       \/ \E with \in SUBSET Ids : Combine(r, with)
       \/ \E playing \in BOOLEAN : Play(r, playing)
  \/ \E m \in Models, part \in {"bed", "step", "reach"}, value \in 1..Hard : LimitsBegin(m, part, value)
  \/ \E c \in changing : LimitsWritten(c) \/ LimitsTaken(c)
  \/ \E damaged \in BOOLEAN : Restart(damaged)

Spec == Init /\ [][Next]_vars

-----------------------------------------------------------------------------
IsTree(t) ==
  \A r \in Robots : /\ t[r].id \in Ids /\ t[r].model \in Models /\ t[r].bed \in 0..Hard /\ t[r].at \in Int /\ t[r].shown \in Int
                    /\ t[r].playing \in BOOLEAN /\ t[r].combined \subseteq Ids /\ Cardinality(t[r].combined) <= MaxCombined

\* Every variable has its type, no target of a bed is beyond the ceiling, and no limit is.
TypeOK ==
  /\ IsTree(tree) /\ \A i \in DOMAIN saving : IsTree(saving[i].tree)
  /\ \A l \in {limits, limitFile} \cup owed \cup {c.next : c \in changing} : l \in [Models -> Limits]
  /\ steps \in 0..MaxSteps

\* No save brings two robots of one id (robotIds.ts), not even two saves that were checked before either was stored: an id
\* that is repeated was so from the start.
NoNewTwins == Repeated(tree) \subseteq twins

\* A bed is above the limit of its model only if the model or the limit changed after it was stored (safetyLimits.ts), also
\* when that happened while a save was under way.
BedsWereHeld == \A r \in Robots : tree[r].bed > limits[tree[r].model].bed => r \in loose.bed

\* A table is beyond its reach, or its two copies differ, only after relative jogs, a save or a change of limits or model
\* since its last move as a whole (tableCommand.ts, routes/commandRoutes.ts).
TablesInReach ==
  \A r \in Robots \ loose.at : Abs(tree[r].at) <= limits[tree[r].model].reach /\ tree[r].shown = tree[r].at
=============================================================================

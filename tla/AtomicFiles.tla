---------------------------- MODULE AtomicFiles ----------------------------
(***************************************************************************)
(* What the settings store promises: settings.json and the points files of *)
(* the robots are replaced all at once, by ever newer moments, and a cut   *)
(* at any point leaves either the old set or the new one.                  *)
(*                                                                         *)
(* The promise lasts while the file system lets a committed transaction be *)
(* applied. Once a rename has been given up the store promises nothing     *)
(* here; the module TxnFiles says what it still does.                      *)
(***************************************************************************)
EXTENDS Integers

CONSTANTS Files,    \* the files that are written together
          Moments   \* the moments their content can be from, numbers

VARIABLES stored,   \* the moment of each file, as a start of the server finds it
          promised  \* the promise still holds

avars == <<stored, promised>>

\* Everything starts from one moment.
Init == /\ promised = TRUE
        /\ \E m \in Moments : stored = [f \in Files |-> m]

\* A write replaces all of its files in one step, by content newer than any stored.
Replace(m, S) ==
  /\ promised
  /\ \A f \in Files : stored[f] < m
  /\ stored' = [f \in Files |-> IF f \in S THEN m ELSE stored[f]]
  /\ UNCHANGED promised

\* A committed transaction could not be applied: the promise ends, nothing is changed.
Lapse == /\ promised
         /\ promised' = FALSE
         /\ UNCHANGED stored

\* Without the promise nothing is said of the files.
Unpromised == ~promised /\ UNCHANGED promised

Next == \/ \E m \in Moments, S \in SUBSET Files : Replace(m, S)
        \/ Lapse
        \/ Unpromised

Spec == Init /\ [][Next]_avars
=============================================================================

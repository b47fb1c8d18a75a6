-------------------------- MODULE MCRobotControl --------------------------
(***************************************************************************)
(* Robot control: two robots, the second moved with the first; one account *)
(* with a window that names its controller and one that does not, and an   *)
(* administrator.  Beside it what lets people, commands and switches in:   *)
(* in each behaviour robot control moves or one part of that.              *)
(***************************************************************************)
EXTENDS RobotControl, Access, TLC
CONSTANTS arm1, arm2, adaPc, adaTab, oto
MCRobots == {arm1, arm2}
MCCallers == {adaPc, adaTab, oto}
MCAccounts == {"ada", "oto"}
MCControllers == {"pc"}
MCAccountOf == adaPc :> "ada" @@ adaTab :> "ada" @@ oto :> "oto"
MCControllerOf == adaPc :> "pc" @@ adaTab :> "none" @@ oto :> "none"
MCNumbering == {<<adaPc, arm1>>}
MCAdmins == {"oto"}
MCCombinedWith == arm1 :> {arm2} @@ arm2 :> {}

\* Robot control moves when no part of Access may.
MCInit == Init /\ AccessInit
MCNext ==
  /\ IF together = {} THEN Next ELSE UNCHANGED vars
  /\ IF together # {} THEN AccessNext ELSE UNCHANGED accessVars
MCSpec == MCInit /\ [][MCNext]_<<vars, accessVars>>
=============================================================================

---------------------------- MODULE MCPlayback ----------------------------
EXTENDS Playback, TLC
CONSTANTS arm1, arm2
MCRobots == {arm1, arm2}
MCCombinedWith == arm1 :> {arm2} @@ arm2 :> {}
=============================================================================

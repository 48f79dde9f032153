-------------------------- MODULE RobotCommandsClaims --------------------------
(***************************************************************************)
(* RobotCommands with the one handler it leaves out: the settings window   *)
(* changes the number of robots of a team at run time.                     *)
(***************************************************************************)
EXTENDS RobotCommands

(* Observer::setBlueRobotCount, setYellowRobotCount: the team's bodies are *)
(* made anew, at rest; the copies the scene keeps stay as they are and no  *)
(* change signal of the robots is emitted.                                 *)
SetRobotCount(team, n) ==
  /\ n # count[team]
  /\ count' = [count EXCEPT ![team] = n]
  /\ drive' = [r \in Robots |-> IF Team(r) = team THEN 0 ELSE drive[r]]
  /\ UNCHANGED <<robotVars, qVel, qTool, ghostVars>>

SettingsSpec ==
  Init /\ [][Next \/ \E team \in Teams, n \in 0 .. MaxRobots : SetRobotCount(team, n)]_vars

(* A robot whose commands have been stopped by a replacement never drives: *)
(* visionReceive pushes the zeroed state to the scene at once so that      *)
(* botMovement has no window in which it still reads the velocity of       *)
(* before (comment at observer.cpp:217).                                   *)
NoStaleDrive ==
  \A r \in Shown : ~told[r] => drive[r] = 0
=============================================================================

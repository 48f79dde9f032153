---------------------------- MODULE RobotCommands ----------------------------
(***************************************************************************)
(* From a command packet to the motion of a robot: the command latched in  *)
(* Robot (robot.cpp), the actuation delay, the copies of its output that   *)
(* the scene keeps (GameObjects.qml), and the velocity given to the body.  *)
(* Replacements of robots stop all of it at once (Robot::resetMotion).     *)
(*                                                                         *)
(* Everything runs in one Qt event loop, so a packet or a frame is one     *)
(* step.  A velocity is one axis of the twist in abstract units, 0 is      *)
(* rest: gains, dead zone and limits only scale it and keep 0 at 0.  The   *)
(* kick speeds and the spinner are latched, copied and cleared together:   *)
(* tool says whether any of them is on.  RobotModel/Enabled is true.       *)
(*                                                                         *)
(* The operators marked "mutant" are plausible mistakes, each next to the  *)
(* definition it would replace; no action uses them.                       *)
(***************************************************************************)
EXTENDS Integers, Sequences

CONSTANTS
  Teams,                \* "blue", "yellow"
  MaxRobots,            \* ids per team, shown in the scene or not
  MaxVel,               \* the largest velocity
  DelaySteps,           \* the frames DeadTimeSec may come to
  MaxDelay              \* a bound on them, for the history

(* A frame lasts 14 to 16.7 ms (Main.qml), so that the 87 ms of the        *)
(* configuration come to 5 or 6 frames: two neighbouring numbers.          *)
ASSUME CommandAssumption ==
  /\ MaxRobots \in Nat
  /\ MaxVel \in Nat
  /\ MaxDelay \in Nat
  /\ DelaySteps \subseteq 0 .. MaxDelay /\ DelaySteps # {}
  /\ \A j, k \in DelaySteps : j <= k + 1

Ids      == 0 .. MaxRobots - 1
Robots   == Teams \X Ids
Vel      == 0 .. MaxVel
Team(r)  == r[1]
Id(r)    == r[2]

(* A packet for a team says something to some ids.  move: "none" has no    *)
(* move command, "local" a local velocity, "other" one that is not         *)
(* supported; a packet of the vision port always has a local velocity.     *)
Packets(moves) ==
  UNION {[S -> [move : moves, vel : Vel, tool : BOOLEAN]] : S \in SUBSET Ids}

VARIABLES
  count,       \* blueRobotCount, yellowRobotCount
  cmd,         \* cmdTangent, cmdNormal, cmdAngular
  tool,        \* kickspeedx, kickspeedz, spinner
  line,        \* delayBufTangent, ..., oldest command first
  applied,     \* veltangent, velnormal, velangular
  qVel,        \* velTangents, ... of the scene
  qTool,       \* kickspeeds, spinners of the scene
  drive,       \* preVelocities: the velocity the body was given
  told,        \* history: commanded since its last replacement?
  past,        \* history: the command i frames ago, 0 before a replacement
  lag          \* history: delaySteps of the last frame

robotVars == <<cmd, tool, line, applied>>
sceneVars == <<count, qVel, qTool, drive>>
ghostVars == <<told, past, lag>>
vars      == <<robotVars, sceneVars, ghostVars>>

TypeOK ==
  /\ count \in [Teams -> 0 .. MaxRobots]
  /\ cmd \in [Robots -> Vel]
  /\ tool \in [Robots -> BOOLEAN]
  /\ line \in [Robots -> Seq(Vel)]
  /\ \A r \in Robots : line[r] = <<>> \/ Len(line[r]) = lag[r] + 1
  /\ applied \in [Robots -> Vel]
  /\ qVel \in [Robots -> Vel]
  /\ qTool \in [Robots -> BOOLEAN]
  /\ drive \in [Robots -> Vel]
  /\ told \in [Robots -> BOOLEAN]
  /\ past \in [Robots -> [0 .. MaxDelay -> Vel]]
  /\ lag \in [Robots -> DelaySteps]

Init ==
  /\ count \in [Teams -> 0 .. MaxRobots]
  /\ cmd = [r \in Robots |-> 0]
  /\ tool = [r \in Robots |-> FALSE]
  /\ line = [r \in Robots |-> <<>>]
  /\ applied = [r \in Robots |-> 0]
  /\ qVel = [r \in Robots |-> 0]
  /\ qTool = [r \in Robots |-> FALSE]
  /\ drive = [r \in Robots |-> 0]
  /\ told = [r \in Robots |-> FALSE]
  /\ past = [r \in Robots |-> [i \in 0 .. MaxDelay |-> 0]]
  /\ lag \in [Robots -> DelaySteps]

(* The robots that have a body in the scene. *)
Shown == {r \in Robots : Id(r) < count[Team(r)]}

(* blueRobotsChanged, yellowRobotsChanged: the scene copies the shown      *)
(* robots of the teams it is told about.                                   *)
Copied(old, new, teams) ==
  [r \in Robots |-> IF r \in Shown /\ Team(r) \in teams THEN new[r] ELSE old[r]]

-----------------------------------------------------------------------------
(* The delay line: the newest command goes in at the back, k + 1 of them   *)
(* stay, and zeros fill the front when there are not enough.  The oldest   *)
(* one takes effect.                                                       *)
Unpadded(buf, new, k) ==                       \* mutant: a short line is not filled
  LET all == Append(buf, new)
      m   == IF Len(all) < k + 1 THEN Len(all) ELSE k + 1
  IN  [i \in 1 .. m |-> all[i + Len(all) - m]]

Unshortened(buf, new, k) ==                    \* mutant: the oldest ones are never dropped
  LET all == Append(buf, new)
      pad == IF Len(all) < k + 1 THEN k + 1 - Len(all) ELSE 0
  IN  [i \in 1 .. pad |-> 0] \o all

Delayed(buf, new, k) ==
  LET all  == Append(buf, new)
      skip == Len(all) - (k + 1)
  IN  [i \in 1 .. k + 1 |-> IF i + skip >= 1 THEN all[i + skip] ELSE 0]

(* The first-order lag and the acceleration limits: a step towards the     *)
(* target, all the way or not.                                             *)
Towards(v, target) ==
  IF v < target THEN v + 1 .. target
  ELSE IF v > target THEN target .. v - 1
  ELSE {target}

(* A frame: botMovement gives every shown robot the velocity the scene has *)
(* for it, then updateObjects advances every robot and the scene copies    *)
(* the velocities of the shown ones (actuationAdvanced).                   *)
StaleVel(new) == qVel                          \* mutant: actuationAdvanced is not emitted
FrameVel(new) == Copied(qVel, new, Teams)

Frame ==
  /\ drive' = [r \in Robots |-> IF r \in Shown THEN qVel[r] ELSE drive[r]]
  /\ lag' \in [Robots -> DelaySteps]
  /\ line' = [r \in Robots |-> Delayed(line[r], cmd[r], lag'[r])]
  /\ applied' \in [Robots -> Vel]
  /\ \A r \in Robots : applied'[r] \in Towards(applied[r], line'[r][1])
  /\ qVel' = FrameVel(applied')
  /\ past' = [r \in Robots |->
                [i \in 0 .. MaxDelay |-> IF i = 0 THEN cmd[r] ELSE past[r][i - 1]]]
  /\ UNCHANGED <<count, cmd, tool, qTool, told>>

-----------------------------------------------------------------------------
(* What a packet p for one team says to robot r. *)
Addressed(r, team, p) == Team(r) = team /\ Id(r) \in DOMAIN p

(* Robot::visionUpdate latches everything. *)
VisionVel(team, p) ==
  [r \in Robots |-> IF Addressed(r, team, p) THEN p[Id(r)].vel ELSE cmd[r]]
VisionTool(team, p) ==
  [r \in Robots |-> IF Addressed(r, team, p) THEN p[Id(r)].tool ELSE tool[r]]

(* Robot::resetMotion clears a replaced robot. *)
LineKept(rs)       == line                     \* mutant: the line is not cleared
LineCleared(rs)    == [r \in Robots |-> IF r \in rs THEN <<>> ELSE line[r]]
Zeroed(f, rs, off) == [r \in Robots |-> IF r \in rs THEN off ELSE f[r]]

(* The teams whose change signal is emitted after the replacements. *)
TeamOnly(team, rs)      == {team}              \* mutant: only the team of the commands
TeamsChanged(team, rs)  == {Team(r) : r \in rs}

(* Observer::visionReceive: a packet for one team, with replacements rs of *)
(* robots of either.  The scene hears of the commands first, then stops    *)
(* the bodies of the replaced robots it shows, then hears of the resets.   *)
VisionPacket(team, p, rs) ==
  /\ cmd' = Zeroed(VisionVel(team, p), rs, 0)
  /\ tool' = Zeroed(VisionTool(team, p), rs, FALSE)
  /\ line' = LineCleared(rs)
  /\ applied' = Zeroed(applied, rs, 0)
  /\ qVel' = Copied(Copied(qVel, applied, {team}), applied', TeamsChanged(team, rs))
  /\ qTool' = Copied(Copied(qTool, VisionTool(team, p), {team}), tool', TeamsChanged(team, rs))
  /\ drive' = Zeroed(drive, rs \cap Shown, 0)
  /\ told' = [r \in Robots |-> r \notin rs /\ (told[r] \/ Addressed(r, team, p))]
  /\ past' = Zeroed(past, rs, [i \in 0 .. MaxDelay |-> 0])
  /\ UNCHANGED <<count, lag>>

(* Observer::controlReceive: a command without a move command is skipped   *)
(* as a whole, and a packet with nothing else changes nothing.  Only a     *)
(* local velocity moves the robot (Robot::processMoveCommand).             *)
Heard(r, team, p) == Addressed(r, team, p) /\ p[Id(r)].move # "none"

ControlPacket(team, p) ==
  /\ \E r \in Robots : Heard(r, team, p)
  /\ cmd' = [r \in Robots |-> IF Heard(r, team, p) /\ p[Id(r)].move = "local"
                                THEN p[Id(r)].vel ELSE cmd[r]]
  /\ tool' = [r \in Robots |-> IF Heard(r, team, p) THEN p[Id(r)].tool ELSE tool[r]]
  /\ qVel' = Copied(qVel, applied, {team})
  /\ qTool' = Copied(qTool, tool', {team})
  /\ told' = [r \in Robots |-> told[r] \/ Heard(r, team, p)]
  /\ UNCHANGED <<count, line, applied, drive, past, lag>>

Packet ==
  \E team \in Teams :
    \/ \E p \in Packets({"local"}), rs \in SUBSET Robots : VisionPacket(team, p, rs)
    \/ \E p \in Packets({"none", "local", "other"}) : ControlPacket(team, p)

Next == Frame \/ Packet

(* PhysicsWorld goes on stepping; packets need never come. *)
Spec == Init /\ [][Next]_vars /\ WF_vars(Frame)

-----------------------------------------------------------------------------
(* A replaced robot stays where it was put: until somebody commands it     *)
(* again nothing moves it, kicks or dribbles, whatever was latched, in the *)
(* delay line or copied to the scene before (comments at Robot::resetMotion *)
(* and in visionReceive).                                                  *)
StillAfterReplacement ==
  \A r \in Shown : ~told[r] => drive[r] = 0 /\ qVel[r] = 0 /\ ~qTool[r]

(* The command that takes effect in a frame is the one of exactly          *)
(* DeadTimeSec before, or rest if the robot has been replaced since,       *)
(* however the length of the frames varies: the line never gives a command *)
(* early, not even just after a start or a replacement (comment at         *)
(* Robot::delayed), nor a rest that nobody commanded.                      *)
DelayIsTransport ==
  \A r \in Robots : line[r] # <<>> => line[r][1] = past[r][lag[r]]

(* When the packets stop, every robot reaches its last command, and the    *)
(* bodies of the shown ones move with it.                                  *)
CommandReached ==
  (<>[][~Packet]_vars) =>
    <>[](\A r \in Robots : applied[r] = cmd[r] /\ (r \in Shown => drive[r] = cmd[r]))
-----------------------------------------------------------------------------
(* The scene drives, kicks and dribbles with its copies of what the robots *)
(* say, a robot without a body with nothing.                               *)
AsDriven(r) == IF r \in Shown THEN qVel[r] ELSE applied[r]
AsActing(r) == IF r \in Shown THEN qTool[r] ELSE tool[r]

Ideal == INSTANCE IdealRobots
           WITH speed <- [r \in Robots |-> AsDriven(r)],
                acts <- [r \in Robots |-> AsActing(r)]

(* The command path implements the ideal robots: as the scene sees it, a   *)
(* robot follows its commands with the dead time and is stopped by a       *)
(* replacement, whatever team the packet was for, as if there were no      *)
(* delay line, no copies and no signals that keep them current (comment in *)
(* visionReceive on the stale, pre-reset velocity).                        *)
ImplementsIdeal == Ideal!Spec
=============================================================================

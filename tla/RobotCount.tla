------------------------------ MODULE RobotCount ------------------------------
(***************************************************************************)
(* The ball handling of BallControl while the number of robots changes.  A *)
(* Save of the settings sets blueRobotCount and yellowRobotCount; the two  *)
(* Repeater3D of GameObjects.qml then make the bodies of the team anew, and *)
(* every loop of the frame goes over the robots shown only.                *)
(*                                                                         *)
(* dribbleInfo is left as it is.  If it names a robot that is no longer    *)
(* shown, heldBallScenePosition reads a body that does not exist, and the  *)
(* exception ends the whole frame handler of Main.qml.                     *)
(***************************************************************************)
EXTENDS BallControl

CONSTANT NBlue          \* robots 1 .. NBlue are blue, the others yellow

VARIABLES
  blueNum,              \* observer.blueRobotCount
  yellowNum             \* observer.yellowRobotCount

counts  == <<blueNum, yellowNum>>
allVars == <<vars, counts>>

Blue    == 1 .. NBlue
Yellow  == Robots \ Blue
NYellow == NRobots - NBlue

Shown == {r \in Robots : IF r \in Blue THEN r <= blueNum ELSE r <= NBlue + yellowNum}

(* The body heldBallScenePosition looks for is there.                      *)
HolderExists == holder \in Shown \cup {None}

-----------------------------------------------------------------------------
CountInit ==
  /\ Init
  /\ blueNum = NBlue
  /\ yellowNum = NYellow

(* The frame of BallControl, for the robots shown.                         *)
RefreshShown == HolderExists /\ Refresh /\ near' \subseteq Shown

ContestShown == Contest /\ near' \subseteq Shown /\ winner' \in Shown \cup {None}

MoveShown(r) ==
  IF r \in Shown
    THEN Move(r)
    ELSE /\ phase = "move" /\ turn = r
         /\ IF r = NRobots THEN phase' = "sync" /\ turn' = 1
                           ELSE phase' = "move" /\ turn' = r + 1
         /\ UNCHANGED <<near, measured, winner, robotVars, ballVars, cmdVars>>

(* refreshBall throws after the physics step and the first line of its     *)
(* own, which adds to simTimeMs: there is no contest, no movement and no   *)
(* syncGameObjects in this frame.                                          *)
RefreshThrows ==
  /\ phase = "idle"
  /\ ~HolderExists
  /\ pipe' = PipeStep
  /\ body' = Arrived
  /\ kicked' = [r \in Robots |-> Tick(kicked[r])]
  /\ recharge' = [r \in Robots |-> IF recharge[r] > 0 THEN recharge[r] - 1 ELSE 0]
  /\ placing' = Tick(placing)
  /\ UNCHANGED <<frameVars, holds, collider, bounced, holder, pending, published,
                 lag, hasty, cmdVars>>

ShownFrame ==
  /\ \/ RefreshShown
     \/ RefreshThrows
     \/ ContestShown
     \/ \E r \in Robots : MoveShown(r)
     \/ Sync
  /\ UNCHANGED counts

-----------------------------------------------------------------------------
(* The Save button.  New bodies carry their mouth shape retracted.         *)
Remade(b, y) ==
  (IF b = blueNum THEN {} ELSE Blue) \cup (IF y = yellowNum THEN {} ELSE Yellow)

Save(b, y) ==
  /\ phase = "idle"
  /\ blueNum' = b
  /\ yellowNum' = y
  /\ collider' = collider \ Remade(b, y)
  /\ UNCHANGED <<frameVars, holds, kicked, bounced, recharge, ballVars, cmdVars>>

(* The scene copies the commands of the robots shown.                      *)
CommandShown(r) == r \in Shown /\ Command(r) /\ UNCHANGED counts

(* placeBall, which empties the sensors of the robots shown only.          *)
PlaceBallShown ==
  /\ phase = "idle"
  /\ pending' = None
  /\ pipe' = Reset(pipe, "field")
  /\ published' = IF body = "park" THEN "park" ELSE "field"
  /\ kicked' = [r \in Robots |-> 0]
  /\ bounced' = {}
  /\ placing' = LandingFrames + 1
  /\ holder' = None
  /\ collider' = collider \ Shown
  /\ holds' = holds \ Shown
  /\ hasty' = FALSE
  /\ UNCHANGED <<frameVars, recharge, body, lag, cmdVars, counts>>

CountNext ==
  \/ ShownFrame
  \/ \E b \in 0 .. NBlue, y \in 0 .. NYellow : Save(b, y)
  \/ \E r \in Robots : CommandShown(r)
  \/ PlaceBallShown
  \/ PlaceClothLineBall /\ UNCHANGED counts

CountSpec == CountInit /\ [][CountNext]_allVars /\ WF_allVars(ShownFrame)

-----------------------------------------------------------------------------
(* "vision is emitted from here - one packet per physics frame" (comment   *)
(* in Observer::updateObjects): while the physics goes on, frames go on    *)
(* reaching syncGameObjects and through it the vision sender.              *)
VisionGoesOn == []<>(phase = "sync")
=============================================================================

-------------------------- MODULE BallControlProofs --------------------------
(***************************************************************************)
(* Theorems about the ball handling, for any number of robots and any      *)
(* delay of ball.reset().                                                  *)
(***************************************************************************)
EXTENDS BallControl, FiniteSetTheorems, TLAPS

(* The delay of a build is a number of frames, and no step changes it. *)
LEMMA LagType == TypeOK => lag \in Nat \ {0}
  BY ConstantsAssumption DEF TypeOK

LEMMA LagKept == [Next]_vars => lag' = lag
  BY DEF Next, FrameStep, Refresh, Contest, Move, Sync, Command, PlaceBall,
         PlaceClothLineBall, vars, ballVars

(* Writing to the last slot of the pipe, and one step of it, keep its type. *)
LEMMA PipeType ==
  ASSUME lag \in Nat \ {0}, pipe \in [1 .. lag -> Targets]
  PROVE  /\ PipeStep \in [1 .. lag -> Targets]
         /\ \A place \in Targets : Reset(pipe, place) \in [1 .. lag -> Targets]
  BY DEF PipeStep, Reset, Targets, Places

(* Where the next call of ball.reset() leaves the body is a place. *)
LEMMA ArrivedType ==
  ASSUME TypeOK
  PROVE  Arrived \in Places
  BY LagType DEF TypeOK, Arrived, Targets, Places

(* A deadline keeps its bound, and a missing key stays missing. *)
LEMMA TickType ==
  ASSUME NEW m \in Nat, NEW n \in 0 .. m
  PROVE  Tick(n) \in 0 .. m /\ (n = 0 => Tick(n) = 0)
  BY DEF Tick

(* Each iteration of botMovement keeps the types of what it changes. *)
LEMMA MoveType ==
  ASSUME TypeOK, NEW r \in Robots, Move(r)
  PROVE  TypeOK'
<1>1. /\ phase' \in {"idle", "contest", "move", "sync"}
      /\ turn' \in Robots
  BY ConstantsAssumption DEF Move, TypeOK, Robots
<1>2. PICK settled \in BOOLEAN, slow \in BOOLEAN :
        \/ EmptyWindow(r) \/ Yield(r, settled) \/ Fire(r, settled, slow)
        \/ Dribble(r, settled, slow) \/ Sense(r, settled, slow)
  BY DEF Move
<1>3. /\ HolderNow(r) \in Robots \cup {None}
      /\ ColliderNow(r) \in SUBSET Robots
      /\ PipeNow(r) \in [1 .. lag -> Targets]
      /\ KickReset \in [1 .. lag -> Targets]
      /\ Reset(pipe, "park") \in [1 .. lag -> Targets]
      /\ KickedNow(r, settled) \in 0 .. RecoverFrames + 1
      /\ BouncedNow(r, slow) \in SUBSET Robots
      /\ SensorOff(r) \in SUBSET Robots
  <2>1. {"field", "park"} \subseteq Targets
    BY DEF Targets, Places
  <2>2. /\ PipeNow(r) \in [1 .. lag -> Targets]
        /\ KickReset \in [1 .. lag -> Targets]
        /\ Reset(pipe, "park") \in [1 .. lag -> Targets]
    BY <2>1, LagType, PipeType DEF PipeNow, KickReset, TypeOK
  <2>3. KickedNow(r, settled) \in 0 .. RecoverFrames + 1
    BY ConstantsAssumption DEF KickedNow, TypeOK
  <2>4. QED
    BY <2>2, <2>3 DEF HolderNow, ColliderNow, BouncedNow, SensorOff, TypeOK
<1>4. /\ holder' \in Robots \cup {None}
      /\ holds' \in SUBSET Robots
      /\ collider' \in SUBSET Robots
      /\ kicked' \in [Robots -> 0 .. RecoverFrames + 1]
      /\ bounced' \in SUBSET Robots
      /\ recharge' \in [Robots -> 0 .. RechargeFrames]
      /\ pending' \in Robots \cup {None}
      /\ pipe' \in [1 .. lag -> Targets]
  <2>0. /\ holds \in SUBSET Robots /\ bounced \in SUBSET Robots
        /\ collider \in SUBSET Robots
        /\ kicked \in [Robots -> 0 .. RecoverFrames + 1]
        /\ recharge \in [Robots -> 0 .. RechargeFrames]
        /\ pending \in Robots \cup {None}
        /\ RecoverFrames + 1 \in 0 .. RecoverFrames + 1
        /\ 0 \in 0 .. RecoverFrames + 1
        /\ RechargeFrames \in 0 .. RechargeFrames
    BY ConstantsAssumption DEF TypeOK
  <2>1. CASE EmptyWindow(r)
    BY <1>3, <2>0, <2>1 DEF EmptyWindow
  <2>2. CASE Yield(r, settled)
    BY <1>3, <2>0, <2>2 DEF Yield
  <2>3. CASE Fire(r, settled, slow)
    BY <1>3, <2>0, <2>3 DEF Fire
  <2>4. CASE Dribble(r, settled, slow)
    BY <1>3, <2>0, <2>4 DEF Dribble
  <2>5. CASE Sense(r, settled, slow)
    BY <1>3, <2>0, <2>5 DEF Sense
  <2>6. QED
    BY <1>2, <2>1, <2>2, <2>3, <2>4, <2>5
<1>5. lag' = lag /\ hasty' \in BOOLEAN
  BY DEF Move, LetGoEarly
<1>6. QED
  BY <1>1, <1>4, <1>5 DEF Move, TypeOK, cmdVars

(* Every step keeps the types. *)
LEMMA TypeStep == TypeOK /\ [Next]_vars => TypeOK'
<1> SUFFICES ASSUME TypeOK, [Next]_vars
             PROVE  TypeOK'
  OBVIOUS
<1>1. CASE Refresh
  <2>1. kicked' \in [Robots -> 0 .. RecoverFrames + 1]
    BY <1>1, ConstantsAssumption, TickType DEF Refresh, TypeOK
  <2>2. recharge' \in [Robots -> 0 .. RechargeFrames]
    BY <1>1, ConstantsAssumption DEF Refresh, TypeOK
  <2>3. placing' \in 0 .. LandingFrames + 1 /\ measured' \in BOOLEAN
    <3>1. PICK landed \in BOOLEAN :
            /\ measured' = Measures(landed)
            /\ placing' = IF Measures(landed) THEN 0 ELSE Tick(placing)
      BY <1>1 DEF Refresh
    <3>2. measured' \in BOOLEAN
      BY <3>1 DEF Measures
    <3>3. Tick(placing) \in 0 .. LandingFrames + 1
      BY ConstantsAssumption DEF Tick, TypeOK
    <3>4. QED
      BY <3>1, <3>2, <3>3, ConstantsAssumption
  <2>4. pipe' \in [1 .. lag -> Targets] /\ body' \in Places
    BY <1>1, LagType, PipeType, ArrivedType DEF Refresh, TypeOK, Places
  <2>5. QED
    BY <1>1, <2>1, <2>2, <2>3, <2>4 DEF Refresh, TypeOK, cmdVars
<1>2. CASE Contest
  <2>1. PICK cone \in SUBSET Robots :
          /\ winner' \in IF Contenders(cone) = {} THEN {None} ELSE Contenders(cone)
          /\ IF LosesContest(winner')
               THEN TakeOver(cone)
               ELSE UNCHANGED <<holder, collider, holds, pipe, published, near>>
    BY <1>2 DEF Contest
  <2>2. winner' \in Robots \cup {None}
    BY <2>1 DEF Contenders, Kickers, Dribblers
  <2>3. /\ holder' \in Robots \cup {None} /\ collider' \in SUBSET Robots
        /\ holds' \in SUBSET Robots /\ near' \in SUBSET Robots
        /\ pipe' \in [1 .. lag -> Targets] /\ published' \in {"field", "park"}
    BY <2>1, LagType, PipeType DEF TakeOver, TypeOK, Targets, Places
  <2>4. turn' \in Robots
    BY <1>2, ConstantsAssumption DEF Contest, Robots
  <2>5. QED
    BY <1>2, <2>2, <2>3, <2>4 DEF Contest, TypeOK, cmdVars
<1>3. CASE \E r \in Robots : Move(r)
  BY <1>3, MoveType
<1>4. CASE Sync
  BY <1>4 DEF Sync, Publish, TypeOK, Places, robotVars, cmdVars
<1>5. CASE \E r \in Robots : Command(r)
  BY <1>5 DEF Command, TypeOK, frameVars, robotVars, ballVars
<1>6. CASE PlaceBall
  <2>1. pipe' \in [1 .. lag -> Targets]
    BY <1>6, LagType, PipeType DEF PlaceBall, TypeOK, Targets, Places
  <2>2. kicked' \in [Robots -> 0 .. RecoverFrames + 1] /\ placing' \in 0 .. LandingFrames + 1
    BY <1>6, ConstantsAssumption DEF PlaceBall
  <2>3. QED
    BY <1>6, <2>1, <2>2 DEF PlaceBall, TypeOK, frameVars, cmdVars
<1>7. CASE PlaceClothLineBall
  <2>1. pipe' \in [1 .. lag -> Targets]
    BY <1>7, LagType, PipeType DEF PlaceClothLineBall, TypeOK, Targets, Places
  <2>2. QED
    BY <1>7, <2>1 DEF PlaceClothLineBall, TypeOK, frameVars, robotVars, cmdVars
<1>8. CASE UNCHANGED vars
  BY <1>8 DEF vars, TypeOK, frameVars, robotVars, ballVars, cmdVars
<1>9. QED
  BY <1>1, <1>2, <1>3, <1>4, <1>5, <1>6, <1>7, <1>8 DEF Next, FrameStep

(* The initial state has its types. *)
LEMMA InitType == Init => TypeOK
<1> SUFFICES ASSUME Init PROVE TypeOK
  OBVIOUS
<1>1. /\ phase \in {"idle", "contest", "move", "sync"} /\ turn \in Robots
      /\ kicked \in [Robots -> 0 .. RecoverFrames + 1]
      /\ recharge \in [Robots -> 0 .. RechargeFrames]
      /\ placing \in 0 .. LandingFrames + 1
  BY ConstantsAssumption DEF Init, Robots
<1>2. body \in Places /\ pipe \in [1 .. lag -> Targets]
  BY DEF Init, Targets, Places
<1>3. measured \in BOOLEAN
  BY DEF Init
<1>4. QED
  BY <1>1, <1>2, <1>3 DEF Init, TypeOK

(* Type correctness of the whole frame loop and of the events between two  *)
(* frames (GameObjects.qml, Control.qml, Sync.qml).                        *)
THEOREM TypeCorrect == Spec => []TypeOK
<1>1. Init => TypeOK
  BY InitType
<1>2. TypeOK /\ [Next]_vars => TypeOK'
  BY TypeStep
<1>3. QED
  BY <1>1, <1>2, PTL DEF Spec

-----------------------------------------------------------------------------
(* The five outcomes of one iteration of botMovement. *)
LEMMA MoveCases ==
  ASSUME NEW r \in Robots, Move(r)
  PROVE  \E settled, slow \in BOOLEAN :
           \/ EmptyWindow(r) \/ Yield(r, settled) \/ Fire(r, settled, slow)
           \/ Dribble(r, settled, slow) \/ Sense(r, settled, slow)
  BY DEF Move

(* A handler that runs between two frames, or a step that changes nothing, *)
(* leaves the ball with whoever has it, unless it is a placement.          *)
LEMMA EventsKeepRobots ==
  ASSUME \/ \E r \in Robots : Command(r)
         \/ PlaceClothLineBall
         \/ UNCHANGED vars
  PROVE  UNCHANGED <<frameVars, robotVars, holder, pending, body, placing, published>>
  BY DEF Command, PlaceClothLineBall, vars, frameVars, robotVars, ballVars, cmdVars

(* A mouth ball shape belongs to the holder, and the holder has one.       *)
ShapeOwned   == \A q \in collider : holder = q
HolderShaped == holder # None => holder \in collider

(* Every step withdraws the shape of a robot that loses the ball... *)
LEMMA ShapeStep == TypeOK /\ ShapeOwned /\ [Next]_vars => ShapeOwned'
<1> SUFFICES ASSUME TypeOK, ShapeOwned, [Next]_vars
             PROVE  ShapeOwned'
  OBVIOUS
<1>0. None \notin Robots /\ collider \subseteq Robots
  BY DEF None, Robots, TypeOK
<1>1. CASE UNCHANGED <<holder, collider>>
  BY <1>1 DEF ShapeOwned
<1>2. CASE Contest
  BY <1>0, <1>1, <1>2 DEF Contest, TakeOver, ShapeOwned
<1>3. ASSUME NEW r \in Robots, Move(r)
      PROVE  ShapeOwned'
  <2>1. PICK settled \in BOOLEAN, slow \in BOOLEAN :
          \/ EmptyWindow(r) \/ Yield(r, settled) \/ Fire(r, settled, slow)
          \/ Dribble(r, settled, slow) \/ Sense(r, settled, slow)
    BY <1>3, MoveCases
  <2>2. \A q \in ColliderNow(r) : HolderNow(r) = q
    BY DEF ShapeOwned, ColliderNow, HolderNow, LetsGo
  <2>3. CASE holder' = HolderNow(r) /\ collider' \subseteq ColliderNow(r)
    BY <2>2, <2>3 DEF ShapeOwned
  <2>4. CASE Fire(r, settled, slow) \/ Dribble(r, settled, slow)
    <3>1. holder \in {r, None}
      BY <2>4 DEF Fire, Dribble, OthersBall, HolderNow, LetsGo
    <3>2. \A q \in collider : q = r
      BY <1>0, <3>1 DEF ShapeOwned
    <3>3. QED
      BY <2>4, <3>2 DEF Fire, Dribble, ShapeOwned
  <2>5. QED
    BY <2>1, <2>3, <2>4 DEF EmptyWindow, Yield, Sense
<1>4. CASE PlaceBall
  BY <1>4 DEF PlaceBall, ShapeOwned
<1>5. QED
  BY <1>1, <1>2, <1>3, <1>4
     DEF Next, FrameStep, Refresh, Sync, Command, PlaceClothLineBall,
         vars, robotVars, ballVars

(* ... and leaves the holder its own. *)
LEMMA HolderShapeStep == TypeOK /\ HolderShaped /\ [Next]_vars => HolderShaped'
<1> SUFFICES ASSUME TypeOK, HolderShaped, [Next]_vars
             PROVE  HolderShaped'
  OBVIOUS
<1>1. CASE UNCHANGED <<holder, collider>> \/ holder' = None
  BY <1>1 DEF HolderShaped
<1>2. CASE Contest
  BY <1>1, <1>2 DEF Contest, TakeOver
<1>3. ASSUME NEW r \in Robots, Move(r)
      PROVE  HolderShaped'
  <2>1. PICK settled \in BOOLEAN, slow \in BOOLEAN :
          \/ EmptyWindow(r) \/ Yield(r, settled) \/ Fire(r, settled, slow)
          \/ Dribble(r, settled, slow) \/ Sense(r, settled, slow)
    BY <1>3, MoveCases
  <2>2. HolderNow(r) # None => HolderNow(r) \in ColliderNow(r)
    BY DEF HolderShaped, ColliderNow, HolderNow
  <2>3. QED
    BY <2>1, <2>2
       DEF EmptyWindow, InWindow, Yield, Fire, Dribble, Sense, HolderShaped
<1>4. CASE PlaceBall
  BY <1>1, <1>4 DEF PlaceBall
<1>5. QED
  BY <1>1, <1>2, <1>3, <1>4
     DEF Next, FrameStep, Refresh, Sync, Command, PlaceClothLineBall,
         vars, robotVars, ballVars

(* The mouth ball shape of collisionShapes[5] is deployed at the holder's  *)
(* mouth and nowhere else, whatever the delay of ball.reset().             *)
THEOREM ColliderFollowsHolder == Spec => []ColliderMatchesHolder
<1>1. Init => ShapeOwned /\ HolderShaped
  BY DEF Init, ShapeOwned, HolderShaped
<1>2. TypeOK /\ ShapeOwned /\ HolderShaped /\ [Next]_vars => (ShapeOwned /\ HolderShaped)'
  BY ShapeStep, HolderShapeStep
<1>3. ShapeOwned /\ HolderShaped => ColliderMatchesHolder
  BY DEF ShapeOwned, HolderShaped, ColliderMatchesHolder, Robots, None
<1>4. QED
  BY <1>1, <1>2, <1>3, TypeCorrect, PTL DEF Spec

-----------------------------------------------------------------------------
(* Once the contest of a frame has a winner, only the winner holds the     *)
(* ball for the rest of the frame: it keeps a sensor from being switched   *)
(* off under the robot that holds the ball.                                *)
WinnerHolds ==
  phase \in {"move", "sync"} /\ winner # None /\ holder # None => holder = winner

(* Inductive form of HolderSensesBall and HolderMayHold. *)
HolderInv == WinnerHolds /\ HolderSensesBall /\ HolderMayHold

LEMMA MoveKeepsHolderInv ==
  ASSUME TypeOK, HolderInv, NEW r \in Robots, Move(r)
  PROVE  HolderInv'
<1>0. None \notin Robots /\ winner' = winner /\ phase = "move" /\ phase' \in {"move", "sync"}
  BY DEF None, Robots, Move
<1>1. PICK settled \in BOOLEAN, slow \in BOOLEAN :
        \/ EmptyWindow(r) \/ Yield(r, settled) \/ Fire(r, settled, slow)
        \/ Dribble(r, settled, slow) \/ Sense(r, settled, slow)
  BY MoveCases
<1>2. /\ HolderNow(r) # None => HolderNow(r) = holder
      /\ holder # None => /\ kicked[holder] = 0 /\ holder \notin bounced
                          /\ holder \in holds
                          /\ winner # None => holder = winner
  BY <1>0 DEF HolderInv, WinnerHolds, HolderSensesBall, HolderMayHold, HolderNow
<1>3. kicked \in [Robots -> 0 .. RecoverFrames + 1]
  BY DEF TypeOK
<1>4. kicked[r] = 0 => KickedNow(r, settled) = 0
  BY DEF KickedNow
<1>5. CASE EmptyWindow(r)
  <2>1. holder' # r
    BY <1>5 DEF EmptyWindow, InWindow
  <2>2. QED
    BY <1>0, <1>2, <1>3, <1>5, <2>1
       DEF EmptyWindow, HolderInv, WinnerHolds, HolderSensesBall, HolderMayHold
<1>6. CASE Yield(r, settled)
  <2>1. holder' # r
    BY <1>0, <1>2, <1>6 DEF Yield, OthersBall
  <2>2. QED
    BY <1>0, <1>2, <1>3, <1>6, <2>1
       DEF Yield, SensorOff, HolderInv, WinnerHolds, HolderSensesBall, HolderMayHold
<1>7. CASE Fire(r, settled, slow)
  BY <1>7 DEF Fire, HolderInv, WinnerHolds, HolderSensesBall, HolderMayHold
<1>8. CASE Dribble(r, settled, slow)
  BY <1>0, <1>3, <1>8
     DEF Dribble, Catches, OthersBall, HolderInv, WinnerHolds, HolderSensesBall, HolderMayHold
<1>9. CASE Sense(r, settled, slow)
  BY <1>0, <1>2, <1>3, <1>4, <1>9
     DEF Sense, BouncedNow, HolderInv, WinnerHolds, HolderSensesBall, HolderMayHold
<1>10. QED
  BY <1>1, <1>5, <1>6, <1>7, <1>8, <1>9

(* Every step keeps the holder entitled and its sensor on. *)
LEMMA HolderStep == TypeOK /\ HolderInv /\ [Next]_vars => HolderInv'
<1> SUFFICES ASSUME TypeOK, HolderInv, [Next]_vars
             PROVE  HolderInv'
  OBVIOUS
<1> USE DEF HolderInv, WinnerHolds, HolderSensesBall, HolderMayHold
<1>1. CASE Refresh
  BY <1>1 DEF Refresh, Tick, TypeOK
<1>2. CASE Contest
  BY <1>2 DEF Contest, TakeOver, LosesContest
<1>3. CASE \E r \in Robots : Move(r)
  BY <1>3, MoveKeepsHolderInv
<1>4. CASE Sync
  BY <1>4 DEF Sync, robotVars
<1>5. CASE (\E r \in Robots : Command(r)) \/ PlaceClothLineBall \/ UNCHANGED vars
  BY <1>5, EventsKeepRobots DEF robotVars, frameVars
<1>6. CASE PlaceBall
  BY <1>6 DEF PlaceBall
<1>7. QED
  BY <1>1, <1>2, <1>3, <1>4, <1>5, <1>6 DEF Next, FrameStep

LEMMA HolderInvariant == Spec => []HolderInv
<1>1. Init => HolderInv
  BY DEF Init, HolderInv, WinnerHolds, HolderSensesBall, HolderMayHold
<1>2. TypeOK /\ HolderInv /\ [Next]_vars => HolderInv'
  BY HolderStep
<1>3. QED
  BY <1>1, <1>2, TypeCorrect, PTL DEF Spec

(* A robot never holds a ball it has just kicked or could not catch.       *)
THEOREM HolderIsEntitled == Spec => []HolderMayHold
  BY HolderInvariant, PTL DEF HolderInv

(* The mouth sensor of the robot that holds the ball always reads it.      *)
THEOREM HolderIsSensed == Spec => []HolderSensesBall
  BY HolderInvariant, PTL DEF HolderInv

-----------------------------------------------------------------------------
(* A robot other than the winner loses its sensor when it has its turn.    *)
LoserOff(q) ==
  /\ winner # None /\ q # winner
  /\ phase = "sync" \/ (phase = "move" /\ q < turn)
  => q \notin holds

(* Until its turn a winner that asks to kick has the ball in its mouth and *)
(* is not recovering; after it, it has fired or its kicker recharges.      *)
WinnerReady ==
  winner # None /\ winner \in kickCmd =>
    /\ phase = "move" /\ turn <= winner =>
         kicked[winner] = 0 /\ (winner \in near \/ holder = winner)
    /\ phase = "sync" \/ (phase = "move" /\ winner < turn) =>
         recharge[winner] > 0 \/ kicked[winner] = RecoverFrames + 1

(* There is a winner only within a frame. *)
WinnerInv == (phase \in {"idle", "contest"} => winner = None) /\ WinnerReady

(* What an iteration of botMovement does not touch. *)
LEMMA MoveFrame ==
  ASSUME TypeOK, NEW r \in Robots, Move(r), NEW q \in Robots, q # r
  PROVE  /\ kicked'[q] = kicked[q] /\ recharge'[q] = recharge[q]
         /\ q \in holds' <=> q \in holds
         /\ q \in collider' => q \in collider
         /\ q = holder' /\ q \in collider => q \in collider'
         /\ holder = q => holder' = q \/ holder' = r \/ holder' = None
<1>1. PICK settled \in BOOLEAN, slow \in BOOLEAN :
        \/ EmptyWindow(r) \/ Yield(r, settled) \/ Fire(r, settled, slow)
        \/ Dribble(r, settled, slow) \/ Sense(r, settled, slow)
  BY MoveCases
<1>2. /\ kicked \in [Robots -> 0 .. RecoverFrames + 1]
      /\ recharge \in [Robots -> 0 .. RechargeFrames]
  BY DEF TypeOK
<1>3. CASE EmptyWindow(r)
  BY <1>2, <1>3 DEF EmptyWindow, HolderNow, ColliderNow, LetsGo
<1>4. CASE Yield(r, settled)
  BY <1>2, <1>4 DEF Yield, SensorOff, HolderNow, ColliderNow, LetsGo
<1>5. CASE Fire(r, settled, slow)
  BY <1>2, <1>5 DEF Fire
<1>6. CASE Dribble(r, settled, slow)
  BY <1>2, <1>6 DEF Dribble
<1>7. CASE Sense(r, settled, slow)
  BY <1>2, <1>7 DEF Sense, HolderNow, ColliderNow, LetsGo
<1>8. QED
  BY <1>1, <1>3, <1>4, <1>5, <1>6, <1>7

(* Every step keeps the losers that have had their turn blind. *)
LEMMA LoserStep ==
  ASSUME NEW q \in Robots
  PROVE  TypeOK /\ LoserOff(q) /\ [Next]_vars => LoserOff(q)'
<1> SUFFICES ASSUME TypeOK, LoserOff(q), [Next]_vars
             PROVE  LoserOff(q)'
  OBVIOUS
<1>0. Robots \subseteq Nat /\ (\A r \in Robots : 1 <= r /\ r <= NRobots) /\ NRobots \in Nat
  BY ConstantsAssumption DEF Robots
<1>1. CASE phase' \in {"idle", "contest"}
  BY <1>1 DEF LoserOff
<1>2. CASE Contest
  BY <1>0, <1>2 DEF Contest, LoserOff
<1>3. ASSUME NEW r \in Robots, Move(r)
      PROVE  LoserOff(q)'
  <2>1. /\ phase = "move" /\ turn = r /\ winner' = winner
        /\ \/ phase' = "move" /\ turn' = r + 1
           \/ phase' = "sync" /\ r = NRobots
    BY <1>3 DEF Move
  <2>2. SUFFICES ASSUME winner # None, q # winner, q <= r
                 PROVE  q \notin holds'
    BY <1>0, <2>1 DEF LoserOff
  <2>3. CASE q # r
    BY <1>0, <1>3, <2>1, <2>2, <2>3, MoveFrame DEF LoserOff
  <2>4. CASE q = r
    <3>1. PICK settled \in BOOLEAN, slow \in BOOLEAN :
            \/ EmptyWindow(r) \/ Yield(r, settled) \/ Fire(r, settled, slow)
            \/ Dribble(r, settled, slow) \/ Sense(r, settled, slow)
      BY <1>3, MoveCases
    <3>2. OthersBall(r)
      BY <2>2, <2>4 DEF OthersBall
    <3>3. EmptyWindow(r) \/ Yield(r, settled)
      BY <3>1, <3>2 DEF Fire, Dribble, Sense
    <3>4. QED
      BY <2>4, <3>3 DEF EmptyWindow, Yield, SensorOff
  <2>5. QED
    BY <2>3, <2>4
<1>4. CASE UNCHANGED vars
  BY <1>4 DEF vars, frameVars, robotVars, LoserOff
<1>5. QED
  BY <1>1, <1>2, <1>3, <1>4
     DEF Next, FrameStep, Refresh, Sync, Command, PlaceBall, PlaceClothLineBall, frameVars

LEMMA MoveKeepsWinnerInv ==
  ASSUME TypeOK, HolderInv, WinnerInv, NEW r \in Robots, Move(r)
  PROVE  WinnerInv'
<1>0. /\ None \notin Robots /\ Robots \subseteq Nat /\ r \in Nat /\ NRobots \in Nat
      /\ winner \in Robots \cup {None} /\ holder \in Robots \cup {None}
      /\ \A q \in Robots : q <= NRobots
      /\ kicked \in [Robots -> 0 .. RecoverFrames + 1]
      /\ recharge \in [Robots -> 0 .. RechargeFrames]
  BY ConstantsAssumption DEF None, Robots, TypeOK
<1>1. /\ phase = "move" /\ turn = r
      /\ \/ phase' = "move" /\ turn' = r + 1
         \/ phase' = "sync" /\ r = NRobots
      /\ UNCHANGED <<near, winner, kickCmd>>
  BY DEF Move, cmdVars
<1>2. PICK settled \in BOOLEAN, slow \in BOOLEAN :
        \/ EmptyWindow(r) \/ Yield(r, settled) \/ Fire(r, settled, slow)
        \/ Dribble(r, settled, slow) \/ Sense(r, settled, slow)
  BY MoveCases
<1>3. \A q \in Robots : q # r =>
        /\ kicked'[q] = kicked[q] /\ recharge'[q] = recharge[q]
        /\ q \in holds' <=> q \in holds
  BY MoveFrame
<1>4. holder # None /\ winner # None => holder = winner
  BY <1>1 DEF HolderInv, WinnerHolds
<1>5. WinnerReady'
  <2>1. SUFFICES ASSUME winner # None, winner \in kickCmd
                 PROVE  /\ r < winner => kicked'[winner] = 0
                                         /\ (winner \in near \/ holder' = winner)
                        /\ winner <= r => recharge'[winner] > 0
                                          \/ kicked'[winner] = RecoverFrames + 1
    BY <1>0, <1>1 DEF WinnerReady
  <2>2. /\ r <= winner => kicked[winner] = 0 /\ (winner \in near \/ holder = winner)
        /\ winner < r => recharge[winner] > 0 \/ kicked[winner] = RecoverFrames + 1
    BY <1>0, <1>1, <2>1 DEF WinnerInv, WinnerReady
  <2>3. CASE r # winner
    <3>1. holder = winner => holder' = winner
      <4>1. SUFFICES ASSUME holder = winner PROVE holder' = winner
        OBVIOUS
      <4>2. OthersBall(r)
        BY <2>1, <2>3 DEF OthersBall
      <4>3. holder' = HolderNow(r)
        BY <1>2, <4>2 DEF EmptyWindow, Yield, Fire, Dribble, Sense
      <4>4. QED
        BY <2>3, <4>1, <4>3 DEF HolderNow, LetsGo
    <3>2. QED
      BY <1>0, <1>3, <2>1, <2>2, <2>3, <3>1
  <2>4. CASE r = winner
    <3>1. InWindow(r) /\ HolderNow(r) \in {None, r}
      BY <1>0, <1>4, <2>1, <2>2, <2>4 DEF InWindow, HolderNow, LetsGo
    <3>2. ~OthersBall(r) /\ KickedNow(r, settled) = 0
      BY <1>0, <2>2, <2>4, <3>1 DEF OthersBall, KickedNow
    <3>3. CASE WantsKick(r)
      <4>1. Fire(r, settled, slow)
        BY <1>2, <2>4, <3>1, <3>2, <3>3
           DEF EmptyWindow, Yield, Dribble, Sense, Fires, Catches
      <4>2. QED
        BY <1>0, <2>4, <4>1 DEF Fire
    <3>4. CASE ~WantsKick(r)
      <4>1. recharge[r] > 0
        BY <1>0, <2>1, <2>4, <3>4 DEF WantsKick
      <4>2. recharge' = recharge
        BY <1>2, <3>4 DEF EmptyWindow, Yield, Fire, Fires, Dribble, Sense
      <4>3. QED
        BY <2>4, <4>1, <4>2, <1>0
    <3>5. QED
      BY <3>3, <3>4
  <2>5. QED
    BY <2>3, <2>4
<1>6. QED
  BY <1>1, <1>5 DEF WinnerInv

(* Every step keeps the winner ready to kick, or sees it kick. *)
LEMMA WinnerStep == TypeOK /\ HolderInv /\ WinnerInv /\ [Next]_vars => WinnerInv'
<1> SUFFICES ASSUME TypeOK, HolderInv, WinnerInv, [Next]_vars
             PROVE  WinnerInv'
  OBVIOUS
<1>1. CASE Refresh
  BY <1>1 DEF Refresh, WinnerInv, WinnerReady
<1>2. CASE Contest
  <2>0. None \notin Robots /\ Robots \subseteq Nat /\ \A q \in Robots : q >= 1
    BY DEF None, Robots
  <2>1. PICK cone \in SUBSET Robots :
          /\ (measured \/ holder = None) => cone = near
          /\ winner' \in IF Contenders(cone) = {} THEN {None} ELSE Contenders(cone)
          /\ IF LosesContest(winner')
               THEN TakeOver(cone)
               ELSE UNCHANGED <<holder, collider, holds, pipe, published, near>>
    BY <1>2 DEF Contest
  <2>2. phase' = "move" /\ turn' = 1 /\ kicked' = kicked /\ kickCmd' = kickCmd
    BY <1>2 DEF Contest, cmdVars
  <2>3. WinnerReady'
    <3>1. SUFFICES ASSUME winner' # None
                   PROVE  WinnerReady'
      BY DEF WinnerReady
    <3>2. winner' \in Contenders(cone)
      BY <2>1, <3>1
    <3>3. winner' \in cone /\ kicked[winner'] = 0
      <4>1. winner' \in Kickers(cone) \/ winner' \in Dribblers(cone)
        BY <3>2 DEF Contenders
      <4>2. QED
        BY <4>1 DEF Kickers, Dribblers
    <3>4. ASSUME LosesContest(winner')
          PROVE  winner' \in near'
      BY <2>1, <3>3, <3>4 DEF TakeOver
    <3>5. ASSUME ~LosesContest(winner')
          PROVE  winner' \in near' \/ holder' = winner'
      BY <2>1, <3>1, <3>3, <3>5 DEF LosesContest
    <3>6. winner' \in Robots /\ winner' >= 1 /\ winner' \in Nat
      BY <2>0, <2>1, <3>3
    <3>7. ~(winner' < 1)
      BY <3>6
    <3>8. QED
      BY <2>2, <3>3, <3>4, <3>5, <3>7 DEF WinnerReady
  <2>4. QED
    BY <2>2, <2>3 DEF WinnerInv
<1>3. CASE \E r \in Robots : Move(r)
  BY <1>3, MoveKeepsWinnerInv
<1>4. CASE Sync
  BY <1>4 DEF Sync, WinnerInv, WinnerReady
<1>5. CASE \E r \in Robots : Command(r)
  BY <1>5 DEF Command, frameVars, WinnerInv, WinnerReady
<1>6. CASE PlaceBall
  BY <1>6 DEF PlaceBall, frameVars, WinnerInv, WinnerReady
<1>7. CASE PlaceClothLineBall
  BY <1>7 DEF PlaceClothLineBall, frameVars, WinnerInv, WinnerReady
<1>8. CASE UNCHANGED vars
  BY <1>8 DEF vars, frameVars, robotVars, ballVars, cmdVars,
              WinnerInv, WinnerReady
<1>9. QED
  BY <1>1, <1>2, <1>3, <1>4, <1>5, <1>6, <1>7, <1>8 DEF Next, FrameStep

LEMMA WinnerInvariant == Spec => []WinnerInv
<1>1. Init => WinnerInv
  BY DEF Init, WinnerInv, WinnerReady
<1>2. TypeOK /\ HolderInv /\ WinnerInv /\ [Next]_vars => WinnerInv'
  BY WinnerStep
<1>3. QED
  BY <1>1, <1>2, TypeCorrect, HolderInvariant, PTL DEF Spec

(* When the winner of the contest holds the ball at the end of a frame, no *)
(* other robot's mouth sensor reads it (botMovement).                      *)
THEOREM LosersAreBlind == Spec => []LosersSenseNothing
<1> DEFINE LosersOff == \A q \in Robots : LoserOff(q)
<1>1. Init => LosersOff
  BY DEF Init, LoserOff
<1>2. TypeOK /\ LosersOff /\ [Next]_vars => LosersOff'
  BY LoserStep
<1>3. TypeOK /\ HolderInv /\ LosersOff => LosersSenseNothing
  BY DEF TypeOK, HolderInv, HolderSensesBall, LoserOff, LosersSenseNothing
<1>4. QED
  BY <1>1, <1>2, <1>3, TypeCorrect, HolderInvariant, PTL DEF Spec

(* A winner of the contest that asks to kick has fired by the end of the   *)
(* frame, unless its kicker recharges (resolveBallContest, botMovement).   *)
THEOREM WinnerFires == Spec => []KickWinnerFires
<1>1. WinnerInv => KickWinnerFires
  BY DEF WinnerInv, WinnerReady, KickWinnerFires
<1>2. QED
  BY <1>1, WinnerInvariant, PTL

-----------------------------------------------------------------------------
(* A holder that has had its turn has done what it was told, and one that  *)
(* dribbles has its mouth shape out.                                       *)
ObeyedSoFar ==
  holder # None /\ (phase = "sync" \/ (phase = "move" /\ holder < turn)) =>
    /\ holder \in spin \cup kickCmd
    /\ ~WantsKick(holder)
    /\ holder \in spin => holder \in collider

LEMMA MoveKeepsObeyed ==
  ASSUME TypeOK, HolderInv, ObeyedSoFar, NEW r \in Robots, Move(r)
  PROVE  ObeyedSoFar'
<1>0. /\ None \notin Robots /\ Robots \subseteq Nat /\ r \in Nat
      /\ \A q \in Robots : q <= NRobots
      /\ holder \in Robots \cup {None} /\ winner \in Robots \cup {None}
  BY ConstantsAssumption DEF None, Robots, TypeOK
<1>1. /\ phase = "move" /\ turn = r
      /\ \/ phase' = "move" /\ turn' = r + 1
         \/ phase' = "sync" /\ r = NRobots
      /\ UNCHANGED <<kickCmd, spin>>
  BY DEF Move, cmdVars
<1>2. PICK settled \in BOOLEAN, slow \in BOOLEAN :
        \/ EmptyWindow(r) \/ Yield(r, settled) \/ Fire(r, settled, slow)
        \/ Dribble(r, settled, slow) \/ Sense(r, settled, slow)
  BY MoveCases
<1>3. CASE holder' = None
  BY <1>3 DEF ObeyedSoFar
(* Another robot keeps the ball through the turn of r. *)
<1>4. CASE holder' \in Robots \ {r}
  <2>1. holder' = holder
    BY <1>0, <1>2, <1>4 DEF EmptyWindow, Yield, Fire, Dribble, Sense, HolderNow
  <2>2. /\ recharge'[holder] = recharge[holder]
        /\ holder \in collider => holder \in collider'
    BY <1>4, <2>1, MoveFrame
  <2>3. holder' # None /\ (phase' = "sync" \/ holder' < turn') => holder < turn
    BY <1>0, <1>1, <1>4, <2>1
  <2>4. QED
    BY <1>1, <2>1, <2>2, <2>3 DEF ObeyedSoFar, WantsKick
<1>5. CASE holder' = r
  <2>1. CASE Dribble(r, settled, slow)
    BY <1>1, <1>5, <2>1 DEF Dribble, Catches, WantsKick, ObeyedSoFar
  <2>2. CASE ~Dribble(r, settled, slow)
    <3>1. HolderNow(r) = r /\ ~Fire(r, settled, slow)
      BY <1>0, <1>2, <1>5, <2>2 DEF EmptyWindow, Yield, Fire, Sense
    <3>2. holder = r /\ ~LetsGo(r)
      BY <1>0, <3>1 DEF HolderNow
    <3>3. kicked[r] = 0 /\ (winner # None => winner = r)
      BY <1>0, <1>1, <3>2 DEF HolderInv, WinnerHolds, HolderMayHold
    <3>4. InWindow(r) /\ ~OthersBall(r)
      BY <3>1, <3>3 DEF InWindow, OthersBall
    <3>5. Sense(r, settled, slow)
      BY <1>2, <2>2, <3>1, <3>4 DEF EmptyWindow, Yield
    <3>6. ~WantsKick(r) /\ recharge' = recharge
      BY <3>3, <3>5 DEF Sense, Fires, KickedNow
    <3>7. r \in spin \cup kickCmd
      BY <3>2 DEF LetsGo
    <3>8. r \notin spin
      <4>1. r \notin bounced
        BY <1>0, <3>2 DEF HolderInv, HolderMayHold
      <4>2. QED
        BY <3>1, <3>3, <3>5, <3>6, <4>1 DEF Sense, Catches, BouncedNow, KickedNow
    <3>9. QED
      BY <1>1, <1>5, <3>6, <3>7, <3>8 DEF ObeyedSoFar, WantsKick
  <2>3. QED
    BY <2>1, <2>2
<1>6. holder' \in Robots \cup {None}
  BY MoveType DEF TypeOK
<1>7. QED
  BY <1>3, <1>4, <1>5, <1>6

(* Every step keeps the holders obedient. *)
LEMMA ObeyedStep == TypeOK /\ HolderInv /\ ObeyedSoFar /\ [Next]_vars => ObeyedSoFar'
<1> SUFFICES ASSUME TypeOK, HolderInv, ObeyedSoFar, [Next]_vars
             PROVE  ObeyedSoFar'
  OBVIOUS
<1>0. \A q \in Robots : ~(q < 1)
  BY DEF Robots
<1>1. CASE Refresh
  BY <1>1 DEF Refresh, ObeyedSoFar
<1>2. CASE Contest
  <2>1. holder' \in Robots \cup {None} /\ phase' = "move" /\ turn' = 1
    BY <1>2, TypeStep DEF Contest, TypeOK
  <2>2. QED
    BY <1>0, <2>1 DEF ObeyedSoFar
<1>3. CASE \E r \in Robots : Move(r)
  BY <1>3, MoveKeepsObeyed
<1>4. CASE Sync
  BY <1>4 DEF Sync, ObeyedSoFar
<1>5. CASE \E r \in Robots : Command(r)
  BY <1>5 DEF Command, frameVars, ObeyedSoFar
<1>6. CASE PlaceBall
  BY <1>6 DEF PlaceBall, ObeyedSoFar
<1>7. CASE PlaceClothLineBall
  BY <1>7 DEF PlaceClothLineBall, frameVars, ObeyedSoFar
<1>8. CASE UNCHANGED vars
  BY <1>8 DEF vars, frameVars, robotVars, ballVars, cmdVars, ObeyedSoFar, WantsKick
<1>9. QED
  BY <1>1, <1>2, <1>3, <1>4, <1>5, <1>6, <1>7, <1>8 DEF Next, FrameStep

(* Within the frame a holder lets go when its dribbler stops, and kicks    *)
(* when it is asked to and its kicker is ready (Control.release, botMovement). *)
THEOREM HoldersObey == Spec => []HolderObeys
<1>1. Init => ObeyedSoFar
  BY DEF Init, ObeyedSoFar
<1>2. TypeOK /\ HolderInv /\ ObeyedSoFar /\ [Next]_vars => ObeyedSoFar'
  BY ObeyedStep
<1>3. ObeyedSoFar => HolderObeys
  BY DEF ObeyedSoFar, HolderObeys
<1>4. QED
  BY <1>1, <1>2, <1>3, TypeCorrect, HolderInvariant, PTL DEF Spec

-----------------------------------------------------------------------------
(* The end of the pipe.  A nonempty set of slots has a last one: among the *)
(* sets of the slots that follow one of its elements there is a smallest.  *)
LEMMA LastSlot ==
  ASSUME lag \in Nat \ {0}, NEW Q \in SUBSET (1 .. lag), Q # {}
  PROVE  \E i \in Q : \A j \in Q : j <= i
<1> DEFINE After(i) == {j \in Q : j > i}
           T == {After(i) : i \in Q}
<1>1. IsFiniteSet(Q)
  <2>1. IsFiniteSet(1 .. lag)
    BY FS_Interval
  <2>2. QED
    BY <2>1, FS_Subset
<1>2. T \subseteq FiniteSubsetsOf(Q)
  BY <1>1, FS_Subset DEF FiniteSubsetsOf
<1>3. PICK t \in T : \A u \in T : ~ (<<u, t>> \in StrictSubsetOrdering(Q))
  <2>1. T # {}
    OBVIOUS
  <2> HIDE DEF T
  <2>2. QED
    BY <1>2, <2>1, WFMin, FS_StrictSubsetOrderingWellFounded, Zenon
<1>4. PICK i \in Q : t = After(i)
  OBVIOUS
<1>5. ASSUME NEW j \in Q, ~(j <= i)
      PROVE  FALSE
  <2>1. j > i /\ i \in Nat /\ j \in Nat
    BY <1>5
  <2>2. After(j) \subseteq After(i) /\ j \in After(i) /\ j \notin After(j)
    <3>1. Q \subseteq Nat
      OBVIOUS
    <3>2. \A k \in Q : k > j => k > i
      BY <2>1, <3>1
    <3>3. ~(j > j)
      BY <2>1
    <3>4. QED
      BY <2>1, <3>2, <3>3
  <2>3. <<After(j), t>> \in StrictSubsetOrdering(Q)
    <3>1. After(j) \in SUBSET Q /\ t \in SUBSET Q /\ After(j) \subseteq t /\ After(j) # t
      BY <1>4, <2>2
    <3> HIDE DEF After
    <3>2. QED
      BY <3>1 DEF StrictSubsetOrdering
  <2>4. QED
    BY <1>3, <2>3
<1>6. QED
  BY <1>5

(* A call made last decides where the body ends up. *)
LEMMA RestingAfterReset ==
  ASSUME TypeOK, NEW place \in Places, pipe' = Reset(pipe, place), lag' = lag
  PROVE  Resting' = place
<1>1. lag \in 1 .. lag /\ place # "none"
  BY LagType DEF Places
<1>2. pipe'[lag] = place
  BY <1>1 DEF Reset, TypeOK
<1>3. lag \in Queued' /\ \A j \in Queued' : j <= lag
  BY <1>1, <1>2, LagType DEF Queued
<1>4. ASSUME NEW i \in Queued', \A j \in Queued' : j <= i
      PROVE  i = lag
  BY <1>3, <1>4, LagType DEF Queued
<1>5. (CHOOSE i \in Queued' : \A j \in Queued' : j <= i) = lag
  BY <1>3, <1>4
<1>6. QED
  BY <1>2, <1>3, <1>5 DEF Resting

(* The physics step moves the calls that are left on, the last one too. *)
LEMMA RestingInPipe ==
  ASSUME TypeOK, pipe' = PipeStep, lag' = lag, Queued' # {}
  PROVE  Resting' = Resting
<1>a. /\ lag \in Nat \ {0}
      /\ \A i \in 1 .. lag :
           pipe'[i] = IF i < lag THEN pipe[i + 1] ELSE "none"
  BY LagType DEF PipeStep
<1>b. Queued \subseteq 1 .. lag /\ Queued' \subseteq 1 .. lag
  BY DEF Queued
<1>c. \A i \in 1 .. lag : i \in Queued' <=> i + 1 \in Queued
  BY <1>a DEF Queued
<1>1. PICK i \in Queued' : \A j \in Queued' : j <= i
  BY <1>a, <1>b, LastSlot
<1>2. i + 1 \in Queued /\ i + 1 \in 1 .. lag
  BY <1>b, <1>c, <1>1
<1>3. ASSUME NEW j \in Queued
      PROVE  j <= i + 1
  <2>1. CASE j = 1
    BY <1>b, <1>1, <2>1
  <2>2. CASE j # 1
    <3>1. j - 1 \in 1 .. lag /\ (j - 1) + 1 = j
      BY <1>a, <1>b, <2>2
    <3>2. j - 1 \in Queued'
      BY <1>c, <3>1
    <3>3. QED
      BY <1>a, <1>b, <1>1, <3>2
  <2>3. QED
    BY <2>1, <2>2
<1>4. (CHOOSE k \in Queued : \A j \in Queued : j <= k) = i + 1
  <2>1. ASSUME NEW k \in Queued, \A j \in Queued : j <= k
        PROVE  k = i + 1
    BY <1>b, <1>2, <1>3, <2>1
  <2>2. QED
    BY <1>2, <1>3, <2>1
<1>5. (CHOOSE k \in Queued' : \A j \in Queued' : j <= k) = i
  <2>1. ASSUME NEW k \in Queued', \A j \in Queued' : j <= k
        PROVE  k = i
    BY <1>b, <1>1, <2>1
  <2>2. QED
    BY <1>1, <2>1
<1>6. pipe'[i] = pipe[i + 1]
  BY <1>a, <1>b, <1>2
<1>7. QED
  BY <1>2, <1>4, <1>5, <1>6 DEF Resting

(* A physics step changes nothing of where the body ends up. *)
LEMMA RestingAfterStep ==
  ASSUME TypeOK, pipe' = PipeStep, body' = Arrived, lag' = lag
  PROVE  Resting' = Resting
<1>0. /\ lag \in Nat \ {0}
      /\ \A i \in 1 .. lag :
           pipe'[i] = IF i < lag THEN pipe[i + 1] ELSE "none"
  BY LagType DEF PipeStep
<1>1. Queued \subseteq 1 .. lag
  BY DEF Queued
<1>2. \A i \in 1 .. lag : i \in Queued' <=> i + 1 \in Queued
  BY <1>0 DEF Queued
<1>3. CASE Queued' # {}
  BY <1>3, RestingInPipe
<1>4. CASE Queued' = {}
  <2>1. Resting' = Arrived
    BY <1>4 DEF Resting
  <2>2. \A j \in Queued : j = 1
    <3>1. SUFFICES ASSUME NEW j \in Queued, j # 1 PROVE FALSE
      OBVIOUS
    <3>2. j - 1 \in 1 .. lag /\ (j - 1) + 1 = j
      BY <1>0, <1>1, <3>1
    <3>3. QED
      BY <1>2, <1>4, <3>2
  <2>3. CASE Queued = {}
    <3>1. pipe[1] = "none"
      BY <1>0, <2>3 DEF Queued
    <3>2. QED
      BY <2>1, <2>3, <3>1 DEF Arrived, Resting
  <2>4. CASE Queued # {}
    <3>1. Queued = {1}
      BY <2>2, <2>4
    <3>2. (CHOOSE k \in Queued : \A j \in Queued : j <= k) = 1
      BY <3>1
    <3>3. pipe[1] # "none"
      BY <3>1 DEF Queued
    <3>4. QED
      BY <2>1, <2>4, <3>2, <3>3 DEF Arrived, Resting
  <2>5. QED
    BY <2>3, <2>4
<1>5. QED
  BY <1>3, <1>4

(* Nor does a measurement that finds the body on the field send it to the  *)
(* parking place.                                                          *)
LEMMA RestingAfterMeasured ==
  ASSUME TypeOK, pipe' = PipeStep, body' \in {Arrived, "field"}, lag' = lag,
         Resting' = "park"
  PROVE  Resting = "park"
<1>1. CASE Queued' = {}
  BY <1>1, RestingAfterStep DEF Resting
<1>2. CASE Queued' # {}
  BY <1>2, RestingInPipe
<1>3. QED
  BY <1>1, <1>2

(* Every step leaves the body of a held ball parked or on its way there. *)
LEMMA HeldStep == TypeOK /\ HeldBallIsParked /\ [Next]_vars => HeldBallIsParked'
<1> SUFFICES ASSUME TypeOK, HeldBallIsParked, [Next]_vars
             PROVE  HeldBallIsParked'
  OBVIOUS
<1>0. lag' = lag
  BY LagKept
<1>1. CASE holder' # None /\ Resting' \in {"park", "corner"}
  BY <1>1 DEF HeldBallIsParked
<1>2. CASE holder' = None
  BY <1>2 DEF HeldBallIsParked
<1>3. CASE UNCHANGED <<holder, pipe, body>>
  <2>1. Resting' = Resting
    BY <1>0, <1>3 DEF Resting, Queued
  <2>2. QED
    BY <1>3, <2>1 DEF HeldBallIsParked
<1>4. CASE Refresh
  <2>1. CASE holder = None
    BY <1>2, <1>4, <2>1 DEF Refresh
  <2>2. CASE holder # None
    <3>1. Resting' = Resting
      BY <1>0, <1>4, <2>2, RestingAfterStep DEF Refresh
    <3>2. QED
      BY <1>4, <2>2, <3>1 DEF Refresh, HeldBallIsParked
  <2>3. QED
    BY <2>1, <2>2
<1>5. CASE Contest
  BY <1>2, <1>3, <1>5 DEF Contest, TakeOver
<1>6. ASSUME NEW r \in Robots, Move(r)
      PROVE  HeldBallIsParked'
  <2>1. PICK settled \in BOOLEAN, slow \in BOOLEAN :
          \/ EmptyWindow(r) \/ Yield(r, settled) \/ Fire(r, settled, slow)
          \/ Dribble(r, settled, slow) \/ Sense(r, settled, slow)
    BY <1>6, MoveCases
  <2>2. CASE Dribble(r, settled, slow)
    <3>1. holder' = r /\ r # None /\ pipe' = Reset(pipe, "park") /\ "park" \in Places
      BY <2>2 DEF Dribble, None, Robots, Places
    <3>2. Resting' = "park"
      BY <1>0, <3>1, RestingAfterReset
    <3>3. QED
      BY <1>1, <3>1, <3>2
  <2>3. CASE holder' = HolderNow(r) /\ pipe' = PipeNow(r)
    <3>1. CASE LetsGo(r)
      BY <1>2, <2>3, <3>1 DEF HolderNow
    <3>2. CASE ~LetsGo(r)
      BY <1>3, <1>6, <2>3, <3>2 DEF HolderNow, PipeNow, Move
    <3>3. QED
      BY <3>1, <3>2
  <2>4. QED
    BY <1>2, <2>1, <2>2, <2>3 DEF EmptyWindow, Yield, Fire, Sense
<1>7. CASE Sync
  BY <1>2, <1>3, <1>7 DEF Sync
<1>8. CASE (\E r \in Robots : Command(r)) \/ UNCHANGED vars
  BY <1>3, <1>8 DEF Command, vars, ballVars
<1>9. CASE PlaceBall
  BY <1>2, <1>9 DEF PlaceBall
<1>10. CASE PlaceClothLineBall
  <2>1. Resting' = "corner"
    BY <1>0, <1>10, RestingAfterReset DEF PlaceClothLineBall, Places
  <2>2. QED
    BY <1>1, <1>2, <2>1
<1>11. QED
  BY <1>4, <1>5, <1>6, <1>7, <1>8, <1>9, <1>10 DEF Next, FrameStep

(* The body of a held ball is parked or on its way there, unless the P key *)
(* has sent it away, whatever the delay of ball.reset().                   *)
THEOREM HeldIsParked == Spec => []HeldBallIsParked
<1>1. Init => HeldBallIsParked
  BY DEF Init, HeldBallIsParked
<1>2. TypeOK /\ HeldBallIsParked /\ [Next]_vars => HeldBallIsParked'
  BY HeldStep
<1>3. QED
  BY <1>1, <1>2, TypeCorrect, PTL DEF Spec

-----------------------------------------------------------------------------
(* The parked body, when a call of ball.reset() is seen in the next frame  *)
(* (lag = 1, what Sync.qml and Control.qml say).                           *)

(* A parking call of this frame belongs to a robot that has had its turn.  *)
ParkingIsOwned ==
  pipe[1] = "park" =>
    holder # None /\ phase # "contest" /\ (phase = "move" => holder < turn)

(* A parked body that nothing calls back is owned. *)
ParkedIsOwned == pipe[1] = "none" /\ body = "park" => holder # None

(* placeBall may leave the parking place in ballPosition: then the body is *)
(* on its way back, and until the frame ends no mouth is near the ball.    *)
ParkedPosition ==
  published = "park" =>
    /\ holder = None
    /\ IF phase = "idle" THEN pipe[1] \in {"field", "corner"}
                         ELSE near = {} /\ body # "park"

ReturnInv == ParkingIsOwned /\ ParkedIsOwned /\ ParkedPosition

(* With a delay of one frame the pipe is one slot. *)
LEMMA OneSlot ==
  ASSUME lag = 1, TypeOK
  PROVE  /\ PipeStep[1] = "none"
         /\ \A place : Reset(pipe, place)[1] = place
         /\ pipe[1] \in Targets
  BY DEF PipeStep, Reset, TypeOK

LEMMA RestingOneSlot ==
  ASSUME lag = 1, TypeOK
  PROVE  Resting = IF pipe[1] = "none" THEN body ELSE pipe[1]
<1>1. 1 .. lag = {1}
  OBVIOUS
<1>2. CASE pipe[1] = "none"
  <2>1. Queued = {}
    BY <1>1, <1>2 DEF Queued
  <2>2. QED
    BY <1>2, <2>1 DEF Resting
<1>3. CASE pipe[1] # "none"
  <2>1. Queued = {1}
    BY <1>1, <1>3 DEF Queued
  <2>2. (CHOOSE i \in Queued : \A j \in Queued : j <= i) = 1
    BY <2>1
  <2>3. QED
    BY <1>3, <2>1, <2>2 DEF Resting
<1>4. QED
  BY <1>2, <1>3

LEMMA MoveKeepsReturnInv ==
  ASSUME lag = 1, TypeOK, ReturnInv, NEW r \in Robots, Move(r)
  PROVE  ReturnInv'
<1> USE DEF ReturnInv, ParkingIsOwned, ParkedIsOwned, ParkedPosition
<1>0. /\ None \notin Robots /\ r \in Nat /\ NRobots \in Nat
      /\ holder \in Robots \cup {None} /\ r <= NRobots
  BY ConstantsAssumption DEF None, Robots, TypeOK
<1>1. /\ phase = "move" /\ turn = r
      /\ phase' \in {"move", "sync"}
      /\ phase' = "move" => turn' = r + 1
      /\ UNCHANGED <<near, body, published>>
  BY DEF Move
<1>2. PICK settled \in BOOLEAN, slow \in BOOLEAN :
        \/ EmptyWindow(r) \/ Yield(r, settled) \/ Fire(r, settled, slow)
        \/ Dribble(r, settled, slow) \/ Sense(r, settled, slow)
  BY MoveCases
<1>3. \A place : Reset(pipe, place)[1] = place
  BY OneSlot
(* Outcomes that end in what the release left behind. *)
<1>4. ASSUME holder' = HolderNow(r), pipe' = PipeNow(r)
      PROVE  ReturnInv'
  <2>1. CASE LetsGo(r)
    <3>1. holder = r /\ holder' = None /\ pipe[1] # "park"
      BY <1>0, <1>1, <1>4, <2>1 DEF LetsGo, HolderNow, Robots
    <3>2. CASE body = "park"
      BY <1>0, <1>1, <1>3, <1>4, <2>1, <3>1, <3>2 DEF PipeNow
    <3>3. CASE body # "park"
      BY <1>0, <1>1, <1>4, <2>1, <3>1, <3>3 DEF PipeNow
    <3>4. QED
      BY <3>2, <3>3
  <2>2. CASE ~LetsGo(r)
    <3>1. holder' = holder /\ pipe' = pipe
      BY <1>4, <2>2 DEF HolderNow, PipeNow
    <3>2. ParkingIsOwned'
      <4>1. SUFFICES ASSUME pipe[1] = "park"
                     PROVE  /\ holder # None /\ phase' # "contest"
                            /\ phase' = "move" => holder < turn'
        BY <3>1
      <4>2. holder # None /\ holder < r /\ holder \in Nat
        BY <1>0, <1>1, <4>1 DEF Robots, None
      <4>3. QED
        BY <1>0, <1>1, <4>2
    <3>3. QED
      BY <1>1, <3>1, <3>2
  <2>3. QED
    BY <2>1, <2>2
<1>5. CASE EmptyWindow(r)
  BY <1>4, <1>5 DEF EmptyWindow
<1>6. CASE Yield(r, settled)
  BY <1>4, <1>6 DEF Yield
<1>7. CASE Sense(r, settled, slow)
  BY <1>4, <1>7 DEF Sense
<1>8. CASE Fire(r, settled, slow)
  <2>1. holder \in {r, None}
    BY <1>8 DEF Fire, OthersBall, HolderNow, LetsGo
  <2>2. pipe[1] # "park" /\ holder' = None
    BY <1>0, <1>1, <1>8, <2>1 DEF Fire
  <2>3. CASE body = "park"
    BY <1>1, <1>3, <1>8, <2>2, <2>3 DEF Fire, KickReset
  <2>4. CASE body # "park"
    BY <1>1, <1>8, <2>2, <2>4 DEF Fire, KickReset
  <2>5. QED
    BY <2>3, <2>4
<1>9. CASE Dribble(r, settled, slow)
  <2>1. holder' = r /\ pipe'[1] = "park"
    BY <1>3, <1>9 DEF Dribble
  <2>2. published # "park"
    BY <1>0, <1>1, <1>9 DEF Dribble, InWindow, HolderNow
  <2>3. QED
    BY <1>0, <1>1, <2>1, <2>2
<1>10. QED
  BY <1>2, <1>5, <1>6, <1>7, <1>8, <1>9

(* Every step keeps the ball on its way back. *)
LEMMA ReturnStep ==
  ASSUME lag = 1
  PROVE  TypeOK /\ ReturnInv /\ [Next]_vars => ReturnInv'
<1> SUFFICES ASSUME TypeOK, ReturnInv, [Next]_vars
             PROVE  ReturnInv'
  OBVIOUS
<1>0. /\ PipeStep[1] = "none"
      /\ \A place : Reset(pipe, place)[1] = place
  BY OneSlot
<1> USE DEF ReturnInv, ParkingIsOwned, ParkedIsOwned, ParkedPosition
<1>1. CASE Refresh
  <2>1. pipe'[1] = "none" /\ holder' = holder /\ phase' = "contest"
    BY <1>0, <1>1 DEF Refresh
  <2>2. Arrived = "park" => holder # None
    BY DEF Arrived
  <2>3. ParkedIsOwned'
    BY <1>1, <2>1, <2>2 DEF Refresh, Arrived
  <2>4. ParkedPosition'
    <3>1. SUFFICES ASSUME published' = "park"
                   PROVE  holder = None /\ near' = {} /\ body' # "park"
      BY <2>1
    <3>2. ~measured' /\ published = "park" /\ near' = {} /\ body' = Arrived
      BY <1>1, <3>1 DEF Refresh
    <3>3. holder = None /\ pipe[1] \in {"field", "corner"}
      BY <1>1, <3>2 DEF Refresh
    <3>4. QED
      BY <3>2, <3>3 DEF Arrived
  <2>5. QED
    BY <2>1, <2>3, <2>4
<1>2. CASE Contest
  <2>1. PICK cone \in SUBSET Robots :
          IF LosesContest(winner')
            THEN TakeOver(cone)
            ELSE UNCHANGED <<holder, collider, holds, pipe, published, near>>
    BY <1>2 DEF Contest
  <2>2. phase = "contest" /\ phase' = "move" /\ body' = body
    BY <1>2 DEF Contest
  <2>3. CASE LosesContest(winner')
    BY <1>0, <2>1, <2>2, <2>3 DEF TakeOver
  <2>4. CASE ~LosesContest(winner')
    BY <2>1, <2>2, <2>4
  <2>5. QED
    BY <2>3, <2>4
<1>3. CASE \E r \in Robots : Move(r)
  BY <1>3, MoveKeepsReturnInv
<1>4. CASE Sync
  BY <1>4 DEF Sync, Publish
<1>5. CASE \E r \in Robots : Command(r)
  BY <1>5 DEF Command, frameVars, ballVars
<1>6. CASE PlaceBall
  BY <1>0, <1>6 DEF PlaceBall, frameVars
<1>7. CASE PlaceClothLineBall
  BY <1>0, <1>7 DEF PlaceClothLineBall, frameVars
<1>8. CASE UNCHANGED vars
  BY <1>8 DEF vars, frameVars, ballVars
<1>9. QED
  BY <1>1, <1>2, <1>3, <1>4, <1>5, <1>6, <1>7, <1>8 DEF Next, FrameStep

(* A holder never finds its own parking call on the way: it is seen before *)
(* the holder has its next turn.                                           *)
LEMMA NeverEarly ==
  ASSUME lag = 1
  PROVE  TypeOK /\ ReturnInv /\ ~hasty /\ [Next]_vars => ~hasty'
<1> SUFFICES ASSUME TypeOK, ReturnInv, ~hasty, [Next]_vars
             PROVE  ~hasty'
  OBVIOUS
<1>1. ASSUME NEW r \in Robots, Move(r)
      PROVE  ~hasty'
  <2>1. r # None /\ ~(r < r)
    BY DEF Robots, None
  <2>2. phase = "move" /\ turn = r
    BY <1>1 DEF Move
  <2>3. holder = r => pipe[1] # "park"
    BY <2>1, <2>2 DEF ReturnInv, ParkingIsOwned
  <2>4. holder = r => ~ParkingInFlight
    BY <2>3 DEF ParkingInFlight
  <2>5. QED
    BY <1>1, <2>4 DEF Move, LetGoEarly
<1>2. QED
  BY <1>1 DEF Next, FrameStep, Refresh, Contest, Sync, Command, PlaceBall,
              PlaceClothLineBall, vars, ballVars

(* What a delay of one frame guarantees. *)
OneFrameInv == lag = 1 => ReturnInv /\ ~hasty

LEMMA OneFrameStep == TypeOK /\ OneFrameInv /\ [Next]_vars => OneFrameInv'
  BY LagKept, ReturnStep, NeverEarly DEF OneFrameInv

LEMMA OneFrameInvariant == Spec => []OneFrameInv
<1>1. Init => OneFrameInv
  BY DEF Init, OneFrameInv, ReturnInv, ParkingIsOwned, ParkedIsOwned, ParkedPosition
<1>2. TypeOK /\ OneFrameInv /\ [Next]_vars => OneFrameInv'
  BY OneFrameStep
<1>3. QED
  BY <1>1, <1>2, TypeCorrect, PTL DEF Spec

-----------------------------------------------------------------------------
(* The ball that nobody holds, for any delay: it rests at the parking      *)
(* place only if its last holder let go too early.                         *)
StrandedIsHasty == holder = None /\ Resting = "park" => hasty

(* Nothing on the way and a body that stays or leaves the touch line. *)
LEMMA RestingSame ==
  ASSUME pipe' = pipe, lag' = lag, body' # "park"
  PROVE  Resting' = "park" => Resting = "park"
  BY DEF Resting, Queued

(* An iteration of botMovement that does not catch the ball either leaves  *)
(* the calls as they are or brings the body back.                          *)
LEMMA MoveStrands ==
  ASSUME TypeOK, HolderInv, StrandedIsHasty, NEW r \in Robots, Move(r)
  PROVE  StrandedIsHasty'
<1>0. /\ lag' = lag /\ body' = body /\ "field" \in Places /\ r # None
      /\ hasty' = (holder' = None /\ IF holder = r THEN ParkingInFlight ELSE hasty)
  BY DEF Move, LetGoEarly, Places, Robots, None
<1>1. SUFFICES ASSUME holder' = None, Resting' = "park"
               PROVE  IF holder = r THEN ParkingInFlight ELSE hasty
  BY <1>0 DEF StrandedIsHasty
<1>2. PICK settled \in BOOLEAN, slow \in BOOLEAN :
        \/ EmptyWindow(r) \/ Yield(r, settled) \/ Fire(r, settled, slow)
        \/ Dribble(r, settled, slow) \/ Sense(r, settled, slow)
  BY MoveCases
<1>3. pipe' # Reset(pipe, "field")
  BY <1>0, <1>1, RestingAfterReset DEF Places
<1>4. holder \in {r, None}
  BY <1>0, <1>1, <1>2 DEF EmptyWindow, Yield, Sense, Fire, Dribble, OthersBall,
                          HolderNow, LetsGo
<1>5. pipe' = pipe /\ (holder = r => body # "park")
  <2>1. CASE Fire(r, settled, slow)
    BY <1>3, <2>1 DEF Fire, KickReset
  <2>2. CASE EmptyWindow(r) \/ Yield(r, settled) \/ Sense(r, settled, slow)
    BY <1>0, <1>1, <1>3, <2>2 DEF EmptyWindow, Yield, Sense, PipeNow, HolderNow, LetsGo
  <2>3. CASE Dribble(r, settled, slow)
    BY <1>0, <1>1, <2>3 DEF Dribble
  <2>4. QED
    BY <1>2, <2>1, <2>2, <2>3
<1>6. Resting = "park"
  BY <1>0, <1>1, <1>5 DEF Resting, Queued
<1>7. CASE holder = r
  <2>1. Queued # {} /\ Queued \subseteq 1 .. lag
    BY <1>5, <1>6, <1>7 DEF Resting, Queued
  <2>2. PICK i \in Queued : \A j \in Queued : j <= i
    BY <2>1, LagType, LastSlot
  <2>3. (CHOOSE k \in Queued : \A j \in Queued : j <= k) \in Queued
    BY <2>2
  <2>4. \E k \in 1 .. lag : pipe[k] = "park"
    BY <1>6, <2>1, <2>3 DEF Resting
  <2>5. QED
    BY <1>5, <1>7, <2>4 DEF ParkingInFlight
<1>8. CASE holder = None
  BY <1>0, <1>6, <1>8 DEF StrandedIsHasty
<1>9. QED
  BY <1>4, <1>7, <1>8

LEMMA StrandedStep == TypeOK /\ HolderInv /\ StrandedIsHasty /\ [Next]_vars => StrandedIsHasty'
<1> SUFFICES ASSUME TypeOK, HolderInv, StrandedIsHasty, [Next]_vars
             PROVE  StrandedIsHasty'
  OBVIOUS
<1>0. lag' = lag
  BY LagKept
<1>1. CASE holder' = None => Resting' # "park"
  BY <1>1 DEF StrandedIsHasty
<1>2. CASE /\ UNCHANGED <<holder, hasty>>
           /\ holder = None /\ Resting' = "park" => Resting = "park"
  BY <1>2 DEF StrandedIsHasty
<1>3. CASE UNCHANGED <<holder, hasty, pipe, body>>
  BY <1>0, <1>2, <1>3 DEF Resting, Queued
<1>4. CASE Refresh
  <2>1. UNCHANGED <<holder, hasty>>
    BY <1>4 DEF Refresh
  <2>2. ASSUME holder = None, Resting' = "park"
        PROVE  Resting = "park"
    <3>1. body' \in {Arrived, "field"} /\ pipe' = PipeStep
      BY <1>4 DEF Refresh
    <3>2. QED
      BY <1>0, <2>2, <3>1, RestingAfterMeasured
  <2>3. QED
    BY <1>2, <2>1, <2>2
<1>5. CASE Contest
  <2>1. CASE UNCHANGED <<holder, hasty, pipe, body>>
    BY <1>3, <2>1
  <2>2. CASE pipe' = Reset(pipe, "field")
    BY <1>0, <1>1, <2>2, RestingAfterReset DEF Places
  <2>3. QED
    BY <1>5, <2>1, <2>2 DEF Contest, TakeOver
<1>6. CASE \E r \in Robots : Move(r)
  BY <1>6, MoveStrands
<1>7. CASE Sync
  <2>1. UNCHANGED <<holder, hasty, pipe>> /\ (body' = body \/ body' # "park")
    BY <1>7 DEF Sync
  <2>2. QED
    BY <1>0, <1>2, <1>3, <2>1, RestingSame
<1>8. CASE (\E r \in Robots : Command(r)) \/ UNCHANGED vars
  BY <1>3, <1>8 DEF Command, vars, ballVars
<1>9. CASE PlaceBall \/ PlaceClothLineBall
  <2>1. PICK place \in {"field", "corner"} : pipe' = Reset(pipe, place)
    BY <1>9 DEF PlaceBall, PlaceClothLineBall
  <2>2. QED
    BY <1>0, <1>1, <2>1, RestingAfterReset DEF Places
<1>10. QED
  BY <1>4, <1>5, <1>6, <1>7, <1>8, <1>9 DEF Next, FrameStep

LEMMA StrandedInvariant == Spec => []StrandedIsHasty
<1>1. Init => StrandedIsHasty
  BY DEF Init, StrandedIsHasty, Resting, Queued
<1>2. TypeOK /\ HolderInv /\ StrandedIsHasty /\ [Next]_vars => StrandedIsHasty'
  BY StrandedStep
<1>3. QED
  BY <1>1, <1>2, TypeCorrect, HolderInvariant, PTL DEF Spec

(* A ball that nobody holds is on the field or on its way back, whatever   *)
(* the delay of ball.reset(), unless it was let go while its own parking   *)
(* call was on the way, which takes a delay of two frames or more          *)
(* (Control.kick and Control.release, resolveBallContest, placeBall).      *)
THEOREM NeverStranded == Spec => []BallNeverStranded
<1>1. TypeOK /\ OneFrameInv /\ StrandedIsHasty => BallNeverStranded
  <2> SUFFICES ASSUME TypeOK, OneFrameInv, StrandedIsHasty, holder = None, Resting = "park"
               PROVE  hasty /\ lag > 1
    BY DEF BallNeverStranded
  <2>1. hasty /\ lag # 1
    BY DEF StrandedIsHasty, OneFrameInv
  <2>2. QED
    BY <2>1, LagType
<1>2. QED
  BY <1>1, TypeCorrect, OneFrameInvariant, StrandedInvariant, PTL

(* Refresh leaves the last slot of the pipe empty, and a kick waiting only *)
(* for a body that is still parked.                                        *)
RefreshDone ==
  phase = "contest" =>
    /\ pipe[lag] = "none"
    /\ pending # None => body = "park"

LEMMA RefreshDoneStep == TypeOK /\ RefreshDone /\ [Next]_vars => RefreshDone'
<1> SUFFICES ASSUME TypeOK, RefreshDone, [Next]_vars, phase' = "contest"
             PROVE  RefreshDone'
  BY DEF RefreshDone
<1>1. CASE Refresh
  <2>1. pipe'[lag'] = "none"
    BY <1>1, LagType DEF Refresh, PipeStep
  <2>2. pending' # None => Arrived = "park"
    BY <1>1 DEF Refresh
  <2>3. measured' => holder # None \/ Arrived # "park"
    BY <1>1 DEF Refresh, Measures
  <2>4. pending' # None => body' = "park"
    BY <1>1, <2>2, <2>3 DEF Refresh
  <2>5. QED
    BY <2>1, <2>4 DEF RefreshDone
<1>2. CASE UNCHANGED vars
  BY <1>2 DEF vars, frameVars, ballVars, RefreshDone
<1>3. QED
  BY <1>1, <1>2 DEF Next, FrameStep, Contest, Move, Sync, Command, PlaceBall,
                    PlaceClothLineBall, frameVars

LEMMA RefreshDoneInvariant == Spec => []RefreshDone
<1>1. Init => RefreshDone
  BY DEF Init, RefreshDone
<1>2. TypeOK /\ RefreshDone /\ [Next]_vars => RefreshDone'
  BY RefreshDoneStep
<1>3. QED
  BY <1>1, <1>2, TypeCorrect, PTL DEF Spec

LEMMA FreeIsBack == TypeOK /\ StrandedIsHasty /\ RefreshDone => FreeBallIsBack
<1> SUFFICES ASSUME TypeOK, StrandedIsHasty, RefreshDone, phase = "contest",
                    holder = None, ~hasty, body = "park" \/ pending # None
             PROVE  \E i \in 1 .. lag - 1 : pipe[i] \in {"field", "corner"}
  BY DEF FreeBallIsBack
<1>1. body = "park" /\ pipe[lag] = "none" /\ Resting # "park"
  BY DEF RefreshDone, StrandedIsHasty
<1>2. Queued # {} /\ Queued \subseteq 1 .. lag
  BY <1>1 DEF Resting, Queued
<1>3. PICK i \in Queued : \A j \in Queued : j <= i
  BY <1>2, LagType, LastSlot
<1>4. PICK k \in Queued : Resting = pipe[k]
  <2>1. (CHOOSE k \in Queued : \A j \in Queued : j <= k) \in Queued
    BY <1>3
  <2>2. QED
    BY <1>2, <2>1 DEF Resting
<1>5. pipe[k] \in {"field", "corner"} /\ k # lag /\ k \in 1 .. lag
  BY <1>1, <1>2, <1>4 DEF Queued, TypeOK, Targets, Places
<1>6. k \in 1 .. lag - 1
  BY <1>5, LagType
<1>7. QED
  BY <1>5, <1>6

(* A ball that nobody holds, and that was not let go too early, is back on *)
(* the field and its kick launched, or the call that brings it back is due *)
(* within lag - 1 frames (Control.kick, launch in updateGameObjects).      *)
THEOREM FreeBallReturns == Spec => []FreeBallIsBack
  BY FreeIsBack, TypeCorrect, StrandedInvariant, RefreshDoneInvariant, PTL

(* Every frame brings a placement nearer to its end, by a landing or by    *)
(* the timeout, or is one of the lag - 1 frames at most in which the ball  *)
(* is still on its way to the place (refreshBall, placementLandingTimeoutMs). *)
PlacementCountsDown ==
  [][Refresh /\ placing > 0 /\ ~hasty =>
       \/ placing' < placing
       \/ \E i \in 1 .. lag - 1 : pipe'[i] \in {"field", "corner"}]_vars

THEOREM PlacementsEnd == Spec => PlacementCountsDown
<1>1. TypeOK /\ FreeBallIsBack' /\ [Next]_vars =>
        [Refresh /\ placing > 0 /\ ~hasty =>
           \/ placing' < placing
           \/ \E i \in 1 .. lag - 1 : pipe'[i] \in {"field", "corner"}]_vars
  <2> SUFFICES ASSUME TypeOK, FreeBallIsBack', Refresh, placing > 0, ~hasty,
                      ~(placing' < placing)
               PROVE  \E i \in 1 .. lag - 1 : pipe'[i] \in {"field", "corner"}
    OBVIOUS
  <2>1. placing \in Nat /\ placing # 0
    BY ConstantsAssumption DEF TypeOK
  <2>2. PICK landed \in BOOLEAN :
          /\ measured' = Measures(landed)
          /\ placing' = IF Measures(landed) THEN 0 ELSE Tick(placing)
    BY DEF Refresh
  <2>3. ~Measures(landed) /\ Tick(placing) = 1
    BY <2>1, <2>2 DEF Tick
  <2>4. holder = None /\ Arrived = "park" /\ ~measured'
    BY <2>2, <2>3 DEF Measures
  <2>5. phase' = "contest" /\ holder' = None /\ ~hasty' /\ body' = "park" /\ lag' = lag
    BY <2>4 DEF Refresh
  <2>6. QED
    BY <2>5 DEF FreeBallIsBack
<1>2. QED
  BY <1>1, TypeCorrect, FreeBallReturns, PTL DEF Spec, PlacementCountsDown

(* ballPosition is the parking place only while a placement has not ended. *)
ParkIsPlaced == published = "park" => placing > 0

LEMMA ParkIsPlacedStep == TypeOK /\ ParkIsPlaced /\ [Next]_vars => ParkIsPlaced'
<1> SUFFICES ASSUME TypeOK, ParkIsPlaced, [Next]_vars, published' = "park"
             PROVE  placing' > 0
  BY DEF ParkIsPlaced
<1>0. placing \in Nat
  BY ConstantsAssumption DEF TypeOK
<1>1. CASE published = "park" /\ placing' = placing
  BY <1>1 DEF ParkIsPlaced
<1>2. CASE Refresh
  <2>1. ~measured' /\ published = "park"
    BY <1>2 DEF Refresh
  <2>2. placing' = Tick(placing)
    BY <1>2, <2>1 DEF Refresh
  <2>3. QED
    BY <1>0, <2>1, <2>2 DEF ParkIsPlaced, Tick
<1>3. CASE Contest
  BY <1>1, <1>3 DEF Contest, TakeOver
<1>4. CASE PlaceBall
  BY <1>4, ConstantsAssumption DEF PlaceBall
<1>5. CASE Sync
  BY <1>1, <1>5 DEF Sync, Publish
<1>6. QED
  BY <1>1, <1>2, <1>3, <1>4, <1>5
     DEF Next, FrameStep, Move, Command, PlaceClothLineBall, vars, ballVars

LEMMA ParkIsPlacedInvariant == Spec => []ParkIsPlaced
<1>1. Init => ParkIsPlaced
  BY DEF Init, ParkIsPlaced
<1>2. TypeOK /\ ParkIsPlaced /\ [Next]_vars => ParkIsPlaced'
  BY ParkIsPlacedStep
<1>3. QED
  BY <1>1, <1>2, TypeCorrect, PTL DEF Spec

(* Sync.updateBall hands a position on the field to the observer: always   *)
(* with a delay of one frame, with a longer one when no placement runs.    *)
THEOREM PublishesOnField == Spec => PublishedOnField
<1>1. TypeOK /\ OneFrameInv /\ ParkIsPlaced /\ [Next]_vars =>
        [phase = "sync" /\ (lag = 1 \/ placing = 0) => published' = "field"]_vars
  <2> SUFFICES ASSUME TypeOK, OneFrameInv, ParkIsPlaced, Next, phase = "sync",
                      lag = 1 \/ placing = 0
               PROVE  published' = "field"
    BY DEF vars
  <2>1. Sync
    BY DEF Next, FrameStep, Refresh, Contest, Move, Command, PlaceBall, PlaceClothLineBall
  <2>2. published \in {"field", "park"}
    BY DEF TypeOK
  <2>3. published = "park" => holder = None /\ body # "park"
    BY DEF OneFrameInv, ReturnInv, ParkedPosition, ParkIsPlaced
  <2>4. QED
    BY <2>1, <2>2, <2>3 DEF Sync, Publish
<1>2. QED
  BY <1>1, TypeCorrect, OneFrameInvariant, ParkIsPlacedInvariant, PTL
     DEF Spec, PublishedOnField

-----------------------------------------------------------------------------
(* While no placement comes, a kick that waits for its launch keeps the    *)
(* ball free.  When the contest has a winner only the winner may fire;     *)
(* when it has none, every robot near the ball that may still catch it is  *)
(* recovering from a kick, and stays so while a launch is pending.         *)
PendingInMove ==
  phase = "move" =>
    /\ pending # None => pending < turn /\ winner \in {None, pending}
    /\ winner = None =>
         \A q \in Robots : q >= turn /\ q \in near /\ kicked[q] = 0
                             => q \notin spin \/ q \in bounced

KickInv ==
  /\ pending # None => holder = None
  /\ phase = "contest" => pending = None /\ (measured \/ holder = None)
  /\ PendingInMove

LEMMA MoveKeepsKickInv ==
  ASSUME TypeOK, KickInv, NEW r \in Robots, Move(r)
  PROVE  KickInv'
<1> USE DEF KickInv, PendingInMove
<1>0. /\ None \notin Robots /\ None \notin Nat \ {0} /\ r \in Nat /\ Robots \subseteq Nat
      /\ pending \in Robots \cup {None} /\ holder \in Robots \cup {None}
      /\ kicked \in [Robots -> 0 .. RecoverFrames + 1]
  BY ConstantsAssumption DEF None, Robots, TypeOK
<1>1. /\ phase = "move" /\ turn = r
      /\ phase' \in {"move", "sync"}
      /\ phase' = "move" => turn' = r + 1
      /\ UNCHANGED <<near, winner, measured, spin>>
  BY DEF Move, cmdVars
<1>2. PICK settled \in BOOLEAN, slow \in BOOLEAN :
        \/ EmptyWindow(r) \/ Yield(r, settled) \/ Fire(r, settled, slow)
        \/ Dribble(r, settled, slow) \/ Sense(r, settled, slow)
  BY MoveCases
(* The robots that come later keep their keys. *)
<1>3. \A q \in Robots : q >= r + 1 =>
        kicked'[q] = kicked[q] /\ (q \in bounced' <=> q \in bounced)
  <2>1. \A q \in Robots : q >= r + 1 => q # r
    BY <1>0
  <2>2. CASE EmptyWindow(r)
    BY <1>0, <2>1, <2>2 DEF EmptyWindow
  <2>3. CASE Yield(r, settled)
    BY <1>0, <2>1, <2>3 DEF Yield
  <2>4. CASE Fire(r, settled, slow)
    BY <1>0, <2>1, <2>4 DEF Fire, BouncedNow
  <2>5. CASE Dribble(r, settled, slow)
    BY <1>0, <2>1, <2>5 DEF Dribble, BouncedNow
  <2>6. CASE Sense(r, settled, slow)
    BY <1>0, <2>1, <2>6 DEF Sense, BouncedNow
  <2>7. QED
    BY <1>2, <2>2, <2>3, <2>4, <2>5, <2>6
<1>4. phase' = "move" /\ winner' = None =>
        \A q \in Robots : q >= turn' /\ q \in near' /\ kicked'[q] = 0
                            => q \notin spin' \/ q \in bounced'
  BY <1>0, <1>1, <1>3
<1>5. CASE holder' \in {holder, None} /\ pending' = pending
  BY <1>0, <1>1, <1>4, <1>5
<1>6. CASE Fire(r, settled, slow)
  <2>1. holder' = None /\ pending' = r /\ winner \in {None, r}
    BY <1>6 DEF Fire, OthersBall
  <2>2. QED
    BY <1>0, <1>1, <1>4, <2>1
<1>7. CASE Dribble(r, settled, slow)
  <2>1. winner \in {None, r} /\ holder' = r /\ pending' = pending
    BY <1>7 DEF Dribble, OthersBall
  <2>2. r \in spin /\ r \notin bounced /\ KickedNow(r, settled) = 0
    BY <1>7 DEF Dribble, Catches, BouncedNow
  <2>3. r \in near \/ holder = r
    BY <1>0, <1>7 DEF Dribble, InWindow, HolderNow
  <2>4. pending = None
    <3>1. SUFFICES ASSUME pending # None PROVE FALSE
      OBVIOUS
    <3>2. kicked[r] = 0 /\ r \in near
      BY <1>0, <2>2, <2>3, <3>1 DEF KickedNow
    <3>3. winner = None
      BY <1>0, <1>1, <2>1, <3>1
    <3>4. QED
      BY <1>0, <1>1, <2>2, <3>2, <3>3
  <2>5. QED
    BY <1>0, <1>1, <1>4, <2>1, <2>4
<1>8. CASE EmptyWindow(r) \/ Yield(r, settled) \/ Sense(r, settled, slow)
  <2>1. holder' = HolderNow(r) /\ pending' = pending
    BY <1>8 DEF EmptyWindow, Yield, Sense
  <2>2. QED
    BY <1>5, <2>1 DEF HolderNow
<1>9. QED
  BY <1>2, <1>6, <1>7, <1>8

(* A robot never catches the ball while a kick waits for its launch, if a  *)
(* reset takes one frame and no placement comes.                           *)
THEOREM PendingKickIsLaunched == Spec => PendingKickMeansFreeBall
<1>1. Init => KickInv
  BY DEF Init, KickInv, PendingInMove
<1>2. TypeOK /\ OneFrameInv /\ KickInv /\ placing = 0 /\ lag = 1 /\ [Next]_vars => KickInv'
  <2> SUFFICES ASSUME TypeOK, ReturnInv, KickInv, placing = 0, [Next]_vars
               PROVE  KickInv'
    BY DEF OneFrameInv
  <2> USE DEF KickInv, PendingInMove
  <2>1. CASE Refresh
    <3>1. Arrived = "park" => holder # None
      BY DEF Arrived, ReturnInv, ParkingIsOwned, ParkedIsOwned
    <3>2. pending' = None
      BY <2>1, <3>1 DEF Refresh
    <3>3. measured' \/ holder' = None
      BY <2>1 DEF Refresh, Measures
    <3>4. QED
      BY <2>1, <3>2, <3>3 DEF Refresh
  <2>2. CASE Contest
    <3>1. PICK cone \in SUBSET Robots :
            /\ (measured \/ holder = None) => cone = near
            /\ winner' \in IF Contenders(cone) = {} THEN {None} ELSE Contenders(cone)
            /\ IF LosesContest(winner')
                 THEN TakeOver(cone)
                 ELSE UNCHANGED <<holder, collider, holds, pipe, published, near>>
      BY <2>2 DEF Contest
    <3>2. /\ phase = "contest" /\ phase' = "move"
          /\ pending = None /\ pending' = None
          /\ UNCHANGED <<kicked, bounced, cmdVars>>
      BY <2>2 DEF Contest
    <3>3. cone = near
      BY <3>1, <3>2
    <3>4. ASSUME winner' = None, NEW q \in Robots, q \in near', kicked'[q] = 0
          PROVE  q \notin spin' \/ q \in bounced'
      <4>1. near' = near
        BY <3>1, <3>4 DEF LosesContest
      <4>2. None \notin Robots /\ Contenders(cone) \subseteq Robots
        <5>1. None \notin Robots
          BY DEF None, Robots
        <5>2. Kickers(cone) \subseteq cone /\ Dribblers(cone) \subseteq cone
          BY DEF Kickers, Dribblers
        <5>3. QED
          BY <3>1, <5>1, <5>2 DEF Contenders
      <4>3. Contenders(cone) = {}
        BY <3>1, <3>4, <4>2
      <4>4. Dribblers(cone) = {}
        BY <4>3 DEF Contenders
      <4>5. QED
        BY <3>2, <3>3, <3>4, <4>1, <4>4 DEF Dribblers, cmdVars
    <3>5. QED
      BY <3>2, <3>4
  <2>3. CASE \E r \in Robots : Move(r)
    BY <2>3, MoveKeepsKickInv
  <2>4. CASE Sync
    BY <2>4 DEF Sync
  <2>5. CASE \E r \in Robots : Command(r)
    BY <2>5 DEF Command, frameVars, ballVars
  <2>6. CASE PlaceBall
    BY <2>6 DEF PlaceBall, frameVars
  <2>7. CASE PlaceClothLineBall
    BY <2>7 DEF PlaceClothLineBall, frameVars
  <2>8. CASE UNCHANGED vars
    BY <2>8 DEF vars, frameVars, robotVars, ballVars, cmdVars
  <2>9. QED
    BY <2>1, <2>2, <2>3, <2>4, <2>5, <2>6, <2>7, <2>8 DEF Next, FrameStep
<1>3. KickInv => (pending # None => holder = None)
  BY DEF KickInv
<1>4. QED
  BY <1>1, <1>2, <1>3, TypeCorrect, OneFrameInvariant, PTL DEF Spec, PendingKickMeansFreeBall

(* Every step is one of the abstract possession, or a stutter. *)
LEMMA PossessionStep ==
  TypeOK /\ OneFrameInv /\ [Next]_vars => [Possession!Next]_(Possession!vars)
<1> USE DEF Possession!vars, Possession!Next, Possession!None, Possession!Robots, None, Robots
<1> SUFFICES ASSUME TypeOK, OneFrameInv, [Next]_vars
             PROVE  [Possession!Next]_(Possession!vars)
  OBVIOUS
<1>0. lag' = lag
  BY LagKept
<1> SUFFICES ASSUME lag = 1, lag' = 1, ReturnInv
             PROVE  [Possession!Next]_(Possession!vars)
  BY <1>0 DEF OneFrameInv
<1>1. CASE Refresh
  <2>1. holder' = holder
    BY <1>1 DEF Refresh
  <2>2. (body # "park") = (body' # "park") \/ Possession!Park \/ Possession!Return
    BY <1>1, <2>1 DEF Refresh, Arrived, Possession!Park, Possession!Return,
                      ReturnInv, ParkingIsOwned
  <2>3. QED
    BY <2>1, <2>2
<1>2. CASE Contest
  BY <1>2 DEF Contest, TakeOver, LosesContest, Possession!Lose
<1>3. ASSUME NEW r \in Robots, Move(r)
      PROVE  [Possession!Next]_(Possession!vars)
  <2>1. body' = body
    BY <1>3 DEF Move
  <2>2. PICK settled \in BOOLEAN, slow \in BOOLEAN :
          \/ EmptyWindow(r) \/ Yield(r, settled) \/ Fire(r, settled, slow)
          \/ Dribble(r, settled, slow) \/ Sense(r, settled, slow)
    BY <1>3, MoveCases
  <2>3. CASE holder' \in {holder, None}
    BY <2>1, <2>3 DEF Possession!Lose
  <2>4. CASE Dribble(r, settled, slow)
    <3>1. holder \in {r, None} /\ holder' = r
      BY <2>4 DEF Dribble, Catches, OthersBall, HolderNow, LetsGo
    <3>2. QED
      BY <2>1, <3>1 DEF Possession!Catch
  <2>5. CASE EmptyWindow(r) \/ Yield(r, settled) \/ Fire(r, settled, slow)
             \/ Sense(r, settled, slow)
    BY <2>3, <2>5 DEF EmptyWindow, Yield, Fire, Sense, HolderNow
  <2>6. QED
    BY <2>2, <2>4, <2>5
<1>4. CASE Sync
  BY <1>4 DEF Sync
<1>5. CASE \E r \in Robots : Command(r)
  BY <1>5 DEF Command, ballVars
<1>6. CASE PlaceBall
  BY <1>6 DEF PlaceBall, Possession!Lose
<1>7. CASE PlaceClothLineBall
  BY <1>7 DEF PlaceClothLineBall
<1>8. CASE UNCHANGED vars
  BY <1>8 DEF vars, ballVars
<1>9. QED
  BY <1>1, <1>2, <1>3, <1>4, <1>5, <1>6, <1>7, <1>8 DEF Next, FrameStep

-----------------------------------------------------------------------------
(* The ball handling implements the safety part of BallPossession: the     *)
(* ball passes from one robot to another only through nobody, and only an  *)
(* owned ball leaves the field, where a reset takes one frame.  (Its       *)
(* fairness is checked by TLC.)                                            *)
THEOREM PossessionRefined ==
  Spec => Possession!Init /\ [][Possession!Next]_(Possession!vars)
<1> USE DEF Possession!vars, Possession!Next, Possession!None, Possession!Robots, None, Robots
<1>1. Init => Possession!Init
  BY DEF Init, Possession!Init
<1>2. TypeOK /\ OneFrameInv /\ [Next]_vars => [Possession!Next]_(Possession!vars)
  BY PossessionStep
<1>3. QED
  BY <1>1, <1>2, TypeCorrect, OneFrameInvariant, PTL DEF Spec
=============================================================================

--------------------------- MODULE RobotCountProofs ---------------------------
(***************************************************************************)
(* Theorems about the ball handling while the number of robots changes:    *)
(* what survives a removal of the holder, and what does not come back by   *)
(* itself.  The steps of BallControl keep their invariants as they did;    *)
(* what is new is the frame that throws, the turn of a robot that is not   *)
(* shown, Save, and a placement that sees the robots shown only.           *)
(***************************************************************************)
EXTENDS RobotCount, BallControlProofs

(* The turn of a robot that is not shown: the loop goes on to the next.    *)
HiddenTurn(r) ==
  /\ r \notin Shown
  /\ phase = "move" /\ turn = r
  /\ IF r = NRobots THEN phase' = "sync" /\ turn' = 1
                    ELSE phase' = "move" /\ turn' = r + 1
  /\ UNCHANGED <<near, measured, winner, robotVars, ballVars, cmdVars>>

(* What a step does that is not one of BallControl. *)
LEMMA CountCases ==
  ASSUME [CountNext]_allVars
  PROVE  \/ [Next]_vars /\ UNCHANGED counts
         \/ RefreshThrows /\ UNCHANGED counts
         \/ \E r \in Robots : HiddenTurn(r) /\ UNCHANGED counts
         \/ \E b \in 0 .. NBlue, y \in 0 .. NYellow : Save(b, y)
         \/ PlaceBallShown
<1>1. CASE ShownFrame
  <2>1. CASE RefreshShown \/ ContestShown \/ Sync
    BY <1>1, <2>1 DEF ShownFrame, RefreshShown, ContestShown, Next, FrameStep
  <2>2. ASSUME NEW r \in Robots, MoveShown(r)
        PROVE  Next \/ HiddenTurn(r)
    BY <2>2 DEF MoveShown, HiddenTurn, Next, FrameStep
  <2>3. QED
    BY <1>1, <2>1, <2>2 DEF ShownFrame
<1>2. CASE \E r \in Robots : CommandShown(r)
  BY <1>2 DEF CommandShown, Next
<1>3. CASE PlaceClothLineBall /\ UNCHANGED counts
  BY <1>3 DEF Next
<1>4. CASE UNCHANGED allVars
  BY <1>4 DEF allVars
<1>5. QED
  BY <1>1, <1>2, <1>3, <1>4 DEF CountNext

(* No step changes the delay of ball.reset(). *)
LEMMA CountLagKept == [CountNext]_allVars => lag' = lag
  BY CountCases, LagKept DEF RefreshThrows, HiddenTurn, Save, PlaceBallShown, ballVars

(* Every step keeps the types. *)
LEMMA CountTypeStep == TypeOK /\ [CountNext]_allVars => TypeOK'
<1> SUFFICES ASSUME TypeOK, [CountNext]_allVars
             PROVE  TypeOK'
  OBVIOUS
<1>1. CASE [Next]_vars
  BY <1>1, TypeStep
<1>2. CASE RefreshThrows
  <2>1. kicked' \in [Robots -> 0 .. RecoverFrames + 1]
    BY <1>2, ConstantsAssumption, TickType DEF RefreshThrows, TypeOK
  <2>2. recharge' \in [Robots -> 0 .. RechargeFrames]
    BY <1>2, ConstantsAssumption DEF RefreshThrows, TypeOK
  <2>3. placing' \in 0 .. LandingFrames + 1
    BY <1>2, ConstantsAssumption, TickType DEF RefreshThrows, TypeOK
  <2>4. pipe' \in [1 .. lag -> Targets] /\ body' \in Places
    BY <1>2, LagType, PipeType, ArrivedType DEF RefreshThrows, TypeOK
  <2>5. QED
    BY <1>2, <2>1, <2>2, <2>3, <2>4 DEF RefreshThrows, TypeOK, frameVars, cmdVars
<1>3. ASSUME NEW r \in Robots, HiddenTurn(r)
      PROVE  TypeOK'
  <2>1. /\ phase' \in {"idle", "contest", "move", "sync"}
        /\ turn' \in Robots
    BY <1>3, ConstantsAssumption DEF HiddenTurn, TypeOK, Robots
  <2>2. QED
    BY <1>3, <2>1 DEF HiddenTurn, TypeOK, robotVars, ballVars, cmdVars
<1>4. CASE \E b \in 0 .. NBlue, y \in 0 .. NYellow : Save(b, y)
  BY <1>4 DEF Save, TypeOK, frameVars, ballVars, cmdVars
<1>5. CASE PlaceBallShown
  <2>1. pipe' \in [1 .. lag -> Targets]
    BY <1>5, LagType, PipeType DEF PlaceBallShown, TypeOK, Targets, Places
  <2>2. kicked' \in [Robots -> 0 .. RecoverFrames + 1] /\ placing' \in 0 .. LandingFrames + 1
    BY <1>5, ConstantsAssumption DEF PlaceBallShown
  <2>3. QED
    BY <1>5, <2>1, <2>2 DEF PlaceBallShown, TypeOK, frameVars, cmdVars
<1>6. QED
  BY <1>1, <1>2, <1>3, <1>4, <1>5, CountCases

-----------------------------------------------------------------------------
(* Who holds or has won the ball in a frame is shown: a frame that would   *)
(* meet a holder that is not there throws before it begins.                *)
FrameIsShown ==
  phase # "idle" => holder \in Shown \cup {None} /\ winner \in Shown \cup {None}

(* Shown reads the counts only. *)
LEMMA ShownKept == UNCHANGED counts => Shown' = Shown
  BY DEF counts, Shown

LEMMA FrameIsShownStep ==
  TypeOK /\ WinnerInv /\ FrameIsShown /\ [CountNext]_allVars => FrameIsShown'
<1> SUFFICES ASSUME TypeOK, WinnerInv, FrameIsShown, [CountNext]_allVars, phase' # "idle"
             PROVE  FrameIsShown'
  BY DEF FrameIsShown
<1>1. CASE RefreshShown /\ UNCHANGED counts
  BY <1>1, ShownKept DEF RefreshShown, HolderExists, Refresh, WinnerInv, FrameIsShown
<1>2. CASE ContestShown /\ UNCHANGED counts
  BY <1>2, ShownKept DEF ContestShown, Contest, TakeOver, FrameIsShown
<1>3. ASSUME NEW r \in Robots, MoveShown(r), UNCHANGED counts
      PROVE  FrameIsShown'
  <2>1. CASE r \in Shown
    <3>1. Move(r) /\ winner' = winner /\ phase # "idle"
      BY <1>3, <2>1 DEF MoveShown, Move
    <3>2. holder' \in {holder, r, None}
      BY <3>1, MoveCases DEF EmptyWindow, Yield, Fire, Dribble, Sense, HolderNow
    <3>3. QED
      BY <1>3, <2>1, <3>1, <3>2, ShownKept DEF FrameIsShown
  <2>2. CASE r \notin Shown
    BY <1>3, <2>2, ShownKept DEF MoveShown, ballVars, FrameIsShown
  <2>3. QED
    BY <2>1, <2>2
<1>4. CASE UNCHANGED allVars
  BY <1>4, ShownKept DEF allVars, vars, frameVars, ballVars, FrameIsShown
<1>5. QED
  BY <1>1, <1>2, <1>3, <1>4
     DEF CountNext, ShownFrame, RefreshThrows, Sync, Save, CommandShown, Command,
         PlaceBallShown, PlaceClothLineBall, frameVars

(* The holder keeps its sensor and stays entitled. *)
LEMMA CountHolderStep ==
  TypeOK /\ HolderInv /\ [CountNext]_allVars => HolderInv'
<1> SUFFICES ASSUME TypeOK, HolderInv, [CountNext]_allVars
             PROVE  HolderInv'
  OBVIOUS
<1> USE DEF HolderInv, WinnerHolds, HolderSensesBall, HolderMayHold
<1>1. CASE [Next]_vars
  BY <1>1, HolderStep
<1>2. CASE RefreshThrows
  BY <1>2 DEF RefreshThrows, Tick, TypeOK, frameVars
<1>3. CASE \E r \in Robots : HiddenTurn(r)
  BY <1>3 DEF HiddenTurn, robotVars, ballVars
<1>4. CASE \E b \in 0 .. NBlue, y \in 0 .. NYellow : Save(b, y)
  BY <1>4 DEF Save, frameVars, ballVars
<1>5. CASE PlaceBallShown
  BY <1>5 DEF PlaceBallShown
<1>6. QED
  BY <1>1, <1>2, <1>3, <1>4, <1>5, CountCases

(* The turn of a robot that is not shown passes the others by. *)
LEMMA HiddenTurnPasses ==
  ASSUME NEW r \in Robots, HiddenTurn(r), NEW q \in Shown
  PROVE  /\ q \in Robots /\ q # r
         /\ phase' = "sync" \/ (phase' = "move" /\ q < turn') =>
              phase = "move" /\ q < turn
         /\ phase' = "move" /\ turn' <= q => phase = "move" /\ turn <= q
<1>1. q \in Robots /\ q # r /\ r \in Nat /\ q \in Nat /\ NRobots \in Nat /\ q <= NRobots
  BY ConstantsAssumption DEF HiddenTurn, Shown, Robots
<1>2. QED
  BY <1>1 DEF HiddenTurn

LEMMA CountWinnerStep ==
  TypeOK /\ HolderInv /\ FrameIsShown /\ WinnerInv /\ [CountNext]_allVars => WinnerInv'
<1> SUFFICES ASSUME TypeOK, HolderInv, FrameIsShown, WinnerInv, [CountNext]_allVars
             PROVE  WinnerInv'
  OBVIOUS
<1>1. CASE [Next]_vars
  BY <1>1, WinnerStep
<1>2. CASE RefreshThrows \/ PlaceBallShown
            \/ \E b \in 0 .. NBlue, y \in 0 .. NYellow : Save(b, y)
  BY <1>2 DEF RefreshThrows, PlaceBallShown, Save, frameVars, WinnerInv, WinnerReady
<1>3. ASSUME NEW r \in Robots, HiddenTurn(r)
      PROVE  WinnerInv'
  <2>1. /\ phase' \in {"move", "sync"}
        /\ UNCHANGED <<winner, kickCmd, kicked, recharge, near, holder>>
    BY <1>3 DEF HiddenTurn, robotVars, ballVars, cmdVars
  <2>2. CASE winner = None
    BY <2>1, <2>2 DEF WinnerInv, WinnerReady
  <2>3. CASE winner # None
    <3>1. winner \in Shown
      BY <1>3, <2>3 DEF HiddenTurn, FrameIsShown
    <3>2. /\ phase' = "sync" \/ (phase' = "move" /\ winner < turn') =>
               phase = "move" /\ winner < turn
          /\ phase' = "move" /\ turn' <= winner => phase = "move" /\ turn <= winner
      BY <1>3, <3>1, HiddenTurnPasses
    <3>3. QED
      BY <2>1, <3>2 DEF WinnerInv, WinnerReady
  <2>4. QED
    BY <2>2, <2>3
<1>4. QED
  BY <1>1, <1>2, <1>3, CountCases

(* Every mouth shape that is out belongs to the holder, and is shown. *)
ShapeInv == ShapeOwned /\ collider \subseteq Shown

(* Only a robot shown deploys its shape. *)
LEMMA ShapeCases ==
  ASSUME [CountNext]_allVars
  PROVE  collider' \subseteq collider \/ \E r \in Shown : Move(r)
<1>1. ASSUME NEW r \in Robots, MoveShown(r)
      PROVE  collider' = collider \/ \E q \in Shown : Move(q)
  BY <1>1 DEF MoveShown, robotVars
<1>2. QED
  BY <1>1 DEF CountNext, ShownFrame, RefreshShown, RefreshThrows, Refresh, ContestShown,
              Contest, TakeOver, Sync, Save, CommandShown, Command, PlaceBallShown,
              PlaceClothLineBall, allVars, vars, robotVars

LEMMA ShapeInvStep ==
  TypeOK /\ FrameIsShown /\ ShapeInv /\ [CountNext]_allVars => ShapeInv'
<1> SUFFICES ASSUME TypeOK, FrameIsShown, ShapeInv, [CountNext]_allVars
             PROVE  ShapeInv'
  OBVIOUS
<1>1. ShapeOwned'
  <2>1. CASE [Next]_vars
    BY <2>1, ShapeStep DEF ShapeInv
  <2>2. CASE RefreshThrows \/ (\E b \in 0 .. NBlue, y \in 0 .. NYellow : Save(b, y))
    BY <2>2 DEF RefreshThrows, Save, ballVars, ShapeInv, ShapeOwned
  <2>3. CASE \E r \in Robots : HiddenTurn(r)
    BY <2>3 DEF HiddenTurn, robotVars, ballVars, ShapeInv, ShapeOwned
  <2>4. CASE PlaceBallShown
    BY <2>4 DEF PlaceBallShown, ShapeInv, ShapeOwned
  <2>5. QED
    BY <2>1, <2>2, <2>3, <2>4, CountCases
<1>2. (collider \subseteq Shown)'
  <2>1. ASSUME NEW b \in 0 .. NBlue, NEW y \in 0 .. NYellow, Save(b, y)
        PROVE  (collider \subseteq Shown)'
    <3>1. SUFFICES ASSUME NEW r \in collider'
                   PROVE  r \in Shown'
      OBVIOUS
    <3>2. r \in Shown /\ r \notin Remade(b, y) /\ blueNum' = b /\ yellowNum' = y
      BY <2>1, <3>1 DEF Save, ShapeInv
    <3>3. CASE r \in Blue
      <4>1. b = blueNum
        BY <3>2, <3>3 DEF Remade
      <4>2. QED
        BY <3>2, <3>3, <4>1 DEF Shown
    <3>4. CASE r \notin Blue
      <4>1. y = yellowNum
        BY <3>2, <3>4 DEF Remade, Yellow, Shown
      <4>2. QED
        BY <3>2, <3>4, <4>1 DEF Shown
    <3>5. QED
      BY <3>3, <3>4
  <2>2. CASE UNCHANGED counts
    <3>1. CASE collider' \subseteq collider
      BY <2>2, <3>1, ShownKept DEF ShapeInv
    <3>2. ASSUME NEW r \in Shown, Move(r)
          PROVE  (collider \subseteq Shown)'
      <4>1. collider' \subseteq collider \cup {r}
        BY <3>2, MoveCases DEF EmptyWindow, Yield, Fire, Dribble, Sense, ColliderNow, Shown
      <4>2. QED
        BY <2>2, <3>2, <4>1, ShownKept DEF ShapeInv
    <3>3. QED
      BY <3>1, <3>2, ShapeCases
  <2>3. UNCHANGED counts \/ \E b \in 0 .. NBlue, y \in 0 .. NYellow : Save(b, y)
    BY DEF CountNext, ShownFrame, CommandShown, PlaceBallShown, allVars
  <2>4. QED
    BY <2>1, <2>2, <2>3
<1>3. QED
  BY <1>1, <1>2 DEF ShapeInv

(* A holder that has had its turn has done what it was told. *)
LEMMA CountObeyedStep ==
  TypeOK /\ HolderInv /\ FrameIsShown /\ ObeyedSoFar /\ [CountNext]_allVars
    => ObeyedSoFar'
<1> SUFFICES ASSUME TypeOK, HolderInv, FrameIsShown, ObeyedSoFar, [CountNext]_allVars
             PROVE  ObeyedSoFar'
  OBVIOUS
<1>1. CASE [Next]_vars
  BY <1>1, ObeyedStep
<1>2. CASE RefreshThrows \/ PlaceBallShown
            \/ \E b \in 0 .. NBlue, y \in 0 .. NYellow : Save(b, y)
  BY <1>2 DEF RefreshThrows, PlaceBallShown, Save, frameVars, ObeyedSoFar
<1>3. ASSUME NEW r \in Robots, HiddenTurn(r)
      PROVE  ObeyedSoFar'
  <2>1. SUFFICES ASSUME holder # None
                 PROVE  ObeyedSoFar'
    BY <1>3 DEF HiddenTurn, ballVars, ObeyedSoFar
  <2>2. holder \in Shown
    BY <1>3, <2>1 DEF HiddenTurn, FrameIsShown
  <2>3. phase' = "sync" \/ (phase' = "move" /\ holder < turn') =>
          phase = "move" /\ holder < turn
    BY <1>3, <2>2, HiddenTurnPasses
  <2>4. QED
    BY <1>3, <2>3 DEF HiddenTurn, robotVars, ballVars, cmdVars, ObeyedSoFar, WantsKick
<1>4. QED
  BY <1>1, <1>2, <1>3, CountCases

(* The losers shown that have had their turn are blind. *)
ShownLosersOff == \A q \in Shown : LoserOff(q)

LEMMA CountLoserStep ==
  TypeOK /\ ShownLosersOff /\ [CountNext]_allVars => ShownLosersOff'
<1> SUFFICES ASSUME TypeOK, ShownLosersOff, [CountNext]_allVars
             PROVE  ShownLosersOff'
  OBVIOUS
<1>1. CASE [Next]_vars /\ UNCHANGED counts
  <2>1. Shown \subseteq Robots
    BY DEF Shown
  <2>2. QED
    BY <1>1, <2>1, ShownKept, LoserStep DEF ShownLosersOff
<1>2. CASE RefreshThrows \/ PlaceBallShown
            \/ \E b \in 0 .. NBlue, y \in 0 .. NYellow : Save(b, y)
  BY <1>2 DEF RefreshThrows, PlaceBallShown, Save, frameVars, ShownLosersOff, LoserOff
<1>3. ASSUME NEW r \in Robots, HiddenTurn(r), UNCHANGED counts
      PROVE  ShownLosersOff'
  <2>1. SUFFICES ASSUME NEW q \in Shown PROVE LoserOff(q)'
    BY <1>3, ShownKept DEF ShownLosersOff
  <2>2. phase' = "sync" \/ (phase' = "move" /\ q < turn') => phase = "move" /\ q < turn
    BY <1>3, HiddenTurnPasses
  <2>3. QED
    BY <1>3, <2>2 DEF HiddenTurn, robotVars, ShownLosersOff, LoserOff
<1>4. QED
  BY <1>1, <1>2, <1>3, CountCases

(* The body of a held ball. *)
LEMMA CountHeldStep ==
  TypeOK /\ HeldBallIsParked /\ [CountNext]_allVars => HeldBallIsParked'
<1> SUFFICES ASSUME TypeOK, HeldBallIsParked, [CountNext]_allVars
             PROVE  HeldBallIsParked'
  OBVIOUS
<1>1. CASE [Next]_vars
  BY <1>1, HeldStep
<1>0. lag' = lag
  BY CountLagKept
<1>2. CASE RefreshThrows
  <2>1. Resting' = Resting
    BY <1>0, <1>2, RestingAfterStep DEF RefreshThrows
  <2>2. QED
    BY <1>2, <2>1 DEF RefreshThrows, HeldBallIsParked
<1>3. CASE UNCHANGED <<holder, pipe, body>>
  <2>1. Resting' = Resting
    BY <1>0, <1>3 DEF Resting, Queued
  <2>2. QED
    BY <1>3, <2>1 DEF HeldBallIsParked
<1>4. CASE PlaceBallShown
  BY <1>4 DEF PlaceBallShown, HeldBallIsParked
<1>5. QED
  BY <1>1, <1>2, <1>3, <1>4, CountCases DEF HiddenTurn, Save, ballVars

(* With a delay of one frame the ball finds its way back, also while the   *)
(* holder is not there: the frame that throws still moves the body.        *)
LEMMA CountReturnStep ==
  ASSUME lag = 1
  PROVE  TypeOK /\ ReturnInv /\ [CountNext]_allVars => ReturnInv'
<1> SUFFICES ASSUME TypeOK, ReturnInv, [CountNext]_allVars
             PROVE  ReturnInv'
  OBVIOUS
<1>0. /\ PipeStep[1] = "none"
      /\ \A place : Reset(pipe, place)[1] = place
  BY OneSlot
<1> USE DEF ReturnInv, ParkingIsOwned, ParkedIsOwned, ParkedPosition
<1>1. CASE [Next]_vars
  BY <1>1, ReturnStep
<1>2. CASE RefreshThrows
  BY <1>0, <1>2 DEF RefreshThrows, HolderExists, Arrived, frameVars
<1>3. CASE \E r \in Robots : HiddenTurn(r)
  <2>1. PICK r \in Robots : HiddenTurn(r)
    BY <1>3
  <2>2. /\ phase = "move" /\ turn = r /\ r \in Nat
        /\ phase' = "sync" \/ (phase' = "move" /\ turn' = r + 1)
        /\ UNCHANGED <<near, holder, body, pipe, published>>
    BY <2>1 DEF HiddenTurn, ballVars, Robots
  <2>3. holder \in Nat
    BY DEF TypeOK, Robots, None
  <2>4. QED
    BY <2>2, <2>3
<1>4. CASE \E b \in 0 .. NBlue, y \in 0 .. NYellow : Save(b, y)
  BY <1>4 DEF Save, frameVars, ballVars
<1>5. CASE PlaceBallShown
  BY <1>0, <1>5 DEF PlaceBallShown, frameVars
<1>6. QED
  BY <1>1, <1>2, <1>3, <1>4, <1>5, CountCases

LEMMA CountOneFrameStep ==
  TypeOK /\ OneFrameInv /\ [CountNext]_allVars => OneFrameInv'
<1> SUFFICES ASSUME TypeOK, OneFrameInv, [CountNext]_allVars
             PROVE  OneFrameInv'
  OBVIOUS
<1>1. CASE [Next]_vars
  BY <1>1, OneFrameStep
<1>2. CASE ~[Next]_vars
  <2>1. lag' = lag /\ (hasty' = hasty \/ hasty' = FALSE)
    BY <1>2, CountCases
       DEF RefreshThrows, HiddenTurn, Save, PlaceBallShown, ballVars
  <2>2. QED
    BY <2>1, CountReturnStep DEF OneFrameInv
<1>3. QED
  BY <1>1, <1>2

(* Where the ball comes to rest when nobody holds it, for any delay.       *)
LEMMA CountStrandedStep ==
  TypeOK /\ HolderInv /\ StrandedIsHasty /\ [CountNext]_allVars => StrandedIsHasty'
<1> SUFFICES ASSUME TypeOK, HolderInv, StrandedIsHasty, [CountNext]_allVars
             PROVE  StrandedIsHasty'
  OBVIOUS
<1>0. lag' = lag
  BY CountLagKept
<1>1. CASE [Next]_vars
  BY <1>1, StrandedStep
<1>2. CASE RefreshThrows
  BY <1>2 DEF RefreshThrows, HolderExists, StrandedIsHasty
<1>3. CASE UNCHANGED <<holder, hasty, pipe, body>>
  <2>1. Resting' = Resting
    BY <1>0, <1>3 DEF Resting, Queued
  <2>2. QED
    BY <1>3, <2>1 DEF StrandedIsHasty
<1>4. CASE PlaceBallShown
  <2>1. Resting' = "field"
    BY <1>0, <1>4, RestingAfterReset DEF PlaceBallShown, Places
  <2>2. QED
    BY <2>1 DEF StrandedIsHasty
<1>5. QED
  BY <1>1, <1>2, <1>3, <1>4, CountCases DEF HiddenTurn, Save, ballVars

(* A frame that throws does not get as far as the contest. *)
LEMMA CountRefreshDoneStep ==
  TypeOK /\ RefreshDone /\ [CountNext]_allVars => RefreshDone'
<1> SUFFICES ASSUME TypeOK, RefreshDone, [CountNext]_allVars
             PROVE  RefreshDone'
  OBVIOUS
<1>1. CASE [Next]_vars
  BY <1>1, RefreshDoneStep
<1>2. QED
  BY <1>1, CountCases
     DEF RefreshThrows, HiddenTurn, Save, PlaceBallShown, frameVars, RefreshDone

(* It counts a placement down without looking at the ball. *)
LEMMA CountParkStep ==
  TypeOK /\ ParkIsPlaced /\ [CountNext]_allVars => ParkIsPlaced'
<1> SUFFICES ASSUME TypeOK, ParkIsPlaced, [CountNext]_allVars
             PROVE  ParkIsPlaced'
  OBVIOUS
<1>0. placing \in Nat /\ LandingFrames \in Nat
  BY ConstantsAssumption DEF TypeOK
<1>1. CASE [Next]_vars
  BY <1>1, ParkIsPlacedStep
<1>2. CASE RefreshThrows
  BY <1>0, <1>2 DEF RefreshThrows, Tick, ParkIsPlaced
<1>3. CASE PlaceBallShown
  BY <1>0, <1>3 DEF PlaceBallShown, ParkIsPlaced
<1>4. CASE UNCHANGED <<published, placing>>
  BY <1>4 DEF ParkIsPlaced
<1>5. QED
  BY <1>1, <1>2, <1>3, <1>4, CountCases DEF HiddenTurn, Save, ballVars

-----------------------------------------------------------------------------
(* The inductive invariant of the ball handling with a changing number of  *)
(* robots, whatever the delay of ball.reset().                             *)
CountInv ==
  /\ TypeOK /\ FrameIsShown
  /\ HolderInv /\ WinnerInv
  /\ ShapeInv /\ ObeyedSoFar /\ ShownLosersOff /\ HeldBallIsParked
  /\ OneFrameInv /\ StrandedIsHasty /\ RefreshDone /\ ParkIsPlaced

LEMMA CountInvariant == CountSpec => []CountInv
<1>1. CountInit => CountInv
  <2> SUFFICES ASSUME CountInit PROVE CountInv
    OBVIOUS
  <2>1. Init /\ TypeOK
    BY InitType DEF CountInit
  <2>2. QED
    BY <2>1 DEF Init, CountInv, FrameIsShown, HolderInv, WinnerHolds, HolderSensesBall,
                HolderMayHold, WinnerInv, WinnerReady, ShapeInv, ShapeOwned, ObeyedSoFar,
                ShownLosersOff, LoserOff, HeldBallIsParked, OneFrameInv, ReturnInv,
                ParkingIsOwned, ParkedIsOwned, ParkedPosition, StrandedIsHasty,
                Resting, Queued, RefreshDone, ParkIsPlaced
<1>2. CountInv /\ [CountNext]_allVars => CountInv'
  BY CountTypeStep, FrameIsShownStep, CountHolderStep, CountWinnerStep, ShapeInvStep,
     CountObeyedStep, CountLoserStep, CountHeldStep, CountOneFrameStep,
     CountStrandedStep, CountRefreshDoneStep, CountParkStep DEF CountInv
<1>3. QED
  BY <1>1, <1>2, PTL DEF CountSpec

(* The counts stay within what the settings window offers, the types of    *)
(* the ball handling are kept through every Save.                          *)
THEOREM CountTypeCorrect ==
  ASSUME NBlue \in 0 .. NRobots
  PROVE  CountSpec => [](TypeOK /\ blueNum \in 0 .. NBlue /\ yellowNum \in 0 .. NYellow)
<1> DEFINE CountOK == blueNum \in 0 .. NBlue /\ yellowNum \in 0 .. NYellow
<1>1. CountInit => CountOK
  BY ConstantsAssumption DEF CountInit, NYellow
<1>2. CountOK /\ [CountNext]_allVars => CountOK'
  BY DEF CountNext, ShownFrame, Save, CommandShown, PlaceBallShown, allVars, counts
<1>3. CountInv => TypeOK
  BY DEF CountInv
<1>4. QED
  BY <1>1, <1>2, <1>3, CountInvariant, PTL DEF CountSpec

(* A frame that has begun has its holder: the removal of the holder takes  *)
(* effect between two frames, and no frame begins until it is over.        *)
LoneHolderMeansIdle == ~HolderExists => phase = "idle"

THEOREM NoFrameWithoutHolder == CountSpec => []LoneHolderMeansIdle
<1>1. CountInv => LoneHolderMeansIdle
  BY DEF CountInv, FrameIsShown, HolderExists, LoneHolderMeansIdle
<1>2. QED
  BY <1>1, CountInvariant, PTL

(* The standstill ends by the user only: as long as the holder is not      *)
(* there no frame goes on, and it is there again only after another Save   *)
(* or a placement.  Commands, the P key and the physics do not end it.     *)
Standstill ==
  [][~HolderExists =>
       /\ phase' = "idle"
       /\ HolderExists' => \/ PlaceBallShown
                           \/ \E b \in 0 .. NBlue, y \in 0 .. NYellow : Save(b, y)]_allVars

THEOREM StandstillLasts == CountSpec => Standstill
<1>1. CountInv /\ [CountNext]_allVars =>
        [~HolderExists =>
           /\ phase' = "idle"
           /\ HolderExists' => \/ PlaceBallShown
                               \/ \E b \in 0 .. NBlue, y \in 0 .. NYellow : Save(b, y)]_allVars
  <2> SUFFICES ASSUME CountInv, CountNext, ~HolderExists,
                      ~ PlaceBallShown,
                      ~ (\E b \in 0 .. NBlue, y \in 0 .. NYellow : Save(b, y))
               PROVE  phase' = "idle" /\ ~ HolderExists'
    BY DEF PlaceBallShown, Save, frameVars, CountInv, FrameIsShown, HolderExists
  <2>1. phase = "idle"
    BY DEF CountInv, FrameIsShown, HolderExists
  <2>2. CASE RefreshThrows /\ UNCHANGED counts
    BY <2>1, <2>2, ShownKept DEF RefreshThrows, frameVars, HolderExists
  <2>3. CASE (\E r \in Robots : CommandShown(r)) \/ (PlaceClothLineBall /\ UNCHANGED counts)
    BY <2>1, <2>3, ShownKept
       DEF CommandShown, Command, PlaceClothLineBall, frameVars, ballVars, HolderExists
  <2>4. QED
    BY <2>1, <2>2, <2>3
       DEF CountNext, ShownFrame, RefreshShown, ContestShown, Contest, MoveShown, Move, Sync
<1>2. QED
  BY <1>1, CountInvariant, PTL DEF CountSpec, Standstill

(* No Save leaves a mouth shape behind: one that is out is the holder's,   *)
(* and the holder is shown; a holder that dribbles has it again at the end *)
(* of the first frame after its team was made anew.                        *)
ShapesAreTheHolders ==
  /\ \A r \in collider : holder = r /\ r \in Shown
  /\ phase = "sync" /\ holder # None /\ holder \in spin => collider = {holder}

THEOREM SavesLeaveNoShape == CountSpec => []ShapesAreTheHolders
<1>1. CountInv => ShapesAreTheHolders
  BY DEF CountInv, ShapeInv, ShapeOwned, ObeyedSoFar, ShapesAreTheHolders
<1>2. QED
  BY <1>1, CountInvariant, PTL

(* What BallControl promises of the holder and of the contest does not     *)
(* depend on the number of robots: the holder is entitled and sensed, does *)
(* what it was told, has its ball parked, and a winner that asks to kick   *)
(* has fired.                                                              *)
THEOREM CountKeepsHolder ==
  CountSpec => [](/\ HolderMayHold /\ HolderSensesBall /\ HolderObeys
                  /\ KickWinnerFires /\ HeldBallIsParked)
<1>1. CountInv => /\ HolderMayHold /\ HolderSensesBall /\ HolderObeys
                  /\ KickWinnerFires /\ HeldBallIsParked
  BY DEF CountInv, HolderInv, ObeyedSoFar, HolderObeys, WinnerInv, WinnerReady,
         KickWinnerFires
<1>2. QED
  BY <1>1, CountInvariant, PTL

(* Among the robots shown only the winner senses a ball it holds.  (One    *)
(* that is no longer shown keeps its sensor as it was.)                    *)
ShownLosersSenseNothing ==
  phase = "sync" /\ winner # None /\ holder = winner => holds \cap Shown = {winner}

THEOREM ShownLosersAreBlind == CountSpec => []ShownLosersSenseNothing
<1>1. CountInv => ShownLosersSenseNothing
  BY DEF CountInv, FrameIsShown, HolderInv, HolderSensesBall, ShownLosersOff, LoserOff,
         ShownLosersSenseNothing
<1>2. QED
  BY <1>1, CountInvariant, PTL

-----------------------------------------------------------------------------
(* The way back of the ball. *)

(* A removal of its holder leaves the ball where its last call of reset()  *)
(* brings it: a ball that nobody holds is on the field or on its way back, *)
(* unless it was let go too early, and within lag frames it is there.      *)
THEOREM CountNeverStrands == CountSpec => [](BallNeverStranded /\ FreeBallIsBack)
<1>1. CountInv => BallNeverStranded
  <2> SUFFICES ASSUME CountInv, holder = None, Resting = "park"
               PROVE  hasty /\ lag > 1
    BY DEF BallNeverStranded
  <2>1. hasty /\ lag # 1
    BY DEF CountInv, StrandedIsHasty, OneFrameInv
  <2>2. QED
    BY <2>1, LagType DEF CountInv
<1>2. CountInv => FreeBallIsBack
  BY FreeIsBack DEF CountInv
<1>3. QED
  BY <1>1, <1>2, CountInvariant, PTL

(* The frames that do reach Sync publish a position on the field: always   *)
(* with a delay of one frame, with a longer one when no placement runs.    *)
THEOREM CountPublishesOnField ==
  CountSpec =>
    [][phase = "sync" /\ (lag = 1 \/ placing = 0) => published' = "field"]_allVars
<1>1. CountInv /\ [CountNext]_allVars =>
        [phase = "sync" /\ (lag = 1 \/ placing = 0) => published' = "field"]_allVars
  <2> SUFFICES ASSUME CountInv, CountNext, phase = "sync", lag = 1 \/ placing = 0
               PROVE  published' = "field"
    OBVIOUS
  <2>1. Sync
    BY DEF CountNext, ShownFrame, RefreshShown, RefreshThrows, ContestShown, MoveShown,
           Refresh, Contest, Move, CommandShown, Command, Save, PlaceBallShown,
           PlaceClothLineBall
  <2>2. published \in {"field", "park"}
    BY DEF CountInv, TypeOK
  <2>3. published = "park" => holder = None /\ body # "park"
    BY DEF CountInv, OneFrameInv, ReturnInv, ParkedPosition, ParkIsPlaced
  <2>4. QED
    BY <2>1, <2>2, <2>3 DEF Sync, Publish
<1>2. QED
  BY <1>1, CountInvariant, PTL DEF CountSpec

(* The safety part of BallPossession is implemented whatever robots the    *)
(* settings show, where a reset takes one frame: nobody but a robot that   *)
(* catches it gets the ball, and only an owned ball leaves the field.      *)
THEOREM CountPossessionRefined ==
  CountSpec => Possession!Init /\ [][Possession!Next]_(Possession!vars)
<1> USE DEF Possession!vars, Possession!Next, Possession!None, Possession!Robots, None, Robots
<1>1. CountInit => Possession!Init
  BY DEF CountInit, Init, Possession!Init
<1>2. CountInv /\ [CountNext]_allVars => [Possession!Next]_(Possession!vars)
  <2> SUFFICES ASSUME CountInv, [CountNext]_allVars
               PROVE  [Possession!Next]_(Possession!vars)
    OBVIOUS
  <2>0. lag' = lag
    BY CountLagKept
  <2>1. CASE [Next]_vars
    BY <2>1, PossessionStep DEF CountInv
  <2>2. CASE RefreshThrows
    <3>1. holder # None /\ holder' = holder /\ body' = Arrived
      BY <2>2 DEF RefreshThrows, HolderExists
    <3>2. QED
      BY <2>0, <3>1 DEF Possession!Park, Possession!Return
  <2>3. CASE UNCHANGED <<holder, body>>
    BY <2>0, <2>3
  <2>4. CASE PlaceBallShown
    BY <2>0, <2>4 DEF PlaceBallShown, Possession!Lose
  <2>5. QED
    BY <2>1, <2>2, <2>3, <2>4, CountCases DEF HiddenTurn, Save, ballVars
<1>3. QED
  BY <1>1, <1>2, CountInvariant, PTL DEF CountSpec
===============================================================================

# ssl-RAVEN-sim: specifications, model checking and proofs

ssl-RAVEN-sim simulates a RoboCup SSL match for the RAVEN AI. It receives robot
commands over UDP, moves robots and a ball in Qt Quick 3D Physics, and sends
back what ceiling cameras and the robots' own sensors would report. RAVEN plans
passes, kicks and interceptions on the assumption that the simulated ball and
robots obey a known model. What can go wrong is therefore seldom a crash. It is
a ball that stays behind at the parking place, a robot that drives on with a
command given before it was moved, a mouth sensor that reads a ball somebody
else holds, a ball that rolls on where RAVEN expects it to slide.

The modules here state those promises, TLC checks them on small instances, and
TLAPS proves most of them for every value of the constants.

## 1. The system

One Qt event loop runs everything: socket handlers, the settings window, mouse
and keys, and `PhysicsWorld.onFrameDone` (`Main.qml:80-83`). Handlers run to
completion, so an interleaving is an order of whole handlers. Concurrency
enters in three places: the order in which packets, user input and frames
arrive; the physics engine, whose `reset()` calls take effect one or two steps
after they are made; and the loop over the robots inside one frame, in which
each robot sees what the robots before it have just done to shared state.

| Component | State | Operations | What makes it hard |
|---|---|---|---|
| Ball possession: `GameObjects.qml` (contest, botMovement), `Control.qml`, `BallContact.js` | `dribbleInfo`, `holds`, mouth collider, `kickedBallInMouth`, `bouncedBallInMouth`, `kickReadyAtMs`, `pendingKickVelocity`, `ballPlacement` | contest, kick, release, dribble, placement, P key | several robots and one ball within one frame; deferred `ball.reset()`; deferred launch of a kick; timeouts |
| Frame loop and ball publication: `Main.qml`, `refreshBall`, `Sync.updateBall` | `ballPosition`, `ballVelocity` | one frame: measure, launch, friction, contest, move, publish | the position read is sometimes the parking place or one of before a placement |
| Command path: `Robot`, `Observer::visionReceive`, `controlReceive`, the copies in `GameObjects.qml` | latched command, delay line, applied velocity, the scene's copies | packet, replacement, frame | a replacement must clear four places; the delay is rounded to frames of varying length; hidden robots |
| Ball friction: `applyBallFriction` | `ballLaunchSpeed`, `ballRolling`, `prevBallVelocity` | frame, impact, kick, placement | a two-phase curve integrated over frames of varying length; outside forces have to be guessed from measured speeds |
| World output: `Observer::updateObjects`, encoder feedback, `Sender`, `FeedbackSender`, `EmptyObjects.qml` | `ballPosition` of the observer, `prevEncoderPositions`, geometry and frame counters, `isFoundBall` | one vision packet and one feedback datagram per robot and frame | values of the frame before; geometry only every 1000 frames; flags nobody resets |
| Receivers: `receiver.cpp` | sockets, ports | bind, set port, receive, reply | a failed bind; broken packets |
| Mouse and keys: `Main.qml`, `GameObjects.qml:1034-1120` | grabbed robot, selection, teleop velocity | press, move, release, keys | robots that disappear while they are carried |
| Motion arithmetic: `robot.cpp`, `MotionControl`, `MathUtils`, `camera.cpp`, `directKickVelocity`, `BallContact.incomingVelocity` | none | limits, projections, the outgoing velocity of a kick | numeric edges, floating point |
| Settings window, field and lights, wire formats, tools | settings | layout | none over time |

How they interact. A command packet goes receiver → `Observer` → `Robot`, and a
change signal makes the scene copy the robots' output. At every frame the scene
measures the ball, launches a deferred kick, applies friction, holds the contest
and moves each robot (`updateGameObjects`), then publishes the ball and the
robots to the observer (`syncGameObjects`). There the delay lines advance, and
vision and feedback packets are sent. A replacement packet takes the same road
as a command, resets the robot first, then has its body or the ball reset.

What makes each part correct:

* possession: at most one holder; mouth shape, sensor, parked body and published
  position agree with who holds the ball; the ball is lost in one known case only;
  a kick fired is a kick launched; the dribbler stopping ends the hold;
* command path: the command that acts is exactly the one of the dead time before;
  a replaced robot rests; the scene acts on no old copy; a last command is reached;
* friction: the ball follows RAVEN's curve whatever the frame lengths; only outside
  forces start the curve anew; the ball comes to rest;
* motion: a tick goes towards its target and never past it, has the time of one
  tick only, keeps within the limits, and a command left alone is reached;
* output: wheel speeds add up to the poses of vision; with `hideBallMode` on, a hidden ball is
  frozen where it dropped out of sight and one in sight is followed (switching the mode off while the
  ball is hidden breaks this, section 6); every client gets the geometry within a period and can
  count what it missed;
* receivers: a receiver listens on the port the settings show, once, and gets its
  port back after a failed bind.

## 2. The modules

| Module | Models | Checked by | Proofs |
|---|---|---|---|
| `BallPossession` | abstract: one ball, at most one owner, on the field or parked | as a property of `BallControl` | `PossessionRefined` (safety part) |
| `BallControl` | possession, one physics frame in steps, and the events between frames | `possession` | `BallControlProofs` |
| `BallControlClaims` | a comment on placements that the handler does not keep | `claim_placement` | |
| `RobotCount` | `BallControl` with the number of robots changing at run time | `claim_removed_holder` | `RobotCountProofs` |
| `IdealRobots` | abstract: robots that follow their commands with a dead time and are as new after a replacement | as a property of `RobotCommands` | `IdealImplemented` |
| `RobotCommands` | latch, delay line, replacement, the scene's copies | `commands` | `RobotCommandsProofs` |
| `RobotCommandsClaims` | the same with the number of robots changing at run time | `claim_replaced_robot` | `DelayInAllSettings`, `StaleDriveEnds` |
| `Actuation` | the motion model of a robot in the plane and its settings: dead zone, caps, wheel budget, lag, limits | `actuation` | `ActuationProofs` |
| `BallFriction` | `applyBallFriction` on a line, launches, hits, skipped frames | `friction` | `BallFrictionProofs` |
| `BallFrictionClaims` | a comment on pushed balls | `claim_pushed_ball` | |
| `EncoderFeedback` | diagnosis file and wheel speeds of a frame | `encoder` | `EncoderFeedbackProofs` |
| `VisionOutput` | hidden ball, `Sender::send` and a client of the vision packets | `vision` | `VisionOutputProofs` |
| `CommandPorts` | sockets of the three receivers | `ports` | `CommandPortsProofs` |
| `CommandPortsClaims` | the documentation on failed binds | `claim_port_back` | `CommandPortCanMove` |

How the modules fit together. `BallControl` takes kick and spinner commands as
they reach the scene, `RobotCommands` says when they do. `RobotCommands` takes a
tick of the motion model to be any step towards the target; `NeverPast` of
`Actuation` is the statement that allows it. What `CommandPorts` receives is what
`RobotCommands` calls a packet. `VisionOutput` and `EncoderFeedback` are the two
halves of `updateObjects` and take the poses and the ball as the frame has them.

Definitions marked "mutant" are plausible mistakes written next to the
definition they would replace. No action uses them. `PROJECT.json` names, for each
property, a mutant that breaks it: they show that the property depends on that
piece of code.

### BallControl

`phase` cuts the frame handler into `Refresh` (physics step, `refreshBall`, launch
of a deferred kick), `Contest` (`resolveBallContest`), `Move(1)`, `Move(2)`, ...
(`botMovement`, blue before yellow, ids in order) and `Sync`
(`Sync.updateBall`). Events (`Command`, `PlaceBall`, `PlaceClothLineBall`) are
enabled between frames only, because a handler is never interrupted.

| Variable | In the code |
|---|---|
| `holder` | `dribbleInfo` |
| `holds`, `collider` | `holds[i]`, `collisionShapes[5]` |
| `kicked`, `bounced` | `kickedBallInMouth`, `bouncedBallInMouth` |
| `recharge` | `kickReadyAtMs - simTimeMs`, in frames |
| `pending` | `pendingKickVelocity` (whose it is) |
| `body`, `pipe`, `lag` | `ball.position`, the `ball.reset()` calls not seen yet, and the steps one takes |
| `placing` | `ballPlacement` and its time limit |
| `published` | `ballPosition` |
| `kickCmd`, `spin` | `kickspeeds[i]`, `spinners[i]` |
| `winner` | `ballContestWinner` |

`Move(r)` first does what `Control.release` does, if it applies (`HolderNow`,
`ColliderNow`, `PipeNow`), and then exactly one branch of the loop body:
`EmptyWindow`, `Yield`, `Fire`, `Dribble` or `Sense`. Geometry is data: each frame
the environment chooses the mouths the ball is in (`near`), whether it is slow
enough to catch, whether a kicked ball has settled, whether a placement has
landed. Time is in frames. `lag` is the delay of `ball.reset()`, fixed in the initial state to any of
`ResetLags`: the comments say both "on the NEXT step" (`Sync.qml:33-39`) and "1 to 2 steps later"
(`GameObjects.qml:84`), and both are checked. What a longer delay breaks is in the properties by name:
`hasty`, a history variable, says that the last hold was ended by its own holder while the parking of its
catch was still in the pipe; then, and only then, is a ball left behind (section 6).
`PendingKickMeansFreeBall` and the refinement of `BallPossession` are promises of a delay of one step; with a longer one
`Possession` keeps the abstract ball at rest and the refinement says nothing.

### RobotCommands

A packet or a frame is one step. `cmd` and `tool` are the latched command, `line` is
the delay line, `applied` the output of the lag and the limits, `qVel` and
`qTool` are the scene's copies, `drive` the velocity given to the body.
A velocity is one axis in abstract units, 0 is rest; `Towards` allows any step
towards the target, which covers every time constant and acceleration limit. `told`,
`past` and `lag` are history variables used only by properties.
`Ideal` maps the robots to `IdealRobots` as the scene sees them: a shown one by its copies, one without a body by
its own output. `past` takes the place of the delay line.

### BallFriction

A ball on a line, with integer speeds and ticks. `Sliding`, `Slowed`, `RollsNow`
are the arithmetic of the handler; `Rebound`, `Rest`, `Brake` its three outcomes. A
frame may start at one velocity and end at another (`HitFrame`: a wall or a
robot), and the measured velocity is either of them, or zero when it turned.
`Unseen` is a frame in which the handler is skipped. `since`, `steady` and `fresh`
are history variables: the time on the current curve, and whether anything but
friction acted.

### RobotCount

`BallControl` with `blueNum` and `yellowNum`. `Save` sets them and makes the bodies
of a changed team anew (`Remade`). The loops of the frame go over `Shown`. When
`dribbleInfo` names a robot that is not shown, the frame is `RefreshThrows`: the
physics step and the clock, then the exception.

### Actuation

Forward, sideways and turn, in integers. `model` is `RobotMotionModel`, made from
the defaults and two sections (`[RobotModel]`, then the robot's own) as `FromSettings` does, or the
pass-through model of `RobotModel/Enabled = false`. `cmd` is the command
that has come out of the delay line, `applied` the speed reached. A step of the lag
is part of the way to the target or all of it, so it covers every time constant that is
not longer than what moves by a unit; for longer ones "reached" means "to within a unit".
The cap and the budget scale a vector (`CappedLinear`, `WithinBudget`); then either the whole translation moves along
a straight line, braking first if it turns back (`AdvanceLinear`), or each axis by its own lag and limits.
What the code divides in doubles is divided here in integers: `Hypot` is rounded up, so that a vector is cut to the cap and
not above it; a part of a speed, what is left of the tick, and the step along an axis are rounded down, but a
step on an axis with something to do is at least 1, as a double is never rounded to nothing.

### EncoderFeedback

`prev` is `prevEncoderPositions`; `log` and `sent` are the rows and the datagrams of the
last frame. In each frame any list of poses is shown: robots move, turn, are teleported, added and removed. Headings
are quarter turns in the range of `normalizeRadian`, half a turn in both signs. A wheel
speed stands for the motion it is computed from. The socket refuses the datagrams of any
`Refusable` robots. `now`, `before` and `lost` are history variables.

### VisionOutput

`isFoundBall` is the flag of the window, `ballPosition` the ball of the observer,
`geometryCount` and `captureCount` the counters of the sender, kept modulo `Period`
and `Numbers`. A frame first takes over the ball, then asks both cameras (`Seen`:
the search of `EmptyObjects` over the points of the ball), then sends. `endpointOpen` says that the
sender's address and port are those of the client; a send can fail and a packet can get lost. `client` is RAVEN, external: what it
has heard since it joined. `ball`, `gone` and `frozen` are history variables: `gone` is where both cameras lost the ball,
for as long as they are asked and do not see it; `frozen` says that the mode was switched off while it was lost, which leaves
`isFoundBall` false with nobody to set it (section 6).

### CommandPorts

`net` has, of each receiver, the bound port, `currentPort` and the number of
connections of `readyRead` to `receive`. `setting` is what the settings say, which the file may
change while the program is not running and a Save while it is; `foreign` are the ports other programs hold. What arrives on a
socket is not modelled here.

## 3. The runs

| Run | Instance | Shows |
|---|---|---|
| `possession` | 2 robots, `reset()` seen after 1 or 2 frames, limits 2/1/3 | who holds the ball agrees with mouth shape, sensor, parked body and published position; contest winners get their way; a holder obeys within the frame, a free ball is back within the delay but for the one case that strands it, placements complete; with a delay of 1 `BallPossession` is implemented, its fairness included |
| `commands` | one robot per team, speeds 0..1, delay of 0 or 1 frames | delay and replacement; with line and copies the `IdealRobots` are implemented; when packets stop, the last command is reached |
| `actuation` | commands of 0 or 3 either way along both axes, turns of 1 or 3, limits 1 to 3, all models two sections can make | a tick never passes its target, its time is shared, each axis keeps its cap, and the target is reached |
| `friction` | launches 4, 6, 8, 12; frames of 2 or 3 ticks | the curve, braking only, no false launches, rest |
| `encoder` | up to 2 robots on 2 places, 5 headings, one that can be refused | datagrams are the motion vision shows, the file agrees with them |
| `vision` | 2 places and one too far out, 2 points, period 3, numbers modulo 6 | what is published of a hidden ball stays put and a packet shows its own frame's ball, but for one frozen by switching the mode off; geometry and losses |
| `ports` | 3 ports | receivers are bound as the settings say, connected once, and heal |
| `claim_*` | as small as shows it | five statements of the code's comments and documents that do not hold (section 6) |

The time limits are in the order recharge, guard of a kicked ball, landing of a placement.

Why the bounds are enough. The interactions in a frame are between the robot that
moves, the holder and the winner of the contest; two robots allow every pair of these roles, and the
theorems about them hold for any number. A time limit matters through three cases (fresh, running, run
out): 3 frames have them, and 1 still separates "this frame" from "a later one". The delay of `reset()` takes both values
the comments give; with 2 a call is met by a kick, a release, a contest, a placement and the P key while it is under way.
A delay of two neighbouring lengths has the change that makes the line grow and shrink;
the real one is 5 or 6, again two neighbouring numbers, since 87 ms are
divided by frames of 14 to 16.7 ms. For friction, 4, 8 and 12 end their slide on a
tick and are compared exactly, 6 does not; frames of 2 and 3 ticks cut the curve before, on and
after the switch. The limits of `actuation` differ from one another, so that taking one for another is seen; a command
of 3 exceeds both caps and, with a second axis or a turn, the budget; a turn of 1 is in the dead zone. Turning off from one
axis to the other, the robot passes the cap of the translation in this instance, which `SpeedsCapped` allows. Two places and five headings have moves, turns
both ways and the jump at half a turn; two robots have a list that grows, shrinks and stays.
A period of 3 has a frame that is first, last and neither; 6 frame numbers are two periods, so that the
two counters are not in step with each other for free. Three ports are as many as receivers: all can be apart, and any two in
conflict. Most theorems below do not have these bounds.

Fairness. Weak fairness of the frame step only (`FrameStep`, `Frame`, `FreeFrame`,
`AdvanceActuation`, `ShownFrame`):
`PhysicsWorld` emits `frameDone` after each step for as long as it runs, and a
handler that has begun ends. Nothing is assumed of packets, keys, placements, hits, deliveries or sends;
where they could prevent something for ever, the property asks that they stop
(`CommandReached`, `TargetReached`, `PlacementSettles`, `ComesToRest`).
`EncoderFeedback`, `VisionOutput` and `CommandPorts` state no fairness: all their properties are of safety.
Where the code answers within a known number of frames, the property says so and is of safety too:
`HolderObeys` and `FreeBallIsBack` name the frames in which a hold ends and a kick is launched,
`PacketShowsBall` the packet in which a ball is seen.

No run turns the deadlock check off: in every reachable state a frame can be made, or a program started.

## 4. What is proved

All theorems hold for every value of the constants allowed by the named assumptions
(`ConstantsAssumption`, `CommandAssumption`, `FrictionAssumption`, `ActuationAssumption`,
`EncoderAssumption`, `VisionAssumption`, `PortsAssumption`).

| Theorem | Property | Rests on |
|---|---|---|
| `TypeCorrect` | `TypeOK` | inductive as it stands |
| `ColliderFollowsHolder` | `ColliderMatchesHolder` | `ShapeOwned`: a shape that is out is the holder's; `HolderShaped`: the holder's is out. Any lag |
| `HolderIsEntitled`, `HolderIsSensed` | `HolderMayHold`, `HolderSensesBall` | `HolderInv`: besides both, a contest winner is the only one that can hold during the rest of its frame |
| `LosersAreBlind`, `WinnerFires` | `LosersSenseNothing`, `KickWinnerFires` | `LoserOff`, `WinnerInv`: what the losers and the winner look like before and after their turn |
| `HoldersObey` | `HolderObeys` | `ObeyedSoFar`: a holder whose turn is over has done what it was told |
| `HeldIsParked` | `HeldBallIsParked` | inductive with the types, any lag: `LastSlot`, `RestingAfterReset` and `RestingAfterStep` say what the newest call and a step of the pipe do to where the body comes to rest |
| `NeverStranded` | `BallNeverStranded` | `StrandedIsHasty`: a free ball that comes to rest at the parking place was let go early; any lag. `OneFrameInv`: with a lag of 1 none ever is |
| `FreeBallReturns` | `FreeBallIsBack` | `StrandedIsHasty`, and `RefreshDone`: what `Refresh` leaves to a contest. Any lag |
| `PublishesOnField` | `PublishedOnField` | `OneFrameInv` for a lag of 1, `ParkIsPlaced` for any: the parking place is read back by placements only |
| `PlacementsEnd` | rank of `PlacementSettles` | a frame lowers `placing`, or the ball is still on its way (`FreeIsBack`). Any lag |
| `PendingKickIsLaunched` | `PendingKickMeansFreeBall` | `KickInv`, for the behaviours the property is about: a lag of 1, no placements |
| `PossessionRefined` | initial states and steps of `BallPossession` | `OneFrameInv`, for the lag the mapping is about |
| `CountTypeCorrect`, `CountKeepsHolder`, `ShownLosersAreBlind`, `SavesLeaveNoShape` | what is left of the properties above when the number of robots changes | `CountInv`, any lag |
| `NoFrameWithoutHolder`, `StandstillLasts` | the standstill of `claim_removed_holder`: no frame is cut in two by it, and only the user ends it | `CountInv`, any lag |
| `CountNeverStrands`, `CountPublishesOnField`, `CountPossessionRefined` | `BallNeverStranded`, `FreeBallIsBack`, `PublishedOnField` and `BallPossession` when the number of robots changes | `CountInv`, which has `OneFrameInv`, `StrandedIsHasty`, `RefreshDone` and `ParkIsPlaced` as parts |
| `CommandsTypeCorrect` | `TypeOK` | length of the line |
| `TransportDelay` | `DelayIsTransport` | `LineIsPast`: the line is a slice of the history |
| `SceneCurrent` | the scene's copies are what the robots say | inductive with the types |
| `ReplacedRobotRests` | `StillAfterReplacement` | `Quiet`: latch, history and output of a robot nobody has commanded are at rest; `BodyRests`, and the two theorems before |
| `IdealImplemented` | `ImplementsIdeal` | `TransportDelay` and `SceneCurrent`: what the scene sees are the robots, and what comes out of the line is in the history |
| `SteadyCommandApproached` | rank of `CommandReached` | `TransportDelay`, `SceneCurrent` |
| `DelayInAllSettings`, `StaleDriveEnds` | `DelayIsTransport` when the number of robots changes, and what is left of `NoStaleDrive` | `SettingsInv`: the types, `LineIsPast` and `Quiet` |
| `ActuationTypeCorrect`, `CapsHold` | `TypeOK`, `SpeedsCapped` | `CapInv`: the types and the caps; `TargetCapped`, since a step of an axis lies between its speed and its target; `HypotBounds`: a length is not below its parts |
| `TicksNeverPass` | `NeverPast` | `AxisTowards`, `LinearTowards`: a limited step stays between where it starts and where it goes, on every axis (`StepBounds`: the step is not longer than the way) |
| `TickTimeShared` | `TickIsShared` | `StraightShared`: the two parts of a tick take its time; `AlongStraight`, `HypotAlone`: along one axis the step is the step of that axis |
| `FrictionTypeCorrect` | `TypeOK` | inductive as it stands |
| `OnlyBrakes` | `FrictionOnlyBrakes` (rank of `ComesToRest`) | `SlowedRange`, `SlowedStrictly`: a frame leaves a speed between 0 and the one before, below it if the ball moved; `NoImpact`: friction is no impact |
| `AlwaysOnCurve`, `OnlyForcesCount` | `FollowsBallModel`, `OnlyForcesRelaunch` | `CurveInv`, and `CurveAdvances`: a frame of dt ticks takes the curve from t to t + dt |
| `EncoderTypeCorrect`, `EncodersAgree`, `DiagAgrees` | `TypeOK`, `EncodersFollowVision`, `DiagFollowsFeedback` | `EncInv`: with the encoder on, `prev` is what vision showed last (`PrevIsShown`); `MeasuredExplains`: the motion measured leads from the old pose to the new |
| `VisionTypeCorrect` | `TypeOK` | inductive as it stands |
| `HiddenBallNotFollowed` | `HiddenBallStaysPut` | `HiddenInv`: while the cameras are asked, and unless it is frozen, the flag says whether the ball is in sight and what is published is where it was lost |
| `PacketsShowBall` | `PacketShowsBall` | `HiddenInv`: the flag is false for a hidden ball and for a frozen one, and for no other |
| `GeometryHeard` | `GeometryWithinPeriod` | `PeriodInv`: the frames heard in a row since the last geometry are fewer than the counter |
| `LossesCounted` | `NumbersTellLosses` | inductive with the types |
| `PortsTypeCorrect`, `BoundToSetting` | `TypeOK`, `ListensOnSetting` | `PortsInv`: besides it, a team receiver that is closed was never bound and has no connection (`NeverBound`) |
| `TeamPortsComeBack` | `TeamPortsHeal` | `PortsInv`, and `SaveOK`: three setters in turn |
| `CommandPortCanMove` | what is left of `CommandPortHeals`: the one Save that fails on a free port is that of the port the receiver had and lost | `PortsInv`, `StartLeavesOthers` |

Why the invariants have to be strengthened. `BallNeverStranded` speaks of where the
body will end up, but a step only sees `body` and one slot of `pipe`. It is
not inductive because a release looks at `body` alone, and leaves a ball behind
if a parking call is still on its way: `StrandedIsHasty` says that this is the only way, for any delay, and `ReturnInv` why it
never happens with a delay of 1: a parking call in the pipe belongs to a robot that has had its turn in this frame, and
has arrived before the next frame begins. `OneFrameInv` is that, with `lag = 1` for a premise.
`HolderSensesBall` needs that no other robot can win the sensor
from under a holder in the same frame (`WinnerHolds`). `DelayIsTransport` speaks of the
front of the line only, so `LineIsPast` describes all of it. `FollowsBallModel` needs
that a ball on its curve is never faster than its launch, or friction would count it as
launched anew. `EncodersFollowVision` compares what was sent with the poses vision showed, while the
code compares with `prev`: `PrevIsShown` ties the two. `ListensOnSetting` looks at bound receivers only, so `PortsInv` has to say
what a closed one remembers: it decides whether a Save binds it and whether that connects a second time.

`HeldBallIsParked` holds for any lag, although `BallNeverStranded` does not: while somebody holds the ball
the newest call counts, and only a catch or the P key makes one. That a pipe has a newest call is the existence
of a maximum of a finite set, taken from the well-foundedness of the order of finite sets.

With the number of robots changing. `HolderShaped` is false there: a holder whose team is made anew is
without its shape until it dribbles, and it need not dribble while it waits for its kicker (TLC shows this with
three frames of recharge). So `SavesLeaveNoShape` says that no shape is left at anybody else, and that the holder that
dribbles has its own. A robot that is no longer shown keeps its sensor, so `ShownLosersAreBlind` is about those
shown. All the other promises survive, the refinement of `BallPossession` included; `VisionGoesOn`
is what does not, and `StandstillLasts` says how long.

Each claim that fails (section 6) has its remainder proved where it has one: `StaleDriveEnds` for `NoStaleDrive`,
`CommandPortCanMove` for `CommandPortHeals`, `StandstillLasts` for `VisionGoesOn`.

Liveness and `ENABLED` are out of the prover's reach, and stay with TLC: `PlacementSettles`, `CommandReached`,
`TargetReached`, `ComesToRest` and the fairness part of `ImplementsPossession`. What makes
them true is proved: a natural number that every frame lowers as long as nobody interferes (`PlacementsEnd`; `SteadyCommandApproached`
once the command has been left alone for the dead time; `TicksNeverPass`, since a step of `Towards` is strict; `OnlyBrakes`).
What is missing is that frames go on, which is the fairness assumed, and the induction over that number.
`VisionGoesOn` has no such number: it fails.

## 5. Hazards

`PROJECT.json` lists where this code is hard to test and which property looks at each
place. Six have none: the diagnosis file that stays empty while the encoder is off (no document says
otherwise), what an exception that leaves a Qt slot does, what protobuf leaves of a packet it
could not parse, a robot that vanishes in the mouse's hand, the arithmetic of an incoming ball, and the velocity of before a kick that
friction compares with the first one after it.

## 6. Where the comments and the code differ

* `claim_placement`: `placeBall` "clears every piece of ball state that could otherwise fight
  the placement" (`GameObjects.qml:988-994`), but reads `ballPosition` back before the reset has
  taken effect (`1012`): a robot that stands where the ball was catches it once more.
* `claim_replaced_robot`: "so botMovement() doesn't have a window where it still reads the
  stale, pre-reset velocity" (`observer.cpp:217-219`). A robot replaced while the
  settings hide it has that window when it is shown again.
* `claim_removed_holder`: "one packet per physics frame" (`observer.cpp:407`). When the settings take away
  the robot that holds the ball, `heldBallScenePosition` throws in every frame, before `syncGameObjects`: no
  vision and no feedback until the ball is placed or the robot shown again.
* `claim_pushed_ball`: "if it has become faster, an outside force went in; counted as a new launch"
  (`GameObjects.qml:920-921`). The code compares with the launch speed, not with the
  last speed: a slow ball pushed to less than its old launch speed goes on rolling.
* `claim_port_back`: after "Failed to bind UDP socket to port ..." one is to end the other program or change the port
  (`New_README.md:239`). After a failed change, setting the old port is taken for no change
  (`receiver.cpp:41`): the simulator stays deaf although the port is free. The team receivers do not have this
  (`TeamPortsHeal`), because a Save never changes their port.

Seen while modelling, without a run of their own:

* "the other robot has the ball: our mouth sensor must read empty" (`GameObjects.qml:629`): when nobody
  wins the contest, a robot keeps its reading for the frame in which a later one recovers a
  kicked ball and catches it.
* If a reset takes two steps, as `GameObjects.qml:84` allows ("1 to 2 steps later"; `Sync.qml:33-39` says
  the next step), a kick or release in the frame after a catch finds the body still on the field, calls nothing
  back, and the parking call arrives afterwards: the ball is left behind, the kick waits, a placement that meets it is never
  measured. `possession` has this case: it is the exception `hasty /\ lag > 1` of `BallNeverStranded`, and of `FreeBallIsBack` and
  `PlacementSettles`.
* With such a reset a placement that finds the ball parked reads the parking place back (`1012`), and Sync publishes it
  until the ball has come out: the exception of `PublishedOnField`. And a robot can catch a ball whose launch is still
  deferred.
* While a placement is pending the contest looks at the held ball and the windows at
  `ballPosition`, so a robot can catch what another has just fired. This is why
  `PendingKickMeansFreeBall` has the premise `[](placing = 0)`.
* When `hideBallMode` is switched off while no camera sees the ball, `isFoundBall` stays false and nobody sets it again: the
  published ball stays where it is for as long as the mode is off, in full view of the cameras (`docs/architecture.md` 5.4 lists this). It is
  `frozen` in `VisionOutput`, and the exception of `HiddenBallStaysPut` and `PacketShowsBall`.
* The P key touches neither `dribbleInfo` nor a pending kick: a held ball's body can be
  on the touch line while its holder goes on publishing it at its mouth.
* A kick does not clear `prevBallVelocity`: the first frame after it can look like an
  impact, and friction then starts a frame late.
* The friction impulse is computed from a measured velocity. In a frame with a hit it can be larger
  than the body's speed.
* Wheel budget and `MaxLinearVelMmS` scale the target, not the speed reached: lag and limits act on each axis by itself, so on the way
  from one target to another a wheel may turn faster than the budget, and a robot that turns off may be faster than the cap.
  This is why `SpeedsCapped` is about each axis.
* `robot.cpp:139` says a reversal is limited by the deceleration; `advanceAxis` takes the acceleration
  when the next speed is larger than the one applied.
* The replies to the yellow team carry no ball pixels (`ai/findings/003`), and every reply lists all 16 robots, those that are
  not shown with old values.
* The onboard cameras look at `ball.position`, which is the parking place while a robot holds the ball.

## 7. Not modelled, and why

* In `BallControl`: teleop velocity, frames of different lengths (time limits are in
  frames), changing `KickerRechargeSec` at run time. Changes of the number of
  robots are in `RobotCount` only. Positions and velocities are chosen by the environment.
* In `RobotCommands` and `Actuation`: gains (commands are taken after them), kick
  limits (a minimum of two numbers), and the controller of `MotionControl::calcSpeed`, which has
  no state and acts with `RobotModel/Enabled = false` only.
* In `BallFriction`: the plane (a ball on a line), the spin drawn on the ball, decelerations of 0. With
  `AccRollMmS2 = 0` a ball never rests.
* In `EncoderFeedback`: noise, bias and quantisation (0 in the configuration), the sum of a
  motion into four wheels, the other fields of a datagram.
* In `VisionOutput`: poses and velocities of robots and the contents of the geometry, which is constant; an address
  that is none, for which `make_address` throws.
* In `RobotCommands`: a second axis; there a tick is any step towards the target, which `NeverPast` shows of each axis.
* In `CommandPorts`: what a broken packet leaves in its message, and the replies of the team receivers: lists of the last frame's
  contacts and, for blue only, camera data (`receiver.cpp:80-84`, `150-155`).
* `directKickVelocity` and `incomingVelocity`, onboard camera projection: floating-point arithmetic
  whose properties are about its precision.
* Mouse grab, camera selection and teleop keys: they drive bodies only. Where they place the ball they are in `BallControl`.
* Layout, lights, field models, the settings window: no behaviour over time.
* The protobuf schemas, generated code, scripts in `tools/`.

That a change of the number of robots makes the delegates anew, at rest, the delay of `reset()`, the
exclusive bind of a UDP port and the connection of a signal to a slot are
behaviours of Qt, modelled from how the code uses them.

## 8. Plan

Written, in this order: `BallPossession`, `BallControl`, `RobotCommands`,
`BallFriction`, `EncoderFeedback`, `VisionOutput`, `CommandPorts`, `Actuation`, `RobotCount`, `IdealRobots`, with their
claims and proofs.

What could follow, in the order of importance:

1. The composition of `BallControl` and `RobotCommands`: kick and spinner commands come through
   the scene's copies, so that a replaced robot neither kicks nor dribbles the ball it holds.
2. `DirectKick`: `incomingVelocity` and `directKickVelocity` over integers, against a
   reference definition: a ball at rest leaves with the speed of the kick, one that comes in leaves
   with the restitution of the model.
3. `MouseGrab`: grab, carry, release, R key, with robots that appear and disappear, along the lines of `RobotCount`.

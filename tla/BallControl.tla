----------------------------- MODULE BallControl -----------------------------
(***************************************************************************)
(* Who has the ball.  One physics frame of GameObjects.qml, with           *)
(* Control.qml, BallContact.canRecover and Sync.updateBall: the ball is    *)
(* measured and a deferred kick launched (Refresh), the robots contest the *)
(* ball (Contest), every robot is moved and acts on the ball in the order  *)
(* blue 0, 1, ..., yellow 0, 1, ... (Move), and the ball's position is     *)
(* published (Sync).  Between two frames the Qt event loop may run any     *)
(* other handler: commands from the network (Command), a ball placement by *)
(* mouse or by a replacement packet (PlaceBall), the P key (PlaceClothLineBall). *)
(*                                                                         *)
(* The frame handler runs to completion, so `phase' and `turn' only cut it *)
(* into readable steps: no event is enabled inside a frame.                *)
(*                                                                         *)
(* Geometry is data.  Each frame the environment chooses which mouths the  *)
(* believed ball position lies in (near), whether the ball is slow enough  *)
(* to catch and whether a kicked ball has settled.  Time is counted in     *)
(* frames.                                                                 *)
(*                                                                         *)
(* ball.reset() is asynchronous.  The comments in the code put its effect  *)
(* on the next step (Sync.qml, Control.qml) or 1 to 2 steps later          *)
(* (GameObjects.qml): a call is seen `lag' frames later, and every delay   *)
(* of ResetLags is checked.                                                *)
(*                                                                         *)
(* The operators marked "mutant" are plausible mistakes, each next to the  *)
(* definition it would replace; no action uses them.                       *)
(***************************************************************************)
EXTENDS Naturals

CONSTANTS
  NRobots,              \* robots of both teams, in the order botMovement visits them
  ResetLags,            \* delays of ball.reset() a build may have, in frames
  RechargeFrames,       \* KickerRechargeSec, in frames
  RecoverFrames,        \* the 150 ms of BallContact.canRecover, in frames
  LandingFrames         \* placementLandingTimeoutMs, in frames

ASSUME ConstantsAssumption ==
  /\ NRobots \in Nat \ {0}
  /\ ResetLags \subseteq Nat \ {0}
  /\ RechargeFrames \in Nat
  /\ RecoverFrames \in Nat \ {0}
  /\ LandingFrames \in Nat \ {0}

Robots == 1 .. NRobots
None   == 0

(* Where the body is.  "corner" is the field too, but the touch line the P *)
(* key sent the ball to while the program believes a robot carries it.     *)
Places  == {"field", "park", "corner"}
Targets == Places \cup {"none"}

VARIABLES
  phase,       \* the step of the frame handler, "idle" between two frames
  turn,        \* the robot botMovement is at
  near,        \* robots whose mouth window the ball position lies in
  measured,    \* did refreshBall see where the ball is this frame?
  winner,      \* ballContestWinner
  holder,      \* dribbleInfo
  holds,       \* robots whose mouth sensor (holds[]) reads the ball
  collider,    \* robots whose mouth ball shape (collisionShapes[5]) is deployed
  kicked,      \* kickedBallInMouth: 0 no key, else 1 + frames of the guard left
  bounced,     \* bouncedBallInMouth
  recharge,    \* frames until kickReadyAtMs
  pending,     \* whose pendingKickVelocity waits, or None
  body,        \* ball.position
  pipe,        \* ball.reset() calls not seen yet, next one first
  lag,         \* frames after which a call shows in ball.position
  placing,     \* ballPlacement: 0 none, else 1 + frames left to land
  published,   \* ballPosition: a place on the field or the parking place
  kickCmd,     \* robots commanded to kick
  spin,        \* robots commanded to dribble
  hasty        \* history, read by no action: see LetGoEarly

frameVars == <<phase, turn, near, measured, winner>>
robotVars == <<holds, collider, kicked, bounced, recharge>>
ballVars  == <<holder, pending, body, pipe, lag, placing, published, hasty>>
cmdVars   == <<kickCmd, spin>>
vars      == <<frameVars, robotVars, ballVars, cmdVars>>

TypeOK ==
  /\ phase \in {"idle", "contest", "move", "sync"}
  /\ turn \in Robots
  /\ near \in SUBSET Robots
  /\ measured \in BOOLEAN
  /\ winner \in Robots \cup {None}
  /\ holder \in Robots \cup {None}
  /\ holds \in SUBSET Robots
  /\ collider \in SUBSET Robots
  /\ kicked \in [Robots -> 0 .. RecoverFrames + 1]
  /\ bounced \in SUBSET Robots
  /\ recharge \in [Robots -> 0 .. RechargeFrames]
  /\ pending \in Robots \cup {None}
  /\ body \in Places
  /\ lag \in ResetLags
  /\ pipe \in [1 .. lag -> Targets]
  /\ placing \in 0 .. LandingFrames + 1
  /\ published \in {"field", "park"}
  /\ kickCmd \in SUBSET Robots
  /\ spin \in SUBSET Robots
  /\ hasty \in BOOLEAN

Init ==
  /\ phase = "idle" /\ turn = 1 /\ near = {} /\ measured = FALSE
  /\ winner = None /\ holder = None
  /\ holds = {} /\ collider = {} /\ bounced = {}
  /\ kicked = [r \in Robots |-> 0]
  /\ recharge = [r \in Robots |-> 0]
  /\ pending = None
  /\ body = "field"
  /\ lag \in ResetLags
  /\ pipe = [i \in 1 .. lag |-> "none"]
  /\ placing = 0
  /\ published = "field"
  /\ kickCmd = {} /\ spin = {}
  /\ hasty = FALSE

-----------------------------------------------------------------------------
(* The asynchronous ball.reset(): the last call of a frame wins.           *)
Reset(p, place) == [p EXCEPT ![lag] = place]

(* One physics step: the oldest call takes effect. *)
Arrived  == IF pipe[1] = "none" THEN body ELSE pipe[1]
PipeStep == [i \in 1 .. lag |-> IF i < lag THEN pipe[i + 1] ELSE "none"]

(* The parking call of the last catch has not shown in ball.position yet.  *)
ParkingInFlight == body # "park" /\ \E i \in 1 .. lag : pipe[i] = "park"

(* A deadline that is kept, once it has passed, until its owner clears it. *)
TickPastZero(n) == n - 1                       \* mutant: no guard on an absent key
Tick(n) == IF n > 1 THEN n - 1 ELSE n

(* kickerReady and the kick request of a robot. *)
WantsKick(r) == r \in kickCmd /\ recharge[r] = 0

-----------------------------------------------------------------------------
(* Refresh: the physics step, refreshBall and the launch of a deferred     *)
(* kick.  The ball is not measured while its body is parked without an     *)
(* owner, nor while a placement has neither landed nor timed out.          *)
MeasuresNoTimeout(landed) ==                   \* mutant: waits for the landing for ever
  /\ holder # None \/ Arrived # "park"
  /\ placing = 0 \/ landed

Measures(landed) ==
  /\ holder # None \/ Arrived # "park"
  /\ placing = 0 \/ landed \/ Tick(placing) = 1

Refresh ==
  /\ phase = "idle"
  /\ phase' = "contest"
  /\ pipe' = PipeStep
  /\ kicked' = [r \in Robots |-> Tick(kicked[r])]
  /\ recharge' = [r \in Robots |-> IF recharge[r] > 0 THEN recharge[r] - 1 ELSE 0]
  /\ \E landed \in BOOLEAN :
       /\ measured' = Measures(landed)
       /\ placing' = IF Measures(landed) THEN 0 ELSE Tick(placing)
  /\ published' = IF measured' THEN "field" ELSE published
  /\ near' \in SUBSET Robots
  /\ published' = "park" => near' = {}
  /\ measured' /\ holder # None => holder \in near'
  /\ body' = IF measured' /\ holder = None THEN "field" ELSE Arrived
  /\ pending' = IF Arrived # "park" THEN None ELSE pending
  /\ UNCHANGED <<turn, winner, holder, holds, collider, bounced, lag, hasty, cmdVars>>

(* Contest: resolveBallContest.  A robot in whose cone the ball lies takes *)
(* part if it can kick now or if it dribbles a ball it may catch; those    *)
(* that kick go first, then the nearest mouth wins.  A holder that loses   *)
(* has its collider retracted and the body is called back to its mouth.    *)
Kickers(cone)   == {r \in cone : kicked[r] = 0 /\ WantsKick(r)}
Dribblers(cone) == {r \in cone : kicked[r] = 0 /\ r \in spin /\ r \notin bounced}
Contenders(cone) == IF Kickers(cone) # {} THEN Kickers(cone) ELSE Dribblers(cone)

TakeOver(cone) ==
  /\ holder' = None
  /\ collider' = collider \ {holder}
  /\ holds' = holds \ {holder}
  /\ pipe' = Reset(pipe, "field")
  /\ published' = "field"
  /\ near' = cone

HolderKeeps(w)  == FALSE                       \* mutant: first come, kept for good
LosesContest(w) == holder # None /\ w \notin {None, holder}

Contest ==
  /\ phase = "contest"
  /\ phase' = "move" /\ turn' = 1
  /\ \E cone \in SUBSET Robots :
       (* the cones are about the held ball, the windows about ballPosition: *)
       (* the two differ only for a holder while a placement is pending      *)
       /\ (measured \/ holder = None) => cone = near
       /\ holder # None => holder \in cone
       /\ winner' \in IF Contenders(cone) = {} THEN {None} ELSE Contenders(cone)
       /\ IF LosesContest(winner')
            THEN TakeOver(cone)
            ELSE UNCHANGED <<holder, collider, holds, pipe, published, near>>
  /\ UNCHANGED <<measured, kicked, bounced, recharge, pending, body, lag, placing,
                 hasty, cmdVars>>

-----------------------------------------------------------------------------
(* Move(r): one iteration of botMovement.  First Control.release: a holder *)
(* with its dribbler off that is not asked to kick lets go of the ball.    *)
NeverLetsGo(r) == FALSE                        \* mutant: only a kick ends a hold
LetsGo(r) == holder = r /\ r \notin spin /\ r \notin kickCmd

HolderKept(r)   == holder                      \* mutants of the release: it forgets the
ColliderKept(r) == collider                    \* holder, the mouth shape or the parked body
PipeKept(r)     == pipe

HolderNow(r)   == IF LetsGo(r) THEN None ELSE holder
ColliderNow(r) == IF LetsGo(r) THEN collider \ {r} ELSE collider
PipeNow(r)     == IF LetsGo(r) /\ body = "park" THEN Reset(pipe, "field") ELSE pipe

(* The holder's window test is forced to pass. *)
InWindowUnforced(r) == r \in near              \* mutant: the test is not forced
InWindow(r) == r \in near \/ HolderNow(r) = r

(* Another robot has the ball: it won the contest, or it holds it. *)
WonByOther(r) == winner \notin {None, r}        \* mutant: no check of dribbleInfo
OthersBall(r) == winner \notin {None, r} \/ HolderNow(r) \notin {None, r}

(* BallContact.canRecover: the guard has run out, no launch is pending and *)
(* the ball has settled in the mouth.                                      *)
RecoversEarly(r, settled) ==                   \* mutant: not told of a pending launch
  IF kicked[r] = 1 /\ settled THEN 0 ELSE kicked[r]

KickedNow(r, settled) ==
  IF kicked[r] = 1 /\ settled /\ pending = None THEN 0 ELSE kicked[r]

(* The window is empty: the keys go and the collider is retracted. *)
EmptyWindow(r) ==
  /\ ~InWindow(r)
  /\ kicked' = [kicked EXCEPT ![r] = 0]
  /\ bounced' = bounced \ {r}
  /\ holds' = holds \ {r}
  /\ collider' = ColliderNow(r) \ {r}
  /\ holder' = HolderNow(r)
  /\ pipe' = PipeNow(r)
  /\ UNCHANGED <<pending, recharge>>

(* The ball is in the window but is another robot's: the sensor reads empty. *)
SensorKept(r) == holds                         \* mutant: the sensor stays as it was
SensorOff(r)  == holds \ {r}

Yield(r, settled) ==
  /\ InWindow(r) /\ OthersBall(r)
  /\ holds' = SensorOff(r)
  /\ kicked' = [kicked EXCEPT ![r] = KickedNow(r, settled)]
  /\ collider' = ColliderNow(r)
  /\ holder' = HolderNow(r)
  /\ pipe' = PipeNow(r)
  /\ UNCHANGED <<pending, recharge, bounced>>

(* A ball that is too fast cannot be caught until it leaves the window. *)
BouncedNow(r, slow) ==
  IF slow \/ HolderNow(r) = r THEN bounced ELSE bounced \cup {r}

Fires(r, settled) == KickedNow(r, settled) = 0 /\ WantsKick(r)
CatchesLeaving(r, settled, slow) ==            \* mutant: the kicked ball is sucked back
  /\ ~WantsKick(r)
  /\ r \in spin
  /\ r \notin BouncedNow(r, slow)

Catches(r, settled, slow) ==
  /\ KickedNow(r, settled) = 0
  /\ ~WantsKick(r)
  /\ r \in spin
  /\ r \notin BouncedNow(r, slow)

(* Control.kick: the launch is deferred until the body is on the field. *)
KickNoReset == pipe                            \* mutant: a parked body is not called back
KickReset   == IF body = "park" THEN Reset(pipe, "field") ELSE pipe

Fire(r, settled, slow) ==
  /\ InWindow(r) /\ ~OthersBall(r) /\ Fires(r, settled)
  /\ bounced' = BouncedNow(r, slow)
  /\ recharge' = [recharge EXCEPT ![r] = RechargeFrames]
  /\ kicked' = [kicked EXCEPT ![r] = RecoverFrames + 1]
  /\ holds' = holds \ {r}
  /\ collider' = collider \ {r}
  /\ holder' = None
  /\ pipe' = KickReset
  /\ pending' = r

(* Control.dribble: the robot holds the ball, the body is parked. *)
Dribble(r, settled, slow) ==
  /\ InWindow(r) /\ ~OthersBall(r) /\ Catches(r, settled, slow)
  /\ bounced' = BouncedNow(r, slow)
  /\ kicked' = [kicked EXCEPT ![r] = KickedNow(r, settled)]
  /\ holds' = holds \cup {r}
  /\ holder' = r
  /\ collider' = collider \cup {r}
  /\ pipe' = Reset(pipe, "park")
  /\ UNCHANGED <<pending, recharge>>

(* The mouth sensor reads the ball, the robot does nothing with it. *)
Sense(r, settled, slow) ==
  /\ InWindow(r) /\ ~OthersBall(r)
  /\ ~Fires(r, settled) /\ ~Catches(r, settled, slow)
  /\ bounced' = BouncedNow(r, slow)
  /\ kicked' = [kicked EXCEPT ![r] = KickedNow(r, settled)]
  /\ holds' = holds \cup {r}
  /\ collider' = ColliderNow(r)
  /\ holder' = HolderNow(r)
  /\ pipe' = PipeNow(r)
  /\ UNCHANGED <<pending, recharge>>

(* History: the last hold ended by a kick or a release of its own holder   *)
(* that came while the body was still on its way to the parking place.     *)
LetGoEarly(r) ==
  hasty' = (holder' = None /\ IF holder = r THEN ParkingInFlight ELSE hasty)

Move(r) ==
  /\ phase = "move" /\ turn = r
  /\ IF r = NRobots THEN phase' = "sync" /\ turn' = 1
                    ELSE phase' = "move" /\ turn' = r + 1
  /\ \E settled, slow \in BOOLEAN :
       \/ EmptyWindow(r)
       \/ Yield(r, settled)
       \/ Fire(r, settled, slow)
       \/ Dribble(r, settled, slow)
       \/ Sense(r, settled, slow)
  /\ LetGoEarly(r)
  /\ UNCHANGED <<near, measured, winner, body, lag, placing, published, cmdVars>>

(* Sync.updateBall: a held ball is published at the holder's mouth, a free *)
(* one where its body is, and a parked one where it was seen last.  The    *)
(* frame's own data are dropped: the next frame sets them before it reads  *)
(* them.                                                                   *)
PublishBody == IF holder = None /\ body = "park" THEN "park" ELSE "field"  \* mutant: unchecked
Publish     == IF holder # None \/ body # "park" THEN "field" ELSE published

Sync ==
  /\ phase = "sync"
  /\ phase' = "idle"
  /\ published' = Publish
  /\ body' = IF holder = None /\ body = "corner" THEN "field" ELSE body
  /\ near' = {} /\ measured' = FALSE /\ winner' = None
  /\ UNCHANGED <<turn, robotVars, holder, pending, pipe, lag, placing, hasty, cmdVars>>

-----------------------------------------------------------------------------
(* Between two frames: a robot's latched command changes. *)
Command(r) ==
  /\ phase = "idle"
  /\ kickCmd' \in {kickCmd \cup {r}, kickCmd \ {r}}
  /\ spin' \in {spin \cup {r}, spin \ {r}}
  /\ UNCHANGED <<frameVars, robotVars, ballVars>>

(* placeBall: takes the ball from everybody and forgets the pending kick.  *)
(* ballPosition is read back before the reset has taken effect.            *)
PlaceBall ==
  /\ phase = "idle"
  /\ pending' = None
  /\ pipe' = Reset(pipe, "field")
  /\ published' = IF body = "park" THEN "park" ELSE "field"
  /\ kicked' = [r \in Robots |-> 0]
  /\ bounced' = {}
  /\ placing' = LandingFrames + 1
  /\ holder' = None
  /\ collider' = {}
  /\ holds' = {}
  /\ hasty' = FALSE
  /\ UNCHANGED <<frameVars, recharge, body, lag, cmdVars>>

(* placeClothLineBall, the P key: sends the body to the touch line and     *)
(* changes nothing else.                                                   *)
PlaceClothLineBall ==
  /\ phase = "idle"
  /\ pipe' = Reset(pipe, "corner")
  /\ hasty' = FALSE
  /\ UNCHANGED <<frameVars, robotVars, holder, pending, body, lag, placing, published,
                 cmdVars>>

FrameStep == Refresh \/ Contest \/ (\E r \in Robots : Move(r)) \/ Sync

Next ==
  \/ FrameStep
  \/ \E r \in Robots : Command(r)
  \/ PlaceBall
  \/ PlaceClothLineBall

(* PhysicsWorld emits frameDone after every step for as long as it runs,   *)
(* and a frame handler is never interrupted.  Commands, placements and     *)
(* keys need never come.                                                   *)
Spec == Init /\ [][Next]_vars /\ WF_vars(FrameStep)

-----------------------------------------------------------------------------
(* Invariants.                                                             *)

(* Exactly the holder's mouth carries the extra ball shape.  A shape left  *)
(* behind by a kick, a release, a lost contest or a placement would stay   *)
(* in front of the robot as an invisible obstacle (Control.qml,            *)
(* resolveBallContest, placeBall).                                         *)
ColliderMatchesHolder == \A r \in Robots : r \in collider <=> holder = r

(* Where the body ends up once every ball.reset() has taken effect. *)
Queued  == {i \in 1 .. lag : pipe[i] # "none"}
Resting == IF Queued = {} THEN body
           ELSE pipe[CHOOSE i \in Queued : \A j \in Queued : j <= i]

(* A ball that nobody holds is on the field or on its way back, but for    *)
(* one case: Control.kick and Control.release put the body back only if    *)
(* they find ball.position parked, so a holder that lets go in the frame   *)
(* after its catch leaves the ball at the parking place if a reset takes   *)
(* two frames.  Take-overs, placements and the P key never do, nor does    *)
(* anybody if it takes one (isParkedBall, resolveBallContest, placeBall).  *)
BallNeverStranded == holder = None /\ Resting = "park" => hasty /\ lag > 1

(* A held ball has its body parked or about to be parked; only the P key,  *)
(* which does not know about holders, puts it elsewhere.                   *)
HeldBallIsParked == holder # None => Resting \in {"park", "corner"}

(* A robot does not hold a ball it has kicked and that is still leaving    *)
(* its mouth, nor one that entered its mouth too fast to be caught.        *)
HolderMayHold == holder # None => kicked[holder] = 0 /\ holder \notin bounced

(* The mouth sensor of the robot that holds the ball reads the ball.       *)
HolderSensesBall == holder # None => holder \in holds

(* At the end of a frame the robot that won the contest with a kick        *)
(* request has fired, unless its kicker was recharging: the holder it took *)
(* the ball from cannot refuse the kick (comment at ballContestWinner).    *)
KickWinnerFires ==
  phase = "sync" /\ winner # None /\ winner \in kickCmd
    => recharge[winner] > 0 \/ kicked[winner] = RecoverFrames + 1

(* When the winner of the contest holds the ball at the end of a frame, no *)
(* other robot's mouth sensor reads it (comment in botMovement: a stale    *)
(* sensor made the other team kick into nothing).                          *)
LosersSenseNothing ==
  phase = "sync" /\ winner # None /\ holder = winner => holds = {winner}

(* At the end of every frame the holder has done what it was told: one     *)
(* whose dribbler is off has let go, unless it waits for its kicker (else  *)
(* the ball was carried for ever, comment in botMovement), and one that is *)
(* asked to kick and can has kicked.                                       *)
HolderObeys ==
  phase = "sync" /\ holder # None =>
    /\ holder \in spin \cup kickCmd
    /\ ~WantsKick(holder)

(* A ball that nobody holds comes back, and the kick that freed it is      *)
(* launched, within `lag' frames: if the ball is still away at a contest,  *)
(* the call that brings it back is among those of the lag - 1 frames to    *)
(* come, so that with a delay of one frame it never is.  Excepted is the   *)
(* ball let go too early, which BallNeverStranded speaks of (Control.kick, *)
(* launch in updateGameObjects).                                           *)
FreeBallIsBack ==
  phase = "contest" /\ holder = None /\ ~hasty /\ (body = "park" \/ pending # None)
    => \E i \in 1 .. lag - 1 : pipe[i] \in {"field", "corner"}

-----------------------------------------------------------------------------
(* Action properties.                                                      *)

(* Sync hands a position on the field to the observer, never the parking   *)
(* place (comment in Sync.updateBall).  With a delay of more than a frame  *)
(* a placement that finds the ball parked is excepted: placeBall reads the *)
(* parking place back, and Sync keeps it until the ball has come out.      *)
PublishedOnField ==
  [][phase = "sync" /\ (lag = 1 \/ placing = 0) => published' = "field"]_vars

(* While a kick waits for its launch nobody holds the ball, as long as no  *)
(* placement comes: its velocity is never kept back and given to the ball  *)
(* long after, when another robot lets it go.  It holds because canRecover *)
(* is told that a launch is pending, and because the launch comes before   *)
(* the next contest, in which any robot near could catch the ball: that    *)
(* takes a delay of one frame.  While a placement has not landed the       *)
(* contest and the windows look at two different balls, and a robot can    *)
(* catch what another has just fired.                                      *)
PendingKickMeansFreeBall ==
  [](placing = 0 /\ lag = 1) => [](pending # None => holder = None)

-----------------------------------------------------------------------------
(* Liveness, under weak fairness of the frame handler.                     *)

(* A placement is over, landed or timed out, unless another one follows,   *)
(* or a robot catches the ball that is being placed and lets it go too     *)
(* early: the body parked without an owner is not measured, and the        *)
(* placement is never looked at again (refreshBall).                       *)
PlacementSettles ==
  (<>[][~PlaceBall]_vars) => (placing > 0 ~> placing = 0 \/ hasty)

-----------------------------------------------------------------------------
(* The ball handling implements the abstract possession of the ball, its   *)
(* promise included that a ball nobody holds comes back to the field, when *)
(* a reset shows in the next frame.  With a longer delay the abstract ball *)
(* just lies on the field: BallNeverStranded says what is promised then.   *)
Possession == INSTANCE BallPossession
                WITH owner   <- IF lag = 1 THEN holder ELSE None,
                     onField <- lag = 1 => body # "park"

ImplementsPossession == Possession!Spec
=============================================================================

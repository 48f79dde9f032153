----------------------------- MODULE BallFriction -----------------------------
(***************************************************************************)
(* How a free ball slows down (applyBallFriction in GameObjects.qml).      *)
(* There is no floor friction in the physics engine: once a frame the      *)
(* handler measures the ball's velocity from two positions and gives the   *)
(* body an impulse.  A launched ball slides, losing SlideDecel per tick,   *)
(* until it is down to a fixed share of its launch speed, and rolls from   *)
(* there, losing RollDecel per tick.  The client plans passes with the     *)
(* same three numbers, so the curve must not depend on how time is cut     *)
(* into frames.                                                            *)
(*                                                                         *)
(* The ball moves on a line, to the right (positive) or to the left.       *)
(* Speeds and ticks are integers; a launch speed whose slide ends on a     *)
(* tick is exact, any other is rounded down to one.  The handler skips     *)
(* balls that are held, in the air or not measured: Unseen.                *)
(*                                                                         *)
(* The operators marked "mutant" are plausible mistakes, each next to the  *)
(* definition it would replace; no action uses them.                       *)
(***************************************************************************)
EXTENDS Integers

CONSTANTS
  Launches,                \* the speeds a kick, a placement or a hit can give
  FrameTimes,              \* the ticks a frame can last
  SlideDecel, RollDecel,   \* AccSlideMmS2, AccRollMmS2, per tick
  KNum, KDen,              \* KSwitch = KNum / KDen
  Crawl,                   \* the 20 mm/s below which the ball is stopped
  ImpactMin,               \* the 200 mm/s above which an impact is looked for
  Slack                    \* the 5 mm/s of jitter a measured speed may have

ASSUME FrictionAssumption ==
  /\ Launches \subseteq Nat \ {0}
  /\ FrameTimes \subseteq Nat \ {0}
  /\ SlideDecel \in Nat \ {0} /\ RollDecel \in Nat \ {0}
  /\ KNum \in Nat /\ KDen \in Nat \ {0} /\ KNum <= KDen
  /\ Crawl \in Nat \ {0} /\ ImpactMin \in Nat /\ Slack \in Nat

(* The speed of a velocity. *)
Signed(x)     == x                             \* mutant: the sign stays
Abs(x)        == IF x < 0 THEN -x ELSE x

Least(x, y)   == IF x < y THEN x ELSE y
Largest(x, y) == IF x < y THEN y ELSE x
Directed(v, speed) == IF v < 0 THEN -speed ELSE speed

Velocities == {0} \cup Launches \cup {-s : s \in Launches}

VARIABLES
  vel,         \* the velocity of the body
  prev,        \* prevBallVelocity: the velocity measured last
  launch,      \* ballLaunchSpeed
  rolling,     \* ballRolling
  since,       \* history: ticks of friction since the launch, while steady
  steady,      \* history: no force acted since the launch was counted
  fresh        \* history: something acted on the ball since it was measured

ballVars == <<vel, prev, launch, rolling>>
vars     == <<ballVars, since, steady, fresh>>

TypeOK ==
  /\ vel \in Int
  /\ prev \in Int
  /\ launch \in Nat
  /\ rolling \in BOOLEAN
  /\ since \in Nat
  /\ steady \in BOOLEAN
  /\ fresh \in BOOLEAN

Init ==
  /\ vel = 0 /\ prev = 0
  /\ launch = 0 /\ rolling = TRUE
  /\ since = 0 /\ steady = TRUE /\ fresh = FALSE

-----------------------------------------------------------------------------
(* The two phases.                                                         *)
Switch(v0)    == (KNum * v0) \div KDen
SlideTime(v0) == (v0 - Switch(v0)) \div SlideDecel

(* How much of a frame a ball of speed v slides. *)
Sliding(v, v0, roll, dt) ==
  IF ~roll /\ v > Switch(v0)
    THEN Least(dt, (v - Switch(v0)) \div SlideDecel)
    ELSE 0

(* The frame that crosses the switch is cut there: the rest of it rolls. *)
SlowedUncut(v, v0, roll, dt) ==                \* mutant: the rest of the frame is lost
  LET slid == Sliding(v, v0, roll, dt)
  IN  IF slid > 0 THEN v - SlideDecel * slid ELSE Largest(0, v - RollDecel * dt)

SlowedBelowZero(v, v0, roll, dt) ==            \* mutant: not stopped at zero
  LET slid == Sliding(v, v0, roll, dt)
  IN  (v - SlideDecel * slid) - RollDecel * (dt - slid)

Slowed(v, v0, roll, dt) ==
  LET slid == Sliding(v, v0, roll, dt)
      w    == v - SlideDecel * slid
  IN  IF dt > slid THEN Largest(0, w - RollDecel * (dt - slid)) ELSE w

RollsNow(v, v0, roll, dt) ==
  roll \/ v - SlideDecel * Sliding(v, v0, roll, dt) <= Switch(v0)

(* An impact: the direction turned, or the speed jumped by half. *)
Impact(m) ==
  /\ Abs(prev) > ImpactMin /\ Abs(m) > ImpactMin
  /\ m * prev < 0 \/ 2 * Abs(m) > 3 * Abs(prev)

(* Faster than the launch: an outside force, counted as a new launch. *)
FasterThanSwitch(m) == Abs(m) > Switch(launch) + Slack   \* mutant: the wrong reference
Faster(m) == Abs(m) > launch + Slack

-----------------------------------------------------------------------------
(* What a step can measure of a body whose velocity goes from old to new.  *)
Measurable(old, new) == {old, new} \cup (IF old * new < 0 THEN {0} ELSE {})

(* applyBallFriction of a measured velocity m, for a body of velocity new. *)
Rebound(m, new) ==
  /\ Impact(m)
  /\ vel' = new
  /\ launch' = Abs(m) /\ rolling' = FALSE
  /\ since' = 0
  /\ steady' = (m = new)

(* The impulse against the measured velocity. *)
StillCrawling(m, new) == new                   \* mutant: nothing stops the crawling ball
Stopped(m, new) == new - m

Rest(m, new) ==
  /\ ~Impact(m) /\ Abs(m) < Crawl
  /\ vel' = Stopped(m, new)
  /\ launch' = 0 /\ rolling' = TRUE
  /\ since' = 0
  /\ steady' = (m = new)

Brake(m, new, dt) ==
  /\ ~Impact(m) /\ Abs(m) >= Crawl
  /\ LET v0   == IF Faster(m) THEN Abs(m) ELSE launch
         roll == rolling /\ ~Faster(m)
     IN  /\ launch' = v0
         /\ vel' = new + Directed(m, Slowed(Abs(m), v0, roll, dt)) - m
         /\ rolling' = RollsNow(Abs(m), v0, roll, dt)
         /\ steady' = (m = new /\ (Faster(m) \/ (steady /\ new = vel)))
         /\ since' = IF ~steady' THEN 0 ELSE IF Faster(m) THEN dt ELSE since + dt

(* A frame of dt ticks.  A wall, a robot or another force may change the   *)
(* body's velocity to new while it lasts.                                  *)
Frame(m, new, dt) ==
  /\ m \in Measurable(vel, new)
  /\ prev' = m
  /\ fresh' = (new # vel)
  /\ Rebound(m, new) \/ Rest(m, new) \/ Brake(m, new, dt)

FreeFrame == \E dt \in FrameTimes : Frame(vel, vel, dt)
HitFrame  == \E new \in Velocities \ {vel}, dt \in FrameTimes :
               \E m \in Measurable(vel, new) : Frame(m, new, dt)

(* A frame in which friction is skipped: the ball is held, in the air or   *)
(* not measured, whatever happens to it.                                   *)
Unseen ==
  /\ vel' \in Velocities
  /\ fresh' = TRUE
  /\ steady' = FALSE /\ since' = 0
  /\ UNCHANGED <<prev, launch, rolling>>

(* The launch of a deferred kick in updateGameObjects. *)
Kick ==
  /\ vel' \in Velocities \ {0}
  /\ launch' = Abs(vel') /\ rolling' = FALSE
  /\ since' = 0 /\ steady' = TRUE /\ fresh' = TRUE
  /\ UNCHANGED prev

(* placeBall, with a velocity or without. *)
PlaceBall ==
  /\ prev' = 0
  /\ since' = 0 /\ steady' = TRUE /\ fresh' = TRUE
  /\ \/ vel' \in Velocities /\ launch' = Abs(vel') /\ rolling' = FALSE
     \/ vel' = 0 /\ launch' = 0 /\ rolling' = TRUE

Disturbance == HitFrame \/ Unseen \/ Kick \/ PlaceBall

Next == FreeFrame \/ Disturbance

(* PhysicsWorld goes on stepping; nobody need touch the ball. *)
Spec == Init /\ [][Next]_vars /\ WF_vars(FreeFrame)

-----------------------------------------------------------------------------
(* The speed RAVEN's BallSpeedModel gives t ticks after a launch at v0.    *)
SpeedAt(v0, t) ==
  IF t <= SlideTime(v0)
    THEN v0 - SlideDecel * t
    ELSE Largest(0, Switch(v0) - RollDecel * (t - SlideTime(v0)))

Exact(v0) == KDen * Switch(v0) = KNum * v0 /\ SlideDecel * SlideTime(v0) = v0 - Switch(v0)

(* A ball nobody touches follows the two-phase curve of its launch,        *)
(* however time is cut into frames (comment above applyBallFriction), and  *)
(* the phase flag agrees with the curve.                                   *)
FollowsBallModel ==
  steady /\ Exact(launch) =>
    /\ Abs(vel) = SpeedAt(launch, since)
    /\ since > 0 => (rolling <=> since >= SlideTime(launch))

(* Friction alone never speeds the ball up and never turns it round, and   *)
(* from the second frame after a disturbance on it slows the ball in every *)
(* frame until it lies still.                                              *)
FrictionOnlyBrakes ==
  [][FreeFrame => /\ Abs(vel') <= Abs(vel) /\ vel * vel' >= 0
                  /\ ~fresh /\ vel # 0 => Abs(vel') < Abs(vel)]_vars

(* Only an outside force starts a new launch: friction itself is never     *)
(* taken for one, or the ball would slide again and stop short.            *)
OnlyForcesRelaunch ==
  [][FreeFrame /\ ~fresh /\ steady => launch' \in {launch, 0}]_vars

(* A ball nobody touches comes to rest. *)
ComesToRest == (<>[][~Disturbance]_vars) => <>[](vel = 0)
=============================================================================

-------------------------- MODULE BallFrictionProofs --------------------------
(***************************************************************************)
(* Proofs about BallFriction: the speed of a ball nobody touches is that   *)
(* of the two-phase curve, for any decelerations, any switch ratio and any *)
(* lengths of frames.                                                      *)
(***************************************************************************)
EXTENDS BallFriction, TLAPS

(* A product divided by one of its factors. *)
LEMMA DivOfProduct ==
  ASSUME NEW a \in Nat \ {0}, NEW k \in Nat
  PROVE  (a * k) \div a = k
  OBVIOUS

(* The switch lies between rest and the launch speed. *)
LEMMA SwitchType ==
  ASSUME NEW v0 \in Nat
  PROVE  Switch(v0) \in Nat /\ Switch(v0) <= v0
  BY FrictionAssumption DEF Switch

LEMMA SlideTimeType ==
  ASSUME NEW v0 \in Nat
  PROVE  SlideTime(v0) \in Nat
  BY FrictionAssumption, SwitchType DEF SlideTime

(* An exact launch: where the slide is t ticks in, the rest of it takes    *)
(* the ticks that are left.                                                *)
LEMMA SlideLeft ==
  ASSUME NEW v0 \in Nat, Exact(v0), NEW t \in Nat, t <= SlideTime(v0)
  PROVE  /\ v0 - SlideDecel * t = Switch(v0) + SlideDecel * (SlideTime(v0) - t)
         /\ ((v0 - SlideDecel * t) - Switch(v0)) \div SlideDecel = SlideTime(v0) - t
         /\ v0 - SlideDecel * t >= Switch(v0)
         /\ v0 - SlideDecel * t > Switch(v0) <=> t < SlideTime(v0)
<1> DEFINE left == SlideTime(v0) - t
<1>1. /\ left \in Nat /\ SlideTime(v0) \in Nat /\ Switch(v0) \in Nat
      /\ SlideDecel \in Nat \ {0}
  BY SwitchType, SlideTimeType, FrictionAssumption
<1>2. SlideDecel * SlideTime(v0) = v0 - Switch(v0)
  BY DEF Exact
<1>3. SlideDecel * left = SlideDecel * SlideTime(v0) - SlideDecel * t
  BY <1>1
<1>4. v0 - SlideDecel * t = Switch(v0) + SlideDecel * left
  BY <1>1, <1>2, <1>3
<1>5. SlideDecel * left \in Nat /\ (SlideDecel * left = 0 <=> left = 0)
  BY <1>1
<1>6. ((v0 - SlideDecel * t) - Switch(v0)) \div SlideDecel = left
  <2>1. (v0 - SlideDecel * t) - Switch(v0) = SlideDecel * left
    BY <1>1, <1>4, <1>5
  <2>2. QED
    BY <2>1, <1>1, DivOfProduct
<1>7. QED
  BY <1>1, <1>4, <1>5, <1>6

(* One more frame takes the curve's speed after t ticks to its speed after *)
(* t + dt: the frame that crosses the switch is cut in the right place.    *)
LEMMA CurveAdvances ==
  ASSUME NEW v0 \in Nat, Exact(v0), NEW t \in Nat, NEW dt \in Nat \ {0},
         NEW roll \in BOOLEAN,
         roll => t >= SlideTime(v0),
         ~roll => t < SlideTime(v0) \/ t = 0
  PROVE  /\ Slowed(SpeedAt(v0, t), v0, roll, dt) = SpeedAt(v0, t + dt)
         /\ RollsNow(SpeedAt(v0, t), v0, roll, dt) <=> t + dt >= SlideTime(v0)
<1> DEFINE S == SlideTime(v0)
<1> DEFINE W == Switch(v0)
<1>0. /\ S \in Nat /\ W \in Nat /\ W <= v0
      /\ SlideDecel \in Nat \ {0} /\ RollDecel \in Nat \ {0}
  BY SwitchType, SlideTimeType, FrictionAssumption
<1>1. CASE t < S
  <2>1. /\ ~roll /\ SpeedAt(v0, t) = v0 - SlideDecel * t
        /\ v0 - SlideDecel * t > W
        /\ ((v0 - SlideDecel * t) - W) \div SlideDecel = S - t
    BY <1>0, <1>1, SlideLeft DEF SpeedAt
  <2>2. Sliding(SpeedAt(v0, t), v0, roll, dt) = Least(dt, S - t)
    BY <2>1 DEF Sliding
  <2>3. CASE dt <= S - t
    <3>1. Sliding(SpeedAt(v0, t), v0, roll, dt) = dt
      BY <1>0, <2>2, <2>3 DEF Least
    <3>2. (v0 - SlideDecel * t) - SlideDecel * dt = v0 - SlideDecel * (t + dt)
      BY <1>0
    <3>3. v0 - SlideDecel * (t + dt) <= W <=> t + dt >= S
      <4>1. v0 - SlideDecel * (t + dt) >= W /\ (v0 - SlideDecel * (t + dt) > W <=> t + dt < S)
        BY <1>0, <2>3, SlideLeft, t + dt <= S, t + dt \in Nat
      <4>2. v0 - SlideDecel * (t + dt) \in Int
        BY <1>0
      <4>3. QED
        BY <1>0, <4>1, <4>2, <2>3
    <3>4. SpeedAt(v0, t + dt) = v0 - SlideDecel * (t + dt)
      BY <1>0, <2>3 DEF SpeedAt
    <3>5. QED
      BY <1>0, <2>1, <3>1, <3>2, <3>3, <3>4 DEF Slowed, RollsNow
  <2>4. CASE dt > S - t
    <3>1. Sliding(SpeedAt(v0, t), v0, roll, dt) = S - t
      BY <1>0, <1>1, <2>2, <2>4 DEF Least
    <3>2. (v0 - SlideDecel * t) - SlideDecel * (S - t) = W
      <4>1. v0 - SlideDecel * t = W + SlideDecel * (S - t)
        BY <1>0, <1>1, SlideLeft
      <4>2. SlideDecel * (S - t) \in Int
        BY <1>0
      <4>3. QED
        BY <1>0, <4>1, <4>2
    <3>3. SpeedAt(v0, t + dt) = Largest(0, W - RollDecel * ((t + dt) - S))
      BY <1>0, <2>4 DEF SpeedAt
    <3>4. (t + dt) - S = dt - (S - t)
      BY <1>0
    <3>5. QED
      BY <1>0, <2>1, <2>4, <3>1, <3>2, <3>3, <3>4 DEF Slowed, RollsNow
  <2>5. QED
    BY <1>0, <2>3, <2>4
<1>2. CASE t >= S
  <2>1. SpeedAt(v0, t) = Largest(0, W - RollDecel * (t - S)) /\ SpeedAt(v0, t) <= W
    <3>1. CASE t = S
      <4>1. v0 - SlideDecel * t = W
        BY <1>0, <3>1 DEF Exact
      <4>2. QED
        BY <1>0, <3>1, <4>1 DEF SpeedAt, Largest
    <3>2. CASE t > S
      <4>1. RollDecel * (t - S) \in Nat
        BY <1>0, <3>2
      <4>2. QED
        BY <1>0, <3>2, <4>1 DEF SpeedAt, Largest
    <3>3. QED
      BY <1>0, <1>2, <3>1, <3>2
  <2>2. SpeedAt(v0, t) \in Int
    BY <1>0, <2>1 DEF Largest
  <2>3. Sliding(SpeedAt(v0, t), v0, roll, dt) = 0
    BY <1>0, <2>1, <2>2 DEF Sliding
  <2>4. Slowed(SpeedAt(v0, t), v0, roll, dt) = Largest(0, SpeedAt(v0, t) - RollDecel * dt)
    BY <1>0, <2>2, <2>3 DEF Slowed
  <2>5. RollDecel * (t - S) + RollDecel * dt = RollDecel * ((t + dt) - S)
    BY <1>0
  <2>6. SpeedAt(v0, t + dt) = Largest(0, W - RollDecel * ((t + dt) - S))
    BY <1>0, <1>2 DEF SpeedAt
  <2>7. /\ RollDecel * (t - S) \in Nat /\ RollDecel * dt \in Nat
    BY <1>0, <1>2
  <2>8. Largest(0, Largest(0, W - RollDecel * (t - S)) - RollDecel * dt)
          = Largest(0, W - (RollDecel * (t - S) + RollDecel * dt))
    BY <1>0, <2>7 DEF Largest
  <2>9. RollsNow(SpeedAt(v0, t), v0, roll, dt)
    BY <1>0, <2>1, <2>2, <2>3 DEF RollsNow
  <2>10. QED
    BY <1>0, <1>2, <2>1, <2>4, <2>5, <2>6, <2>8, <2>9
<1>3. QED
  BY <1>0, <1>1, <1>2

-----------------------------------------------------------------------------
LEMMA SameSign ==
  ASSUME NEW x \in Int, NEW y \in Int, x >= 0 => y >= 0, x <= 0 => y <= 0
  PROVE  x * y >= 0
<1>1. CASE x >= 0
  BY <1>1
<1>2. CASE x <= 0
  <2>1. (-x) \in Nat /\ (-y) \in Nat
    BY <1>2
  <2>2. (-x) * (-y) \in Nat /\ (-x) * (-y) = x * y
    BY <2>1
  <2>3. QED
    BY <2>2
<1>3. QED
  BY <1>1, <1>2

LEMMA VelocityType == Velocities \subseteq Int
<1>1. ASSUME NEW v \in Velocities PROVE v \in Int
  <2>1. CASE v \in {-s : s \in Launches}
    <3>1. PICK s \in Launches : v = -s
      BY <2>1
    <3>2. QED
      BY <3>1, FrictionAssumption
  <2>2. QED
    BY <2>1, FrictionAssumption DEF Velocities
<1>2. QED
  BY <1>1

(* Braking only brakes.                                                    *)
LEMMA SlowedRange ==
  ASSUME NEW v \in Nat, NEW v0 \in Nat, NEW roll \in BOOLEAN, NEW dt \in FrameTimes
  PROVE  Slowed(v, v0, roll, dt) \in 0 .. v
<1> DEFINE slid == Sliding(v, v0, roll, dt)
<1>0. /\ Switch(v0) \in Nat /\ dt \in Nat \ {0}
      /\ SlideDecel \in Nat \ {0} /\ RollDecel \in Nat \ {0}
  BY SwitchType, FrictionAssumption
<1>1. slid \in 0 .. dt /\ SlideDecel * slid <= v
  <2>1. CASE ~roll /\ v > Switch(v0)
    <3> DEFINE q == (v - Switch(v0)) \div SlideDecel
    <3>1. q \in Nat /\ SlideDecel * q <= v - Switch(v0)
      BY <1>0, <2>1
    <3>2. slid \in 0 .. dt /\ slid <= q
      BY <1>0, <2>1, <3>1 DEF Sliding, Least
    <3>3. SlideDecel * slid <= SlideDecel * q
      BY <1>0, <3>1, <3>2
    <3>4. SlideDecel * slid \in Int /\ SlideDecel * q \in Int
      BY <1>0, <3>1, <3>2
    <3>5. QED
      BY <1>0, <3>1, <3>2, <3>3, <3>4
  <2>2. CASE ~(~roll /\ v > Switch(v0))
    BY <1>0, <2>2 DEF Sliding
  <2>3. QED
    BY <2>1, <2>2
<1>2. v - SlideDecel * slid \in 0 .. v
  BY <1>0, <1>1
<1>3. RollDecel * (dt - slid) \in Nat
  BY <1>0, <1>1
<1>4. QED
  BY <1>0, <1>1, <1>2, <1>3 DEF Slowed, Largest

(* A ball that moves is slower after any frame. *)
LEMMA SlowedStrictly ==
  ASSUME NEW v \in Nat \ {0}, NEW v0 \in Nat, NEW roll \in BOOLEAN, NEW dt \in FrameTimes
  PROVE  Slowed(v, v0, roll, dt) < v
<1> DEFINE slid == Sliding(v, v0, roll, dt)
<1>0. /\ Switch(v0) \in Nat /\ dt \in Nat \ {0}
      /\ SlideDecel \in Nat \ {0} /\ RollDecel \in Nat \ {0}
  BY SwitchType, FrictionAssumption
<1>1. slid \in 0 .. dt
  <2>1. CASE ~roll /\ v > Switch(v0)
    <3>1. (v - Switch(v0)) \div SlideDecel \in Nat
      BY <1>0, <2>1
    <3>2. QED
      BY <1>0, <2>1, <3>1 DEF Sliding, Least
  <2>2. CASE ~(~roll /\ v > Switch(v0))
    BY <1>0, <2>2 DEF Sliding
  <2>3. QED
    BY <2>1, <2>2
<1>2. Slowed(v, v0, roll, dt) =
        IF dt > slid THEN Largest(0, (v - SlideDecel * slid) - RollDecel * (dt - slid))
                     ELSE v - SlideDecel * slid
  BY DEF Slowed
<1> HIDE DEF slid
<1>3. SlideDecel * slid \in Nat /\ (slid > 0 => SlideDecel * slid > 0)
  BY <1>0, <1>1
<1>4. CASE dt > slid
  <2>1. RollDecel * (dt - slid) \in Nat /\ RollDecel * (dt - slid) > 0
    <3>1. dt - slid \in Nat /\ dt - slid > 0
      BY <1>0, <1>1, <1>4
    <3>2. QED
      BY <1>0, <3>1
  <2>2. QED
    BY <1>2, <1>3, <1>4, <2>1 DEF Largest
<1>5. CASE ~(dt > slid)
  BY <1>0, <1>1, <1>2, <1>3, <1>5
<1>6. QED
  BY <1>4, <1>5

LEMMA AbsType ==
  ASSUME NEW x \in Int
  PROVE  Abs(x) \in Nat
  BY DEF Abs

(* An undisturbed frame leaves a velocity between rest and what it was. *)
LEMMA FreeFrameBrakes ==
  ASSUME TypeOK, NEW dt \in FrameTimes, Frame(vel, vel, dt)
  PROVE  /\ vel' \in Int
         /\ Abs(vel') <= Abs(vel)
         /\ vel >= 0 => vel' >= 0
         /\ vel <= 0 => vel' <= 0
<1>1. vel \in Int /\ Abs(vel) \in Nat /\ launch \in Nat /\ rolling \in BOOLEAN
  BY AbsType DEF TypeOK
<1>2. CASE Rebound(vel, vel)
  BY <1>1, <1>2 DEF Rebound
<1>3. CASE Rest(vel, vel)
  BY <1>1, <1>3 DEF Rest, Stopped, Abs
<1>4. CASE Brake(vel, vel, dt)
  <2> DEFINE v0 == IF Faster(vel) THEN Abs(vel) ELSE launch
             roll == rolling /\ ~Faster(vel)
             slow == Slowed(Abs(vel), v0, roll, dt)
  <2>1. slow \in 0 .. Abs(vel)
    BY <1>1, SlowedRange
  <2>2. vel' = vel + Directed(vel, slow) - vel
    BY <1>4 DEF Brake
  <2> HIDE DEF slow
  <2>3. QED
    BY <1>1, <2>1, <2>2 DEF Abs, Directed
<1>5. QED
  BY <1>2, <1>3, <1>4 DEF Frame

(* Every state of a ball is well typed, for any frames and any hits. *)
LEMMA FrictionTypeStep == TypeOK /\ [Next]_vars => TypeOK'
<1> SUFFICES ASSUME TypeOK, [Next]_vars
             PROVE  TypeOK'
  OBVIOUS
<1>0. Velocities \subseteq Int
  BY VelocityType
<1>1. ASSUME NEW m, NEW new \in Int, NEW dt \in FrameTimes, Frame(m, new, dt)
      PROVE  TypeOK'
  <2>1. m \in Int /\ Abs(m) \in Nat
    BY <1>1, AbsType DEF Frame, Measurable, TypeOK
  <2>2. dt \in Nat
    BY FrictionAssumption
  <2>3. prev' \in Int /\ fresh' \in BOOLEAN
    BY <1>1, <2>1 DEF Frame
  <2>4. CASE Rebound(m, new)
    BY <1>1, <2>1, <2>3, <2>4 DEF Rebound, TypeOK
  <2>5. CASE Rest(m, new)
    BY <1>1, <2>1, <2>3, <2>5 DEF Rest, Stopped, TypeOK
  <2>6. CASE Brake(m, new, dt)
    <3> DEFINE v0 == IF Faster(m) THEN Abs(m) ELSE launch
               roll == rolling /\ ~Faster(m)
               slow == Slowed(Abs(m), v0, roll, dt)
    <3>1. v0 \in Nat /\ roll \in BOOLEAN
      BY <2>1 DEF TypeOK
    <3>2. slow \in Int
      <4>1. slow \in 0 .. Abs(m)
        BY <2>1, <3>1, SlowedRange
      <4> HIDE DEF slow
      <4>2. QED
        BY <2>1, <4>1
    <3>3. vel' = new + Directed(m, slow) - m /\ launch' = v0
      BY <2>6 DEF Brake
    <3>4. vel' \in Int
      <4> HIDE DEF slow
      <4>1. QED
        BY <1>1, <2>1, <3>2, <3>3 DEF Directed
    <3>5. rolling' \in BOOLEAN
      BY <2>6, <3>1 DEF Brake, RollsNow
    <3>6. steady' \in BOOLEAN /\ since' \in Nat
      BY <2>2, <2>6 DEF Brake, TypeOK
    <3>7. QED
      BY <2>3, <3>1, <3>3, <3>4, <3>5, <3>6 DEF TypeOK
  <2>7. QED
    BY <1>1, <2>4, <2>5, <2>6 DEF Frame
<1>2. CASE FreeFrame
  BY <1>1, <1>2 DEF FreeFrame, TypeOK
<1>3. CASE HitFrame
  BY <1>0, <1>1, <1>3 DEF HitFrame
<1>4. CASE Unseen
  BY <1>0, <1>4 DEF Unseen, TypeOK
<1>5. CASE Kick
  <2>1. rolling' \in BOOLEAN /\ steady' \in BOOLEAN /\ fresh' \in BOOLEAN
    BY <1>5, Zenon DEF Kick
  <2>2. vel' \in Int /\ launch' \in Nat /\ since' \in Nat /\ prev' = prev
    BY <1>0, <1>5, AbsType DEF Kick
  <2>3. QED
    BY <2>1, <2>2 DEF TypeOK
<1>6. CASE PlaceBall
  <2>1. rolling' \in BOOLEAN /\ steady' \in BOOLEAN /\ fresh' \in BOOLEAN
    BY <1>6, Zenon DEF PlaceBall
  <2>2. vel' \in Int /\ prev' \in Int /\ launch' \in Nat /\ since' \in Nat
    <3>1. CASE vel' \in Velocities /\ launch' = Abs(vel')
      BY <1>0, <1>6, <3>1, AbsType DEF PlaceBall
    <3>2. CASE vel' = 0 /\ launch' = 0
      BY <1>6, <3>2 DEF PlaceBall
    <3>3. QED
      BY <1>6, <3>1, <3>2 DEF PlaceBall
  <2>3. QED
    BY <2>1, <2>2 DEF TypeOK
<1>7. CASE UNCHANGED vars
  BY <1>7 DEF vars, ballVars, TypeOK
<1>8. QED
  BY <1>2, <1>3, <1>4, <1>5, <1>6, <1>7 DEF Next, Disturbance

(* applyBallFriction: the ball's state is well typed in every behaviour. *)
THEOREM FrictionTypeCorrect == Spec => []TypeOK
<1>1. Init => TypeOK
  <2>1. Init => rolling \in BOOLEAN /\ steady \in BOOLEAN /\ fresh \in BOOLEAN
    BY Zenon DEF Init
  <2>2. QED
    BY <2>1 DEF Init, TypeOK
<1>2. QED
  BY <1>1, FrictionTypeStep, PTL DEF Spec

-----------------------------------------------------------------------------
(* The inductive invariant.  While nothing touches the ball its speed is   *)
(* at most what was measured last and at most its launch speed, so that    *)
(* the handler takes it neither for an impact nor for a new launch; then   *)
(* the flag and the speed go through the curve together.                   *)
MeasuredFaster ==
  ~fresh => /\ Abs(vel) <= Abs(prev)
            /\ vel > 0 => prev > 0
            /\ vel < 0 => prev < 0
BelowLaunch == steady => Abs(vel) <= launch
OnCurve ==
  steady /\ Exact(launch) =>
    /\ Abs(vel) = SpeedAt(launch, since)
    /\ launch > 0 => /\ rolling => since >= SlideTime(launch)
                     /\ ~rolling => since < SlideTime(launch) \/ since = 0
    /\ launch = 0 => since = 0
CurveInv == MeasuredFaster /\ BelowLaunch /\ OnCurve

(* A launch that has just been counted is at the start of its curve. *)
LEMMA CurveStarts ==
  ASSUME NEW v0 \in Nat
  PROVE  SpeedAt(v0, 0) = v0
  BY SlideTimeType, FrictionAssumption DEF SpeedAt

(* The velocity a braked ball is left with, and its size. *)
LEMMA Directing ==
  ASSUME NEW m \in Int, NEW speed \in Nat
  PROVE  /\ m + Directed(m, speed) - m = Directed(m, speed)
         /\ Directed(m, speed) \in Int
         /\ Abs(Directed(m, speed)) = speed
  BY DEF Directed, Abs

(* A frame that brakes the ball, seen as a step along the curve of v0 from *)
(* tick t on.                                                              *)
LEMMA BrakeOnCurve ==
  ASSUME NEW m \in Int, NEW v0 \in Nat, NEW t \in Nat, NEW roll \in BOOLEAN,
         NEW dt \in FrameTimes, Exact(v0), Abs(m) = SpeedAt(v0, t),
         roll => t >= SlideTime(v0),
         ~roll => t < SlideTime(v0) \/ t = 0
  PROVE  /\ Abs(m + Directed(m, Slowed(Abs(m), v0, roll, dt)) - m) = SpeedAt(v0, t + dt)
         /\ RollsNow(Abs(m), v0, roll, dt) <=> t + dt >= SlideTime(v0)
<1> DEFINE slow == Slowed(Abs(m), v0, roll, dt)
<1>1. dt \in Nat \ {0} /\ Abs(m) \in Nat
  BY FrictionAssumption, AbsType
<1>2. slow = SpeedAt(v0, t + dt) /\ (RollsNow(Abs(m), v0, roll, dt) <=> t + dt >= SlideTime(v0))
  BY <1>1, CurveAdvances
<1>3. slow \in Nat
  <2>1. slow \in 0 .. Abs(m)
    BY <1>1, SlowedRange
  <2> HIDE DEF slow
  <2>2. QED
    BY <1>1, <2>1
<1> HIDE DEF slow
<1>4. QED
  BY <1>2, <1>3, Directing DEF slow

(* Every frame, with a hit or without, keeps the invariant. *)
LEMMA FrameKeepsCurveInv ==
  ASSUME TypeOK, CurveInv, NEW m, NEW new \in Int, NEW dt \in FrameTimes, Frame(m, new, dt)
  PROVE  CurveInv'
<1>1. m \in Int /\ Abs(m) \in Nat /\ launch \in Nat /\ since \in Nat /\ vel \in Int
  BY AbsType DEF Frame, Measurable, TypeOK
<1>2. MeasuredFaster'
  <2> SUFFICES ASSUME ~fresh'
               PROVE  MeasuredFaster'
    BY DEF MeasuredFaster
  <2>1. new = vel
    BY DEF Frame
  <2>2. m = vel
    <3>1. ~(vel * vel < 0)
      BY <1>1, SameSign
    <3>2. QED
      BY <2>1, <3>1 DEF Frame, Measurable
  <2>3. Frame(vel, vel, dt) /\ prev' = vel
    BY <2>1, <2>2 DEF Frame
  <2>4. QED
    BY <1>1, <2>3, FreeFrameBrakes DEF MeasuredFaster
<1>3. CASE Rebound(m, new)
  <2>1. steady' => vel' = m
    BY <1>3 DEF Rebound
  <2>2. launch' = Abs(m) /\ launch' \in Nat /\ since' = 0 /\ ~rolling'
    BY <1>1, <1>3 DEF Rebound
  <2>3. BelowLaunch'
    BY <1>1, <2>1, <2>2 DEF BelowLaunch
  <2>4. OnCurve'
    BY <1>1, <2>1, <2>2, CurveStarts DEF OnCurve
  <2>5. QED
    BY <1>2, <2>3, <2>4 DEF CurveInv
<1>4. CASE Rest(m, new)
  <2>1. steady' => vel' = 0
    <3>1. steady' => m = new
      BY <1>4, Zenon DEF Rest
    <3>2. vel' = new - m
      BY <1>4 DEF Rest, Stopped
    <3>3. QED
      BY <1>1, <3>1, <3>2
  <2>2. launch' = 0 /\ since' = 0
    BY <1>4 DEF Rest
  <2>3. Abs(0) = 0
    BY DEF Abs
  <2>4. BelowLaunch'
    BY <2>1, <2>2, <2>3 DEF BelowLaunch
  <2>5. OnCurve'
    BY <2>1, <2>2, <2>3, CurveStarts DEF OnCurve
  <2>6. QED
    BY <1>2, <2>4, <2>5 DEF CurveInv
<1>5. CASE Brake(m, new, dt)
  <2> DEFINE v0 == IF Faster(m) THEN Abs(m) ELSE launch
             roll == rolling /\ ~Faster(m)
             slow == Slowed(Abs(m), v0, roll, dt)
             t == IF Faster(m) THEN 0 ELSE since
  <2>1. /\ launch' = v0 /\ v0 \in Nat /\ t \in Nat /\ roll \in BOOLEAN
        /\ vel' = new + Directed(m, slow) - m
        /\ rolling' = RollsNow(Abs(m), v0, roll, dt)
        /\ steady' = (m = new /\ (Faster(m) \/ (steady /\ new = vel)))
        /\ Abs(m) > 0
    BY <1>1, <1>5, FrictionAssumption DEF Brake, TypeOK
  <2>2. steady' => vel' = m + Directed(m, slow) - m
    BY <2>1
  <2>3. steady' => Abs(m) <= v0
    <3>1. CASE Faster(m)
      BY <1>1, <3>1
    <3>2. CASE ~Faster(m)
      BY <1>1, <2>1, <3>2 DEF CurveInv, BelowLaunch
    <3>3. QED
      BY <3>1, <3>2
  <2>4. slow \in 0 .. Abs(m)
    BY <1>1, <2>1, SlowedRange
  <2>5. steady' => since' = t + dt
    BY <1>5, FrictionAssumption DEF Brake
  <2>6. BelowLaunch'
    <3> HIDE DEF slow, v0
    <3>1. slow \in Nat
      BY <1>1, <2>4
    <3>2. QED
      BY <1>1, <2>1, <2>2, <2>3, <2>4, <3>1, Directing DEF BelowLaunch
  <2>7. ASSUME steady', Exact(v0)
        PROVE  /\ Abs(m) = SpeedAt(v0, t)
               /\ roll => t >= SlideTime(v0)
               /\ ~roll => t < SlideTime(v0) \/ t = 0
    <3>1. CASE Faster(m)
      BY <1>1, <3>1, CurveStarts
    <3>2. CASE ~Faster(m)
      <4>1. steady /\ m = new /\ new = vel
        BY <2>1, <2>7, <3>2, Zenon
      <4>2. v0 = launch /\ t = since /\ (roll <=> rolling)
        BY <3>2
      <4>3. launch > 0 /\ Exact(launch)
        BY <1>1, <2>1, <2>3, <2>7, <4>2
      <4>4. /\ Abs(vel) = SpeedAt(launch, since)
            /\ rolling => since >= SlideTime(launch)
            /\ ~rolling => since < SlideTime(launch) \/ since = 0
        BY <4>1, <4>3 DEF CurveInv, OnCurve
      <4> HIDE DEF v0, t, roll
      <4>5. QED
        BY <4>1, <4>2, <4>4
    <3>3. QED
      BY <3>1, <3>2
  <2>8. OnCurve'
    <3> SUFFICES ASSUME steady', Exact(v0)
                 PROVE  OnCurve'
      BY <2>1 DEF OnCurve, Exact
    <3>1. /\ Abs(m + Directed(m, slow) - m) = SpeedAt(v0, t + dt)
          /\ RollsNow(Abs(m), v0, roll, dt) <=> t + dt >= SlideTime(v0)
      <4> HIDE DEF v0, t, roll
      <4>1. QED
        BY <1>1, <2>1, <2>7, BrakeOnCurve
    <3>2. v0 > 0 /\ dt \in Nat
      BY <1>1, <2>1, <2>3, FrictionAssumption
    <3>3. SlideTime(v0) \in Nat
      BY <2>1, SlideTimeType
    <3> HIDE DEF v0, t, slow, roll
    <3>4. Abs(vel') = SpeedAt(launch', since')
      BY <2>1, <2>2, <2>5, <3>1
    <3>5. /\ rolling' => since' >= SlideTime(launch')
          /\ ~rolling' => since' < SlideTime(launch') \/ since' = 0
      BY <2>1, <2>5, <3>1, <3>2, <3>3
    <3>6. QED
      BY <2>1, <3>2, <3>4, <3>5 DEF OnCurve
  <2>9. QED
    BY <1>2, <2>6, <2>8 DEF CurveInv
<1>6. QED
  BY <1>3, <1>4, <1>5 DEF Frame

LEMMA CurveInvariant == Spec => []CurveInv
<1>1. Init => CurveInv
  <2> SUFFICES ASSUME Init
               PROVE  CurveInv
    OBVIOUS
  <2>1. vel = 0 /\ prev = 0 /\ launch = 0 /\ since = 0 /\ Abs(0) = 0
    BY DEF Init, Abs
  <2>2. QED
    BY <2>1, CurveStarts DEF CurveInv, MeasuredFaster, BelowLaunch, OnCurve
<1>2. TypeOK /\ CurveInv /\ [Next]_vars => CurveInv'
  <2> SUFFICES ASSUME TypeOK, CurveInv, [Next]_vars
               PROVE  CurveInv'
    OBVIOUS
  <2>1. CASE FreeFrame
    BY <2>1, FrameKeepsCurveInv DEF FreeFrame, TypeOK
  <2>2. CASE HitFrame
    BY <2>2, FrameKeepsCurveInv, VelocityType DEF HitFrame
  <2>3. CASE Unseen
    <3>1. ~steady' /\ fresh'
      BY <2>3, Zenon DEF Unseen
    <3>2. QED
      BY <3>1, Zenon DEF CurveInv, MeasuredFaster, BelowLaunch, OnCurve
  <2>4. CASE Kick
    <3>1. fresh' /\ ~rolling'
      BY <2>4, Zenon DEF Kick
    <3>2. Abs(vel') \in Nat /\ launch' = Abs(vel') /\ since' = 0
      BY <2>4, VelocityType, AbsType DEF Kick
    <3>3. QED
      BY <3>1, <3>2, CurveStarts DEF CurveInv, MeasuredFaster, BelowLaunch, OnCurve
  <2>5. CASE PlaceBall
    <3>1. fresh' /\ since' = 0
      BY <2>5, Zenon DEF PlaceBall
    <3>2. Abs(0) = 0
      BY DEF Abs
    <3>3. CASE vel' \in Velocities /\ launch' = Abs(vel') /\ rolling' = FALSE
      <4>1. Abs(vel') \in Nat /\ ~rolling'
        BY <3>3, VelocityType, AbsType
      <4>2. QED
        BY <3>1, <3>3, <4>1, CurveStarts DEF CurveInv, MeasuredFaster, BelowLaunch, OnCurve
    <3>4. CASE vel' = 0 /\ launch' = 0
      BY <3>1, <3>2, <3>4, CurveStarts DEF CurveInv, MeasuredFaster, BelowLaunch, OnCurve
    <3>5. QED
      BY <2>5, <3>3, <3>4 DEF PlaceBall
  <2>6. CASE UNCHANGED vars
    BY <2>6 DEF vars, ballVars, CurveInv, MeasuredFaster, BelowLaunch, OnCurve, Exact
  <2>7. QED
    BY <2>1, <2>2, <2>3, <2>4, <2>5, <2>6 DEF Next, Disturbance
<1>3. QED
  BY <1>1, <1>2, FrictionTypeCorrect, PTL DEF Spec

(* A ball nobody touches has the speed the two-phase model gives for the   *)
(* time since its launch, whatever the lengths of the frames.              *)
THEOREM AlwaysOnCurve == Spec => []FollowsBallModel
<1>1. TypeOK /\ CurveInv => FollowsBallModel
  <2> SUFFICES ASSUME TypeOK, CurveInv, steady, Exact(launch)
               PROVE  /\ Abs(vel) = SpeedAt(launch, since)
                      /\ since > 0 => (rolling <=> since >= SlideTime(launch))
    BY DEF FollowsBallModel
  <2>1. launch \in Nat /\ since \in Nat /\ SlideTime(launch) \in Nat
    BY SlideTimeType DEF TypeOK
  <2>2. QED
    BY <2>1 DEF CurveInv, OnCurve
<1>2. QED
  BY <1>1, FrictionTypeCorrect, CurveInvariant, PTL

(* The velocity friction has left is not taken for an impact. *)
LEMMA NoImpact ==
  ASSUME TypeOK, CurveInv, ~fresh
  PROVE  ~Impact(vel)
<1>1. /\ vel \in Int /\ prev \in Int /\ Abs(vel) \in Nat /\ Abs(prev) \in Nat
      /\ Abs(vel) <= Abs(prev)
  BY AbsType DEF TypeOK, CurveInv, MeasuredFaster
<1>2. ~(vel * prev < 0)
  <2>1. vel > 0 => prev > 0
    BY DEF CurveInv, MeasuredFaster
  <2>2. vel < 0 => prev < 0
    BY DEF CurveInv, MeasuredFaster
  <2>3. CASE vel = 0
    BY <1>1, <2>3
  <2>4. CASE vel # 0
    BY <1>1, <2>1, <2>2, <2>4, SameSign
  <2>5. QED
    BY <2>3, <2>4
<1>3. Abs(prev) > 0 => ~(2 * Abs(vel) > 3 * Abs(prev))
  BY <1>1
<1>4. QED
  BY <1>1, <1>2, <1>3, FrictionAssumption DEF Impact

(* A frame that is no impact slows a ball that moves. *)
LEMMA FreeFrameSlows ==
  ASSUME TypeOK, CurveInv, ~fresh, vel # 0, NEW dt \in FrameTimes, Frame(vel, vel, dt)
  PROVE  Abs(vel') < Abs(vel)
<1>1. /\ vel \in Int /\ Abs(vel) \in Nat \ {0} /\ launch \in Nat /\ rolling \in BOOLEAN
  BY DEF TypeOK, Abs
<1>2. CASE Rest(vel, vel)
  BY <1>1, <1>2 DEF Rest, Stopped, Abs
<1>3. CASE Brake(vel, vel, dt)
  <2> DEFINE v0 == IF Faster(vel) THEN Abs(vel) ELSE launch
             roll == rolling /\ ~Faster(vel)
             slow == Slowed(Abs(vel), v0, roll, dt)
  <2>1. slow \in 0 .. Abs(vel) /\ slow < Abs(vel)
    BY <1>1, SlowedRange, SlowedStrictly
  <2>2. vel' = vel + Directed(vel, slow) - vel
    BY <1>3 DEF Brake
  <2> HIDE DEF slow
  <2>3. QED
    BY <1>1, <2>1, <2>2, Directing
<1>4. QED
  BY <1>2, <1>3, NoImpact DEF Frame, Rebound

(* Friction alone never speeds a ball up and never turns it round, and a   *)
(* ball nobody touches is slower after every frame: the measure by which   *)
(* it comes to rest.                                                       *)
THEOREM OnlyBrakes == Spec => FrictionOnlyBrakes
<1>1. TypeOK /\ CurveInv /\ [Next]_vars =>
        [FreeFrame => /\ Abs(vel') <= Abs(vel) /\ vel * vel' >= 0
                      /\ ~fresh /\ vel # 0 => Abs(vel') < Abs(vel)]_vars
  <2> SUFFICES ASSUME TypeOK, CurveInv, FreeFrame
               PROVE  /\ Abs(vel') <= Abs(vel) /\ vel * vel' >= 0
                      /\ ~fresh /\ vel # 0 => Abs(vel') < Abs(vel)
    OBVIOUS
  <2>1. PICK dt \in FrameTimes : Frame(vel, vel, dt)
    BY DEF FreeFrame
  <2>2. /\ vel \in Int /\ vel' \in Int /\ Abs(vel') <= Abs(vel)
        /\ vel >= 0 => vel' >= 0
        /\ vel <= 0 => vel' <= 0
    BY <2>1, FreeFrameBrakes DEF TypeOK
  <2>3. vel * vel' >= 0
    BY <2>2, SameSign
  <2>4. ~fresh /\ vel # 0 => Abs(vel') < Abs(vel)
    BY <2>1, FreeFrameSlows
  <2>5. QED
    BY <2>2, <2>3, <2>4
<1>2. QED
  BY <1>1, FrictionTypeCorrect, CurveInvariant, PTL DEF FrictionOnlyBrakes, Spec

(* Friction is never taken for an outside force. *)
THEOREM OnlyForcesCount == Spec => OnlyForcesRelaunch
<1>1. TypeOK /\ CurveInv /\ [Next]_vars
        => [FreeFrame /\ ~fresh /\ steady => launch' \in {launch, 0}]_vars
  <2> SUFFICES ASSUME TypeOK, CurveInv, FreeFrame, ~fresh, steady
               PROVE  launch' \in {launch, 0}
    OBVIOUS
  <2>1. PICK dt \in FrameTimes : Frame(vel, vel, dt)
    BY DEF FreeFrame
  <2>2. /\ vel \in Int /\ prev \in Int /\ launch \in Nat
        /\ Abs(vel) \in Nat /\ Abs(prev) \in Nat
        /\ Abs(vel) <= Abs(prev) /\ Abs(vel) <= launch
    BY AbsType DEF TypeOK, CurveInv, MeasuredFaster, BelowLaunch
  <2>3. ~Impact(vel)
    BY NoImpact
  <2>4. ~Faster(vel)
    BY <2>2, FrictionAssumption DEF Faster
  <2>5. CASE Rest(vel, vel)
    BY <2>5 DEF Rest
  <2>6. CASE Brake(vel, vel, dt)
    BY <2>4, <2>6 DEF Brake
  <2>7. QED
    BY <2>1, <2>3, <2>5, <2>6 DEF Frame, Rebound
<1>2. QED
  BY <1>1, FrictionTypeCorrect, CurveInvariant, PTL DEF OnlyForcesRelaunch, Spec
=============================================================================

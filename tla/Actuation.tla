------------------------------- MODULE Actuation -------------------------------
(***************************************************************************)
(* One tick of a robot's motion model, Robot::advanceActuation behind the  *)
(* dead time (RobotCommands has that): dead zone, limits of the target,    *)
(* wheel speed budget, first-order lag, and the limits of acceleration,    *)
(* either of the translation as a whole or axis by axis.  The model comes  *)
(* from the sections [RobotModel] and [RobotModel.<id>] of the settings    *)
(* (Observer::loadRobotModels, RobotMotionModel::fromSettings).            *)
(*                                                                         *)
(* A robot drives forward and sideways and turns.  Speeds are integers,    *)
(* accelerations are per tick, and what scales a speed down is cut to a    *)
(* whole number.  The wheels stand at the diagonals: the fastest one turns *)
(* as fast as the sum of the speeds along the axes and of the turn, which  *)
(* is counted in that unit.  Commands are taken after the gains.  The time *)
(* constant of the lag of each axis is any: it goes part of the way to the *)
(* target or all of it.                                                    *)
(*                                                                         *)
(* The operators marked "mutant" are plausible mistakes, each next to the  *)
(* definition it would replace; no action uses them.                       *)
(***************************************************************************)
EXTENDS Integers, FiniteSets

CONSTANTS
  MaxCmd,                          \* the largest speed
  Drives, Turned,                  \* the speeds commanded, and the turns
  LinAccel, LinDecel,              \* MaxLinearAccelMmS2, MaxLinearDecelMmS2, where set
  TractionAccelX, TractionDecelX,  \* TractionAccelXMmS2, TractionDecelXMmS2
  TractionAccelY, TractionDecelY,  \* TractionAccelYMmS2, TractionDecelYMmS2
  AngularAccel,                    \* MaxAngularAccelRadS2
  MaxAngular, MaxLinear,           \* MaxAngularVelRadS, MaxLinearVelMmS
  Budget,                          \* WheelRimSpeedBudgetMmS
  DeadZone,                        \* OmegaDeadZoneRadS
  Unset                            \* of a key no section has

ASSUME ActuationAssumption ==
  /\ MaxCmd \in Nat
  /\ Drives \subseteq 0 .. MaxCmd /\ Turned \subseteq 0 .. MaxCmd
  /\ {LinAccel, LinDecel, AngularAccel} \subseteq Nat
  /\ {TractionAccelX, TractionDecelX, TractionAccelY, TractionDecelY} \subseteq Nat
  /\ {MaxAngular, MaxLinear, Budget, DeadZone} \subseteq Nat
  /\ Unset \notin Nat

Speeds == -MaxCmd .. MaxCmd

VARIABLES
  model,       \* RobotMotionModel
  cmd,         \* the command that takes effect: forward, sideways and turn
  applied      \* appliedTangent, appliedNormal, appliedAngular

vars == <<model, cmd, applied>>

-----------------------------------------------------------------------------
Abs(x) == IF x < 0 THEN -x ELSE x

CopySign(m, x) == IF x < 0 THEN -m ELSE m

Least(m, n)    == IF m < n THEN m ELSE n
Greatest(m, n) == IF m > n THEN m ELSE n

(* hypot, rounded up: as many whole numbers lie below it.                  *)
Differences == -2 * MaxCmd .. 2 * MaxCmd

Hypot ==
  [x \in Differences |->
     [y \in Differences |->
        Cardinality({k \in 0 .. Abs(x) + Abs(y) - 1 : k * k < x * x + y * y})]]

(* The part n / d of a speed.                                              *)
Part(x, n, d) == CopySign((Abs(x) * n) \div d, x)

(* A limit of 0 is none.                                                   *)
Capped(x, limit) == IF limit > 0 /\ Abs(x) > limit THEN CopySign(limit, x) ELSE x

(* A section gives a key its value or leaves the one of the section before. *)
Pick(section, key, fallback) == IF section[key] = Unset THEN fallback ELSE section[key]

TakeKey(section, key, base) == [base EXCEPT ![key] = Pick(section, key, @)]

FromSettings(section, base) ==
  TakeKey(section, "linDecel", TakeKey(section, "linAccel", base))

Defaults ==
  [linAccel |-> 0, linDecel |-> 0,
   accelX |-> TractionAccelX, decelX |-> TractionDecelX,
   accelY |-> TractionAccelY, decelY |-> TractionDecelY, angular |-> AngularAccel,
   maxAngular |-> MaxAngular, maxLinear |-> MaxLinear, budget |-> Budget,
   deadZone |-> DeadZone, lag |-> TRUE]

(* RobotModel/Enabled = false: no limit, no lag, the command as it is.     *)
PassThrough ==
  [linAccel |-> 0, linDecel |-> 0, accelX |-> 0, decelX |-> 0, accelY |-> 0,
   decelY |-> 0, angular |-> 0, maxAngular |-> 0, maxLinear |-> 0, budget |-> 0,
   deadZone |-> 0, lag |-> FALSE]

Sections == [linAccel : {Unset, 0, LinAccel}, linDecel : {Unset, 0, LinDecel}]

Models ==
  {PassThrough} \cup
  {FromSettings(own, FromSettings(all, Defaults)) : all, own \in Sections}

-----------------------------------------------------------------------------
(* Where the robot is to go: the turn before the gain is dropped if it is  *)
(* small, the turn and the length of the translation are capped, and a     *)
(* twist that would turn a wheel faster than the budget is scaled down as  *)
(* a whole.                                                                *)
Dropped(m, w) == IF Abs(w) < m.deadZone THEN 0 ELSE w

CappedForward(m, t) ==                         \* mutant: the speed is that ahead only
  IF m.maxLinear > 0 /\ Abs(t.x) > m.maxLinear
    THEN [t EXCEPT !.x = Part(@, m.maxLinear, Abs(t.x))]
    ELSE t

CappedLinear(m, t) ==
  LET speed == Hypot[t.x][t.y]
  IN  IF m.maxLinear > 0 /\ speed > m.maxLinear
        THEN [t EXCEPT !.x = Part(@, m.maxLinear, speed), !.y = Part(@, m.maxLinear, speed)]
        ELSE t

WithinBudget(m, t) ==
  LET peak == Abs(t.x) + Abs(t.y) + Abs(t.w)
  IN  IF m.budget > 0 /\ peak > m.budget
        THEN [x |-> Part(t.x, m.budget, peak), y |-> Part(t.y, m.budget, peak),
              w |-> Part(t.w, m.budget, peak)]
        ELSE t

Target(m, c) ==
  WithinBudget(m, CappedLinear(m, [c EXCEPT !.w = Capped(Dropped(m, @), m.maxAngular)]))

(* The lag: part of the way or all of it.                                  *)
Towards(x, target) ==
  IF x < target THEN x + 1 .. target
  ELSE IF x > target THEN target .. x - 1
  ELSE {target}

Lagged(m, x, target) == IF m.lag THEN Towards(x, target) ELSE {target}

(* advanceAxis: no faster than the limit of the side, 0 for no limit.      *)
ZeroLimit(x, next, accel, decel) ==            \* mutant: a limit of 0 holds the axis
  LET limit == IF Abs(next) > Abs(x) THEN accel ELSE decel
  IN  IF Abs(next - x) > limit THEN x + CopySign(limit, next - x) ELSE next

AlwaysLimit(x, next, accel, decel) ==          \* mutant: a smaller change is not looked for
  LET limit == IF Abs(next) > Abs(x) THEN accel ELSE decel
  IN  IF limit > 0 THEN x + CopySign(limit, next - x) ELSE next

AdvanceAxis(x, next, accel, decel) ==
  LET limit == IF Abs(next) > Abs(x) THEN accel ELSE decel
  IN  IF limit > 0 /\ Abs(next - x) > limit THEN x + CopySign(limit, next - x) ELSE next

(* The whole translation goes along the straight line to where the lag     *)
(* leads: the tick brakes first, down to the slowest point of the line, and *)
(* what is left of it accelerates.  "along" is the speed along the line    *)
(* times its length.                                                       *)
WholeTick(distance, along, accel, decel) ==    \* mutant: braking takes no time from accelerating
  LET braking   == IF along < 0 THEN Least((-along) \div distance, distance) ELSE 0
      brakeStep == Least(braking, decel)
  IN  brakeStep + Least(distance - brakeStep, accel)

StepLength(distance, along, accel, decel) ==
  LET braking   == IF along < 0 THEN Least((-along) \div distance, distance) ELSE 0
      brakeStep == Least(braking, decel)
      gain      == (accel * (decel - brakeStep)) \div decel
  IN  brakeStep + Least(distance - brakeStep, gain)

(* An axis that is to move moves by 1 at least: rounding does not hold a   *)
(* robot.                                                                  *)
AlongAxis(d, step, distance) ==
  IF d = 0 THEN 0 ELSE CopySign(Greatest(1, (Abs(d) * step) \div distance), d)

AdvanceLinear(at, to, accel, decel) ==
  LET dx       == to.x - at.x
      dy       == to.y - at.y
      distance == Hypot[dx][dy]
      step     == StepLength(distance, at.x * dx + at.y * dy, accel, decel)
  IN  [x |-> at.x + AlongAxis(dx, step, distance), y |-> at.y + AlongAxis(dy, step, distance)]

Combined(m) == m.linAccel > 0 /\ m.linDecel > 0

AdvanceTranslation(m, at, to) ==
  IF Combined(m) THEN AdvanceLinear(at, to, m.linAccel, m.linDecel)
                 ELSE [x |-> AdvanceAxis(at.x, to.x, m.accelX, m.decelX),
                       y |-> AdvanceAxis(at.y, to.y, m.accelY, m.decelY)]

-----------------------------------------------------------------------------
Rest == [x |-> 0, y |-> 0, w |-> 0]

Init ==
  /\ model \in Models
  /\ cmd = Rest
  /\ applied = Rest

EitherWay(S) == {v \in Speeds : Abs(v) \in S}

Command ==
  /\ cmd' \in [x : EitherWay(Drives), y : EitherWay(Drives), w : EitherWay(Turned)]
  /\ UNCHANGED <<model, applied>>

(* resetMotion: a replacement puts the robot at rest.                      *)
ResetMotion ==
  /\ cmd' = Rest
  /\ applied' = Rest
  /\ UNCHANGED model

(* Where a tick can take the translation, and the turn.                    *)
Translations(m, at, target) ==
  {AdvanceTranslation(m, at, to) :
     to \in [x : Lagged(m, at.x, target.x), y : Lagged(m, at.y, target.y)]}

Turns(m, at, target) ==
  {AdvanceAxis(at.w, w, m.angular, m.angular) : w \in Lagged(m, at.w, target.w)}

AdvanceActuation ==
  /\ UNCHANGED <<model, cmd>>
  /\ \E target \in {Target(model, cmd)} :
       \E to \in Translations(model, applied, target), w \in Turns(model, applied, target) :
         applied' = [x |-> to.x, y |-> to.y, w |-> w]

Next == Command \/ ResetMotion \/ AdvanceActuation

(* PhysicsWorld goes on making frames.                                     *)
Spec == Init /\ [][Next]_vars /\ WF_vars(AdvanceActuation)

-----------------------------------------------------------------------------
Twist == [x : Speeds, y : Speeds, w : Speeds]

TypeOK == model \in Models /\ cmd \in Twist /\ applied \in Twist

(* A tick goes towards the target and never past it, whatever lag and      *)
(* limits do together: what RobotCommands takes a tick to be.              *)
NeverPast ==
  [][AdvanceActuation =>
       \A axis \in {"x", "y", "w"} :
         applied'[axis] \in Towards(applied[axis], Target(model, cmd)[axis])]_vars

(* With limits for the whole translation a tick along one axis has the     *)
(* time of one tick: the speed it sheds at the limit of braking and the    *)
(* speed it gains at that of accelerating take no longer, also when it     *)
(* turns round (comment in advanceActuation, split reversal in             *)
(* test/pr20_regression_test.cpp).                                         *)
Shed(u, v)   == IF u * v < 0 THEN Abs(u) ELSE IF Abs(v) < Abs(u) THEN Abs(u) - Abs(v) ELSE 0
Gained(u, v) == IF u * v < 0 THEN Abs(v) ELSE IF Abs(u) < Abs(v) THEN Abs(v) - Abs(u) ELSE 0

InOneTick(u, v) ==
  Shed(u, v) * model.linAccel + Gained(u, v) * model.linDecel <= model.linAccel * model.linDecel

TickIsShared ==
  [][AdvanceActuation /\ Combined(model) =>
       /\ applied.y = 0 /\ applied'.y = 0 => InOneTick(applied.x, applied'.x)
       /\ applied.x = 0 /\ applied'.x = 0 => InOneTick(applied.y, applied'.y)]_vars

(* The speeds a robot has reached along each axis, and its turn, stay      *)
(* below the limits of its model, through every sequence of commands       *)
(* (MaxLinearVelMmS, MaxAngularVelRadS).  The limit of the translation is  *)
(* one of the length commanded, not of the length reached: each axis lags  *)
(* for itself, so that a robot that turns off may be faster than the limit *)
(* for some ticks, along both axes together.                               *)
SpeedsCapped ==
  /\ model.maxLinear > 0 => Abs(applied.x) <= model.maxLinear /\ Abs(applied.y) <= model.maxLinear
  /\ model.maxAngular > 0 => Abs(applied.w) <= model.maxAngular

(* A command that is left alone is reached, as far as the model allows.    *)
TargetReached ==
  <>[][UNCHANGED cmd]_vars => <>[](applied = Target(model, cmd))
=============================================================================

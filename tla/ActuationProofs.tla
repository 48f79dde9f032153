---------------------------- MODULE ActuationProofs ----------------------------
(***************************************************************************)
(* What holds of a tick of the motion model for every limit the settings   *)
(* may set.  The two ways a tick may go both lead part of the way to where *)
(* it is aimed, along each axis (AxisTowards, LinearTowards); so does the  *)
(* lag, and targets keep within the caps (TargetCapped).  From there the   *)
(* speeds along the axes keep within the caps through every sequence of    *)
(* commands.                                                               *)
(***************************************************************************)
EXTENDS Actuation, FiniteSetTheorems, TLAPS

-----------------------------------------------------------------------------
(* Whole numbers.                                                          *)

LEMMA Division ==
  ASSUME NEW n \in Nat, NEW d \in Nat \ {0}
  PROVE  /\ n \div d \in Nat
         /\ d * (n \div d) <= n
         /\ n < d * (n \div d) + d
  BY Z3

LEMMA ProductMonotone ==
  ASSUME NEW a \in Nat, NEW b \in Nat, NEW c \in Nat, a <= b
  PROVE  a * c <= b * c
  BY Z3

(* A quotient does not pass a bound whose product with the divisor is not  *)
(* below the dividend.                                                     *)
LEMMA QuotientBound ==
  ASSUME NEW n \in Nat, NEW d \in Nat \ {0}, NEW b \in Nat, n <= d * b
  PROVE  n \div d <= b
<1> DEFINE q == n \div d
<1>1. q \in Nat /\ d * q <= n
  BY Division
<1>2. SUFFICES ASSUME q >= b + 1 PROVE FALSE
  BY <1>1
<1>3. d * (b + 1) <= d * q
  BY <1>1, <1>2, Z3
<1>4. d * (b + 1) = d * b + d
  BY Z3
<1>5. d * b \in Nat /\ d * q \in Nat
  BY <1>1, Z3
<1>. QED
  BY <1>1, <1>3, <1>4, <1>5

LEMMA ExactQuotient ==
  ASSUME NEW n \in Nat, NEW d \in Nat \ {0}
  PROVE  (d * n) \div d = n /\ (n * d) \div d = n
<1>1. d * n = n * d /\ d * n \in Nat
  BY Z3
<1> DEFINE q == (d * n) \div d
<1>2. q \in Nat /\ d * q <= d * n /\ d * n < d * q + d
  BY <1>1, Division
<1> HIDE DEF q
<1>3. q >= n + 1 => d * q >= d * n + d
  BY <1>2, Z3
<1>4. q + 1 <= n => d * n >= d * q + d
  BY <1>2, Z3
<1>5. d * q \in Nat /\ d * n \in Nat
  BY <1>2, Z3
<1>6. q = n
  BY <1>2, <1>3, <1>4, <1>5
<1>7. QED
  BY <1>1, <1>6 DEF q

LEMMA SquareOrder ==
  ASSUME NEW k \in Nat, NEW n \in Nat, k < n
  PROVE  k * k < n * n
<1>1. k * k <= n * k
  BY ProductMonotone
<1>2. n * n >= n * k + n
  BY Z3
<1>3. k * k \in Nat /\ n * k \in Nat /\ n * n \in Nat
  BY Z3
<1>4. QED
  BY <1>1, <1>2, <1>3

LEMMA SquareOfAbs ==
  ASSUME NEW x \in Int
  PROVE  Abs(x) \in Nat /\ Abs(x) * Abs(x) = x * x /\ x * x \in Nat
<1>1. CASE x < 0
  <2>1. (-x) * (-x) = x * x /\ x * x >= 0 /\ x * x \in Int
    BY <1>1, Z3
  <2>2. QED
    BY <1>1, <2>1 DEF Abs
<1>2. CASE ~(x < 0)
  <2>1. x * x >= 0 /\ x * x \in Int
    BY <1>2, Z3
  <2>2. QED
    BY <1>2, <2>1 DEF Abs
<1>3. QED
  BY <1>1, <1>2

LEMMA SizeOfPrefix ==
  ASSUME NEW n \in Nat
  PROVE  IsFiniteSet(0 .. n - 1) /\ Cardinality(0 .. n - 1) = n
<1>1. 0 \in Int /\ n - 1 \in Int
  OBVIOUS
<1>2. /\ IsFiniteSet(0 .. n - 1)
      /\ Cardinality(0 .. n - 1) = IF 0 > n - 1 THEN 0 ELSE n - 1 - 0 + 1
  BY <1>1, FS_Interval
<1> DEFINE size == Cardinality(0 .. n - 1)
<1> HIDE DEF size
<1>3. size = IF 0 > n - 1 THEN 0 ELSE n - 1 - 0 + 1
  BY <1>2 DEF size
<1>4. size = n
  BY <1>3
<1>5. QED
  BY <1>2, <1>4 DEF size

(* The length of a step is no less than what it goes along either axis,    *)
(* and no more than both together.                                         *)
LEMMA HypotBounds ==
  ASSUME NEW x \in Differences, NEW y \in Differences
  PROVE  /\ Hypot[x][y] \in Nat
         /\ Abs(x) <= Hypot[x][y]
         /\ Abs(y) <= Hypot[x][y]
         /\ Hypot[x][y] <= Abs(x) + Abs(y)
<1> DEFINE a == Abs(x)
           b == Abs(y)
           all   == 0 .. a + b - 1
           below == {k \in all : k * k < x * x + y * y}
<1>1. x \in Int /\ y \in Int
  BY ActuationAssumption DEF Differences
<1>2. a \in Nat /\ b \in Nat /\ a * a = x * x /\ b * b = y * y
      /\ x * x \in Nat /\ y * y \in Nat
  BY <1>1, SquareOfAbs
<1>3. Hypot[x][y] = Cardinality(below)
  BY DEF Hypot
<1> HIDE DEF a, b
<1>4. IsFiniteSet(all) /\ Cardinality(all) = a + b
  BY <1>2, SizeOfPrefix
<1>5. below \in SUBSET all
  OBVIOUS
<1>6. IsFiniteSet(below) /\ Cardinality(below) <= a + b
  BY <1>4, <1>5, FS_Subset
<1>7. Cardinality(below) \in Nat
  BY <1>6, FS_CardinalityType
<1>8. 0 .. a - 1 \in SUBSET below
  <2> SUFFICES ASSUME NEW k \in 0 .. a - 1 PROVE k \in below
    OBVIOUS
  <2>1. k \in Nat /\ k < a /\ k \in all
    BY <1>2
  <2>2. k * k < a * a
    BY <1>2, <2>1, SquareOrder
  <2>3. k * k \in Nat
    BY <2>1, Z3
  <2>4. QED
    BY <1>2, <2>1, <2>2, <2>3
<1>9. 0 .. b - 1 \in SUBSET below
  <2> SUFFICES ASSUME NEW k \in 0 .. b - 1 PROVE k \in below
    OBVIOUS
  <2>1. k \in Nat /\ k < b /\ k \in all
    BY <1>2
  <2>2. k * k < b * b
    BY <1>2, <2>1, SquareOrder
  <2>3. k * k \in Nat
    BY <2>1, Z3
  <2>4. QED
    BY <1>2, <2>1, <2>2, <2>3
<1> HIDE DEF below
<1>10. Cardinality(0 .. a - 1) = a /\ Cardinality(0 .. b - 1) = b
  BY <1>2, SizeOfPrefix
<1>11. /\ Cardinality(0 .. a - 1) <= Cardinality(below)
       /\ Cardinality(0 .. b - 1) <= Cardinality(below)
  BY <1>6, <1>8, <1>9, FS_Subset
<1>12. QED
  BY <1>3, <1>6, <1>7, <1>10, <1>11 DEF a, b

(* The part n / d of a speed is no more than n, and no more than the speed *)
(* if it is not more than the whole.                                       *)
LEMMA PartBounds ==
  ASSUME NEW x \in Int, NEW n \in Nat, NEW d \in Nat \ {0}, Abs(x) <= d, n <= d
  PROVE  /\ Part(x, n, d) \in Int
         /\ Abs(Part(x, n, d)) <= Abs(x)
         /\ Abs(Part(x, n, d)) <= n
<1> DEFINE size == Abs(x)
           part == (size * n) \div d
<1>1. size \in Nat
  BY DEF Abs
<1> HIDE DEF size
<1>2. size * n <= d * n
  BY <1>1, ProductMonotone DEF size
<1>3. n * size <= d * size
  BY <1>1, ProductMonotone
<1>4. size * n = n * size /\ size * n \in Nat
  BY <1>1, Z3
<1>5. part <= n /\ part <= size
  BY <1>1, <1>2, <1>3, <1>4, QuotientBound
<1>6. part \in Nat
  BY <1>4, Division
<1> HIDE DEF part
<1>7. Part(x, n, d) = CopySign(part, x)
  BY DEF Part, part, size
<1>8. CopySign(part, x) \in Int /\ Abs(CopySign(part, x)) = part
  BY <1>6 DEF CopySign, Abs
<1>9. QED
  BY <1>5, <1>7, <1>8 DEF size

-----------------------------------------------------------------------------
(* Models.                                                                 *)

ModelType ==
  [linAccel : Nat, linDecel : Nat,
   accelX : Nat, decelX : Nat, accelY : Nat, decelY : Nat, angular : Nat,
   maxAngular : Nat, maxLinear : Nat, budget : Nat, deadZone : Nat, lag : BOOLEAN]

LEMMA KeyTyped ==
  ASSUME NEW section \in Sections, NEW key \in {"linAccel", "linDecel"}, NEW base \in ModelType
  PROVE  TakeKey(section, key, base) \in ModelType
<1>1. CASE key = "linAccel"
  <2>1. Pick(section, "linAccel", base.linAccel) \in Nat
    BY ActuationAssumption DEF Pick, Sections, ModelType
  <2>2. [base EXCEPT !.linAccel = Pick(section, "linAccel", base.linAccel)] \in ModelType
    BY <2>1 DEF ModelType
  <2>3. QED
    BY <1>1, <2>2 DEF TakeKey
<1>2. CASE key = "linDecel"
  <2>1. Pick(section, "linDecel", base.linDecel) \in Nat
    BY ActuationAssumption DEF Pick, Sections, ModelType
  <2>2. [base EXCEPT !.linDecel = Pick(section, "linDecel", base.linDecel)] \in ModelType
    BY <2>1 DEF ModelType
  <2>3. QED
    BY <1>2, <2>2 DEF TakeKey
<1>3. QED
  BY <1>1, <1>2

LEMMA SectionTyped ==
  ASSUME NEW section \in Sections, NEW base \in ModelType
  PROVE  FromSettings(section, base) \in ModelType
  BY KeyTyped DEF FromSettings

LEMMA ModelTyped == Models \subseteq ModelType
<1>1. Defaults \in ModelType
  BY ActuationAssumption DEF Defaults, ModelType
<1>2. PassThrough \in ModelType
  BY ActuationAssumption DEF PassThrough, Defaults, ModelType
<1>3. \A all, own \in Sections : FromSettings(own, FromSettings(all, Defaults)) \in ModelType
  BY <1>1, SectionTyped
<1>4. QED
  BY <1>2, <1>3 DEF Models

-----------------------------------------------------------------------------
(* Ticks.                                                                  *)

LEMMA AxisTowards ==
  ASSUME NEW x \in Int, NEW next \in Int, NEW accel \in Nat, NEW decel \in Nat
  PROVE  AdvanceAxis(x, next, accel, decel) \in Towards(x, next)
  BY DEF AdvanceAxis, Towards, Abs, CopySign

(* The parts of a tick of the whole translation: the braking, cut at rest, *)
(* and the accelerating, in what time is left.                             *)
LEMMA GainBounds ==
  ASSUME NEW accel \in Nat \ {0}, NEW decel \in Nat \ {0},
         NEW brakeStep \in Nat, brakeStep <= decel
  PROVE  LET gain == (accel * (decel - brakeStep)) \div decel
         IN  /\ gain \in Nat
             /\ decel * gain <= accel * (decel - brakeStep)
             /\ brakeStep = 0 => gain >= 1
<1> DEFINE room == accel * (decel - brakeStep)
<1> DEFINE gain == room \div decel
<1>1. decel - brakeStep \in Nat
  OBVIOUS
<1>2. room \in Nat
  BY <1>1, Z3
<1> HIDE DEF room
<1>3. gain \in Nat /\ decel * gain <= room /\ room < decel * gain + decel
  BY <1>2, Division
<1>4. ASSUME brakeStep = 0 PROVE gain >= 1
  <2>1. room = accel * decel
    BY <1>4 DEF room
  <2>2. 1 * decel <= accel * decel
    BY ProductMonotone
  <2>3. room >= decel
    BY <2>1, <2>2
  <2>4. gain = 0 => decel * gain = 0
    BY Z3
  <2>5. QED
    BY <1>2, <1>3, <2>3, <2>4
<1>5. QED
  BY <1>3, <1>4 DEF room

LEMMA StepBounds ==
  ASSUME NEW distance \in Nat, NEW along \in Int, distance = 0 => along = 0,
         NEW accel \in Nat \ {0}, NEW decel \in Nat \ {0}
  PROVE  /\ StepLength(distance, along, accel, decel) \in Nat
         /\ StepLength(distance, along, accel, decel) <= distance
         /\ distance > 0 => StepLength(distance, along, accel, decel) > 0
<1> DEFINE braking   == IF along < 0 THEN Least((-along) \div distance, distance) ELSE 0
           brakeStep == Least(braking, decel)
           gain      == (accel * (decel - brakeStep)) \div decel
           step      == brakeStep + Least(distance - brakeStep, gain)
<1>1. StepLength(distance, along, accel, decel) = step
  BY DEF StepLength
<1>2. braking \in Nat /\ braking <= distance
  <2>1. CASE along < 0
    <3>1. distance \in Nat \ {0} /\ -along \in Nat
      BY <2>1
    <3> DEFINE q == (-along) \div distance
    <3>2. q \in Nat
      BY <3>1, Division
    <3>3. braking = Least(q, distance)
      BY <2>1
    <3> HIDE DEF q
    <3>4. QED
      BY <3>1, <3>2, <3>3 DEF Least
  <2>2. CASE ~(along < 0)
    BY <2>2
  <2>3. QED
    BY <2>1, <2>2
<1> HIDE DEF braking
<1>3. brakeStep \in Nat /\ brakeStep <= decel /\ brakeStep <= distance
  BY <1>2 DEF Least
<1> HIDE DEF brakeStep
<1>4. gain \in Nat /\ (brakeStep = 0 => gain >= 1)
  BY <1>3, GainBounds
<1> HIDE DEF gain
<1>5. step \in Nat /\ step <= distance /\ (distance > 0 => step > 0)
  BY <1>3, <1>4 DEF Least
<1>6. QED
  BY <1>1, <1>5

(* The way along one axis is part of the whole way, and some of it.        *)
LEMMA AlongTowards ==
  ASSUME NEW u \in Int, NEW v \in Int, NEW step \in Nat, NEW distance \in Nat,
         Abs(v - u) <= distance, step <= distance
  PROVE  /\ u + AlongAxis(v - u, step, distance) \in Towards(u, v)
         /\ u + AlongAxis(v - u, step, distance) = u => v = u
<1>1. CASE v = u
  BY <1>1 DEF AlongAxis, Towards
<1>2. CASE v # u
  <2> DEFINE size == Abs(v - u)
             part == (size * step) \div distance
  <2>1. size \in Nat \ {0}
    BY <1>2 DEF Abs
  <2>2. distance \in Nat \ {0}
    BY <2>1
  <2> HIDE DEF size
  <2>3. step * size <= distance * size
    BY <2>1, ProductMonotone
  <2>4. size * step = step * size /\ size * step \in Nat
    BY <2>1, Z3
  <2>5. part \in Nat /\ part <= size
    BY <2>1, <2>2, <2>3, <2>4, QuotientBound, Division
  <2> DEFINE much == Greatest(1, part)
  <2>6. AlongAxis(v - u, step, distance) = CopySign(much, v - u)
    BY <1>2 DEF AlongAxis, size
  <2> HIDE DEF part
  <2>7. much \in Nat /\ much >= 1 /\ much <= size
    BY <2>1, <2>5 DEF Greatest
  <2> HIDE DEF much
  <2>8. QED
    BY <1>2, <2>6, <2>7 DEF Towards, CopySign, size, Abs
<1>3. QED
  BY <1>1, <1>2

LEMMA Differ ==
  ASSUME NEW u \in Speeds, NEW v \in Speeds
  PROVE  v - u \in Differences /\ u \in Int /\ v \in Int /\ v - u \in Int
  BY ActuationAssumption DEF Speeds, Differences

Place == [x : Speeds, y : Speeds]

(* A tick goes some way along the line, no further than its end.           *)
LEMMA WayOfTick ==
  ASSUME NEW at \in Twist, NEW to \in Place,
         NEW accel \in Nat \ {0}, NEW decel \in Nat \ {0}
  PROVE  \E step, distance \in Nat :
           /\ step <= distance
           /\ Abs(to.x - at.x) <= distance /\ Abs(to.y - at.y) <= distance
           /\ AdvanceLinear(at, to, accel, decel)
                = [x |-> at.x + AlongAxis(to.x - at.x, step, distance),
                   y |-> at.y + AlongAxis(to.y - at.y, step, distance)]
<1> DEFINE dx        == to.x - at.x
           dy        == to.y - at.y
           distance  == Hypot[dx][dy]
           along     == at.x * dx + at.y * dy
           step      == StepLength(distance, along, accel, decel)
<1>1. /\ dx \in Differences /\ dy \in Differences
      /\ dx \in Int /\ dy \in Int
      /\ at.x \in Int /\ at.y \in Int /\ to.x \in Int /\ to.y \in Int
  BY Differ DEF Twist, Place
<1>2. AdvanceLinear(at, to, accel, decel)
        = [x |-> at.x + AlongAxis(dx, step, distance), y |-> at.y + AlongAxis(dy, step, distance)]
  BY DEF AdvanceLinear
<1> HIDE DEF dx, dy
<1>3. distance \in Nat /\ Abs(dx) <= distance /\ Abs(dy) <= distance
  BY <1>1, HypotBounds
<1>4. along \in Int
  <2>1. at.x * dx \in Int /\ at.y * dy \in Int
    BY <1>1, Z3
  <2>2. QED
    BY <2>1
<1>5. distance = 0 => along = 0
  <2> SUFFICES ASSUME distance = 0 PROVE along = 0
    OBVIOUS
  <2> HIDE DEF distance
  <2>1. dx = 0 /\ dy = 0
    BY <1>1, <1>3 DEF Abs
  <2>2. at.x * 0 = 0 /\ at.y * 0 = 0
    BY <1>1, Z3
  <2>3. QED
    BY <2>1, <2>2
<1> HIDE DEF distance, along
<1>6. step \in Nat /\ step <= distance
  BY <1>3, <1>4, <1>5, StepBounds
<1>7. QED
  BY <1>2, <1>3, <1>6 DEF dx, dy

LEMMA LinearTowards ==
  ASSUME NEW at \in Twist, NEW to \in Place,
         NEW accel \in Nat \ {0}, NEW decel \in Nat \ {0}
  PROVE  LET next == AdvanceLinear(at, to, accel, decel)
         IN  /\ next.x \in Towards(at.x, to.x) /\ next.y \in Towards(at.y, to.y)
             /\ next.x = at.x => to.x = at.x
             /\ next.y = at.y => to.y = at.y
<1> DEFINE next == AdvanceLinear(at, to, accel, decel)
<1>1. at.x \in Int /\ at.y \in Int /\ to.x \in Int /\ to.y \in Int
  BY Differ DEF Twist, Place
<1>2. PICK step \in Nat, distance \in Nat :
        /\ step <= distance
        /\ Abs(to.x - at.x) <= distance /\ Abs(to.y - at.y) <= distance
        /\ next = [x |-> at.x + AlongAxis(to.x - at.x, step, distance),
                   y |-> at.y + AlongAxis(to.y - at.y, step, distance)]
  BY WayOfTick
<1> HIDE DEF next
<1>3. /\ next.x = at.x + AlongAxis(to.x - at.x, step, distance)
      /\ next.y = at.y + AlongAxis(to.y - at.y, step, distance)
  BY <1>2
<1>4. /\ at.x + AlongAxis(to.x - at.x, step, distance) \in Towards(at.x, to.x)
      /\ at.x + AlongAxis(to.x - at.x, step, distance) = at.x => to.x = at.x
  BY <1>1, <1>2, AlongTowards
<1>5. /\ at.y + AlongAxis(to.y - at.y, step, distance) \in Towards(at.y, to.y)
      /\ at.y + AlongAxis(to.y - at.y, step, distance) = at.y => to.y = at.y
  BY <1>1, <1>2, AlongTowards
<1>6. QED
  BY <1>3, <1>4, <1>5 DEF next

(* The way along one axis alone, as a tick goes it if the other axis is at *)
(* rest and stays so.                                                      *)
Straight(x, next, accel, decel) ==
  LET distance  == Abs(next - x)
      braking   == IF x * (next - x) < 0 THEN Least(Abs(x), distance) ELSE 0
      brakeStep == Least(braking, decel)
      gain      == (accel * (decel - brakeStep)) \div decel
  IN  x + CopySign(brakeStep + Least(distance - brakeStep, gain), next - x)

LEMMA SignOfProduct ==
  ASSUME NEW a \in Int, NEW b \in Int
  PROVE  a * b < 0 <=> (a > 0 /\ b < 0) \/ (a < 0 /\ b > 0)
  BY Z3

(* A tick has the time of one tick: it sheds what it brakes, it gains what *)
(* it accelerates, and the second only in the time the first leaves.       *)
LEMMA StraightShared ==
  ASSUME NEW x \in Int, NEW next \in Int, NEW accel \in Nat \ {0}, NEW decel \in Nat \ {0}
  PROVE  LET y == Straight(x, next, accel, decel)
         IN  Shed(x, y) * accel + Gained(x, y) * decel <= accel * decel
<1> DEFINE distance  == Abs(next - x)
           braking   == IF x * (next - x) < 0 THEN Least(Abs(x), distance) ELSE 0
           brakeStep == Least(braking, decel)
           gain      == (accel * (decel - brakeStep)) \div decel
           more      == Least(distance - brakeStep, gain)
           y         == x + CopySign(brakeStep + more, next - x)
<1>1. distance \in Nat /\ Abs(x) \in Nat
  BY DEF Abs
<1>2. braking \in Nat /\ braking <= distance /\ braking <= Abs(x)
  BY <1>1 DEF Least
<1>3. /\ brakeStep \in Nat /\ brakeStep <= decel /\ brakeStep <= distance
      /\ brakeStep = braking \/ brakeStep = decel
      /\ brakeStep <= braking
  <2> HIDE DEF braking, distance
  <2>1. QED
    BY <1>1, <1>2 DEF Least
<1>4. /\ gain \in Nat
      /\ decel * gain <= accel * (decel - brakeStep)
  <2> HIDE DEF brakeStep
  <2>1. QED
    BY <1>3, GainBounds
<1>5. brakeStep = decel => gain = 0
  <2> HIDE DEF brakeStep, gain
  <2>1. SUFFICES ASSUME brakeStep = decel, gain >= 1 PROVE FALSE
    BY <1>4
  <2>2. accel * (decel - brakeStep) = 0
    BY <2>1, Z3
  <2>3. 1 * decel <= gain * decel
    BY <1>4, <2>1, ProductMonotone
  <2>4. gain * decel = decel * gain
    BY <1>4, Z3
  <2>5. QED
    BY <1>4, <2>2, <2>3, <2>4
<1>6. more \in Nat /\ more <= gain /\ more <= distance - brakeStep
  <2> HIDE DEF brakeStep, gain, distance
  <2>1. QED
    BY <1>1, <1>3, <1>4 DEF Least
<1>7. Shed(x, y) = brakeStep /\ Gained(x, y) = more
  <2>1. CASE x * (next - x) < 0
    <3>1. (x > 0 /\ next - x < 0) \/ (x < 0 /\ next - x > 0)
      BY <2>1, SignOfProduct
    <3>2. braking = Least(Abs(x), distance)
      BY <2>1
    <3>3. brakeStep < Abs(x) => more = 0
      <4> SUFFICES ASSUME brakeStep < Abs(x) PROVE more = 0
        OBVIOUS
      <4>1. CASE brakeStep = decel
        <5> HIDE DEF brakeStep, gain, distance
        <5>1. QED
          BY <1>5, <1>6, <4>1
      <4>2. CASE brakeStep = braking
        <5> HIDE DEF brakeStep, gain, braking
        <5>1. brakeStep = distance
          BY <1>1, <3>2, <4>2 DEF Least
        <5> HIDE DEF distance, more
        <5>2. QED
          BY <1>1, <1>6, <5>1
      <4>3. QED
        BY <1>3, <4>1, <4>2
    <3> HIDE DEF brakeStep, more, braking
    <3>4. y \in Int
      BY <1>3, <1>6 DEF CopySign
    <3>5. x * y < 0 <=> (x > 0 /\ y < 0) \/ (x < 0 /\ y > 0)
      BY <3>4, SignOfProduct
    <3>6. QED
      BY <1>1, <1>2, <1>3, <1>6, <3>1, <3>3, <3>5 DEF Shed, Gained, CopySign, Abs
  <2>2. CASE ~(x * (next - x) < 0)
    <3>1. (x >= 0 /\ next - x >= 0) \/ (x <= 0 /\ next - x <= 0)
      BY <2>2, SignOfProduct
    <3>2. braking = 0
      BY <2>2
    <3> HIDE DEF brakeStep, more, braking
    <3>3. brakeStep = 0
      BY <1>3, <3>2
    <3>4. y \in Int
      BY <1>3, <1>6 DEF CopySign
    <3>5. x * y < 0 <=> (x > 0 /\ y < 0) \/ (x < 0 /\ y > 0)
      BY <3>4, SignOfProduct
    <3>6. QED
      BY <1>1, <1>6, <3>1, <3>3, <3>5 DEF Shed, Gained, CopySign, Abs
  <2>3. QED
    BY <2>1, <2>2
<1>8. y = Straight(x, next, accel, decel)
  BY DEF Straight
<1> HIDE DEF y, more, gain, brakeStep, braking, distance
<1>9. more * decel <= gain * decel
  BY <1>4, <1>6, ProductMonotone
<1>10. gain * decel = decel * gain /\ accel * (decel - brakeStep) = accel * decel - brakeStep * accel
  BY <1>3, <1>4, Z3
<1>11. /\ more * decel \in Nat /\ gain * decel \in Nat /\ brakeStep * accel \in Nat
       /\ accel * decel \in Nat
  BY <1>3, <1>4, <1>6, Z3
<1>12. brakeStep * accel + more * decel <= accel * decel
  BY <1>4, <1>9, <1>10, <1>11
<1>13. QED
  BY <1>7, <1>8, <1>12

LEMMA SizeOfProduct ==
  ASSUME NEW a \in Int, NEW b \in Int, a * b < 0
  PROVE  -(a * b) = Abs(b) * Abs(a)
<1>1. (a > 0 /\ b < 0) \/ (a < 0 /\ b > 0)
  BY SignOfProduct
<1>2. (-b) * a = -(a * b) /\ b * (-a) = -(a * b)
  BY Z3
<1>3. QED
  BY <1>1, <1>2 DEF Abs

LEMMA HypotAlone ==
  ASSUME NEW d \in Differences
  PROVE  Hypot[d][0] = Abs(d) /\ Hypot[0][d] = Abs(d)
<1>1. d \in Int /\ 0 \in Differences
  BY ActuationAssumption DEF Differences
<1>2. Abs(0) = 0 /\ Abs(d) \in Nat
  BY <1>1 DEF Abs
<1>3. /\ Hypot[d][0] \in Nat /\ Abs(d) <= Hypot[d][0] /\ Hypot[d][0] <= Abs(d) + Abs(0)
  BY <1>1, HypotBounds
<1>4. /\ Hypot[0][d] \in Nat /\ Abs(d) <= Hypot[0][d] /\ Hypot[0][d] <= Abs(0) + Abs(d)
  BY <1>1, HypotBounds
<1> DEFINE size == Abs(d)
<1> HIDE DEF size
<1>5. size \in Nat /\ Hypot[d][0] = size /\ Hypot[0][d] = size
  <2>1. size \in Nat
    BY <1>2 DEF size
  <2> DEFINE ahead == Hypot[d][0]
             aside == Hypot[0][d]
  <2> HIDE DEF ahead, aside
  <2>2. ahead \in Nat /\ size <= ahead /\ ahead <= size + 0
    BY <1>2, <1>3 DEF size, ahead
  <2>3. aside \in Nat /\ size <= aside /\ aside <= 0 + size
    BY <1>2, <1>4 DEF size, aside
  <2>4. QED
    BY <2>1, <2>2, <2>3 DEF ahead, aside
<1>6. QED
  BY <1>5 DEF size

(* Along one axis the way is as long as the difference and the whole of    *)
(* the braking is along it.                                                *)
LEMMA AlongStraight ==
  ASSUME NEW x \in Int, NEW next \in Int,
         NEW accel \in Nat \ {0}, NEW decel \in Nat \ {0}
  PROVE  x + AlongAxis(next - x,
                       StepLength(Abs(next - x), x * (next - x), accel, decel),
                       Abs(next - x))
           = Straight(x, next, accel, decel)
<1> DEFINE d         == next - x
           distance  == Abs(d)
           along     == x * d
           step      == StepLength(distance, along, accel, decel)
           braking   == IF along < 0 THEN Least((-along) \div distance, distance) ELSE 0
           shed      == IF along < 0 THEN Least(Abs(x), distance) ELSE 0
<1>1. d \in Int /\ distance \in Nat /\ Abs(x) \in Nat
  BY DEF Abs
<1>2. along \in Int /\ (distance = 0 => along = 0)
  <2>1. x * 0 = 0
    OBVIOUS
  <2>2. distance = 0 => d = 0
    BY <1>1 DEF Abs
  <2> HIDE DEF d, distance
  <2>3. x * d \in Int
    BY <1>1, Z3
  <2>4. QED
    BY <2>1, <2>2, <2>3
<1>3. braking = shed
  <2>1. CASE along < 0
    <3>1. distance \in Nat \ {0}
      BY <1>1, <1>2, <2>1
    <3>2. -along = distance * Abs(x)
      <4> HIDE DEF d
      <4>1. QED
        BY <1>1, <2>1, SizeOfProduct
    <3>3. (-along) \div distance = Abs(x)
      <4> HIDE DEF distance, along
      <4>1. QED
        BY <1>1, <3>1, <3>2, ExactQuotient
    <3>4. QED
      BY <2>1, <3>3
  <2>2. CASE ~(along < 0)
    BY <2>2
  <2>3. QED
    BY <2>1, <2>2
<1>4. Straight(x, next, accel, decel) = x + CopySign(step, d)
  <2> DEFINE b == Least(shed, decel)
             c == Least(braking, decel)
  <2>1. Straight(x, next, accel, decel)
          = x + CopySign(b + Least(distance - b, (accel * (decel - b)) \div decel), d)
    BY DEF Straight
  <2>2. step = c + Least(distance - c, (accel * (decel - c)) \div decel)
    BY DEF StepLength
  <2>3. b = c
    BY <1>3
  <2> HIDE DEF b, c, step
  <2>4. QED
    BY <2>1, <2>2, <2>3
<1> HIDE DEF along, distance
<1>5. step \in Nat /\ step <= distance /\ (distance > 0 => step > 0)
  BY <1>1, <1>2, StepBounds
<1> HIDE DEF step
<1>6. AlongAxis(d, step, distance) = CopySign(step, d)
  <2>1. CASE d = 0
    <3>1. distance = 0
      BY <2>1 DEF distance, Abs
    <3>2. step = 0
      BY <1>5, <3>1
    <3>3. QED
      BY <2>1, <3>2 DEF AlongAxis, CopySign
  <2>2. CASE d # 0
    <3>1. distance \in Nat \ {0}
      BY <1>1, <2>2 DEF distance, Abs
    <3>2. (distance * step) \div distance = step
      BY <1>5, <3>1, ExactQuotient
    <3>3. (Abs(d) * step) \div distance = step
      BY <3>2 DEF distance
    <3>4. AlongAxis(d, step, distance) = CopySign(Greatest(1, step), d)
      BY <2>2, <3>3 DEF AlongAxis
    <3>5. Greatest(1, step) = step
      BY <1>5, <3>1 DEF Greatest
    <3>6. QED
      BY <3>4, <3>5
  <2>3. QED
    BY <2>1, <2>2
<1>7. QED
  BY <1>4, <1>6 DEF step, along, distance

LEMMA LinearShared ==
  ASSUME NEW at \in Twist, NEW to \in Place,
         NEW accel \in Nat \ {0}, NEW decel \in Nat \ {0}
  PROVE  LET next == AdvanceLinear(at, to, accel, decel)
         IN  /\ at.y = 0 /\ next.y = 0
                 => Shed(at.x, next.x) * accel + Gained(at.x, next.x) * decel <= accel * decel
             /\ at.x = 0 /\ next.x = 0
                 => Shed(at.y, next.y) * accel + Gained(at.y, next.y) * decel <= accel * decel
<1> DEFINE dx        == to.x - at.x
           dy        == to.y - at.y
           distance  == Hypot[dx][dy]
           along     == at.x * dx + at.y * dy
           step      == StepLength(distance, along, accel, decel)
           next      == AdvanceLinear(at, to, accel, decel)
<1>1. /\ dx \in Differences /\ dy \in Differences
      /\ dx \in Int /\ dy \in Int
      /\ at.x \in Int /\ at.y \in Int /\ to.x \in Int /\ to.y \in Int
  BY Differ DEF Twist, Place
<1> DEFINE alongX == AlongAxis(dx, step, distance)
           alongY == AlongAxis(dy, step, distance)
<1>2. next = [x |-> at.x + alongX, y |-> at.y + alongY]
  BY DEF AdvanceLinear
<1> HIDE DEF alongX, alongY
<1>3. next.x = at.x + alongX /\ next.y = at.y + alongY
  <2> HIDE DEF next
  <2>1. QED
    BY <1>2
<1>4. next.x \in Towards(at.x, to.x) /\ next.y \in Towards(at.y, to.y)
  BY LinearTowards
<1> HIDE DEF next
<1>5. at.y = 0 /\ next.y = 0 => dy = 0
  BY <1>1, <1>4, LinearTowards DEF next
<1>6. at.x = 0 /\ next.x = 0 => dx = 0
  BY <1>1, <1>4, LinearTowards DEF next
<1>7. ASSUME at.y = 0, next.y = 0
      PROVE  next.x = Straight(at.x, to.x, accel, decel)
  <2>1. dy = 0 /\ at.y * dy = 0
    BY <1>5, <1>7
  <2>2. distance = Abs(dx)
    BY <1>1, <2>1, HypotAlone
  <2>3. along = at.x * dx
    <3> HIDE DEF dx, dy
    <3>1. at.x * dx \in Int
      BY <1>1, Z3
    <3>2. QED
      BY <2>1, <3>1
  <2>4. at.x + alongX = Straight(at.x, to.x, accel, decel)
    <3>1. at.x + AlongAxis(to.x - at.x,
                           StepLength(Abs(to.x - at.x), at.x * (to.x - at.x), accel, decel),
                           Abs(to.x - at.x))
            = Straight(at.x, to.x, accel, decel)
      BY <1>1, AlongStraight
    <3>2. at.x + AlongAxis(dx, StepLength(Abs(dx), at.x * dx, accel, decel), Abs(dx))
            = Straight(at.x, to.x, accel, decel)
      BY <3>1 DEF dx
    <3> HIDE DEF distance, along
    <3>3. QED
      BY <2>2, <2>3, <3>2 DEF alongX
  <2>5. QED
    BY <1>3, <2>4
<1>8. ASSUME at.x = 0, next.x = 0
      PROVE  next.y = Straight(at.y, to.y, accel, decel)
  <2>1. dx = 0 /\ at.x * dx = 0
    BY <1>6, <1>8
  <2>2. distance = Abs(dy)
    BY <1>1, <2>1, HypotAlone
  <2>3. along = at.y * dy
    <3> HIDE DEF dx, dy
    <3>1. at.y * dy \in Int
      BY <1>1, Z3
    <3>2. QED
      BY <2>1, <3>1
  <2>4. at.y + alongY = Straight(at.y, to.y, accel, decel)
    <3>1. at.y + AlongAxis(to.y - at.y,
                           StepLength(Abs(to.y - at.y), at.y * (to.y - at.y), accel, decel),
                           Abs(to.y - at.y))
            = Straight(at.y, to.y, accel, decel)
      BY <1>1, AlongStraight
    <3>2. at.y + AlongAxis(dy, StepLength(Abs(dy), at.y * dy, accel, decel), Abs(dy))
            = Straight(at.y, to.y, accel, decel)
      BY <3>1 DEF dy
    <3> HIDE DEF distance, along
    <3>3. QED
      BY <2>2, <2>3, <3>2 DEF alongY
  <2>5. QED
    BY <1>3, <2>4
<1>9. QED
  BY <1>1, <1>7, <1>8, StraightShared DEF next

-----------------------------------------------------------------------------
(* Targets.                                                                *)

LEMMA CappedBounds ==
  ASSUME NEW x \in Speeds, NEW limit \in Nat
  PROVE  /\ Capped(x, limit) \in Speeds
         /\ limit > 0 => Abs(Capped(x, limit)) <= limit
  BY ActuationAssumption DEF Capped, Speeds, Abs, CopySign

Within(t, m) ==
  /\ m.maxLinear > 0 => Abs(t.x) <= m.maxLinear /\ Abs(t.y) <= m.maxLinear
  /\ m.maxAngular > 0 => Abs(t.w) <= m.maxAngular

(* One twist that is no faster than another along any axis.                *)
Smaller(s, t) == Abs(s.x) <= Abs(t.x) /\ Abs(s.y) <= Abs(t.y) /\ Abs(s.w) <= Abs(t.w)

LEMMA SlowerSpeed ==
  ASSUME NEW u \in Int, NEW v \in Speeds, Abs(u) <= Abs(v)
  PROVE  u \in Speeds
  BY ActuationAssumption DEF Speeds, Abs

LEMMA SizeOfSpeed ==
  ASSUME NEW u \in Speeds
  PROVE  u \in Int /\ Abs(u) \in Nat /\ Abs(u) <= MaxCmd
  BY ActuationAssumption DEF Speeds, Abs

LEMMA SmallerKeeps ==
  ASSUME NEW m \in ModelType, NEW s \in Twist, NEW t \in Twist, Smaller(s, t), Within(t, m)
  PROVE  Within(s, m)
<1>1. \A u \in Twist : Abs(u.x) \in Nat /\ Abs(u.y) \in Nat /\ Abs(u.w) \in Nat
  BY SizeOfSpeed DEF Twist
<1>2. m.maxLinear \in Nat /\ m.maxAngular \in Nat
  BY DEF ModelType
<1>3. QED
  BY <1>1, <1>2 DEF Smaller, Within

(* The cap of the translation only makes a twist smaller, and holds along  *)
(* each axis of it.                                                        *)
LEMMA CappedLinearBounds ==
  ASSUME NEW m \in ModelType, NEW t \in Twist
  PROVE  LET s == CappedLinear(m, t)
         IN  /\ s \in Twist
             /\ s.w = t.w
             /\ m.maxLinear > 0 => Abs(s.x) <= m.maxLinear /\ Abs(s.y) <= m.maxLinear
<1> DEFINE speed == Hypot[t.x][t.y]
           n     == m.maxLinear
           s     == CappedLinear(m, t)
<1>1. n \in Nat
  BY DEF ModelType
<1>2. t.x \in Speeds /\ t.y \in Speeds /\ t.w \in Speeds
  BY DEF Twist
<1>3. /\ t.x \in Int /\ t.y \in Int /\ Abs(t.x) \in Nat /\ Abs(t.y) \in Nat
      /\ t.x \in Differences /\ t.y \in Differences
  <2>1. Speeds \subseteq Differences
    BY ActuationAssumption DEF Speeds, Differences
  <2>2. QED
    BY <1>2, <2>1, SizeOfSpeed
<1>4. speed \in Nat /\ Abs(t.x) <= speed /\ Abs(t.y) <= speed
  BY <1>3, HypotBounds
<1>5. s = IF n > 0 /\ speed > n
            THEN [t EXCEPT !.x = Part(t.x, n, speed), !.y = Part(t.y, n, speed)]
            ELSE t
  BY DEF CappedLinear, Twist
<1> HIDE DEF speed, n, s
<1>6. CASE n > 0 /\ speed > n
  <2> DEFINE x == Part(t.x, n, speed)
             y == Part(t.y, n, speed)
  <2>1. speed \in Nat \ {0} /\ n <= speed
    BY <1>1, <1>4, <1>6
  <2>2. x \in Int /\ Abs(x) <= Abs(t.x) /\ Abs(x) <= n
    BY <1>1, <1>3, <1>4, <2>1, PartBounds
  <2>3. y \in Int /\ Abs(y) <= Abs(t.y) /\ Abs(y) <= n
    BY <1>1, <1>3, <1>4, <2>1, PartBounds
  <2>4. s = [t EXCEPT !.x = x, !.y = y]
    BY <1>5, <1>6
  <2> HIDE DEF x, y
  <2>5. x \in Speeds /\ y \in Speeds
    BY <1>2, <2>2, <2>3, SlowerSpeed
  <2>6. QED
    BY <2>2, <2>3, <2>4, <2>5 DEF Twist, s, n
<1>7. CASE ~(n > 0 /\ speed > n)
  <2>1. s = t
    BY <1>5, <1>7
  <2>2. n > 0 => Abs(t.x) <= n /\ Abs(t.y) <= n
    BY <1>1, <1>3, <1>4, <1>7
  <2>3. QED
    BY <2>1, <2>2 DEF s, n
<1>8. QED
  BY <1>6, <1>7

(* The budget only makes a twist smaller. *)
LEMMA BudgetBounds ==
  ASSUME NEW m \in ModelType, NEW t \in Twist
  PROVE  WithinBudget(m, t) \in Twist /\ Smaller(WithinBudget(m, t), t)
<1> DEFINE peak == Abs(t.x) + Abs(t.y) + Abs(t.w)
           n    == m.budget
<1>1. n \in Nat
  BY DEF ModelType
<1>2. t.x \in Speeds /\ t.y \in Speeds /\ t.w \in Speeds
  BY DEF Twist
<1>3. /\ t.x \in Int /\ t.y \in Int /\ t.w \in Int
      /\ Abs(t.x) \in Nat /\ Abs(t.y) \in Nat /\ Abs(t.w) \in Nat
  BY <1>2, SizeOfSpeed
<1>4. peak \in Nat /\ Abs(t.x) <= peak /\ Abs(t.y) <= peak /\ Abs(t.w) <= peak
  BY <1>3
<1>5. WithinBudget(m, t)
        = IF n > 0 /\ peak > n
            THEN [x |-> Part(t.x, n, peak), y |-> Part(t.y, n, peak), w |-> Part(t.w, n, peak)]
            ELSE t
  BY DEF WithinBudget
<1> HIDE DEF peak, n
<1>6. CASE n > 0 /\ peak > n
  <2> DEFINE x == Part(t.x, n, peak)
             y == Part(t.y, n, peak)
             w == Part(t.w, n, peak)
  <2>1. peak \in Nat \ {0} /\ n <= peak
    BY <1>1, <1>4, <1>6
  <2>2. /\ x \in Int /\ Abs(x) <= Abs(t.x)
        /\ y \in Int /\ Abs(y) <= Abs(t.y)
        /\ w \in Int /\ Abs(w) <= Abs(t.w)
    BY <1>1, <1>3, <1>4, <2>1, PartBounds
  <2>3. WithinBudget(m, t) = [x |-> x, y |-> y, w |-> w]
    BY <1>5, <1>6
  <2> HIDE DEF x, y, w
  <2>4. x \in Speeds /\ y \in Speeds /\ w \in Speeds
    BY <1>2, <2>2, SlowerSpeed
  <2>5. QED
    BY <2>2, <2>3, <2>4 DEF Twist, Smaller
<1>7. CASE ~(n > 0 /\ peak > n)
  <2>1. WithinBudget(m, t) = t
    BY <1>5, <1>7
  <2>2. QED
    BY <1>3, <2>1 DEF Smaller
<1>8. QED
  BY <1>6, <1>7

LEMMA TargetCapped ==
  ASSUME NEW m \in ModelType, NEW c \in Twist
  PROVE  Target(m, c) \in Twist /\ Within(Target(m, c), m)
<1> DEFINE w == Capped(Dropped(m, c.w), m.maxAngular)
           u == [c EXCEPT !.w = w]
           t == CappedLinear(m, u)
           b == WithinBudget(m, t)
<1>1. m.maxLinear \in Nat /\ m.maxAngular \in Nat
  BY DEF ModelType
<1>2. Dropped(m, c.w) \in Speeds
  BY ActuationAssumption DEF Twist, Speeds, Dropped
<1>3. w \in Speeds /\ (m.maxAngular > 0 => Abs(w) <= m.maxAngular)
  BY <1>1, <1>2, CappedBounds
<1>4. Target(m, c) = b
  BY DEF Target, Twist
<1> HIDE DEF w
<1>5. u \in Twist /\ u.w = w
  BY <1>3 DEF Twist
<1> HIDE DEF u
<1>6. /\ t \in Twist /\ t.w = w
      /\ m.maxLinear > 0 => Abs(t.x) <= m.maxLinear /\ Abs(t.y) <= m.maxLinear
  BY <1>5, CappedLinearBounds
<1> HIDE DEF t
<1>7. Within(t, m)
  BY <1>3, <1>6 DEF Within
<1>8. b \in Twist /\ Smaller(b, t)
  BY <1>6, BudgetBounds
<1> HIDE DEF b
<1>9. Within(b, m)
  BY <1>6, <1>7, <1>8, SmallerKeeps
<1>10. QED
  BY <1>4, <1>8, <1>9

-----------------------------------------------------------------------------
(* Steps.                                                                  *)

LEMMA LagTowards ==
  ASSUME NEW m \in ModelType, NEW x \in Int, NEW t \in Int, NEW y \in Lagged(m, x, t)
  PROVE  y \in Towards(x, t)
  BY DEF Lagged, Towards

LEMMA TowardsTwice ==
  ASSUME NEW x \in Int, NEW t \in Int, NEW v \in Towards(x, t), NEW y \in Towards(x, v)
  PROVE  y \in Towards(x, t)
  BY DEF Towards

LEMMA TowardsBetween ==
  ASSUME NEW x \in Int, NEW t \in Int, NEW y \in Towards(x, t), NEW n \in Nat,
         Abs(x) <= n, Abs(t) <= n
  PROVE  y \in Int /\ Abs(y) <= n
  BY DEF Towards, Abs

LEMMA TranslationTowards ==
  ASSUME NEW m \in ModelType, NEW at \in Twist, NEW to \in Place
  PROVE  LET next == AdvanceTranslation(m, at, to)
         IN  next.x \in Towards(at.x, to.x) /\ next.y \in Towards(at.y, to.y)
<1>1. /\ m.linAccel \in Nat /\ m.linDecel \in Nat
      /\ m.accelX \in Nat /\ m.decelX \in Nat /\ m.accelY \in Nat /\ m.decelY \in Nat
  BY DEF ModelType
<1>2. CASE Combined(m)
  <2>1. m.linAccel \in Nat \ {0} /\ m.linDecel \in Nat \ {0}
    BY <1>1, <1>2 DEF Combined
  <2>2. QED
    BY <1>2, <2>1, LinearTowards DEF AdvanceTranslation
<1>3. CASE ~Combined(m)
  <2>1. at.x \in Int /\ at.y \in Int /\ to.x \in Int /\ to.y \in Int
    BY Differ DEF Twist, Place
  <2>2. /\ AdvanceAxis(at.x, to.x, m.accelX, m.decelX) \in Towards(at.x, to.x)
        /\ AdvanceAxis(at.y, to.y, m.accelY, m.decelY) \in Towards(at.y, to.y)
    BY <1>1, <2>1, AxisTowards
  <2>3. QED
    BY <1>3, <2>2 DEF AdvanceTranslation
<1>4. QED
  BY <1>2, <1>3

LEMMA TowardsSpeed ==
  ASSUME NEW u \in Speeds, NEW t \in Speeds, NEW v \in Towards(u, t)
  PROVE  v \in Speeds
  BY ActuationAssumption DEF Speeds, Towards

(* What a tick does: part of the way along every axis, in one of the two   *)
(* ways of AdvanceTranslation.                                             *)
LEMMA Ticks ==
  ASSUME TypeOK, AdvanceActuation
  PROVE  /\ Target(model, cmd) \in Twist /\ Within(Target(model, cmd), model)
         /\ applied' \in Twist
         /\ applied'.x \in Towards(applied.x, Target(model, cmd).x)
         /\ applied'.y \in Towards(applied.y, Target(model, cmd).y)
         /\ applied'.w \in Towards(applied.w, Target(model, cmd).w)
         /\ \E to \in Place :
              /\ applied'.x = AdvanceTranslation(model, applied, to).x
              /\ applied'.y = AdvanceTranslation(model, applied, to).y
<1> DEFINE t == Target(model, cmd)
<1>1. model \in ModelType /\ applied \in Twist /\ cmd \in Twist
  BY ModelTyped DEF TypeOK
<1>2. t \in Twist /\ Within(t, model)
  BY <1>1, TargetCapped
<1>3. /\ t.x \in Speeds /\ t.y \in Speeds /\ t.w \in Speeds
      /\ applied.x \in Speeds /\ applied.y \in Speeds /\ applied.w \in Speeds
  BY <1>1, <1>2 DEF Twist
<1> HIDE DEF t
<1>4. Speeds \subseteq Int
  BY ActuationAssumption DEF Speeds
<1>5. PICK moved \in Translations(model, applied, t), turned \in Turns(model, applied, t) :
        applied' = [x |-> moved.x, y |-> moved.y, w |-> turned]
  BY DEF AdvanceActuation, t
<1>6. PICK to \in [x : Lagged(model, applied.x, t.x), y : Lagged(model, applied.y, t.y)] :
        moved = AdvanceTranslation(model, applied, to)
  BY <1>5 DEF Translations
<1>7. PICK w \in Lagged(model, applied.w, t.w) :
        turned = AdvanceAxis(applied.w, w, model.angular, model.angular)
  BY <1>5 DEF Turns
<1>8. /\ to.x \in Towards(applied.x, t.x) /\ to.y \in Towards(applied.y, t.y)
      /\ w \in Towards(applied.w, t.w)
  BY <1>1, <1>3, <1>4, <1>6, <1>7, LagTowards
<1>9. to.x \in Speeds /\ to.y \in Speeds /\ w \in Speeds
  BY <1>3, <1>8, TowardsSpeed
<1>10. to \in Place
  BY <1>6, <1>9 DEF Place
<1>11. moved.x \in Towards(applied.x, to.x) /\ moved.y \in Towards(applied.y, to.y)
  BY <1>1, <1>6, <1>10, TranslationTowards
<1>12. model.angular \in Nat
  BY <1>1 DEF ModelType
<1>13. turned \in Towards(applied.w, w)
  BY <1>3, <1>4, <1>7, <1>9, <1>12, AxisTowards
<1>14. /\ moved.x \in Towards(applied.x, t.x) /\ moved.y \in Towards(applied.y, t.y)
       /\ turned \in Towards(applied.w, t.w)
  BY <1>3, <1>4, <1>8, <1>11, <1>13, TowardsTwice
<1>15. moved.x \in Speeds /\ moved.y \in Speeds /\ turned \in Speeds
  BY <1>3, <1>14, TowardsSpeed
<1>16. applied' \in Twist /\ applied'.x = moved.x /\ applied'.y = moved.y /\ applied'.w = turned
  BY <1>5, <1>15 DEF Twist
<1>17. QED
  BY <1>2, <1>6, <1>10, <1>14, <1>16 DEF t

-----------------------------------------------------------------------------
CapInv == TypeOK /\ SpeedsCapped

LEMMA CapInvHolds == Spec => []CapInv
<1>1. Init => CapInv
  <2> SUFFICES ASSUME Init PROVE CapInv
    OBVIOUS
  <2>1. model \in ModelType /\ Rest \in Twist
    BY ModelTyped, ActuationAssumption DEF Init, Rest, Twist, Speeds
  <2>2. SpeedsCapped
    BY <2>1 DEF Init, Rest, SpeedsCapped, Abs, ModelType
  <2>3. QED
    BY <2>1, <2>2 DEF Init, CapInv, TypeOK
<1>2. CapInv /\ [Next]_vars => CapInv'
  <2> SUFFICES ASSUME CapInv, [Next]_vars PROVE CapInv'
    OBVIOUS
  <2>1. CASE Command
    <3>1. EitherWay(Drives) \subseteq Speeds /\ EitherWay(Turned) \subseteq Speeds
      BY DEF EitherWay
    <3>2. cmd' \in Twist
      BY <2>1, <3>1 DEF Command, Twist
    <3>3. QED
      BY <2>1, <3>2 DEF Command, CapInv, TypeOK, SpeedsCapped
  <2>2. CASE ResetMotion
    <3>1. model \in ModelType /\ Rest \in Twist
      BY ModelTyped, ActuationAssumption DEF CapInv, TypeOK, Rest, Twist, Speeds
    <3>2. SpeedsCapped'
      BY <2>2, <3>1 DEF ResetMotion, Rest, SpeedsCapped, Abs, ModelType
    <3>3. QED
      BY <2>2, <3>1, <3>2 DEF ResetMotion, CapInv, TypeOK
  <2>3. CASE AdvanceActuation
    <3> DEFINE t == Target(model, cmd)
    <3>1. model \in ModelType /\ model.maxLinear \in Nat /\ model.maxAngular \in Nat
      BY ModelTyped DEF CapInv, TypeOK, ModelType
    <3>2. /\ t \in Twist /\ Within(t, model) /\ applied' \in Twist
          /\ applied'.x \in Towards(applied.x, t.x)
          /\ applied'.y \in Towards(applied.y, t.y)
          /\ applied'.w \in Towards(applied.w, t.w)
      BY <2>3, Ticks DEF CapInv
    <3> HIDE DEF t
    <3>3. /\ applied.x \in Int /\ applied.y \in Int /\ applied.w \in Int
          /\ t.x \in Int /\ t.y \in Int /\ t.w \in Int
      BY <3>2, SizeOfSpeed DEF CapInv, TypeOK, Twist
    <3>4. ASSUME model.maxLinear > 0
          PROVE  Abs(applied'.x) <= model.maxLinear /\ Abs(applied'.y) <= model.maxLinear
      <4>1. /\ Abs(applied.x) <= model.maxLinear /\ Abs(t.x) <= model.maxLinear
            /\ Abs(applied.y) <= model.maxLinear /\ Abs(t.y) <= model.maxLinear
        BY <3>2, <3>4 DEF CapInv, SpeedsCapped, Within
      <4>2. QED
        BY <3>1, <3>2, <3>3, <4>1, TowardsBetween
    <3>5. ASSUME model.maxAngular > 0 PROVE Abs(applied'.w) <= model.maxAngular
      <4>1. Abs(applied.w) <= model.maxAngular /\ Abs(t.w) <= model.maxAngular
        BY <3>2, <3>5 DEF CapInv, SpeedsCapped, Within
      <4>2. QED
        BY <3>1, <3>2, <3>3, <4>1, TowardsBetween
    <3>6. model' = model /\ cmd' = cmd
      BY <2>3 DEF AdvanceActuation
    <3>7. TypeOK'
      BY <3>2, <3>6 DEF CapInv, TypeOK
    <3>8. SpeedsCapped'
      BY <3>4, <3>5, <3>6 DEF SpeedsCapped
    <3>9. QED
      BY <3>7, <3>8 DEF CapInv
  <2>4. CASE UNCHANGED vars
    BY <2>4 DEF vars, CapInv, TypeOK, SpeedsCapped
  <2>5. QED
    BY <2>1, <2>2, <2>3, <2>4 DEF Next
<1>3. QED
  BY <1>1, <1>2, PTL DEF Spec

(* Applied speeds and commands stay in range: no limit and no lag carries  *)
(* a robot past the largest speed that was ever commanded.                 *)
THEOREM ActuationTypeCorrect == Spec => []TypeOK
  BY CapInvHolds, PTL DEF CapInv

(* The speed a robot has reached along each axis, and its turn, stay below *)
(* the caps of its model, for any caps, limits and time constants          *)
(* (MaxLinearVelMmS, MaxAngularVelRadS in advanceActuation).               *)
THEOREM CapsHold == Spec => []SpeedsCapped
  BY CapInvHolds, PTL DEF CapInv

(* A tick goes towards its target along every axis and never past it, for  *)
(* any limits and time constants (advanceActuation).                       *)
THEOREM TicksNeverPass == Spec => NeverPast
<1>1. CapInv /\ [Next]_vars =>
        [AdvanceActuation =>
           \A axis \in {"x", "y", "w"} :
             applied'[axis] \in Towards(applied[axis], Target(model, cmd)[axis])]_vars
  <2> SUFFICES ASSUME CapInv, AdvanceActuation, NEW axis \in {"x", "y", "w"}
               PROVE  applied'[axis] \in Towards(applied[axis], Target(model, cmd)[axis])
    OBVIOUS
  <2>1. /\ applied'.x \in Towards(applied.x, Target(model, cmd).x)
        /\ applied'.y \in Towards(applied.y, Target(model, cmd).y)
        /\ applied'.w \in Towards(applied.w, Target(model, cmd).w)
    BY Ticks DEF CapInv
  <2>2. axis = "x" \/ axis = "y" \/ axis = "w"
    OBVIOUS
  <2>3. QED
    BY <2>1, <2>2, Zenon
<1>2. QED
  BY <1>1, CapInvHolds, PTL DEF Spec, NeverPast

(* A tick along one axis never has more time for braking and accelerating  *)
(* together than one tick, for any two limits (advanceActuation).          *)
THEOREM TickTimeShared == Spec => TickIsShared
<1>1. CapInv /\ [Next]_vars =>
        [AdvanceActuation /\ Combined(model) =>
           /\ applied.y = 0 /\ applied'.y = 0 => InOneTick(applied.x, applied'.x)
           /\ applied.x = 0 /\ applied'.x = 0 => InOneTick(applied.y, applied'.y)]_vars
  <2> SUFFICES ASSUME CapInv, AdvanceActuation, Combined(model)
               PROVE  /\ applied.y = 0 /\ applied'.y = 0 => InOneTick(applied.x, applied'.x)
                      /\ applied.x = 0 /\ applied'.x = 0 => InOneTick(applied.y, applied'.y)
    OBVIOUS
  <2>1. /\ model.linAccel \in Nat \ {0} /\ model.linDecel \in Nat \ {0}
        /\ applied \in Twist
    BY ModelTyped DEF CapInv, TypeOK, ModelType, Combined
  <2>2. PICK to \in Place :
          /\ applied'.x = AdvanceTranslation(model, applied, to).x
          /\ applied'.y = AdvanceTranslation(model, applied, to).y
    BY Ticks DEF CapInv
  <2> DEFINE next == AdvanceLinear(applied, to, model.linAccel, model.linDecel)
  <2>3. applied'.x = next.x /\ applied'.y = next.y
    BY <2>2 DEF AdvanceTranslation
  <2>4. /\ applied.y = 0 /\ next.y = 0
              => Shed(applied.x, next.x) * model.linAccel + Gained(applied.x, next.x) * model.linDecel
                   <= model.linAccel * model.linDecel
        /\ applied.x = 0 /\ next.x = 0
              => Shed(applied.y, next.y) * model.linAccel + Gained(applied.y, next.y) * model.linDecel
                   <= model.linAccel * model.linDecel
    BY <2>1, LinearShared
  <2> HIDE DEF next
  <2>5. QED
    BY <2>3, <2>4 DEF InOneTick
<1>2. QED
  BY <1>1, CapInvHolds, PTL DEF Spec, TickIsShared
=============================================================================

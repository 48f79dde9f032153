-------------------------- MODULE VisionOutputProofs --------------------------
(***************************************************************************)
(* Proofs about VisionOutput: what is published of a hidden ball, and what *)
(* a client can rely on, for any period of the geometry, any places and    *)
(* any losses.                                                             *)
(***************************************************************************)
EXTENDS VisionOutput, TLAPS

(* A counter stays below its modulus. *)
LEMMA AfterType ==
  ASSUME NEW m \in Nat \ {0}, NEW n \in 0 .. m - 1
  PROVE  After(n, m) \in 0 .. m - 1
  BY DEF After

LEMMA ClientFields ==
  ASSUME NEW h, NEW k, NEW l, NEW m
  PROVE  LET c == [heard |-> h, knows |-> k, last |-> l, missed |-> m]
         IN  c.heard = h /\ c.knows = k /\ c.last = l /\ c.missed = m
  OBVIOUS

Counts == [heard : 0 .. Period, knows : BOOLEAN,
           last : 0 .. Numbers - 1 \cup {None}, missed : 0 .. Numbers - 1]

(* What a frame does to the client: it hears the packet of the frame or it *)
(* hears nothing.                                                          *)
LEMMA HearFields ==
  ASSUME TypeOK, NEW b \in Balls, Send(b, TRUE), Hear
  PROVE  /\ client' \in Counts
         /\ client'.heard = IF client.heard < Period THEN client.heard + 1 ELSE Period
         /\ client'.knows <=> client.knows \/ geometryCount = 0
         /\ client'.last = captureCount
         /\ client'.missed = 0
<1>1. client \in Counts /\ captureCount \in 0 .. Numbers - 1
  BY DEF TypeOK, Counts
<1>2. Period \in Nat \ {0} /\ Numbers \in Nat \ {0}
  BY VisionAssumption
<1>3. packet'.number = captureCount /\ packet'.geometry = (geometryCount = 0)
  BY DEF Send, WithGeometry
<1>4. client' = [heard  |-> IF client.heard < Period THEN client.heard + 1 ELSE Period,
                 knows  |-> client.knows \/ (geometryCount = 0),
                 last   |-> captureCount,
                 missed |-> 0]
  BY <1>3 DEF Hear
<1>5. (client.knows \/ (geometryCount = 0)) \in BOOLEAN
  OBVIOUS
<1>6. (IF client.heard < Period THEN client.heard + 1 ELSE Period) \in 0 .. Period
  BY <1>1, <1>2 DEF Counts
<1>7. client' \in Counts
  BY <1>1, <1>2, <1>4, <1>5, <1>6 DEF Counts
<1>8. QED
  BY <1>4, <1>7

LEMMA MissFields ==
  ASSUME TypeOK, Miss
  PROVE  /\ client' \in Counts
         /\ client'.heard = 0
         /\ client'.knows = client.knows
         /\ client'.last = client.last
         /\ client'.missed = IF client.last = None THEN 0 ELSE After(client.missed, Numbers)
<1>1. client \in Counts
  BY DEF TypeOK, Counts
<1>2. Period \in Nat \ {0} /\ Numbers \in Nat \ {0}
  BY VisionAssumption
<1>3. client' = [heard |-> 0, knows |-> client.knows, last |-> client.last,
                 missed |-> IF client.last = None THEN 0 ELSE After(client.missed, Numbers)]
  BY <1>1 DEF Miss, Counts
<1>4. After(client.missed, Numbers) \in 0 .. Numbers - 1
  BY <1>1, <1>2, AfterType DEF Counts
<1>5. QED
  BY <1>1, <1>2, <1>3, <1>4 DEF Counts

LEMMA NewClientFields ==
  /\ NewClient \in Counts
  /\ NewClient.heard = 0 /\ NewClient.knows = FALSE
  /\ NewClient.last = None /\ NewClient.missed = 0
  BY VisionAssumption DEF NewClient, Counts

(* The frame handler, with its inputs named. *)
LEMMA DetectionType ==
  ASSUME NEW b \in Balls
  PROVE  Detection(b) \in Places \cup {None}
  BY DEF Detection, Balls

LEMMA FrameTyped ==
  ASSUME TypeOK, NEW b \in Balls, NEW left \in BOOLEAN, NEW right \in BOOLEAN,
         NEW ok \in BOOLEAN, NEW delivered \in BOOLEAN,
         Frame(b, left, right, ok, delivered)
  PROVE  TypeOK'
<1>1. isFoundBall' \in BOOLEAN
  BY DEF Frame, NextFound, TypeOK
<1>2. ballPosition' \in Balls
  BY DEF Frame, Published, TypeOK
<1>3. Send(ballPosition', ok)
  BY DEF Frame
<1>4. geometryCount' \in 0 .. Period - 1
  BY <1>3, AfterType, VisionAssumption DEF Send, TypeOK
<1>5. captureCount' \in 0 .. Numbers - 1
  BY <1>3, AfterType, VisionAssumption DEF Send, NextCapture, TypeOK
<1>6. packet' \in Packet \cup {None}
  <2>1. CASE ok
    <3>1. packet' = [number |-> captureCount, ball |-> Detection(ballPosition'),
                     geometry |-> (geometryCount = 0)]
      BY <1>3, <2>1 DEF Send, WithGeometry
    <3>2. /\ captureCount \in 0 .. Numbers - 1
          /\ Detection(ballPosition') \in Places \cup {None}
          /\ (geometryCount = 0) \in BOOLEAN
      BY <1>2, DetectionType DEF TypeOK
    <3>3. QED
      BY <3>1, <3>2 DEF Packet
  <2>2. CASE ~ok
    BY <1>3, <2>2 DEF Send
  <2>3. QED
    BY <2>1, <2>2
<1>7. client' \in Counts
  <2>1. CASE ok /\ delivered
    BY <1>2, <1>3, <2>1, HearFields DEF Frame
  <2>2. CASE ~(ok /\ delivered)
    BY <2>2, MissFields DEF Frame
  <2>3. QED
    BY <2>1, <2>2
<1>8. gone' \in Balls \cup {None} /\ ball' \in Balls /\ frozen' \in BOOLEAN
  BY DEF Frame, TypeOK
<1>9. hideBallMode' \in BOOLEAN /\ endpointOpen' \in BOOLEAN
  BY DEF Frame, TypeOK
<1>10. QED
  BY <1>1, <1>2, <1>4, <1>5, <1>6, <1>7, <1>8, <1>9 DEF TypeOK, Counts

LEMMA LooksType == Looks \subseteq BOOLEAN
  BY DEF Looks, Seen

LEMMA TypeInductive == TypeOK /\ [Next]_vars => TypeOK'
<1> SUFFICES ASSUME TypeOK, [Next]_vars PROVE TypeOK'
  OBVIOUS
<1>1. CASE AnyFrame
  BY <1>1, FrameTyped, LooksType DEF AnyFrame
<1>2. CASE SetHideBallMode
  BY <1>2 DEF SetHideBallMode, TypeOK, sender
<1>3. CASE SetPort
  BY <1>3 DEF SetPort, TypeOK, sender
<1>4. CASE Join
  BY <1>4, NewClientFields DEF Join, TypeOK, sender, Counts
<1>5. CASE UNCHANGED vars
  BY <1>5 DEF vars, TypeOK, sender
<1>6. QED
  BY <1>1, <1>2, <1>3, <1>4, <1>5 DEF Next

LEMMA InitTyped == Init => TypeOK
<1> SUFFICES ASSUME Init PROVE TypeOK
  OBVIOUS
<1>1. Period \in Nat \ {0} /\ Numbers \in Nat \ {0}
  BY VisionAssumption
<1>2. client \in Counts
  BY NewClientFields DEF Init
<1>3. isFoundBall \in BOOLEAN /\ frozen \in BOOLEAN
  BY DEF Init
<1>4. /\ ballPosition \in Balls /\ ball \in Balls /\ gone \in Balls \cup {None}
      /\ packet \in Packet \cup {None}
  BY DEF Init, Balls
<1>5. QED
  BY <1>1, <1>2, <1>3, <1>4 DEF Init, TypeOK, Counts

(* Every state is well typed: the counters stay below their moduli, and a  *)
(* packet never shows a ball farther out than 20 m (setDetectionInfo).     *)
THEOREM VisionTypeCorrect == Spec => []TypeOK
<1>1. Init => TypeOK
  BY InitTyped
<1>2. TypeOK /\ [Next]_vars => TypeOK'
  BY TypeInductive
<1>3. QED
  BY <1>1, <1>2, PTL DEF Spec
-----------------------------------------------------------------------------
(* The flag of the window is set unless the ball is lost or frozen, and    *)
(* what is published of a lost one is where it was lost.                   *)
HiddenInv ==
  /\ isFoundBall <=> gone = None /\ ~frozen
  /\ HiddenBallStaysPut

LEMMA HiddenFrame ==
  ASSUME TypeOK, HiddenInv, NEW b \in Balls,
         NEW left \in BOOLEAN, NEW right \in BOOLEAN,
         NEW ok \in BOOLEAN, NEW delivered \in BOOLEAN,
         Frame(b, left, right, ok, delivered)
  PROVE  HiddenInv'
<1>1. b # None
  BY VisionAssumption DEF Balls
<1>2. CASE ~hideBallMode
  <2>1. isFoundBall' = isFoundBall /\ gone' = None /\ frozen' = (frozen \/ gone # None)
    BY <1>2 DEF Frame, NextFound
  <2>2. QED
    BY <2>1 DEF HiddenInv, HiddenBallStaysPut
<1>3. CASE hideBallMode /\ (left \/ right)
  <2>1. isFoundBall' = TRUE /\ gone' = None /\ frozen' = FALSE
    BY <1>3 DEF Frame, NextFound
  <2>2. QED
    BY <2>1 DEF HiddenInv, HiddenBallStaysPut
<1>4. CASE hideBallMode /\ ~(left \/ right)
  <2>1. /\ isFoundBall' = FALSE /\ gone' = (IF gone = None THEN b ELSE gone)
        /\ frozen' = frozen
    BY <1>4 DEF Frame, NextFound, TypeOK
  <2>2. ballPosition' = IF isFoundBall THEN b ELSE ballPosition
    BY DEF Frame, Published
  <2>3. CASE gone = None
    BY <1>1, <2>1, <2>2, <2>3 DEF HiddenInv, HiddenBallStaysPut
  <2>4. CASE gone # None
    BY <2>1, <2>2, <2>4 DEF HiddenInv, HiddenBallStaysPut
  <2>5. QED
    BY <2>3, <2>4
<1>5. QED
  BY <1>2, <1>3, <1>4

LEMMA HiddenStep == TypeOK /\ HiddenInv /\ [Next]_vars => HiddenInv'
<1> SUFFICES ASSUME TypeOK, HiddenInv, [Next]_vars PROVE HiddenInv'
  OBVIOUS
<1>1. CASE AnyFrame
  BY <1>1, HiddenFrame, LooksType DEF AnyFrame
<1>2. CASE UNCHANGED <<isFoundBall, ballPosition, gone, frozen>>
  BY <1>2 DEF HiddenInv, HiddenBallStaysPut
<1>3. QED
  BY <1>1, <1>2 DEF Next, SetHideBallMode, SetPort, Join, vars, sender

LEMMA HiddenInvariant == Spec => []HiddenInv
<1>1. Init => HiddenInv
  BY DEF Init, HiddenInv, HiddenBallStaysPut
<1>2. QED
  BY <1>1, HiddenStep, VisionTypeCorrect, PTL DEF Spec

(* What is published of a ball neither ceiling camera sees is the place    *)
(* where they lost it, however long and through any switching of the mode, *)
(* unless it was frozen before by switching the mode off while it was lost. *)
THEOREM HiddenBallNotFollowed == Spec => []HiddenBallStaysPut
  BY HiddenInvariant, PTL DEF HiddenInv

(* Every packet shows the ball of its own frame, or the place where the    *)
(* cameras lost it, or a frozen one where it was: no packet is a frame     *)
(* late, and none follows a ball that nobody could see.                    *)
THEOREM PacketsShowBall == Spec => PacketShowsBall
<1>1. TypeOK /\ HiddenInv /\ [Next]_vars =>
        [AnyFrame /\ packet' # None =>
           LET shown == IF frozen THEN ballPosition ELSE IF gone # None THEN gone ELSE ball'
           IN  packet'.ball = IF shown \in Places THEN shown ELSE None]_vars
  <2> SUFFICES ASSUME TypeOK, HiddenInv, AnyFrame, packet' # None
               PROVE  LET shown == IF frozen THEN ballPosition ELSE IF gone # None THEN gone ELSE ball'
                      IN  packet'.ball = IF shown \in Places THEN shown ELSE None
    OBVIOUS
  <2>1. PICK b \in Balls, left \in Looks, right \in Looks, ok \in BOOLEAN,
             delivered \in BOOLEAN : Frame(b, left, right, ok, delivered)
    BY DEF AnyFrame
  <2>2. /\ ball' = b /\ ballPosition' = (IF isFoundBall THEN b ELSE ballPosition)
        /\ Send(ballPosition', ok)
    BY <2>1 DEF Frame, Published
  <2>3. ballPosition' = IF frozen THEN ballPosition ELSE IF gone # None THEN gone ELSE b
    BY <2>2 DEF HiddenInv, HiddenBallStaysPut
  <2>4. packet'.ball = Detection(ballPosition')
    BY <2>2 DEF Send
  <2>5. ballPosition' \in Balls
    BY <2>1, <2>2 DEF TypeOK
  <2>6. QED
    BY <2>2, <2>3, <2>4, <2>5, VisionAssumption DEF Detection, Balls
<1>2. QED
  BY <1>1, HiddenInvariant, VisionTypeCorrect, PTL DEF Spec, PacketShowsBall

-----------------------------------------------------------------------------
(* While a client does not know the field, the frames it has heard in a    *)
(* row are all of after the last geometry.                                 *)
PeriodInv ==
  ~client.knows =>
    IF geometryCount = 0 THEN client.heard < Period ELSE client.heard < geometryCount

(* The counter of a frame in numbers, without the IF of After. *)
LEMMA GeometryStep ==
  ASSUME TypeOK, NEW b, NEW ok \in BOOLEAN, Send(b, ok)
  PROVE  /\ geometryCount \in Nat /\ geometryCount < Period
         /\ geometryCount + 1 = Period => geometryCount' = 0
         /\ geometryCount + 1 # Period => geometryCount' = geometryCount + 1
<1>1. geometryCount \in 0 .. Period - 1 /\ Period \in Nat \ {0}
  BY VisionAssumption DEF TypeOK
<1>2. geometryCount' = IF geometryCount + 1 = Period THEN 0 ELSE geometryCount + 1
  BY DEF Send, After
<1>3. QED
  BY <1>1, <1>2

LEMMA PeriodFrame ==
  ASSUME TypeOK, PeriodInv, NEW b \in Balls,
         NEW left \in BOOLEAN, NEW right \in BOOLEAN,
         NEW ok \in BOOLEAN, NEW delivered \in BOOLEAN,
         Frame(b, left, right, ok, delivered)
  PROVE  PeriodInv'
<1>1. Send(ballPosition', ok) /\ ballPosition' \in Balls
  BY DEF Frame, Published, TypeOK
<1>2. /\ geometryCount \in Nat /\ geometryCount < Period /\ Period \in Nat \ {0}
      /\ geometryCount + 1 = Period => geometryCount' = 0
      /\ geometryCount + 1 # Period => geometryCount' = geometryCount + 1
  BY <1>1, GeometryStep, VisionAssumption
<1>3. client.heard \in 0 .. Period /\ client.knows \in BOOLEAN
  BY DEF TypeOK
<1>4. CASE ok /\ delivered
  <2>1. /\ client'.heard = IF client.heard < Period THEN client.heard + 1 ELSE Period
        /\ client'.knows <=> client.knows \/ geometryCount = 0
    BY <1>1, <1>4, HearFields DEF Frame
  <2>2. SUFFICES ASSUME ~client'.knows
                 PROVE  IF geometryCount' = 0 THEN client'.heard < Period
                                              ELSE client'.heard < geometryCount'
    BY DEF PeriodInv
  <2>3. ~client.knows /\ geometryCount # 0
    BY <2>1, <2>2
  <2>4. client.heard < geometryCount
    BY <2>3 DEF PeriodInv
  <2>5. client'.heard = client.heard + 1
    BY <1>2, <1>3, <2>1, <2>4
  <2>6. QED
    BY <1>2, <1>3, <2>3, <2>4, <2>5
<1>5. CASE ~(ok /\ delivered)
  <2>1. client'.heard = 0
    BY <1>5, MissFields DEF Frame
  <2>2. geometryCount' \in Nat
    BY <1>2
  <2>3. QED
    BY <1>2, <2>1, <2>2 DEF PeriodInv
<1>6. QED
  BY <1>4, <1>5

(* A client that has heard as many frames in a row as lie between two      *)
(* geometries knows the field, for any such number, whenever it joined and *)
(* whatever the network lost before.                                       *)
THEOREM GeometryHeard == Spec => []GeometryWithinPeriod
<1>1. Init => PeriodInv
  BY NewClientFields, VisionAssumption DEF Init, PeriodInv
<1>2. TypeOK /\ PeriodInv /\ [Next]_vars => PeriodInv'
  <2> SUFFICES ASSUME TypeOK, PeriodInv, [Next]_vars PROVE PeriodInv'
    OBVIOUS
  <2>1. CASE AnyFrame
    BY <2>1, PeriodFrame, LooksType DEF AnyFrame
  <2>2. CASE Join
    <3>1. geometryCount' \in Nat /\ client'.heard = 0
      BY <2>2, NewClientFields DEF Join, TypeOK, sender
    <3>2. QED
      BY <3>1, VisionAssumption DEF PeriodInv
  <2>3. CASE UNCHANGED <<client, geometryCount>>
    BY <2>3 DEF PeriodInv
  <2>4. QED
    BY <2>1, <2>2, <2>3 DEF Next, SetHideBallMode, SetPort, vars, sender
<1>3. TypeOK /\ PeriodInv => GeometryWithinPeriod
  BY VisionAssumption DEF TypeOK, PeriodInv, GeometryWithinPeriod
<1>4. QED
  BY <1>1, <1>2, <1>3, VisionTypeCorrect, PTL DEF Spec

-----------------------------------------------------------------------------
LEMMA NumbersFrame ==
  ASSUME TypeOK, NumbersTellLosses, NEW b \in Balls,
         NEW left \in BOOLEAN, NEW right \in BOOLEAN,
         NEW ok \in BOOLEAN, NEW delivered \in BOOLEAN,
         Frame(b, left, right, ok, delivered)
  PROVE  NumbersTellLosses'
<1>1. Send(ballPosition', ok) /\ ballPosition' \in Balls
  BY DEF Frame, Published, TypeOK
<1>2. captureCount \in 0 .. Numbers - 1 /\ Numbers \in Nat \ {0}
  BY VisionAssumption DEF TypeOK
<1>3. captureCount' = IF captureCount + 1 = Numbers THEN 0 ELSE captureCount + 1
  BY <1>1 DEF Send, NextCapture, After
<1>4. CASE ok /\ delivered
  <2>1. client'.last = captureCount /\ client'.missed = 0
    BY <1>1, <1>4, HearFields DEF Frame
  <2>2. CASE captureCount + 1 = Numbers
    <3>1. captureCount' + Numbers = client'.last + 1 + client'.missed
      BY <1>2, <1>3, <2>1, <2>2
    <3>2. QED
      BY <3>1 DEF NumbersTellLosses
  <2>3. CASE captureCount + 1 # Numbers
    <3>1. captureCount' + 0 = client'.last + 1 + client'.missed
      BY <1>2, <1>3, <2>1, <2>3
    <3>2. QED
      BY <3>1 DEF NumbersTellLosses
  <2>4. QED
    BY <2>2, <2>3
<1>5. CASE ~(ok /\ delivered)
  <2>1. /\ client'.last = client.last
        /\ client'.missed = IF client.last = None THEN 0 ELSE After(client.missed, Numbers)
    BY <1>5, MissFields DEF Frame
  <2>2. SUFFICES ASSUME client.last # None
                 PROVE  \E wraps \in {0, Numbers} :
                          captureCount' + wraps = client'.last + 1 + client'.missed
    BY <2>1 DEF NumbersTellLosses
  <2>3. PICK wraps \in {0, Numbers} : captureCount + wraps = client.last + 1 + client.missed
    BY <2>2 DEF NumbersTellLosses
  <2>4. client.last \in 0 .. Numbers - 1 /\ client.missed \in 0 .. Numbers - 1
    BY <2>2 DEF TypeOK
  <2>5. client'.missed = IF client.missed + 1 = Numbers THEN 0 ELSE client.missed + 1
    BY <2>1, <2>2 DEF After
  <2>6. \/ captureCount' + 0 = client'.last + 1 + client'.missed
        \/ captureCount' + Numbers = client'.last + 1 + client'.missed
    BY <1>2, <1>3, <2>1, <2>3, <2>4, <2>5
  <2>7. QED
    BY <2>6
<1>6. QED
  BY <1>4, <1>5

(* From the numbers of two frames it hears one after the other a client    *)
(* knows how many it did not hear, sends the socket refused included.      *)
THEOREM LossesCounted == Spec => []NumbersTellLosses
<1>1. Init => NumbersTellLosses
  BY NewClientFields DEF Init, NumbersTellLosses
<1>2. TypeOK /\ NumbersTellLosses /\ [Next]_vars => NumbersTellLosses'
  <2> SUFFICES ASSUME TypeOK, NumbersTellLosses, [Next]_vars PROVE NumbersTellLosses'
    OBVIOUS
  <2>1. CASE AnyFrame
    BY <2>1, NumbersFrame, LooksType DEF AnyFrame
  <2>2. CASE Join
    BY <2>2, NewClientFields DEF Join, NumbersTellLosses
  <2>3. CASE UNCHANGED <<client, captureCount>>
    BY <2>3 DEF NumbersTellLosses
  <2>4. QED
    BY <2>1, <2>2, <2>3 DEF Next, SetHideBallMode, SetPort, vars, sender
<1>3. QED
  BY <1>1, <1>2, VisionTypeCorrect, PTL DEF Spec
=============================================================================

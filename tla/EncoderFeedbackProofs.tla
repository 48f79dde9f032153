------------------------- MODULE EncoderFeedbackProofs -------------------------
(***************************************************************************)
(* The encoders agree with vision, for any field, any number of robots and *)
(* any datagrams the socket refuses.  What has to be kept is that          *)
(* prevEncoderPositions are the poses vision showed last (PrevIsShown);    *)
(* the rest is the geometry of one motion (MeasuredExplains).              *)
(***************************************************************************)
EXTENDS EncoderFeedback, SequenceTheorems, TLAPS

LEMMA ListSequence ==
  ASSUME NEW list \in Lists
  PROVE  /\ Len(list) \in Nat
         /\ DOMAIN list = 1 .. Len(list)
         /\ \A i \in 1 .. Len(list) : list[i] \in Pose
<1>1. list \in Seq(Pose)
  BY EncoderAssumption, SeqDef DEF Lists
<1>2. QED
  BY <1>1, LenProperties

LEMMA EmptyIsList == <<>> \in Lists /\ Len(<<>>) = 0 /\ DOMAIN <<>> = {}
<1>1. <<>> \in [1 .. 0 -> Pose]
  OBVIOUS
<1>2. QED
  BY <1>1, EncoderAssumption DEF Lists

-----------------------------------------------------------------------------
(* One motion.                                                             *)

LEMMA WrappedHeading ==
  ASSUME NEW p \in Heading, NEW q \in Heading
  PROVE  /\ Wrapped(p - q) \in Heading
         /\ (q + Wrapped(p - q)) % 4 = p % 4
<1>1. p \in {-2, -1, 0, 1, 2} /\ q \in {-2, -1, 0, 1, 2}
  BY DEF Heading
<1>2. QED
  BY <1>1 DEF Wrapped, Heading

LEMMA Direction ==
  ASSUME NEW h \in Heading
  PROVE  \/ Cos(h) = 1 /\ Sin(h) = 0
         \/ Cos(h) = 0 /\ Sin(h) = 1
         \/ Cos(h) = -1 /\ Sin(h) = 0
         \/ Cos(h) = 0 /\ Sin(h) = -1
<1>1. h \in {-2, -1, 0, 1, 2}
  BY DEF Heading
<1>2. QED
  BY <1>1 DEF Cos, Sin

LEMMA MeasuredExplains ==
  ASSUME NEW p \in Pose, NEW q \in Pose
  PROVE  Measured(p, q) \in Motion /\ Explains(Measured(p, q), q, p)
<1> DEFINE m == Measured(p, q)
           dx == p.x - q.x
           dy == p.y - q.y
           h == q.h + m.w
<1>1. /\ p.x \in Int /\ p.y \in Int /\ q.x \in Int /\ q.y \in Int
      /\ p.h \in Heading /\ q.h \in Heading
  BY EncoderAssumption DEF Pose
<1>2. /\ m.f = dx * Cos(p.h) + dy * Sin(p.h)
      /\ m.l = dy * Cos(p.h) - dx * Sin(p.h)
      /\ m.w = Wrapped(p.h - q.h)
  BY DEF Measured
<1>3. m.w \in Heading /\ h % 4 = p.h % 4
  BY <1>1, <1>2, WrappedHeading
<1>4. Cos(h) = Cos(p.h) /\ Sin(h) = Sin(p.h)
  BY <1>3 DEF Cos, Sin
<1>5. dx \in Int /\ dy \in Int
  BY <1>1
<1>6. /\ m.f \in Int /\ m.l \in Int
      /\ m.f * Cos(h) \in Int /\ m.l * Sin(h) \in Int
      /\ m.f * Sin(h) \in Int /\ m.l * Cos(h) \in Int
      /\ m.f * Cos(h) - m.l * Sin(h) = dx
      /\ m.f * Sin(h) + m.l * Cos(h) = dy
  <2> HIDE DEF m, h, dx, dy
  <2>1. CASE Cos(p.h) = 1 /\ Sin(p.h) = 0
    BY <1>2, <1>4, <1>5, <2>1
  <2>2. CASE Cos(p.h) = 0 /\ Sin(p.h) = 1
    BY <1>2, <1>4, <1>5, <2>2
  <2>3. CASE Cos(p.h) = -1 /\ Sin(p.h) = 0
    BY <1>2, <1>4, <1>5, <2>3
  <2>4. CASE Cos(p.h) = 0 /\ Sin(p.h) = -1
    BY <1>2, <1>4, <1>5, <2>4
  <2>5. QED
    BY <1>1, <2>1, <2>2, <2>3, <2>4, Direction
<1>7. m \in Motion
  <2>1. m = [f |-> m.f, l |-> m.l, w |-> m.w]
    BY DEF Measured
  <2> HIDE DEF m
  <2>2. QED
    BY <1>3, <1>6, <2>1 DEF Motion
<1>8. Moved(q, m) = [x |-> q.x + m.f * Cos(h) - m.l * Sin(h),
                     y |-> q.y + m.f * Sin(h) + m.l * Cos(h),
                     h |-> h % 4]
  BY DEF Moved
<1> HIDE DEF m, h
<1>9. q.x + dx = p.x /\ q.y + dy = p.y
  BY <1>1
<1> HIDE DEF dx, dy
<1>10. /\ q.x + m.f * Cos(h) - m.l * Sin(h) = p.x
       /\ q.y + m.f * Sin(h) + m.l * Cos(h) = p.y
  BY <1>1, <1>5, <1>6, <1>9
<1>11. QED
  BY <1>3, <1>7, <1>8, <1>10 DEF Explains, m

-----------------------------------------------------------------------------
(* The motions of a frame.                                                 *)

LEMMA MotionsOf ==
  ASSUME NEW list \in Lists, NEW old \in Lists, Len(old) = Len(list)
  PROVE  /\ Motions(list, old) \in Seq(Motion)
         /\ DOMAIN Motions(list, old) = 1 .. Len(list)
         /\ \A i \in 1 .. Len(list) :
              Motions(list, old)[i] \in Motion /\ Explains(Motions(list, old)[i], old[i], list[i])
<1> DEFINE n == Len(list)
           f == [i \in 1 .. n |-> Measured(list[i], old[i])]
<1>1. n \in Nat
  BY ListSequence
<1>2. \A i \in 1 .. n : list[i] \in Pose /\ old[i] \in Pose
  BY ListSequence
<1> HIDE DEF n
<1>3. \A i \in 1 .. n : f[i] \in Motion /\ Explains(f[i], old[i], list[i])
  BY <1>2, MeasuredExplains
<1>4. f \in [1 .. n -> Motion] /\ DOMAIN f = 1 .. n
  BY <1>3
<1>5. f \in Seq(Motion)
  BY <1>1, <1>4, SeqDef
<1>6. Motions(list, old) = f
  BY DEF Motions, n
<1> HIDE DEF f
<1>7. QED
  BY <1>3, <1>4, <1>5, <1>6 DEF n

PrevIsShown == enabled => prev = now

EncInv == TypeOK /\ PrevIsShown /\ EncodersFollowVision /\ DiagFollowsFeedback

LEMMA NothingSent ==
  ASSUME NEW refused
  PROVE  SendRobotFeedback(<<>>, refused) = <<>>
<1>1. DOMAIN <<>> \ refused = {}
  BY EmptyIsList
<1>2. SendRobotFeedback(<<>>, refused) = [i \in {} |-> <<>>[i]]
  BY <1>1 DEF SendRobotFeedback
<1>3. <<>> = [i \in {} |-> <<>>[i]]
  BY EmptyIsList
<1>4. QED
  BY <1>2, <1>3

(* What a frame writes and sends, from poses of before that are those      *)
(* vision showed.                                                          *)
LEMMA FrameOutputs ==
  ASSUME EncInv, NEW list \in Lists, NEW refused \in SUBSET Refusable, Frame(list, refused)
  PROVE  EncInv'
<1>1. /\ enabled' = enabled /\ now' = list /\ before' = now /\ lost' = refused
      /\ log' = IF Len(prev) = Len(list) THEN Motions(list, prev) ELSE <<>>
  BY DEF Frame, Outputs, WriteRobotDiag
<1>2. prev \in Lists /\ now \in Lists /\ enabled \in BOOLEAN /\ (enabled => prev = now)
  BY DEF EncInv, TypeOK, PrevIsShown
<1>3. log' \in Seq(Motion)
  BY <1>1, <1>2, MotionsOf
<1>4. CASE enabled
  <2>1. sent' = SendRobotFeedback(log', refused) /\ prev' = list
    BY <1>1, <1>4 DEF Frame, Outputs, EmitEncoderFeedback, Comparable, NextPrev
  <2>2. DOMAIN sent' = DOMAIN log' \ refused
    BY <2>1 DEF SendRobotFeedback
  <2>3. \A i \in DOMAIN sent' : sent'[i] = log'[i]
    BY <2>1 DEF SendRobotFeedback
  <2>4. \A i \in DOMAIN sent' :
          Len(now) = Len(list) /\ sent'[i] \in Motion /\ Explains(sent'[i], now[i], list[i])
    <3>1. CASE Len(prev) = Len(list)
      BY <1>1, <1>2, <1>4, <2>2, <2>3, <3>1, MotionsOf
    <3>2. CASE Len(prev) # Len(list)
      BY <1>1, <2>2, <3>2, EmptyIsList
    <3>3. QED
      BY <3>1, <3>2
  <2>5. sent' = [i \in DOMAIN sent' |-> sent'[i]]
    BY <2>1 DEF SendRobotFeedback
  <2>6. sent' \in [DOMAIN sent' -> Motion]
    BY <2>4, <2>5
  <2>7. Len(now) = Len(list) => DOMAIN sent' = DOMAIN list \ refused
    BY <1>1, <1>2, <1>4, <2>2, MotionsOf, ListSequence
  <2>8. TypeOK' /\ PrevIsShown'
    BY <1>1, <1>2, <1>3, <2>1, <2>6 DEF TypeOK, PrevIsShown
  <2>9. EncodersFollowVision'
    BY <1>1, <2>4, <2>7 DEF EncodersFollowVision
  <2>10. DiagFollowsFeedback'
    BY <1>1, <2>1 DEF DiagFollowsFeedback
  <2>11. QED
    BY <2>8, <2>9, <2>10 DEF EncInv
<1>5. CASE ~enabled
  <2>1. sent' = <<>> /\ prev' = prev
    BY <1>5 DEF Frame, Outputs, EmitEncoderFeedback
  <2>2. DOMAIN sent' = {}
    BY <2>1, EmptyIsList
  <2>3. sent' \in [DOMAIN sent' -> Motion]
    BY <2>1, <2>2, EmptyIsList
  <2>4. TypeOK' /\ PrevIsShown'
    BY <1>1, <1>2, <1>3, <1>5, <2>1, <2>3 DEF TypeOK, PrevIsShown
  <2>5. EncodersFollowVision' /\ DiagFollowsFeedback'
    BY <1>1, <1>5, <2>2 DEF EncodersFollowVision, DiagFollowsFeedback
  <2>6. QED
    BY <2>4, <2>5 DEF EncInv
<1>6. QED
  BY <1>2, <1>4, <1>5

LEMMA EncInvHolds == Spec => []EncInv
<1>1. Init => EncInv
  <2> SUFFICES ASSUME Init PROVE EncInv
    OBVIOUS
  <2>1. <<>> \in Seq(Motion) /\ <<>> \in Lists /\ DOMAIN <<>> = {}
    BY EmptyIsList
  <2>2. sent \in [DOMAIN sent -> Motion]
    BY <2>1 DEF Init
  <2>3. TypeOK /\ PrevIsShown
    BY <2>1, <2>2 DEF Init, TypeOK, PrevIsShown
  <2>4. EncodersFollowVision
    BY <2>1 DEF Init, EncodersFollowVision
  <2>5. DiagFollowsFeedback
    BY NothingSent DEF Init, DiagFollowsFeedback
  <2>6. QED
    BY <2>3, <2>4, <2>5 DEF EncInv
<1>2. EncInv /\ [Next]_vars => EncInv'
  <2>1. EncInv /\ Next => EncInv'
    BY FrameOutputs DEF Next
  <2>2. EncInv /\ UNCHANGED vars => EncInv'
    BY DEF EncInv, vars, TypeOK, PrevIsShown, EncodersFollowVision, DiagFollowsFeedback
  <2>3. QED
    BY <2>1, <2>2
<1>3. QED
  BY <1>1, <1>2, PTL DEF Spec

(* Rows and datagrams hold motions, prevEncoderPositions poses.            *)
THEOREM EncoderTypeCorrect == Spec => []TypeOK
  BY EncInvHolds, PTL DEF EncInv

(* The encoders agree with vision, for any field, any number of robots and *)
(* any loss of datagrams (emitEncoderFeedback).                            *)
THEOREM EncodersAgree == Spec => []EncodersFollowVision
  BY EncInvHolds, PTL DEF EncInv

(* The diagnosis file shows the motions of the datagrams of its frame      *)
(* (updateObjects calls writeRobotDiag before emitEncoderFeedback).        *)
THEOREM DiagAgrees == Spec => []DiagFollowsFeedback
  BY EncInvHolds, PTL DEF EncInv
=============================================================================

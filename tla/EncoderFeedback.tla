---------------------------- MODULE EncoderFeedback ----------------------------
(***************************************************************************)
(* What Observer::updateObjects makes of the poses of a frame, besides the *)
(* vision packet: a row per robot in the diagnosis file (writeRobotDiag)   *)
(* and a datagram per robot with the speeds of its wheels                  *)
(* (emitEncoderFeedback, FeedbackSender).  Both come from the difference   *)
(* between the poses of this frame and prevEncoderPositions.               *)
(*                                                                         *)
(* Headings are counted in quarter turns, so that turning a motion into    *)
(* the frame of the robot is exact.  The four wheel speeds stand for the   *)
(* motion they are computed from, per frame instead of per second; noise,  *)
(* bias and quantisation are 0, as in the configuration.  PhysicsWorld     *)
(* never makes a step of more than 16.7 ms: the test for 0.5 s is left     *)
(* out.  The diagnosis is on, for all robots.                              *)
(*                                                                         *)
(* The operators marked "mutant" are plausible mistakes, each next to the  *)
(* definition it would replace; no action uses them.                       *)
(***************************************************************************)
EXTENDS Integers, Sequences

CONSTANTS
  MaxRobots,            \* of the team the encoders are simulated for
  MaxX, MaxY,           \* the places of the field
  Refusable             \* the robots whose datagrams the socket may refuse

ASSUME EncoderAssumption ==
  MaxRobots \in Nat /\ MaxX \in Nat /\ MaxY \in Nat /\ Refusable \subseteq 1 .. MaxRobots

(* normalizeRadian gives a heading from half a turn to the right to half a *)
(* turn to the left, both of them included.                                *)
Heading == -2 .. 2
Pose    == [x : 0 .. MaxX, y : 0 .. MaxY, h : Heading]
Lists   == UNION {[1 .. n -> Pose] : n \in 0 .. MaxRobots}

VARIABLES
  enabled,     \* encoderEnabled
  prev,        \* prevEncoderPositions
  log,         \* the rows the last frame added to the diagnosis file
  sent,        \* the datagrams of the last frame, by robot
  lost,        \* history: the robots whose datagrams the socket refused
  now,         \* history: the poses of the last frame, as vision shows them
  before       \* history: those of the frame before

vars == <<enabled, prev, log, sent, lost, now, before>>

-----------------------------------------------------------------------------
Cos(h) == IF h % 4 = 0 THEN 1 ELSE IF h % 4 = 2 THEN -1 ELSE 0
Sin(h) == IF h % 4 = 1 THEN 1 ELSE IF h % 4 = 3 THEN -1 ELSE 0

(* The shorter way round: fmod(d + 540, 360) - 180.                        *)
LongWay(d) == d                                \* mutant: the difference is not wrapped
Wrapped(d) == ((d + 6) % 4) - 2

(* The motion from pose q to pose p, in the frame of the robot at p.       *)
Measured(p, q) ==
  LET dx == p.x - q.x
      dy == p.y - q.y
  IN  [f |-> dx * Cos(p.h) + dy * Sin(p.h),
       l |-> dy * Cos(p.h) - dx * Sin(p.h),
       w |-> Wrapped(p.h - q.h)]

Motions(list, old) == [i \in 1 .. Len(list) |-> Measured(list[i], old[i])]

-----------------------------------------------------------------------------
Init ==
  /\ enabled \in BOOLEAN
  /\ prev = <<>>
  /\ log = <<>>
  /\ sent = <<>>
  /\ lost = {}
  /\ now = <<>>
  /\ before = <<>>

(* The poses of the frame before are there for as many robots as now.      *)
Comparable(list) == Len(prev) = Len(list)

WriteRobotDiag(list, old) ==
  log' = IF Len(old) = Len(list) THEN Motions(list, old) ELSE <<>>

KeepsSeed(list) == IF Comparable(list) THEN prev ELSE list   \* mutant: set anew only without feedback
NextPrev(list)  == list

(* A datagram per robot; one that the socket refuses, the local fallback   *)
(* included, is given up, and the next robot's turn comes.                 *)
SendRobotFeedback(motions, refused) ==
  [i \in DOMAIN motions \ refused |-> motions[i]]

EmitEncoderFeedback(list, refused) ==
  IF enabled
    THEN /\ sent' = SendRobotFeedback(IF Comparable(list) THEN Motions(list, prev) ELSE <<>>, refused)
         /\ prev' = NextPrev(list)
    ELSE sent' = <<>> /\ UNCHANGED prev

(* A frame: PhysicsWorld, the mouse or a replacement have put the robots   *)
(* anywhere, and the setting may have changed their number.  The file is   *)
(* written before the encoders move prevEncoderPositions on.               *)
DiagLast(list, refused) ==                     \* mutant: the file is written after the datagrams
  EmitEncoderFeedback(list, refused) /\ WriteRobotDiag(list, prev')
Outputs(list, refused) ==
  WriteRobotDiag(list, prev) /\ EmitEncoderFeedback(list, refused)

Frame(list, refused) ==
  /\ Outputs(list, refused)
  /\ lost' = refused
  /\ now' = list
  /\ before' = now
  /\ UNCHANGED enabled

Next == \E list \in Lists, refused \in SUBSET Refusable : Frame(list, refused)

Spec == Init /\ [][Next]_vars

-----------------------------------------------------------------------------
Motion == [f : Int, l : Int, w : Heading]

TypeOK ==
  /\ enabled \in BOOLEAN
  /\ prev \in Lists /\ now \in Lists /\ before \in Lists
  /\ log \in Seq(Motion)
  /\ lost \subseteq Refusable
  /\ sent \in [DOMAIN sent -> Motion]

(* Where a robot that was at pose q is after the motion m.                 *)
Moved(q, m) ==
  LET h == q.h + m.w
  IN  [x |-> q.x + m.f * Cos(h) - m.l * Sin(h),
       y |-> q.y + m.f * Sin(h) + m.l * Cos(h),
       h |-> h % 4]

Explains(m, q, p) == Moved(q, m) = [x |-> p.x, y |-> p.y, h |-> p.h % 4]

(* The encoders agree with vision (comment in emitEncoderFeedback): in     *)
(* every frame that shows as many robots as the one before, every robot    *)
(* sends the motion that takes it from the pose vision showed then to the  *)
(* one it shows now, turning the shorter way, and in no other frame.  So a *)
(* receiver that adds them up stays on the vision track over teleports,    *)
(* robots that are added or removed, the jump of the heading at half a     *)
(* turn and lost datagrams of other robots; one of its own that is lost    *)
(* costs it the motion of that frame and of no other.                      *)
EncodersFollowVision ==
  /\ enabled /\ Len(before) = Len(now) => DOMAIN sent = DOMAIN now \ lost
  /\ \A i \in DOMAIN sent :
       Len(before) = Len(now) /\ Explains(sent[i], before[i], now[i])

(* A row of the diagnosis file sets the command against the motion vision  *)
(* shows for the same frame (comment at writeRobotDiag): what it measured  *)
(* is what the datagrams of the frame say.                                 *)
DiagFollowsFeedback == enabled => sent = SendRobotFeedback(log, lost)
=============================================================================

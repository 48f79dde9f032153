------------------------- MODULE RobotCommandsProofs -------------------------
(***************************************************************************)
(* Theorems about the command path, for any teams, any number of robots,   *)
(* any velocities and any two neighbouring delays.                         *)
(***************************************************************************)
EXTENDS RobotCommandsClaims, SequenceTheorems, TLAPS

(* Robots and their parts; copying and clearing keep the types. *)
LEMMA RobotParts == \A r \in Robots : Team(r) \in Teams /\ Id(r) \in Ids
  BY DEF Robots, Team, Id

(* A delay is a number of frames that the history reaches. *)
LEMMA DelayRange == \A k \in DelaySteps : k \in 0 .. MaxDelay /\ k \in Nat
<1> SUFFICES ASSUME NEW k \in DelaySteps PROVE k \in 0 .. MaxDelay /\ k \in Nat
  OBVIOUS
<1>1. k \in 0 .. MaxDelay /\ MaxDelay \in Nat
  BY CommandAssumption
<1> QED
  BY <1>1

LEMMA CopiedType ==
  ASSUME NEW S, NEW old \in [Robots -> S], NEW new \in [Robots -> S], NEW teams
  PROVE  Copied(old, new, teams) \in [Robots -> S]
  BY DEF Copied

LEMMA ZeroedType ==
  ASSUME NEW S, NEW f \in [Robots -> S], NEW rs, NEW off \in S
  PROVE  Zeroed(f, rs, off) \in [Robots -> S]
  BY DEF Zeroed

(* A delay line d of k + 1 commands: the newest at the back, those of buf  *)
(* in front of it, zeros in front of these.                                *)
Shifted(d, buf, new, k) ==
  /\ d \in Seq(Vel) /\ Len(d) = k + 1 /\ d # <<>>
  /\ d[k + 1] = new
  /\ \A i \in 1 .. k :
       d[i] = IF i + Len(buf) - k >= 1 THEN buf[i + Len(buf) - k] ELSE 0

(* This is what a frame makes of a delay line. *)
LEMMA DelayedLine ==
  ASSUME NEW buf \in Seq(Vel), NEW new \in Vel, NEW k \in Nat
  PROVE  Shifted(Delayed(buf, new, k), buf, new, k)
<1> DEFINE all == Append(buf, new)
           skip == Len(all) - (k + 1)
           d == [i \in 1 .. k + 1 |-> IF i + skip >= 1 THEN all[i + skip] ELSE 0]
<1>1. d = Delayed(buf, new, k)
  BY DEF Delayed
<1>2. Len(buf) \in Nat /\ Len(all) = Len(buf) + 1 /\ skip = Len(buf) - k
  OBVIOUS
<1>3. /\ all[Len(buf) + 1] = new
      /\ \A i \in 1 .. Len(buf) : all[i] = buf[i] /\ buf[i] \in Vel
  OBVIOUS
<1>4. 0 \in Vel
  BY CommandAssumption DEF Vel
<1>5. \A i \in 1 .. k + 1 : i + skip >= 1 => i + skip \in 1 .. Len(buf) + 1
  BY <1>2
<1>6. d \in [1 .. k + 1 -> Vel]
  <2> SUFFICES ASSUME NEW i \in 1 .. k + 1
               PROVE  (IF i + skip >= 1 THEN all[i + skip] ELSE 0) \in Vel
    OBVIOUS
  <2> HIDE DEF all, skip
  <2> QED
    BY <1>2, <1>3, <1>4, <1>5
<1>7. d \in Seq(Vel) /\ Len(d) = k + 1
  <2> HIDE DEF d
  <2>1. k + 1 \in Nat
    OBVIOUS
  <2>2. d \in Seq(Vel)
    BY <1>6, <2>1, SeqDef
  <2> QED
    BY <1>6, <2>1, <2>2, LenProperties
<1>8. d # <<>>
  <2> HIDE DEF d
  <2> QED
    BY <1>7
<1>9. d[k + 1] = new /\ \A i \in 1 .. k :
        d[i] = IF i + Len(buf) - k >= 1 THEN buf[i + Len(buf) - k] ELSE 0
  <2> HIDE DEF all, skip
  <2>1. \A i \in 1 .. k + 1 : d[i] = IF i + skip >= 1 THEN all[i + skip] ELSE 0
    OBVIOUS
  <2> HIDE DEF d
  <2>2. d[k + 1] = new
    BY <1>2, <1>3, <2>1
  <2>3. ASSUME NEW i \in 1 .. k
        PROVE  d[i] = IF i + Len(buf) - k >= 1 THEN buf[i + Len(buf) - k] ELSE 0
    <3>1. i + skip = i + Len(buf) - k /\ i \in 1 .. k + 1
      BY <1>2
    <3>2. i + skip >= 1 => i + skip \in 1 .. Len(buf)
      BY <1>2
    <3> QED
      BY <1>3, <2>1, <3>1, <3>2
  <2> QED
    BY <2>2, <2>3
<1> HIDE DEF d
<1> QED
  BY <1>1, <1>7, <1>8, <1>9 DEF Shifted

-----------------------------------------------------------------------------
(* Type correctness. *)

LEMMA FrameType ==
  ASSUME TypeOK, Frame
  PROVE  TypeOK'
<1>1. lag' \in [Robots -> DelaySteps] /\ DelaySteps \subseteq Nat
  BY CommandAssumption DEF Frame
<1>2. line' = [r \in Robots |-> Delayed(line[r], cmd[r], lag'[r])]
  BY DEF Frame
<1>3. ASSUME NEW r \in Robots
      PROVE  line'[r] \in Seq(Vel) /\ Len(line'[r]) = lag'[r] + 1
  <2>1. line[r] \in Seq(Vel) /\ cmd[r] \in Vel /\ lag'[r] \in Nat
    BY <1>1 DEF TypeOK
  <2>2. line'[r] = Delayed(line[r], cmd[r], lag'[r])
    BY <1>2
  <2>3. Shifted(line'[r], line[r], cmd[r], lag'[r])
    BY <2>1, <2>2, DelayedLine
  <2> QED
    BY <2>3 DEF Shifted
<1>4. /\ line' \in [Robots -> Seq(Vel)]
      /\ \A r \in Robots : line'[r] = <<>> \/ Len(line'[r]) = lag'[r] + 1
  BY <1>2, <1>3
<1>5. applied' \in [Robots -> Vel] /\ drive' \in [Robots -> Vel]
  BY DEF Frame, TypeOK
<1>6. qVel' \in [Robots -> Vel]
  <2>1. qVel \in [Robots -> Vel] /\ qVel' = Copied(qVel, applied', Teams)
    BY DEF TypeOK, Frame, FrameVel
  <2> QED
    BY <1>5, <2>1, CopiedType
<1>7. past' \in [Robots -> [0 .. MaxDelay -> Vel]]
  <2>1. \A r \in Robots : cmd[r] \in Vel /\ past[r] \in [0 .. MaxDelay -> Vel]
    BY DEF TypeOK
  <2>2. \A i \in 0 .. MaxDelay : i = 0 \/ i - 1 \in 0 .. MaxDelay
    BY CommandAssumption
  <2>3. past' = [r \in Robots |->
                  [i \in 0 .. MaxDelay |-> IF i = 0 THEN cmd[r] ELSE past[r][i - 1]]]
    BY DEF Frame
  <2>4. \A r \in Robots :
          [i \in 0 .. MaxDelay |-> IF i = 0 THEN cmd[r] ELSE past[r][i - 1]]
            \in [0 .. MaxDelay -> Vel]
    BY <2>1, <2>2
  <2> QED
    BY <2>3, <2>4
<1>8. /\ UNCHANGED <<count, cmd, tool, qTool, told>>
  BY DEF Frame
<1> QED
  BY <1>1, <1>4, <1>5, <1>6, <1>7, <1>8 DEF TypeOK

LEMMA ZeroTypes == 0 \in Vel /\ [i \in 0 .. MaxDelay |-> 0] \in [0 .. MaxDelay -> Vel]
  BY CommandAssumption DEF Vel

LEMMA VisionType ==
  ASSUME TypeOK, NEW team \in Teams, NEW p \in Packets({"local"}),
         NEW rs \in SUBSET Robots, VisionPacket(team, p, rs)
  PROVE  TypeOK'
<1>1. \A r \in Robots : Addressed(r, team, p) => p[Id(r)].vel \in Vel /\ p[Id(r)].tool \in BOOLEAN
  BY DEF Packets, Addressed
<1>2. VisionVel(team, p) \in [Robots -> Vel] /\ VisionTool(team, p) \in [Robots -> BOOLEAN]
  BY <1>1 DEF VisionVel, VisionTool, TypeOK
<1>3. cmd' \in [Robots -> Vel] /\ tool' \in [Robots -> BOOLEAN]
  BY <1>2, ZeroedType, ZeroTypes DEF VisionPacket
<1>4. applied' \in [Robots -> Vel] /\ drive' \in [Robots -> Vel]
  BY ZeroedType, ZeroTypes DEF VisionPacket, TypeOK
<1>5. past' \in [Robots -> [0 .. MaxDelay -> Vel]]
  BY ZeroedType, ZeroTypes DEF VisionPacket, TypeOK
<1>6. qVel' \in [Robots -> Vel]
  <2>1. Copied(qVel, applied, {team}) \in [Robots -> Vel]
    BY CopiedType DEF TypeOK
  <2> QED
    BY <1>4, <2>1, CopiedType DEF VisionPacket
<1>7. qTool' \in [Robots -> BOOLEAN]
  <2>1. Copied(qTool, VisionTool(team, p), {team}) \in [Robots -> BOOLEAN]
    BY <1>2, CopiedType DEF TypeOK
  <2> QED
    BY <1>3, <2>1, CopiedType DEF VisionPacket
<1>8. /\ line' \in [Robots -> Seq(Vel)]
      /\ \A r \in Robots : line'[r] = <<>> \/ Len(line'[r]) = lag'[r] + 1
  <2>1. <<>> \in Seq(Vel)
    BY EmptySeq
  <2>2. line' = [r \in Robots |-> IF r \in rs THEN <<>> ELSE line[r]] /\ lag' = lag
    BY DEF VisionPacket, LineCleared
  <2> QED
    BY <2>1, <2>2 DEF TypeOK
<1>9. told' \in [Robots -> BOOLEAN]
  BY DEF VisionPacket, TypeOK
<1>10. UNCHANGED <<count, lag>>
  BY DEF VisionPacket
<1> QED
  BY <1>3, <1>4, <1>5, <1>6, <1>7, <1>8, <1>9, <1>10 DEF TypeOK

LEMMA ControlType ==
  ASSUME TypeOK, NEW team \in Teams, NEW p \in Packets({"none", "local", "other"}),
         ControlPacket(team, p)
  PROVE  TypeOK'
<1>1. \A r \in Robots : Heard(r, team, p) => p[Id(r)].vel \in Vel /\ p[Id(r)].tool \in BOOLEAN
  BY DEF Packets, Heard, Addressed
<1>2. cmd' \in [Robots -> Vel] /\ tool' \in [Robots -> BOOLEAN] /\ told' \in [Robots -> BOOLEAN]
  BY <1>1 DEF ControlPacket, TypeOK
<1>3. qVel' \in [Robots -> Vel] /\ qTool' \in [Robots -> BOOLEAN]
  BY <1>2, CopiedType DEF ControlPacket, TypeOK
<1>4. UNCHANGED <<count, line, applied, drive, past, lag>>
  BY DEF ControlPacket
<1> QED
  BY <1>2, <1>3, <1>4 DEF TypeOK

LEMMA StepType == TypeOK /\ [Next]_vars => TypeOK'
<1> SUFFICES ASSUME TypeOK, [Next]_vars PROVE TypeOK'
  OBVIOUS
<1>1. CASE Frame
  BY <1>1, FrameType
<1>2. CASE Packet
  BY <1>2, VisionType, ControlType DEF Packet
<1>3. CASE UNCHANGED vars
  BY <1>3 DEF TypeOK, vars, robotVars, sceneVars, ghostVars
<1> QED
  BY <1>1, <1>2, <1>3 DEF Next

(* A frame fills the line. *)
LEMMA FrameFills ==
  ASSUME TypeOK, Frame, NEW r \in Robots
  PROVE  line'[r] # <<>> /\ lag'[r] \in 0 .. MaxDelay
<1>1. line[r] \in Seq(Vel) /\ cmd[r] \in Vel /\ line'[r] = Delayed(line[r], cmd[r], lag'[r])
  BY DEF TypeOK, Frame
<1>2. lag'[r] \in 0 .. MaxDelay /\ lag'[r] \in Nat
  BY DelayRange DEF Frame
<1>3. Shifted(line'[r], line[r], cmd[r], lag'[r])
  BY <1>1, <1>2, DelayedLine
<1> QED
  BY <1>2, <1>3 DEF Shifted

LEMMA InitType == Init => TypeOK
  BY ZeroTypes, EmptySeq DEF Init, TypeOK

(* Every state of the command path is well typed; in particular a delay    *)
(* line never holds more than the delay asks for (Robot::delayed).         *)
THEOREM CommandsTypeCorrect == Spec => []TypeOK
  BY InitType, StepType, PTL DEF Spec

-----------------------------------------------------------------------------
(* The delay line is an ideal transport delay.                             *)

(* The line holds the most recent commands in order, and an empty one has  *)
(* nothing behind it.                                                      *)
LineIsPast ==
  \A r \in Robots :
    /\ line[r] = <<>> => \A i \in 0 .. MaxDelay : past[r][i] = 0
    /\ \A i \in 1 .. Len(line[r]) : line[r][i] = past[r][Len(line[r]) - i]

(* A frame shifts the line and the history alike, because the delay grows  *)
(* by one frame at most.                                                   *)
LEMMA FrameKeepsLine ==
  ASSUME TypeOK, LineIsPast, Frame
  PROVE  LineIsPast'
<1> SUFFICES ASSUME NEW r \in Robots
             PROVE  /\ line'[r] # <<>>
                    /\ \A i \in 1 .. Len(line'[r]) :
                         line'[r][i] = past'[r][Len(line'[r]) - i]
  BY DEF LineIsPast
<1> DEFINE k == lag'[r]
           n == Len(line[r])
<1>1. /\ line[r] \in Seq(Vel) /\ cmd[r] \in Vel /\ n \in Nat
      /\ past[r] \in [0 .. MaxDelay -> Vel]
      /\ k \in 0 .. MaxDelay /\ k \in Nat /\ MaxDelay \in Nat
      /\ lag[r] \in Nat /\ k <= lag[r] + 1
  <2>1. /\ line[r] \in Seq(Vel) /\ cmd[r] \in Vel
        /\ past[r] \in [0 .. MaxDelay -> Vel]
        /\ k \in DelaySteps /\ lag[r] \in DelaySteps
    BY DEF TypeOK, Frame
  <2>2. n \in Nat
    BY <2>1, LenProperties
  <2> QED
    BY <2>1, <2>2, DelayRange, CommandAssumption
<1>2. /\ line'[r] = Delayed(line[r], cmd[r], k)
      /\ \A i \in 0 .. MaxDelay : past'[r][i] = IF i = 0 THEN cmd[r] ELSE past[r][i - 1]
  BY DEF Frame
<1>3. /\ line'[r] # <<>> /\ Len(line'[r]) = k + 1
      /\ line'[r][k + 1] = cmd[r]
      /\ \A i \in 1 .. k :
           line'[r][i] = IF i + n - k >= 1 THEN line[r][i + n - k] ELSE 0
  <2>1. line[r] \in Seq(Vel) /\ cmd[r] \in Vel /\ k \in Nat
    BY <1>1
  <2> HIDE DEF k
  <2>2. Shifted(Delayed(line[r], cmd[r], k), line[r], cmd[r], k)
    BY <2>1, DelayedLine
  <2>3. Shifted(line'[r], line[r], cmd[r], k)
    BY <1>2, <2>2
  <2> QED
    BY <2>3 DEF Shifted, n
<1> HIDE DEF k, n
<1>4. past'[r][0] = cmd[r]
  BY <1>1, <1>2
<1>5. ASSUME NEW i \in 1 .. k
      PROVE  line'[r][i] = past'[r][k + 1 - i]
  <2>1. past'[r][k + 1 - i] = past[r][k - i] /\ k - i \in 0 .. MaxDelay
    BY <1>1, <1>2
  <2>2. CASE n = 0
    <3>1. line[r] = <<>>
      BY <1>1, <2>2, EmptySeq DEF n
    <3>2. past[r][k - i] = 0
      BY <2>1, <3>1 DEF LineIsPast
    <3>3. line'[r][i] = 0
      BY <1>1, <1>3, <2>2
    <3> QED
      BY <2>1, <3>2, <3>3
  <2>3. CASE n # 0
    <3>1. n = lag[r] + 1
      BY <1>1, <2>3 DEF TypeOK, n
    <3>2. i + n - k >= 1 /\ i + n - k \in 1 .. n /\ n - (i + n - k) = k - i
      BY <1>1, <3>1
    <3>3. line[r][i + n - k] = past[r][n - (i + n - k)]
      BY <3>2 DEF LineIsPast, n
    <3> QED
      BY <1>3, <2>1, <3>2, <3>3
  <2> QED
    BY <2>2, <2>3
<1>6. ASSUME NEW i \in 1 .. k + 1
      PROVE  line'[r][i] = past'[r][k + 1 - i]
  <2>1. i \in 1 .. k \/ i = k + 1
    BY <1>1
  <2>2. CASE i = k + 1
    BY <1>1, <1>3, <1>4, <2>2
  <2> QED
    BY <1>5, <2>1, <2>2
<1>7. k \in Nat
  BY <1>1
<1> QED
  <2>1. \A i \in 1 .. Len(line'[r]) : line'[r][i] = past'[r][Len(line'[r]) - i]
    BY <1>3, <1>6, <1>7
  <2> QED
    BY <1>3, <2>1

LEMMA LineStep == TypeOK /\ LineIsPast /\ [Next]_vars => LineIsPast'
<1> SUFFICES ASSUME TypeOK, LineIsPast, [Next]_vars PROVE LineIsPast'
  OBVIOUS
<1>1. CASE Frame
  BY <1>1, FrameKeepsLine
<1>2. ASSUME NEW team, NEW p, NEW rs \in SUBSET Robots, VisionPacket(team, p, rs)
      PROVE  LineIsPast'
  <2>1. \A r \in Robots :
          /\ r \in rs => line'[r] = <<>> /\ past'[r] = [i \in 0 .. MaxDelay |-> 0]
          /\ r \notin rs => line'[r] = line[r] /\ past'[r] = past[r]
    BY <1>2 DEF VisionPacket, LineCleared, Zeroed
  <2>2. ASSUME NEW r \in Robots, r \in rs
        PROVE  /\ \A i \in 0 .. MaxDelay : past'[r][i] = 0
               /\ Len(line'[r]) = 0
    <3>1. line'[r] = <<>> /\ past'[r] = [i \in 0 .. MaxDelay |-> 0]
      BY <2>1, <2>2
    <3>2. Len(<<>>) = 0
      OBVIOUS
    <3> QED
      BY <3>1, <3>2
  <2>3. ASSUME NEW r \in Robots, r \notin rs
        PROVE  line'[r] = line[r] /\ past'[r] = past[r]
    BY <2>1, <2>3
  <2>4. ASSUME NEW r \in Robots
        PROVE  /\ line'[r] = <<>> => \A i \in 0 .. MaxDelay : past'[r][i] = 0
               /\ \A i \in 1 .. Len(line'[r]) : line'[r][i] = past'[r][Len(line'[r]) - i]
    <3>1. CASE r \in rs
      BY <2>2, <3>1
    <3>2. CASE r \notin rs
      BY <2>3, <3>2 DEF LineIsPast
    <3> QED
      BY <3>1, <3>2
  <2> QED
    BY <2>4 DEF LineIsPast
<1>3. ASSUME NEW team, NEW p, ControlPacket(team, p)
      PROVE  LineIsPast'
  BY <1>3 DEF ControlPacket, LineIsPast
<1>4. CASE UNCHANGED vars
  BY <1>4 DEF LineIsPast, vars, robotVars, ghostVars
<1> QED
  BY <1>1, <1>2, <1>3, <1>4 DEF Next, Packet

LEMMA LineInvariant == Spec => []LineIsPast
<1>1. Init => LineIsPast
  BY EmptySeq DEF Init, LineIsPast
<1> QED
  BY <1>1, LineStep, CommandsTypeCorrect, PTL DEF Spec

(* So its oldest command is the one that is due.                           *)
LEMMA OldestIsDue == TypeOK /\ LineIsPast => DelayIsTransport
<1> SUFFICES ASSUME TypeOK, LineIsPast, NEW r \in Robots, line[r] # <<>>
             PROVE  line[r][1] = past[r][lag[r]]
  BY DEF DelayIsTransport
<1>1. lag[r] \in DelaySteps /\ Len(line[r]) = lag[r] + 1
  BY DEF TypeOK
<1>2. lag[r] \in Nat
  BY <1>1, CommandAssumption
<1>3. 1 \in 1 .. Len(line[r]) /\ Len(line[r]) - 1 = lag[r]
  BY <1>1, <1>2
<1> QED
  BY <1>3 DEF LineIsPast

(* However the frame times vary, the command that takes effect is the one  *)
(* of exactly the dead time before, or rest after a replacement            *)
(* (Robot::delayed).                                                       *)
THEOREM TransportDelay == Spec => []DelayIsTransport
  BY OldestIsDue, CommandsTypeCorrect, LineInvariant, PTL

-----------------------------------------------------------------------------
(* The scene and the replacements.                                         *)

(* The scene drives, kicks and dribbles with what the robots say now:      *)
(* every change of a shown robot has been copied.                          *)
SceneIsCurrent ==
  \A r \in Shown : qVel[r] = applied[r] /\ qTool[r] = tool[r]

LEMMA SceneStep == TypeOK /\ SceneIsCurrent /\ [Next]_vars => SceneIsCurrent'
<1> SUFFICES ASSUME TypeOK, SceneIsCurrent, [Next]_vars, NEW r \in Shown'
             PROVE  qVel'[r] = applied'[r] /\ qTool'[r] = tool'[r]
  BY DEF SceneIsCurrent
<1>1. count' = count
  BY DEF Next, Packet, Frame, VisionPacket, ControlPacket, vars, sceneVars
<1>2. r \in Shown /\ r \in Robots /\ Team(r) \in Teams
  BY <1>1, RobotParts DEF Shown
<1>3. qVel[r] = applied[r] /\ qTool[r] = tool[r]
  BY <1>2 DEF SceneIsCurrent
<1>4. CASE Frame
  BY <1>2, <1>3, <1>4 DEF Frame, FrameVel, Copied
<1>5. ASSUME NEW team, NEW p, NEW rs \in SUBSET Robots, VisionPacket(team, p, rs)
      PROVE  qVel'[r] = applied'[r] /\ qTool'[r] = tool'[r]
  <2>1. CASE r \in rs
    <3>1. Team(r) \in TeamsChanged(team, rs)
      BY <2>1 DEF TeamsChanged
    <3> QED
      BY <1>2, <1>5, <3>1 DEF VisionPacket, Copied
  <2>2. CASE r \notin rs
    <3>1. applied'[r] = applied[r] /\ tool'[r] = VisionTool(team, p)[r]
      BY <1>2, <1>5, <2>2 DEF VisionPacket, Zeroed
    <3>2. Team(r) # team => VisionTool(team, p)[r] = tool[r]
      BY <1>2 DEF VisionTool, Addressed
    <3> QED
      BY <1>2, <1>3, <1>5, <3>1, <3>2 DEF VisionPacket, Copied
  <2> QED
    BY <2>1, <2>2
<1>6. ASSUME NEW team, NEW p, ControlPacket(team, p)
      PROVE  qVel'[r] = applied'[r] /\ qTool'[r] = tool'[r]
  <2>1. Team(r) # team => tool'[r] = tool[r]
    BY <1>2, <1>6 DEF ControlPacket, Heard, Addressed
  <2> QED
    BY <1>2, <1>3, <1>6, <2>1 DEF ControlPacket, Copied
<1>7. CASE UNCHANGED vars
  BY <1>3, <1>7 DEF vars, robotVars, sceneVars
<1> QED
  BY <1>4, <1>5, <1>6, <1>7 DEF Next, Packet

(* The scene acts on what the robots say now, whatever team a packet was   *)
(* for (visionReceive, onBlueRobotsChanged, onActuationAdvanced).          *)
THEOREM SceneCurrent == Spec => []SceneIsCurrent
<1>1. Init => SceneIsCurrent
  BY DEF Init, SceneIsCurrent, Shown
<1> QED
  BY <1>1, SceneStep, CommandsTypeCorrect, PTL DEF Spec

(* A robot that nobody has commanded since its replacement has nothing     *)
(* left: latch, delay line and output are at rest.                         *)
Quiet ==
  \A r \in Robots : ~told[r] =>
    /\ cmd[r] = 0 /\ tool[r] = FALSE /\ applied[r] = 0
    /\ \A i \in 0 .. MaxDelay : past[r][i] = 0

(* A frame leaves it so: rest comes out of the delay line.                 *)
LEMMA FrameKeepsQuiet ==
  ASSUME TypeOK, DelayIsTransport', Quiet, Frame
  PROVE  Quiet'
<1> SUFFICES ASSUME NEW r \in Robots, ~told'[r]
             PROVE  /\ cmd'[r] = 0 /\ tool'[r] = FALSE /\ applied'[r] = 0
                    /\ \A i \in 0 .. MaxDelay : past'[r][i] = 0
  BY DEF Quiet
<1>1. /\ cmd[r] = 0 /\ tool[r] = FALSE /\ applied[r] = 0
      /\ \A i \in 0 .. MaxDelay : past[r][i] = 0
  BY DEF Frame, Quiet
<1>2. \A i \in 0 .. MaxDelay : past'[r][i] = 0
  <2>1. \A i \in 0 .. MaxDelay : i = 0 \/ i - 1 \in 0 .. MaxDelay
    BY CommandAssumption
  <2> QED
    BY <1>1, <2>1 DEF Frame
<1>3. line'[r][1] = 0
  <2>1. line'[r] # <<>> /\ lag'[r] \in 0 .. MaxDelay
    BY FrameFills
  <2> QED
    BY <1>2, <2>1 DEF DelayIsTransport
<1>4. applied'[r] = 0
  <2>1. applied'[r] \in Towards(applied[r], line'[r][1])
    BY DEF Frame
  <2> QED
    BY <1>1, <1>3, <2>1 DEF Towards
<1> QED
  BY <1>1, <1>2, <1>4 DEF Frame

LEMMA PacketKeepsQuiet ==
  ASSUME TypeOK, Quiet, Packet
  PROVE  Quiet'
<1> SUFFICES ASSUME NEW r \in Robots, ~told'[r]
             PROVE  /\ cmd'[r] = 0 /\ tool'[r] = FALSE /\ applied'[r] = 0
                    /\ \A i \in 0 .. MaxDelay : past'[r][i] = 0
  BY DEF Quiet
<1>1. ASSUME NEW team, NEW p, NEW rs \in SUBSET Robots, VisionPacket(team, p, rs), r \in rs
      PROVE  /\ cmd'[r] = 0 /\ tool'[r] = FALSE /\ applied'[r] = 0
             /\ \A i \in 0 .. MaxDelay : past'[r][i] = 0
  BY <1>1 DEF VisionPacket, Zeroed
<1>2. ASSUME NEW team, NEW p, NEW rs \in SUBSET Robots, VisionPacket(team, p, rs), r \notin rs
      PROVE  /\ cmd'[r] = 0 /\ tool'[r] = FALSE /\ applied'[r] = 0
             /\ \A i \in 0 .. MaxDelay : past'[r][i] = 0
  <2>1. ~told[r] /\ ~Addressed(r, team, p)
    BY <1>2 DEF VisionPacket
  <2>2. /\ cmd'[r] = cmd[r] /\ tool'[r] = tool[r] /\ applied'[r] = applied[r]
        /\ past'[r] = past[r]
    BY <1>2, <2>1 DEF VisionPacket, Zeroed, VisionVel, VisionTool, TypeOK
  <2> QED
    BY <2>1, <2>2 DEF Quiet
<1>3. ASSUME NEW team, NEW p, ControlPacket(team, p)
      PROVE  /\ cmd'[r] = 0 /\ tool'[r] = FALSE /\ applied'[r] = 0
             /\ \A i \in 0 .. MaxDelay : past'[r][i] = 0
  <2>1. ~told[r] /\ ~Heard(r, team, p)
    BY <1>3 DEF ControlPacket
  <2>2. /\ cmd'[r] = cmd[r] /\ tool'[r] = tool[r] /\ applied' = applied /\ past' = past
    BY <1>3, <2>1 DEF ControlPacket, TypeOK
  <2> QED
    BY <2>1, <2>2 DEF Quiet
<1> QED
  BY <1>1, <1>2, <1>3 DEF Packet

LEMMA QuietStep == TypeOK /\ DelayIsTransport' /\ Quiet /\ [Next]_vars => Quiet'
<1> SUFFICES ASSUME TypeOK, DelayIsTransport', Quiet, [Next]_vars PROVE Quiet'
  OBVIOUS
<1>1. CASE Frame
  BY <1>1, FrameKeepsQuiet
<1>2. CASE Packet
  BY <1>2, PacketKeepsQuiet
<1>3. CASE UNCHANGED vars
  BY <1>3 DEF Quiet, vars, robotVars, ghostVars
<1> QED
  BY <1>1, <1>2, <1>3 DEF Next

LEMMA QuietInvariant == Spec => []Quiet
<1>1. Init => Quiet
  BY DEF Init, Quiet
<1> QED
  BY <1>1, QuietStep, CommandsTypeCorrect, TransportDelay, PTL DEF Spec

(* Its body is at rest too, because a frame gives it what the scene has,   *)
(* and that is current.                                                    *)
BodyRests == \A r \in Shown : ~told[r] => drive[r] = 0

LEMMA BodyStep ==
  TypeOK /\ SceneIsCurrent /\ Quiet /\ BodyRests /\ [Next]_vars => BodyRests'
<1> SUFFICES ASSUME TypeOK, SceneIsCurrent, Quiet, BodyRests, [Next]_vars,
                    NEW r \in Shown', ~told'[r]
             PROVE  drive'[r] = 0
  BY DEF BodyRests
<1>1. r \in Shown /\ r \in Robots
  BY DEF Next, Packet, Frame, VisionPacket, ControlPacket, Shown, vars, sceneVars
<1>2. CASE Frame
  <2>1. ~told[r] /\ applied[r] = 0
    BY <1>1, <1>2 DEF Frame, Quiet
  <2> QED
    BY <1>1, <1>2, <2>1 DEF Frame, SceneIsCurrent
<1>3. ASSUME NEW team, NEW p, NEW rs \in SUBSET Robots, VisionPacket(team, p, rs)
      PROVE  drive'[r] = 0
  <2>1. r \notin rs => ~told[r]
    BY <1>1, <1>3 DEF VisionPacket
  <2> QED
    BY <1>1, <1>3, <2>1 DEF VisionPacket, Zeroed, BodyRests
<1>4. ASSUME NEW team, NEW p, ControlPacket(team, p)
      PROVE  drive'[r] = 0
  BY <1>1, <1>4 DEF ControlPacket, BodyRests
<1>5. CASE UNCHANGED vars
  BY <1>1, <1>5 DEF BodyRests, vars, sceneVars, ghostVars
<1> QED
  BY <1>2, <1>3, <1>4, <1>5 DEF Next, Packet

(* A replaced robot neither moves nor kicks nor dribbles before it is      *)
(* commanded again (Robot::resetMotion, visionReceive).                    *)
THEOREM ReplacedRobotRests == Spec => []StillAfterReplacement
<1>1. Init => BodyRests
  BY DEF Init, BodyRests, Shown
<1>2. TypeOK /\ Quiet /\ BodyRests /\ SceneIsCurrent => StillAfterReplacement
  BY DEF TypeOK, Quiet, BodyRests, SceneIsCurrent, StillAfterReplacement, Shown
<1> QED
  BY <1>1, <1>2, BodyStep, CommandsTypeCorrect, QuietInvariant, SceneCurrent, PTL DEF Spec

-----------------------------------------------------------------------------
(* A command that is left alone for the dead time takes effect: from then  *)
(* on every frame brings the robot nearer to it, or has it there, and the  *)
(* body of a shown robot follows one frame behind.  With frames going on   *)
(* (the fairness of Spec) this is why CommandReached holds: the distance   *)
(* to the command is a natural number that every frame lowers.             *)
LeftAlone(r) == \A i \in 0 .. MaxDelay : past[r][i] = cmd[r]

Nearer(x, y, target) ==
  \/ x = target /\ y = target
  \/ x < y /\ y <= target
  \/ target <= y /\ y < x

CommandApproached ==
  [][Frame => \A r \in Robots :
       /\ LeftAlone(r) => LeftAlone(r)' /\ Nearer(applied[r], applied'[r], cmd[r])
       /\ r \in Shown => drive'[r] = applied[r]]_vars

(* A robot goes to the command it is left with, whatever the lag and the   *)
(* limits do and however the frame times vary (Robot::advanceActuation).   *)
THEOREM SteadyCommandApproached == Spec => CommandApproached
<1>1. TypeOK /\ DelayIsTransport' /\ SceneIsCurrent /\ [Next]_vars =>
        [Frame => \A r \in Robots :
           /\ LeftAlone(r) => LeftAlone(r)' /\ Nearer(applied[r], applied'[r], cmd[r])
           /\ r \in Shown => drive'[r] = applied[r]]_vars
  <2> SUFFICES ASSUME TypeOK, DelayIsTransport', SceneIsCurrent, Frame, NEW r \in Robots
               PROVE  /\ LeftAlone(r) =>
                           LeftAlone(r)' /\ Nearer(applied[r], applied'[r], cmd[r])
                      /\ r \in Shown => drive'[r] = applied[r]
    OBVIOUS
  <2>1. r \in Shown => drive'[r] = applied[r]
    BY DEF Frame, SceneIsCurrent
  <2>2. ASSUME LeftAlone(r)
        PROVE  LeftAlone(r)' /\ Nearer(applied[r], applied'[r], cmd[r])
    <3>1. \A i \in 0 .. MaxDelay : i = 0 \/ i - 1 \in 0 .. MaxDelay
      BY CommandAssumption
    <3>2. cmd' = cmd /\ \A i \in 0 .. MaxDelay : past'[r][i] = cmd[r]
      BY <2>2, <3>1 DEF LeftAlone, Frame
    <3>3. line'[r] # <<>> /\ lag'[r] \in 0 .. MaxDelay
      BY FrameFills
    <3>4. line'[r][1] = cmd[r]
      BY <3>2, <3>3 DEF DelayIsTransport
    <3>5. applied'[r] \in Towards(applied[r], cmd[r])
      BY <3>4 DEF Frame
    <3>6. applied[r] \in Int /\ cmd[r] \in Int
      BY CommandAssumption DEF TypeOK, Vel
    <3> QED
      BY <3>2, <3>5, <3>6 DEF LeftAlone, Towards, Nearer
  <2> QED
    BY <2>1, <2>2
<1> QED
  BY <1>1, CommandsTypeCorrect, TransportDelay, SceneCurrent, PTL DEF Spec, CommandApproached

-----------------------------------------------------------------------------
(* The command path and the ideal robots.                                  *)

LEMMA IdealRests ==
  ASSUME Init
  PROVE  Ideal!Init
  BY DEF Init, Ideal!Init, Ideal!NoPast, AsDriven, AsActing

(* Because the scene is current, what it sees are the robots themselves.   *)
LEMMA AsSeen ==
  ASSUME TypeOK, SceneIsCurrent
  PROVE  /\ [r \in Robots |-> AsDriven(r)] = applied
         /\ [r \in Robots |-> AsActing(r)] = tool
<1>1. \A r \in Robots : AsDriven(r) = applied[r] /\ AsActing(r) = tool[r]
  BY DEF AsDriven, AsActing, SceneIsCurrent
<1> QED
  BY <1>1 DEF TypeOK

LEMMA AsSeenNext ==
  ASSUME TypeOK', SceneIsCurrent'
  PROVE  /\ [r \in Robots |-> AsDriven(r)]' = applied'
         /\ [r \in Robots |-> AsActing(r)]' = tool'
<1>1. \A r \in Robots : AsDriven(r)' = applied'[r] /\ AsActing(r)' = tool'[r]
  BY DEF AsDriven, AsActing, SceneIsCurrent
<1> QED
  BY <1>1 DEF TypeOK

LEMMA IdealFrame ==
  ASSUME TypeOK, TypeOK', DelayIsTransport', SceneIsCurrent, SceneIsCurrent', Frame
  PROVE  Ideal!Frame
<1>1. /\ [r \in Robots |-> AsDriven(r)] = applied
      /\ [r \in Robots |-> AsActing(r)] = tool
      /\ [r \in Robots |-> AsDriven(r)]' = applied'
      /\ [r \in Robots |-> AsActing(r)]' = tool'
  BY AsSeen, AsSeenNext
<1>2. /\ past' = [r \in Robots |->
                    [i \in 0 .. MaxDelay |-> IF i = 0 THEN cmd[r] ELSE past[r][i - 1]]]
      /\ cmd' = cmd /\ tool' = tool
      /\ applied' \in [Robots -> Vel]
  BY DEF Frame
<1>3. ASSUME NEW r \in Robots
      PROVE  \E k \in DelaySteps : Ideal!Approaches(applied[r], applied'[r], past'[r][k])
  <2>1. lag'[r] \in DelaySteps
    BY DEF Frame
  <2>2. line'[r] # <<>> /\ lag'[r] \in 0 .. MaxDelay
    BY FrameFills
  <2>3. line'[r][1] = past'[r][lag'[r]]
    BY <2>2 DEF DelayIsTransport
  <2>4. applied'[r] \in Towards(applied[r], past'[r][lag'[r]])
    BY <2>3 DEF Frame
  <2>5. applied[r] \in Int /\ past'[r][lag'[r]] \in Int
    <3>1. applied[r] \in Vel /\ past'[r] \in [0 .. MaxDelay -> Vel]
      BY DEF TypeOK
    <3>2. Vel \subseteq Int
      BY CommandAssumption DEF Vel
    <3> QED
      BY <2>2, <3>1, <3>2
  <2>6. Ideal!Approaches(applied[r], applied'[r], past'[r][lag'[r]])
    BY <2>4, <2>5 DEF Towards, Ideal!Approaches
  <2> QED
    BY <2>1, <2>6
<1> QED
  BY <1>1, <1>2, <1>3 DEF Ideal!Frame

LEMMA IdealPacket ==
  ASSUME TypeOK, TypeOK', SceneIsCurrent, SceneIsCurrent', Packet
  PROVE  Ideal!Packet
<1>1. /\ [r \in Robots |-> AsDriven(r)] = applied
      /\ [r \in Robots |-> AsDriven(r)]' = applied'
      /\ [r \in Robots |-> AsActing(r)]' = tool'
  BY AsSeen, AsSeenNext
<1>2. /\ cmd' \in [Robots -> Vel] /\ tool' \in [Robots -> BOOLEAN]
      /\ past' \in [Robots -> [0 .. MaxDelay -> Vel]] /\ applied' \in [Robots -> Vel]
  BY DEF TypeOK
<1>3. ASSUME NEW r \in Robots
      PROVE  \/ past'[r] = past[r] /\ applied'[r] = applied[r]
             \/ /\ cmd'[r] = 0 /\ past'[r] = [i \in 0 .. MaxDelay |-> 0]
                /\ applied'[r] = 0 /\ ~tool'[r]
  <2>1. ASSUME NEW team, NEW p, NEW rs \in SUBSET Robots, VisionPacket(team, p, rs)
        PROVE  \/ past'[r] = past[r] /\ applied'[r] = applied[r]
               \/ /\ cmd'[r] = 0 /\ past'[r] = [i \in 0 .. MaxDelay |-> 0]
                  /\ applied'[r] = 0 /\ ~tool'[r]
    BY <2>1 DEF VisionPacket, Zeroed
  <2>2. ASSUME NEW team, NEW p, ControlPacket(team, p)
        PROVE  past'[r] = past[r] /\ applied'[r] = applied[r]
    BY <2>2 DEF ControlPacket
  <2> QED
    BY <2>1, <2>2 DEF Packet
<1> QED
  BY <1>1, <1>2, <1>3 DEF Ideal!Packet, Ideal!Commanded, Ideal!Replaced, Ideal!NoPast

(* Delay line, scene copies and change signals together do what the ideal  *)
(* robots promise, for any teams, velocities and delays: nothing a robot   *)
(* was told before a replacement is ever driven, nothing it was told after *)
(* is driven early or lost (visionReceive, controlReceive, updateObjects,  *)
(* onBlueRobotsChanged, onActuationAdvanced).                              *)
THEOREM IdealImplemented == Spec => ImplementsIdeal
<1>1. Init => Ideal!Init
  BY IdealRests
<1>2. /\ TypeOK /\ TypeOK' /\ DelayIsTransport' /\ SceneIsCurrent /\ SceneIsCurrent'
      /\ [Next]_vars
      => [Ideal!Next]_(Ideal!vars)
  <2> SUFFICES ASSUME TypeOK, TypeOK', DelayIsTransport', SceneIsCurrent, SceneIsCurrent',
                      [Next]_vars
               PROVE  [Ideal!Next]_(Ideal!vars)
    OBVIOUS
  <2>1. CASE Frame
    BY <2>1, IdealFrame DEF Ideal!Next
  <2>2. CASE Packet
    BY <2>2, IdealPacket DEF Ideal!Next
  <2>3. CASE UNCHANGED vars
    BY <2>3 DEF vars, robotVars, sceneVars, ghostVars, Ideal!vars, AsDriven, AsActing, Shown
  <2> QED
    BY <2>1, <2>2, <2>3 DEF Next
<1> QED
  BY <1>1, <1>2, CommandsTypeCorrect, TransportDelay, SceneCurrent, PTL
     DEF Spec, ImplementsIdeal, Ideal!Spec

-----------------------------------------------------------------------------
(* The settings window changes the number of robots as well (SettingsSpec  *)
(* of RobotCommandsClaims).                                                *)

SettingsNext == Next \/ \E team \in Teams, n \in 0 .. MaxRobots : SetRobotCount(team, n)

SettingsInv == TypeOK /\ LineIsPast /\ Quiet

LEMMA SettingsInvStep == SettingsInv /\ [SettingsNext]_vars => SettingsInv'
<1> SUFFICES ASSUME SettingsInv, [SettingsNext]_vars PROVE SettingsInv'
  OBVIOUS
<1>1. CASE [Next]_vars
  <2>1. TypeOK' /\ LineIsPast'
    BY <1>1, StepType, LineStep DEF SettingsInv
  <2>2. DelayIsTransport'
    BY <2>1, OldestIsDue, PTL
  <2> QED
    BY <1>1, <2>1, <2>2, QuietStep DEF SettingsInv
<1>2. ASSUME NEW team \in Teams, NEW n \in 0 .. MaxRobots, SetRobotCount(team, n)
      PROVE  SettingsInv'
  <2>1. count' \in [Teams -> 0 .. MaxRobots] /\ drive' \in [Robots -> Vel]
    BY <1>2, ZeroTypes DEF SetRobotCount, SettingsInv, TypeOK
  <2>2. UNCHANGED <<robotVars, qVel, qTool, ghostVars>>
    BY <1>2 DEF SetRobotCount
  <2>3. TypeOK'
    BY <2>1, <2>2 DEF SettingsInv, TypeOK, robotVars, ghostVars
  <2>4. LineIsPast' /\ Quiet'
    BY <2>2 DEF SettingsInv, LineIsPast, Quiet, robotVars, ghostVars
  <2> QED
    BY <2>3, <2>4 DEF SettingsInv
<1> QED
  BY <1>1, <1>2 DEF SettingsNext

LEMMA SettingsInvariant == SettingsSpec => []SettingsInv
<1>1. Init => SettingsInv
  BY InitType, EmptySeq DEF SettingsInv, Init, LineIsPast, Quiet
<1> QED
  BY <1>1, SettingsInvStep, PTL DEF SettingsSpec, SettingsNext

(* The number of robots has no part in the delay of a robot's commands: a  *)
(* robot that is not shown has its line filled like any other              *)
(* (Observer::updateObjects goes over all of them).                        *)
THEOREM DelayInAllSettings == SettingsSpec => []DelayIsTransport
  BY OldestIsDue, SettingsInvariant, PTL DEF SettingsInv

(* What NoStaleDrive leaves: a robot shown again whose commands have been  *)
(* stopped finds the velocity of before in the scene's copy.  Only a       *)
(* change of the number of robots does this, its body gets that velocity   *)
(* in a frame, and the same frame ends it.                                 *)
LeftOver(r) == r \in Shown /\ ~told[r] /\ qVel[r] # 0

StaleForOneFrame ==
  [][\A r \in Robots :
       /\ LeftOver(r)' => LeftOver(r) \/ \E n \in 0 .. MaxRobots : SetRobotCount(Team(r), n)
       /\ Frame => ~LeftOver(r)'
       /\ Frame /\ r \in Shown /\ ~told[r] /\ drive'[r] # 0 => LeftOver(r)]_vars

(* The stale velocity of a robot that is shown again drives it for one     *)
(* frame and no longer (onBlueRobotsChanged, botMovement, setBlueRobotCount). *)
THEOREM StaleDriveEnds == SettingsSpec => StaleForOneFrame
<1>1. SettingsInv /\ SettingsInv' /\ [SettingsNext]_vars =>
        [\A r \in Robots :
           /\ LeftOver(r)' => LeftOver(r) \/ \E n \in 0 .. MaxRobots : SetRobotCount(Team(r), n)
           /\ Frame => ~LeftOver(r)'
           /\ Frame /\ r \in Shown /\ ~told[r] /\ drive'[r] # 0 => LeftOver(r)]_vars
  <2> SUFFICES ASSUME SettingsInv, SettingsInv', SettingsNext, NEW r \in Robots
               PROVE  /\ LeftOver(r)' => LeftOver(r) \/ \E n \in 0 .. MaxRobots : SetRobotCount(Team(r), n)
                      /\ Frame => ~LeftOver(r)'
                      /\ Frame /\ r \in Shown /\ ~told[r] /\ drive'[r] # 0 => LeftOver(r)
    OBVIOUS
  <2>1. Team(r) \in Teams
    BY RobotParts
  <2>2. ~told[r] => applied[r] = 0
    BY DEF SettingsInv, Quiet
  <2>3. ~told'[r] => applied'[r] = 0
    BY DEF SettingsInv, Quiet
  <2>4. ASSUME Frame
        PROVE  ~LeftOver(r)' /\ (r \in Shown /\ ~told[r] /\ drive'[r] # 0 => LeftOver(r))
    <3>1. r \in Shown' => r \in Shown
      BY <2>4 DEF Frame, Shown
    <3> QED
      BY <2>1, <2>3, <2>4, <3>1 DEF Frame, FrameVel, Copied, LeftOver
  <2>5. ASSUME NEW team, NEW p, NEW rs \in SUBSET Robots, VisionPacket(team, p, rs), LeftOver(r)'
        PROVE  LeftOver(r)
    <3>1. r \in Shown /\ ~told'[r] /\ qVel'[r] # 0
      BY <2>5 DEF LeftOver, VisionPacket, Shown
    <3>2. r \notin rs
      <4>1. r \in rs => Team(r) \in TeamsChanged(team, rs)
        BY DEF TeamsChanged
      <4> QED
        BY <2>3, <2>5, <3>1, <4>1 DEF VisionPacket, Copied
    <3>3. ~told[r] /\ applied'[r] = 0 /\ applied[r] = 0
      BY <2>2, <2>3, <2>5, <3>1, <3>2 DEF VisionPacket
    <3>4. qVel'[r] \in {applied'[r], applied[r], qVel[r]}
      BY <2>5 DEF VisionPacket, Copied
    <3> QED
      BY <3>1, <3>3, <3>4 DEF LeftOver
  <2>6. ASSUME NEW team, NEW p, ControlPacket(team, p), LeftOver(r)'
        PROVE  LeftOver(r)
    <3>1. r \in Shown /\ ~told'[r] /\ qVel'[r] # 0
      BY <2>6 DEF LeftOver, ControlPacket, Shown
    <3>2. ~told[r] /\ applied[r] = 0
      BY <2>2, <2>6, <3>1 DEF ControlPacket
    <3>3. qVel'[r] \in {applied[r], qVel[r]}
      BY <2>6 DEF ControlPacket, Copied
    <3> QED
      BY <3>1, <3>2, <3>3 DEF LeftOver
  <2>7. ASSUME NEW team \in Teams, NEW n \in 0 .. MaxRobots, SetRobotCount(team, n),
               LeftOver(r)', ~LeftOver(r)
        PROVE  team = Team(r)
    <3>1. UNCHANGED <<qVel, told>> /\ count' = [count EXCEPT ![team] = n]
      BY <2>7 DEF SetRobotCount, ghostVars
    <3>2. r \in Shown' /\ r \notin Shown
      BY <2>7, <3>1 DEF LeftOver
    <3> QED
      BY <2>1, <3>1, <3>2 DEF Shown, SettingsInv, TypeOK
  <2>8. LeftOver(r)' => LeftOver(r) \/ \E n \in 0 .. MaxRobots : SetRobotCount(Team(r), n)
    BY <2>4, <2>5, <2>6, <2>7 DEF SettingsNext, Next, Packet
  <2> QED
    BY <2>4, <2>8
<1> QED
  BY <1>1, SettingsInvariant, PTL DEF SettingsSpec, SettingsNext, StaleForOneFrame
=============================================================================

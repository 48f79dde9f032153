----------------------------- MODULE IdealRobots -----------------------------
(***************************************************************************)
(* What the command path promises of every robot, without its machinery:   *)
(* no buffer, no copies in the scene, no change signals.                   *)
(*                                                                         *)
(* The promise: whether a robot kicks or dribbles follows its command at   *)
(* once; its velocity changes only with the frames, each of which brings   *)
(* it nearer to the command of the dead time before; and a replaced robot  *)
(* is as new, whatever it was told before.                                 *)
(***************************************************************************)
EXTENDS Integers

CONSTANTS
  Robots,
  Vel,
  DelaySteps,           \* the frames the dead time may come to
  MaxDelay              \* a bound on them

VARIABLES
  cmd,                  \* the velocity commanded last
  past,                 \* those of the frames before, the last frame's at 0
  speed,                \* the velocity the robot is driven with
  acts                  \* does it kick or dribble?

vars == <<cmd, past, speed, acts>>

NoPast == [i \in 0 .. MaxDelay |-> 0]

Init ==
  /\ cmd = [r \in Robots |-> 0]
  /\ past = [r \in Robots |-> NoPast]
  /\ speed = [r \in Robots |-> 0]
  /\ acts = [r \in Robots |-> FALSE]

(* From v to w is nearer to the target, or there. *)
Approaches(v, w, target) ==
  \/ v < w /\ w <= target
  \/ target <= w /\ w < v
  \/ v = target /\ w = target

Frame ==
  /\ past' = [r \in Robots |->
                [i \in 0 .. MaxDelay |-> IF i = 0 THEN cmd[r] ELSE past[r][i - 1]]]
  /\ speed' \in [Robots -> Vel]
  /\ \A r \in Robots : \E k \in DelaySteps : Approaches(speed[r], speed'[r], past'[r][k])
  /\ UNCHANGED <<cmd, acts>>

(* A packet has new commands for some robots and replaces others. *)
Commanded(r) == past'[r] = past[r] /\ speed'[r] = speed[r]
Replaced(r)  == cmd'[r] = 0 /\ past'[r] = NoPast /\ speed'[r] = 0 /\ ~acts'[r]

Packet ==
  /\ cmd' \in [Robots -> Vel]
  /\ acts' \in [Robots -> BOOLEAN]
  /\ past' \in [Robots -> [0 .. MaxDelay -> Vel]]
  /\ speed' \in [Robots -> Vel]
  /\ \A r \in Robots : Commanded(r) \/ Replaced(r)

Next == Frame \/ Packet

Spec == Init /\ [][Next]_vars
=============================================================================

--------------------------- MODULE BallPossession ---------------------------
(***************************************************************************)
(* What the ball handling of GameObjects.qml promises, without its         *)
(* machinery.  There is one ball.  A robot may own it (dribbleInfo), and   *)
(* its rigid body is either on the field or parked far away from it.       *)
(*                                                                         *)
(* The promise: only a ball that somebody owns is taken off the field,     *)
(* ownership goes from one robot to another only through nobody, and a     *)
(* ball that nobody owns is on the field again sooner or later.            *)
(***************************************************************************)
EXTENDS Naturals

CONSTANT NRobots        \* number of robots, both teams together

Robots == 1 .. NRobots
None   == 0

VARIABLES
  owner,                \* the robot that carries the ball, or None
  onField               \* is the ball's body on the field?

vars == <<owner, onField>>

TypeOK ==
  /\ owner \in Robots \cup {None}
  /\ onField \in BOOLEAN

Init ==
  /\ owner = None
  /\ onField = TRUE

(* A robot takes a ball that nobody owns. *)
Catch(r) ==
  /\ owner = None
  /\ owner' = r
  /\ UNCHANGED onField

(* The owner lets go: a kick, a release, a lost contest or a placement. *)
Lose ==
  /\ owner # None
  /\ owner' = None
  /\ UNCHANGED onField

(* The body of an owned ball is taken off the field. *)
Park ==
  /\ owner # None
  /\ onField
  /\ onField' = FALSE
  /\ UNCHANGED owner

(* The body is back on the field. *)
Return ==
  /\ ~onField
  /\ onField' = TRUE
  /\ UNCHANGED owner

ReturnUnowned == owner = None /\ Return

Next ==
  \/ \E r \in Robots : Catch(r)
  \/ Lose
  \/ Park
  \/ Return

Spec == Init /\ [][Next]_vars /\ WF_vars(ReturnUnowned)
=============================================================================

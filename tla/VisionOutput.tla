----------------------------- MODULE VisionOutput -----------------------------
(***************************************************************************)
(* The vision output: Observer::updateObjects takes over the ball of the   *)
(* frame if isFoundBall is set, Main.qml then looks whether the ceiling    *)
(* cameras see it (hideBallMode, EmptyObjects), and Sender::send publishes *)
(* the packet.  RAVEN, the client, is outside: it joins at any time and    *)
(* hears what the network delivers.                                        *)
(*                                                                         *)
(* The poses of the robots and the time stamp are those of the frame and   *)
(* are left out.  The two counters of the sender are kept modulo Period    *)
(* and Numbers.  What a camera sees of the ball is any, frame by frame.    *)
(*                                                                         *)
(* The operators marked "mutant" are plausible mistakes, each next to the  *)
(* definition it would replace; no action uses them.                       *)
(***************************************************************************)
EXTENDS Integers

CONSTANTS
  Places,      \* of the ball, within 20 m of the centre
  Far,         \* any place farther out
  Points,      \* of the ball a camera is asked for: the centre and the rim
  Period,      \* frames from one geometry to the next (1000)
  Numbers,     \* bound: frame numbers are kept modulo this
  None

ASSUME VisionAssumption ==
  /\ Points \in Nat
  /\ Period \in Nat \ {0}
  /\ Numbers \in Nat \ {0}
  /\ Far \notin Places
  /\ None \notin Places \cup {Far}
  /\ None \notin Nat

Balls == Places \cup {Far}
View  == [1 .. Points -> {"off", "blocked", "clear"}]

VARIABLES
  hideBallMode,
  isFoundBall,      \* of the window: the ball was seen in the frame before
  ballPosition,     \* of the observer: the ball it publishes
  geometryCount,
  captureCount,
  endpointOpen,     \* the sender's address and port are the client's
  packet,           \* the one of the last frame, None if the socket refused it
  ball,             \* history: the ball of the last frame
  gone,             \* history: where the cameras lost the ball, None while they see it or are not asked
  frozen,           \* history: the mode was switched off with the ball lost, and no camera asked has seen it since
  client            \* RAVEN: what it has heard since it joined

sender == <<geometryCount, captureCount, packet>>
vars   == <<hideBallMode, isFoundBall, ballPosition, sender, endpointOpen, ball, gone, frozen, client>>

NewClient == [heard |-> 0, knows |-> FALSE, last |-> None, missed |-> 0]

-----------------------------------------------------------------------------
(* EmptyObjects: the points are tried in turn; one that is off the screen  *)
(* ends the search, one where nothing is picked means that the ball is     *)
(* seen.                                                                   *)
Seen(view) ==
  \E k \in DOMAIN view :
    view[k] = "clear" /\ \A j \in 1 .. k - 1 : view[j] = "blocked"

Looks == {Seen(view) : view \in View}

(* The flag is only looked after in hideBallMode; both cameras may set it. *)
LastCamera(left, right) ==                     \* mutant: each camera sets the flag anew
  IF hideBallMode THEN right ELSE isFoundBall
NextFound(left, right) ==
  IF hideBallMode THEN left \/ right ELSE isFoundBall

(* The ball of the frame is taken over before the cameras are asked.       *)
AfterCheck(b) == IF isFoundBall' THEN b ELSE ballPosition   \* mutant: taken over after they are
Published(b)  == IF isFoundBall THEN b ELSE ballPosition

-----------------------------------------------------------------------------
Unguarded(b) == b                              \* mutant: garbage coordinates go out
Detection(b) == IF b = Far THEN None ELSE b

FirstOnly    == geometryCount = 0 /\ captureCount = 0       \* mutant: only with the first packet
WithGeometry == geometryCount = 0

After(n, modulus) == IF n + 1 = modulus THEN 0 ELSE n + 1

CountsSent(ok) ==                              \* mutant: a frame that fails has no number
  IF ok THEN After(captureCount, Numbers) ELSE captureCount
NextCapture(ok) == After(captureCount, Numbers)

(* The counters move on whether or not the socket took the packet.         *)
Send(b, ok) ==
  /\ packet' = IF ok THEN [number |-> captureCount, ball |-> Detection(b), geometry |-> WithGeometry]
                     ELSE None
  /\ geometryCount' = After(geometryCount, Period)
  /\ captureCount' = NextCapture(ok)

(* The client hears the packet of the frame or it does not.                *)
Hear ==
  client' = [heard  |-> IF client.heard < Period THEN client.heard + 1 ELSE Period,
             knows  |-> client.knows \/ packet'.geometry,
             last   |-> packet'.number,
             missed |-> 0]
Miss ==
  client' = [client EXCEPT !.heard = 0,
                           !.missed = IF client.last = None THEN 0 ELSE After(@, Numbers)]

-----------------------------------------------------------------------------
Init ==
  /\ hideBallMode \in BOOLEAN
  /\ isFoundBall = TRUE
  /\ ballPosition \in Places
  /\ ball = ballPosition
  /\ geometryCount = 0
  /\ captureCount = 0
  /\ endpointOpen \in BOOLEAN
  /\ packet = None
  /\ gone = None
  /\ frozen = FALSE
  /\ client = NewClient

Frame(b, left, right, ok, delivered) ==
  /\ isFoundBall' = NextFound(left, right)
  /\ ballPosition' = Published(b)
  /\ Send(ballPosition', ok)
  /\ ok /\ delivered => endpointOpen
  /\ IF ok /\ delivered THEN Hear ELSE Miss
  /\ ball' = b
  /\ gone' = IF ~hideBallMode \/ left \/ right THEN None
             ELSE IF gone = None THEN b ELSE gone
  /\ frozen' = IF hideBallMode THEN frozen /\ ~(left \/ right) ELSE frozen \/ gone # None
  /\ UNCHANGED <<hideBallMode, endpointOpen>>

AnyFrame ==
  \E b \in Balls, left, right \in Looks, ok, delivered \in BOOLEAN :
    Frame(b, left, right, ok, delivered)

SetHideBallMode ==
  /\ hideBallMode' \in BOOLEAN
  /\ UNCHANGED <<isFoundBall, ballPosition, sender, endpointOpen, ball, gone, frozen, client>>

(* A new address or port: the counters go on.                              *)
SetPort ==
  /\ endpointOpen' \in BOOLEAN
  /\ UNCHANGED <<hideBallMode, isFoundBall, ballPosition, sender, ball, gone, frozen, client>>

Join ==
  /\ client' = NewClient
  /\ UNCHANGED <<hideBallMode, isFoundBall, ballPosition, sender, endpointOpen, ball, gone, frozen>>

Next == AnyFrame \/ SetHideBallMode \/ SetPort \/ Join

Spec == Init /\ [][Next]_vars

-----------------------------------------------------------------------------
Packet == [number : 0 .. Numbers - 1, ball : Places \cup {None}, geometry : BOOLEAN]

TypeOK ==
  /\ hideBallMode \in BOOLEAN /\ isFoundBall \in BOOLEAN /\ endpointOpen \in BOOLEAN
  /\ ballPosition \in Balls /\ ball \in Balls /\ gone \in Balls \cup {None} /\ frozen \in BOOLEAN
  /\ geometryCount \in 0 .. Period - 1
  /\ captureCount \in 0 .. Numbers - 1
  /\ packet \in Packet \cup {None}
  /\ client \in [heard : 0 .. Period, knows : BOOLEAN,
                 last : 0 .. Numbers - 1 \cup {None}, missed : 0 .. Numbers - 1]

(* hideBallMode: while neither ceiling camera sees the ball, what is       *)
(* published is the place where they lost it, whatever it does behind the  *)
(* robots.  The exception is a ball that was frozen before: switching the  *)
(* mode off while the ball is lost leaves isFoundBall FALSE, and what is   *)
(* published stays at an older place (docs/architecture.md 5.4).           *)
HiddenBallStaysPut == gone # None /\ ~frozen => ballPosition = gone

(* A packet shows the ball of its own frame, unless both cameras had lost  *)
(* it in the frame before: then the place where they did.  A frozen ball   *)
(* is shown where it was, in full view or not, until a camera is asked and *)
(* sees it (docs/architecture.md 5.4).  A place too far out is no          *)
(* detection at all (updateObjects, EmptyObjects, setDetectionInfo).       *)
PacketShowsBall ==
  [][AnyFrame /\ packet' # None =>
       LET shown == IF frozen THEN ballPosition ELSE IF gone # None THEN gone ELSE ball'
       IN  packet'.ball = IF shown \in Places THEN shown ELSE None]_vars

(* A client that has heard Period frames in a row knows the field, whenever *)
(* it joined and whatever sends failed before (geometryCount in send).     *)
GeometryWithinPeriod == client.heard = Period => client.knows

(* The frame numbers a client hears tell how many frames it missed, those  *)
(* the socket refused included (captureCount in send).                     *)
NumbersTellLosses ==
  client.last # None =>
    \E wraps \in {0, Numbers} : captureCount + wraps = client.last + 1 + client.missed
=============================================================================

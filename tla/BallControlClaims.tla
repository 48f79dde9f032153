-------------------------- MODULE BallControlClaims --------------------------
(***************************************************************************)
(* What a comment of the ball handling says and the handlers do not keep,  *)
(* checked by a run that finds it violated.                                *)
(***************************************************************************)
EXTENDS BallControl

(* placeBall "clears every piece of ball state that could otherwise fight  *)
(* the placement on a later tick" (GameObjects.qml): until the ball has    *)
(* landed where it was put, no robot holds it.                             *)
PlacementTakesBall == placing > 0 => holder = None
=============================================================================

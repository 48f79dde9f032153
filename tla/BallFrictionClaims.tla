-------------------------- MODULE BallFrictionClaims --------------------------
(***************************************************************************)
(* What a comment of applyBallFriction says and the code does not keep.    *)
(***************************************************************************)
EXTENDS BallFriction

(* "If it has become faster, an outside force went in (pushed, kicked).    *)
(* What could not be picked up as an impact is counted as a new launch     *)
(* here too."  The code compares with the old launch speed instead of the  *)
(* speed measured before: a slow rolling ball that is pushed goes on       *)
(* rolling where RAVEN expects it to slide.                                *)
PushIsCounted ==
  [][HitFrame /\ Abs(prev') > Abs(prev) + Slack /\ Abs(prev') >= Crawl
       => launch' = Abs(prev')]_vars
=============================================================================

---------------------------- MODULE MCScanMatcher ----------------------------
(* The robot ScanMatcher is checked with: its lidar sits in front of the   *)
(* middle and looks backwards.  A turn carries the lidar along.            *)
EXTENDS ScanMatcher

Pose(x, y, a) == [x |-> x, y |-> y, a |-> a]
MCLaser == Pose(1, 0, 1)
MCMotions == {Pose(0, 0, 0), Pose(1, 0, 0), Pose(0, -1, 0), Pose(0, 0, 1)}

\* All places within the thresholds of a keyframe, or close, are among these:
\* KeyframesOverlap holds of them, and so of all.
MCPlaces == [x : -2 .. 2, y : -2 .. 2, a : 0 .. 3]
ASSUME MCKeyframesOverlap == KeyframesOverlap(MCPlaces)
=============================================================================

SPECIFICATION MatcherSpec
\* The lidar stops after MaxScans scans.
CHECK_DEADLOCK FALSE
CONSTANTS
  base_to_laser <- MCLaser
  kf_dist_linear_sq = 1
  kf_dist_angular = 0
  Motions <- MCMotions
  ReachSq = 2
  OverlapSq = 5
  Depth = 2
  MaxScans = 5
INVARIANTS
  PoseIsTrue
  TracksSlowRobot
  VelocityIsSinceLastMessage

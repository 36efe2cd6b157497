SPECIFICATION IcpSpec
CONSTANTS
  MinTheta <- MCMinTheta
  RayStep = 10
  MinRays = 5
  min_reading = 1
  max_reading = 9
  max_correspondence_dist = 8
  max_linear_correction = 5
  max_angular_correction_deg = 40
  outliers_maxPerc = 90
  outliers_adaptive_order = 70
  outliers_adaptive_mult = 2
  clustering_threshold = 1
  orientation_neighbourhood = 2
  do_alpha_test_thresholdDeg = 10
  Scans <- MCScans
  ParamSets <- MCParamSets
  FirstGuesses = {0, 10}
  Turns <- MCTurns
  max_iterations = 2
  restart_threshold_mean_error = 12
  restart_dtheta_deg = 20
  MaxCalls = 1
\* The calls end.
CHECK_DEADLOCK FALSE
INVARIANTS
  
  TrimKeepsNearest
  ReferenceStaysUsable

----------------------------- MODULE ScanMatcher -----------------------------
(***************************************************************************)
(* The laser odometry (laser_scan_matcher.cpp): a node that matches every  *)
(* scan of the lidar with a reference scan, the keyframe, and publishes    *)
(* where the robot has come from its start.                                *)
(*                                                                         *)
(* Space is the integer plane and turns are quarters of a circle, so that  *)
(* transforms compose and invert exactly as tf2's do, in the same order.   *)
(* Time is counted in scans.  A scan is where the robot was when it was    *)
(* taken and whether enough of its rays are valid.  sm_icp is given by     *)
(* what it can find: the motion of the lidar between two good scans when   *)
(* they overlap and the guess is close, and else nothing or a wrong one.   *)
(***************************************************************************)
EXTENDS Integers, Sequences, FiniteSets

CONSTANTS
  base_to_laser,     \* where the lidar is on the robot
  kf_dist_linear_sq, \* a keyframe lasts while the robot is within this
  kf_dist_angular,   \*   distance of it and turned by no more quarters
  Motions,   \* what the robot may move, in its own frame, between two scans
  ReachSq,   \* a match is found when the lidar is this close to the guess
  OverlapSq, \* and this close to where the reference was taken
  Depth,     \* depth of the subscription's queue (SensorDataQoS)
  MaxScans   \* bound: scans the lidar takes

Origin == [x |-> 0, y |-> 0, a |-> 0]

ASSUME ScanMatcherAssumption ==
    /\ {base_to_laser, Origin} \cup Motions \subseteq [x : Int, y : Int, a : 0 .. 3]
    /\ {kf_dist_linear_sq, kf_dist_angular, ReachSq, OverlapSq, MaxScans} \subseteq Nat
    /\ Depth \in Nat \ {0}

VARIABLES
  truth,   \* where the robot is, from where it started
  scans,   \* scans taken so far, and the time
  queue,   \* messages that wait for scanCallback
  initialized_,
  prev_ldp_scan_, \* the reference
  curr_ldp_scan,  \* the scan that is matched, or NoScan
  heap,           \* numbers of the scans that are allocated
  f2b_,           \* the robot, as far as is known
  f2b_kf_,        \* the same when the reference was taken
  prev_f2b_,      \* the same when odometry was published last
  last_icp_time_,
  dt,             \* the time the velocity will be taken over
  first_guess,    \* where sm_icp begins to look
  odom,           \* the message published last
  start,          \* history: where the first scan was taken
  matched,        \* history: the scan matched last
  slow,           \* history: all scans were good and each close to the last
  begun,          \* history: when the matching of the scan began
  published,      \* history: when the last message was published
  lost,           \* history: a match was wrong
  failures        \* history: the scans that could not be matched

poses == <<f2b_, f2b_kf_, prev_f2b_>>
matching == <<curr_ldp_scan, dt, first_guess>>
history == <<start, matched, slow, begun, published, lost, failures>>
matcherVars == <<truth, scans, queue, initialized_, prev_ldp_scan_, heap, poses,
                 last_icp_time_, odom, matching, history>>

NoScan == [id |-> 0, at |-> Origin, good |-> FALSE, stamp |-> 0]
NoOdom == [of |-> NoScan, since |-> NoScan, pose |-> Origin, moved |-> Origin,
           over |-> 0, from |-> 0, to |-> 0]

-----------------------------------------------------------------------------
(* Transforms *)

Cos == <<1, 0, -1, 0>>
Sin == <<0, 1, 0, -1>>

\* The transform p followed by q, in p's frame.
p ** q == LET c == Cos[p.a + 1]
              s == Sin[p.a + 1]
          IN  [x |-> p.x + c * q.x - s * q.y, y |-> p.y + s * q.x + c * q.y, a |-> (p.a + q.a) % 4]

InverseTf(p) == LET c == Cos[p.a + 1]
                    s == Sin[p.a + 1]
                IN  [x |-> -c * p.x - s * p.y, y |-> s * p.x - c * p.y, a |-> (4 - p.a) % 4]

laser_to_base == InverseTf(base_to_laser)
Yaw(p) == IF p.a = 3 THEN 1 ELSE p.a \* its size, in quarters
DistanceSq(p) == p.x * p.x + p.y * p.y

\* The robot's motion as the lidar sees it, and back.
SeenByLaser(motion) == laser_to_base ** motion ** base_to_laser

\* Mutant: carries the correction the wrong way.
OfBaseMixed(motion) == laser_to_base ** motion ** base_to_laser

OfBase(motion) == base_to_laser ** motion ** laser_to_base

Between(a, b) == InverseTf(a.at) ** b.at \* the robot's motion between two scans
Close(p) == DistanceSq(p) <= ReachSq /\ Yaw(p) <= 1

-----------------------------------------------------------------------------
MatcherInit ==
    /\ truth = Origin /\ scans = 0 /\ queue = <<>>
    /\ initialized_ = FALSE
    /\ prev_ldp_scan_ = NoScan /\ curr_ldp_scan = NoScan /\ heap = {}
    /\ f2b_ = Origin /\ f2b_kf_ = Origin /\ prev_f2b_ = Origin
    /\ last_icp_time_ = 0 /\ dt = 0 /\ first_guess = Origin
    /\ odom = NoOdom
    /\ start = Origin /\ matched = NoScan /\ slow = TRUE /\ begun = 0 /\ published = 0
    /\ lost = FALSE /\ failures = {}

\* The robot moves and the lidar takes a scan; a full queue drops its oldest.
\* A message may wait for as long as it takes to get to an idle node.
TakeScan ==
    /\ scans < MaxScans
    /\ scans' = scans + 1
    /\ \E motion \in Motions, good \in BOOLEAN :
        /\ truth' = truth ** motion
        /\ LET scan == [id |-> 0, at |-> truth', good |-> good, stamp |-> scans']
           IN  queue' = Append(IF Len(queue) = Depth THEN Tail(queue) ELSE queue, scan)
    /\ UNCHANGED <<initialized_, prev_ldp_scan_, heap, poses, last_icp_time_, odom, matching, history>>

\* laserScanToLDP allocates a scan: two of the first message.
Ldp(scan, first) == [scan EXCEPT !.id = 2 * scan.stamp + IF first THEN 0 ELSE 1]

\* No transform from the base to the lidar yet: "Skipping scan".
SkipScan ==
    /\ ~initialized_ /\ queue # <<>>
    /\ queue' = Tail(queue)
    /\ UNCHANGED <<truth, scans, initialized_, prev_ldp_scan_, heap, poses, last_icp_time_, odom, matching, history>>

\* Mutant: predicts the change since the start.
PredictionFromStart == laser_to_base ** f2b_ ** base_to_laser

\* Where the lidar should be, seen from the reference: the change since the
\* keyframe in the fixed frame, carried over to the lidar's.
Prediction == LET pr_ch == f2b_ ** InverseTf(f2b_kf_)
              IN  laser_to_base ** InverseTf(f2b_) ** pr_ch ** f2b_ ** base_to_laser

\* scanCallback, and processScan up to sm_icp.
BeginScan ==
    /\ queue # <<>> /\ curr_ldp_scan = NoScan
    /\ LET scan == Head(queue)
       IN  /\ prev_ldp_scan_' = IF initialized_ THEN prev_ldp_scan_ ELSE Ldp(scan, TRUE)
           /\ last_icp_time_' = IF initialized_ THEN last_icp_time_ ELSE scan.stamp
           /\ curr_ldp_scan' = Ldp(scan, FALSE)
           /\ start' = IF initialized_ THEN start ELSE scan.at
           /\ slow' = (slow /\ scan.good /\ (initialized_ => Close(SeenByLaser(Between(matched, scan)))))
    /\ initialized_' = TRUE
    /\ queue' = Tail(queue)
    /\ heap' = heap \cup {prev_ldp_scan_'.id, curr_ldp_scan'.id}
    /\ dt' = scans - last_icp_time_'
    /\ begun' = scans
    /\ first_guess' = Prediction
    /\ UNCHANGED <<truth, scans, poses, odom, matched, published, lost, failures>>

Found == SeenByLaser(Between(prev_ldp_scan_, curr_ldp_scan))

\* What sm_icp may answer for a motion of the lidar since the reference.
InReach == /\ prev_ldp_scan_.good /\ curr_ldp_scan.good
           /\ Close(InverseTf(first_guess) ** Found)
           /\ DistanceSq(Found) <= OverlapSq

\* Mutant: the time starts again when a match has failed.
FailureRestartsTime ==
    /\ curr_ldp_scan # NoScan /\ ~InReach
    /\ curr_ldp_scan' = NoScan
    /\ last_icp_time_' = scans
    /\ failures' = failures \cup {curr_ldp_scan.id}
    /\ UNCHANGED <<truth, scans, queue, initialized_, prev_ldp_scan_, heap, poses,
                   dt, first_guess, odom, start, matched, slow, begun, published, lost>>

\* processScan returns as soon as the match has failed.
MatchFails ==
    /\ curr_ldp_scan # NoScan /\ ~InReach
    /\ curr_ldp_scan' = NoScan
    /\ failures' = failures \cup {curr_ldp_scan.id}
    /\ UNCHANGED <<truth, scans, queue, initialized_, prev_ldp_scan_, heap, poses, last_icp_time_,
                   dt, first_guess, odom, start, matched, slow, begun, published, lost>>

newKeyframeNeeded(d) == Yaw(d) > kf_dist_angular \/ DistanceSq(d) > kf_dist_linear_sq

\* A new keyframe replaces the reference, or the scan is dropped.
SwapOldAndNew(corr_ch) ==
    IF newKeyframeNeeded(corr_ch)
    THEN /\ heap' = heap \ {prev_ldp_scan_.id}
         /\ prev_ldp_scan_' = curr_ldp_scan
         /\ f2b_kf_' = f2b_'
    ELSE /\ heap' = heap \ {curr_ldp_scan.id}
         /\ UNCHANGED <<prev_ldp_scan_, f2b_kf_>>

\* Odometry (publish_odom is set, and the transform has the same pose).
PublishPose ==
    /\ odom' = [of |-> curr_ldp_scan, since |-> matched, pose |-> f2b_',
                moved |-> InverseTf(prev_f2b_) ** f2b_', over |-> dt, from |-> published, to |-> begun]
    /\ prev_f2b_' = f2b_'

Matches(corr_ch_l) ==
    LET corr_ch == OfBase(corr_ch_l)
    IN  /\ f2b_' = f2b_kf_ ** corr_ch
        /\ PublishPose
        /\ SwapOldAndNew(corr_ch)

\* The rest of processScan.  Out of reach the match is wrong, if it is not
\* refused; it stays where it began.
FinishScan ==
    /\ curr_ldp_scan # NoScan
    /\ \/ InReach /\ Matches(Found) /\ UNCHANGED lost
       \/ /\ ~InReach /\ prev_ldp_scan_.good /\ curr_ldp_scan.good
          /\ Matches(first_guess) /\ lost' = TRUE
    /\ last_icp_time_' = scans
    /\ matched' = curr_ldp_scan
    /\ published' = scans
    /\ curr_ldp_scan' = NoScan
    /\ UNCHANGED <<truth, scans, queue, initialized_, dt, first_guess, start, slow, begun, failures>>

MatcherNext == TakeScan \/ SkipScan \/ BeginScan \/ MatchFails \/ FinishScan

MatcherSpec == MatcherInit /\ [][MatcherNext]_matcherVars

-----------------------------------------------------------------------------
(* Properties *)

\* As long as no match was wrong, the published pose is the robot's motion
\* since the first scan: keyframes, the lidar's place on the robot, the order
\* of the transforms and matches that fail (lines 378-430) add no error.
PoseIsTrue == ~lost => odom.pose = InverseTf(start) ** odom.of.at \/ odom = NoOdom

\* A robot whose good scans come close enough to each other is never lost:
\* each guess lies at the scan matched last, and keyframes are renewed
\* before the overlap with them is gone (lines 376-386, 481-509).
TracksSlowRobot == slow => ~lost /\ failures = {}

\* What the parameters must be for that: a keyframe is renewed before the
\* lidar, one close step further, is out of its overlap.
KeyframesOverlap(places) ==
    \A d, e \in places :
        ~newKeyframeNeeded(d) /\ Close(e) => DistanceSq(SeenByLaser(d) ** e) <= OverlapSq

\* Velocity is motion over time, and both are since the same message, the one
\* published last, whatever keyframes were taken and matches failed since: the
\* motion from its scan to this one, the time from when it was published to when
\* the matching of this one began (lines 367, 425-430, 451-458, 494).
VelocityIsSinceLastMessage ==
    ~lost /\ odom.since # NoScan =>
        /\ odom.moved = Between(odom.since, odom.of)
        /\ odom.over = odom.to - odom.from

\* The reference and the scan that is matched are allocated, and beside
\* them only the scans whose match failed, which nobody frees (lines 425-430,
\* 481-493).
OnlyFailuresLeak ==
    heap = {s.id : s \in {prev_ldp_scan_, curr_ldp_scan} \ {NoScan}} \cup failures
=============================================================================

-------------------------------- MODULE Icp --------------------------------
(***************************************************************************)
(* sm_icp and icp_loop (icp.cpp, icp_loop.cpp): the scan of each call is    *)
(* matched with a reference that stays the same, and is changed by every    *)
(* call, until a scan takes its place.                                     *)
(*                                                                         *)
(* The robot turns on the spot: a pose is an angle, so of the restarts only *)
(* those that turn begin elsewhere (restart_dt is 0).  The closed-form     *)
(* solution of gpc_solve is external: it turns the pose a little, or fails. *)
(***************************************************************************)
EXTENDS Correspondences

CONSTANTS
  Scans,          \* the readings of a scan, a set of sequences
  ParamSets,      \* sets of options, see ParamType
  FirstGuesses,   \* predicted poses
  Turns,          \* how far an estimate is from the one before
  max_iterations,
  restart_threshold_mean_error, \* hundredths
  restart_dtheta_deg,
  MaxCalls        \* bound of the model: calls of sm_icp

ParamType == [use_corr_tricks : BOOLEAN, do_alpha_test : BOOLEAN, do_visibility_test : BOOLEAN,
              outliers_remove_doubles : BOOLEAN, use_point_to_line_distance : BOOLEAN, restart : BOOLEAN]

ASSUME IcpAssumption ==
    /\ ParamSets \subseteq ParamType /\ Scans \subseteq Seq(Nat) /\ 0 \in Turns
    /\ max_iterations \in Nat \ {0} /\ MaxCalls \in Nat \ {0}
    /\ FirstGuesses \cup Turns \cup {restart_dtheta_deg} \subseteq Int
    /\ \A a \in FirstGuesses \cup Turns \cup {restart_dtheta_deg} : a % 10 = 0

VARIABLES
  params,
  ref, sens,  \* laser_ref, laser_sens
  accepted,   \* history: a call took this reference
  calls,
  pc,         \* "idle", "find", "estimate" or "returned"
  x_old,      \* the pose the correspondences are found at
  iteration,
  hashes,     \* what matched what in earlier iterations: hashes do not collide
  corr,       \* the correspondences of sens
  restarts,   \* which restart this loop is: 0 for the first loop
  x_first,    \* where the first loop ended
  best,       \* best_x, best_error
  valid       \* res->valid
loop == <<x_old, iteration, hashes>>
results == <<restarts, x_first, best, valid>>
icpVars == <<params, ref, sens, accepted, calls, pc, loop, corr, results>>

NoReadings == laserScanToLDP(<<>>)

IcpInit == /\ params \in ParamSets /\ \E s \in Scans : ref = laserScanToLDP(s)
        /\ sens = NoReadings /\ accepted = FALSE /\ calls = 0 /\ pc = "idle"
        /\ x_old = 0 /\ iteration = 0 /\ corr = [i \in Rays(NoReadings) |-> NoCorr] /\ hashes = {}
        /\ restarts = 0 /\ x_first = 0 /\ best = [x |-> 0, error |-> 0] /\ valid = FALSE

\* ld_compute_world_coords
points_w(ld, x) == [i \in Rays(ld) |-> Point(ld.readings[i], NormalDeg(Theta(i) + x))]

Correspond(at) ==
    IF params.use_corr_tricks THEN find_correspondences_tricks(ref, sens, points_w(sens, at))
    ELSE find_correspondences(params, ref, sens, points_w(sens, at))

\* What sm_icp finds out of a scan before the loop.  (The jump tables are those
\* of the reference; of the other scan none are looked at.)
Prepared(ld) ==
    LET inside == ld_create_jump_tables(ld_invalid_if_outside(ld))
        oriented == IF params.do_alpha_test THEN ld_compute_orientation(ld_simple_clustering(inside)) ELSE inside
    IN  IF params.do_visibility_test THEN visibilityTest(oriented) ELSE oriented

BeginLoop(x) == /\ pc' = "find" /\ x_old' = x /\ iteration' = 0 /\ hashes' = {}

\* sm_icp with the next scan.
Call(s) ==
    /\ pc = "idle" /\ calls < MaxCalls
    /\ calls' = calls + 1
    /\ IF ld_valid_fields(ref) /\ ld_valid_fields(laserScanToLDP(s))
       THEN /\ \E guess \in FirstGuesses : BeginLoop(guess)
            /\ ref' = Prepared(ref) /\ sens' = Prepared(laserScanToLDP(s)) /\ accepted' = TRUE
            /\ restarts' = 0 /\ valid' = FALSE
            /\ UNCHANGED <<params, x_first, best>>
       ELSE /\ sens' = laserScanToLDP(s) /\ valid' = FALSE
            /\ UNCHANGED <<params, ref, accepted, pc, loop, restarts, x_first, best>>
    /\ corr' = [i \in Rays(sens') |-> NoCorr]

-----------------------------------------------------------------------------
(* icp_loop *)

TooFew(c) == 20 * Cardinality(ValidCorr(c)) < nrays(sens)

\* sm_icp returns a result.  After restarts the correspondences are found
\* again, and none of them is an outlier now.
Return(found, c) ==
    /\ pc' = "returned" /\ valid' = TRUE /\ best' = found
    /\ corr' = IF restarts > 0 THEN Correspond(found.x) ELSE c

\* The loop ends without a pose: so does sm_icp, or its restarts.
LoopFails(c) ==
    /\ IF restarts = 0 THEN pc' = "returned" /\ valid' = FALSE /\ corr' = c /\ UNCHANGED best
       ELSE Return(best, c)
    /\ UNCHANGED <<loop, restarts, x_first>>

Perturbation(a) == IF a = 5 THEN restart_dtheta_deg ELSE IF a = 6 THEN -restart_dtheta_deg ELSE 0

\* The loop ends at x, with this error for the correspondences c.
LoopEnds(x, error, c) ==
    LET first == restarts = 0
        found == IF first \/ error < best.error THEN [x |-> x, error |-> error] ELSE best
        from == IF first THEN x ELSE x_first
        more == IF first THEN params.restart /\ error > Cardinality(ValidCorr(c)) * restart_threshold_mean_error
                ELSE restarts < 6
    IN  IF more THEN /\ BeginLoop(from + Perturbation(restarts + 1)) /\ restarts' = restarts + 1
                     /\ x_first' = from /\ best' = found /\ corr' = c
                     /\ UNCHANGED valid
        ELSE Return(found, c) /\ UNCHANGED <<loop, restarts, x_first>>

\* ld_corr_hash
Hash(c) == [i \in DOMAIN c |-> IF c[i].valid THEN <<c[i].j1, c[i].j2>> ELSE <<>>]

\* find_correspondences, or the one with tricks.
Find ==
    /\ pc = "find"
    /\ \E found \in {Correspond(x_old)} :
           IF TooFew(found) THEN LoopFails(found)
           ELSE pc' = "estimate" /\ corr' = found /\ UNCHANGED <<loop, results>>
    /\ UNCHANGED <<params, ref, sens, accepted, calls>>

Once == IF params.outliers_remove_doubles THEN kill_outliers_double(corr) ELSE corr
Trimmed == kill_outliers_trim(Once)

\* Outliers go, the others give the next pose, if gpc_solve finds one.  The
\* loop ends when it has seen these correspondences, or does not turn any
\* more, or is out of iterations.
Estimate ==
    /\ pc = "estimate"
    /\ \E c \in {Trimmed} :
           \/ LoopFails(c)
           \/ /\ ~TooFew(c)
              /\ \E turn \in Turns :
                   IF \/ params.use_point_to_line_distance /\ Hash(c) \in hashes
                      \/ turn = 0
                      \/ iteration + 1 = max_iterations
                   THEN LoopEnds(x_old + turn, total_error(c), c)
                   ELSE /\ pc' = "find" /\ x_old' = x_old + turn /\ iteration' = iteration + 1
                        /\ hashes' = hashes \cup {Hash(c)} /\ corr' = c
                        /\ UNCHANGED results
    /\ UNCHANGED <<params, ref, sens, accepted, calls>>

\* After the call laser_scan_matcher takes this scan for the reference, if the
\* match was valid and the robot has turned enough, or keeps the old one.
ExchangeReference ==
    /\ pc = "returned" /\ pc' = "idle"
    /\ \/ valid /\ ref' = sens
       \/ UNCHANGED ref
    /\ UNCHANGED <<params, sens, accepted, calls, loop, corr, results>>

IcpNext == (\E s \in Scans : Call(s)) \/ Find \/ Estimate \/ ExchangeReference

IcpSpec == IcpInit /\ [][IcpNext]_icpVars

-----------------------------------------------------------------------------
(* Properties *)

\* Poses and correspondences as the code leaves them.
IcpTypeOK ==
    /\ params \in ParamSets /\ pc \in {"idle", "find", "estimate", "returned"}
    /\ calls \in 0 .. MaxCalls /\ iteration \in 0 .. max_iterations - 1 /\ restarts \in 0 .. 6
    /\ pc # "idle" => \A i \in ValidCorr(corr) : 
         corr[i].j1 \in ValidRays(ref) /\ corr[i].j2 \in ValidRays(ref) \ {corr[i].j1}


\* algos.h:34 of the tricks: "Only influences speed; not convergence."
\* icp_debug.cpp compares the two searches, too.
TricksFindNearest ==
    pc = "estimate" /\ params.use_corr_tricks =>
        LET naive == find_correspondences(params, ref, sens, points_w(sens, x_old))
        IN  \A i \in ValidCorr(corr) \cap ValidCorr(naive) : corr[i].dist2_j1 <= naive[i].dist2_j1

\* Trimming drops the worst: no point is dropped that is as near to its
\* segment as one that is kept, whatever order the hand-written quicksort
\* leaves the distances in (icp_outliers.cpp:78), and as long as the adaptive
\* multiple is at least one, the share both limits allow for stays.
TrimKeepsNearest ==
    pc = "estimate" =>
        LET all == ValidCorr(Once)
            kept == ValidCorr(Trimmed)
            share == Min({outliers_maxPerc, outliers_adaptive_order})
        IN  /\ \A i \in kept, k \in all \ kept : corr[i].dist < corr[k].dist
            /\ 100 * Cardinality(kept) >= share * Cardinality(all)

\* A reference that was good for one call is good for all that follow: what
\* sm_icp notes in it (clusters, rays out of range, normals) does not make
\* ld_valid_fields refuse it the next time.  Not with do_visibility_test, which
\* leaves a ray invalid but in a cluster.
ReferenceStaysUsable ==
    accepted /\ ~params.do_visibility_test => ld_valid_fields(ref)

\* do_alpha_test: "Discard correspondences based on the angles."
\* (laser_scan_matcher.cpp:135).
AlphaTestApplies ==
    pc = "estimate" => \A i \in ValidCorr(corr) : compatible(params, ref, sens, i, corr[i].j1)
=============================================================================

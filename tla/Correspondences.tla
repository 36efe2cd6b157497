-------------------------- MODULE Correspondences --------------------------
(***************************************************************************)
(* The algorithms of the csm library that laser_scan_matcher calls on every *)
(* scan: which point of the reference each point of a scan corresponds to  *)
(* (icp_corr_tricks.cpp, icp_corr_dumb.cpp), which of these are outliers   *)
(* (icp_outliers.cpp), clusters and neighbours (clustering.cpp,            *)
(* orientation.cpp), and the checks of a scan (laser_data.cpp).            *)
(*                                                                         *)
(* Rays are numbered from 0 as in the code, angles are degrees, multiples  *)
(* of ten, and readings natural numbers.  A point is its distance and its  *)
(* angle; squared distances come from the law of cosines and are in        *)
(* thousandths of the unit squared, those to a segment tenths of the unit.    *)
(***************************************************************************)
EXTENDS Integers, FiniteSets, FiniteSetsExt, SequencesExt

CONSTANTS
  MinTheta, RayStep, \* the angle of ray 0 and from one ray to the next
  MinRays,           \* ld_valid_fields: the fewest rays of a scan
  min_reading, max_reading, \* what the LaserScan messages call valid
  max_correspondence_dist,
  max_linear_correction, max_angular_correction_deg,
  outliers_maxPerc, outliers_adaptive_order, \* percent
  outliers_adaptive_mult,
  clustering_threshold, orientation_neighbourhood,
  do_alpha_test_thresholdDeg

ASSUME CorrespondencesAssumption ==
    /\ MinTheta \in -180 .. 0 /\ MinTheta % 10 = 0 /\ RayStep \in {10 * k : k \in 1 .. 9}
    /\ {MinRays, min_reading, max_reading, max_correspondence_dist, max_linear_correction,
        max_angular_correction_deg, clustering_threshold, orientation_neighbourhood,
        do_alpha_test_thresholdDeg} \subseteq Nat
    /\ {outliers_maxPerc, outliers_adaptive_order} \subseteq 0 .. 100
    /\ outliers_adaptive_mult \in Nat \ {0}

-----------------------------------------------------------------------------
(* Angles and points *)

CosTable == <<1000, 985, 940, 866, 766, 643, 500, 342, 174, 0>>

\* mysin, thousandths, from 0 to 90 degrees: a little less than the sine.
SinTable == <<0, 171, 338, 494, 635, 757, 855, 928, 972, 988>>

fabs(n) == IF n < 0 THEN -n ELSE n
NormalDeg(d) == ((d + 179) % 360) - 179 \* as atan2 gives it
angleDiff(a, b) == NormalDeg(a - b)

CosDeg(d) == LET a == fabs(NormalDeg(d)) \div 10
             IN  IF a <= 9 THEN CosTable[a + 1] ELSE -CosTable[19 - a]
SinDeg(d) == CosDeg(d - 90)

Point(rho, phi) == [rho |-> rho, phi |-> phi]
distance_squared_d(p, q) ==
    1000 * (p.rho * p.rho + q.rho * q.rho) - 2 * p.rho * q.rho * CosDeg(p.phi - q.phi)

\* A scan: what the rays read, which are valid, and what was found out.  `tabled`
\* are the rays that were valid when its jump tables were made.
Rays(ld) == DOMAIN ld.readings
nrays(ld) == Cardinality(Rays(ld))
Theta(j) == MinTheta + RayStep * j
max_theta(ld) == Theta(nrays(ld) - 1)
At(ld, j) == Point(ld.readings[j], Theta(j))
ld_valid_ray(ld, j) == j \in Rays(ld) /\ ld.valid[j]
ValidRays(ld) == {j \in Rays(ld) : ld.valid[j]}

\* laserScanToLDP: a reading of 0 stands for one outside of the limits.
laserScanToLDP(ranges) ==
    LET n == Len(ranges)
        inside(r) == min_reading < r /\ r < max_reading
    IN  [readings |-> [i \in 0 .. n - 1 |-> IF inside(ranges[i + 1]) THEN ranges[i + 1] ELSE -1],
         valid |-> [i \in 0 .. n - 1 |-> inside(ranges[i + 1])],
         tabled |-> [i \in 0 .. n - 1 |-> FALSE],
         cluster |-> [i \in 0 .. n - 1 |-> -1],
         alpha_valid |-> [i \in 0 .. n - 1 |-> FALSE]]

ld_valid_fields(ld) ==
    /\ nrays(ld) >= MinRays
    /\ LET fov == max_theta(ld) - MinTheta IN 20 <= fov /\ fov <= 361
    /\ \A j \in Rays(ld) : IF ld.valid[j] THEN 0 < ld.readings[j] /\ ld.readings[j] < 100
                                          ELSE ld.cluster[j] = -1
    /\ 10 * Cardinality(ValidRays(ld)) >= nrays(ld)

\* The rays' validity, with those in js taken out.
Without(ld, js) == [ld EXCEPT !.valid = [j \in Rays(ld) |-> ld.valid[j] /\ j \notin js]]

ld_invalid_if_outside(ld) ==
    Without(ld, {j \in Rays(ld) : ld.readings[j] <= min_reading \/ ld.readings[j] > max_reading})

\* Rays whose points are seen from u at an angle less than the ray before.
\* The scans of a robot that turns on the spot are all seen from where the
\* reference was: u is the origin.
visibilityTest(ld) ==
    LET from_u(j) == NormalDeg(Theta(j) + 180)
        \* The rays are taken one after the other.
        kept[j \in 0 .. nrays(ld) - 1] ==
          ld.valid[j] /\ (j = 0 \/ ~kept[j - 1] \/ ~(from_u(j) < from_u(j - 1)))
    IN  Without(ld, {j \in Rays(ld) : ld.valid[j] /\ ~kept[j]})

-----------------------------------------------------------------------------
(* Clusters and orientation *)

\* Mutant: an invalid ray is in the cluster of the ray before.
ClusterOfInvalid(ld) ==
    LET before(j) == {i \in ValidRays(ld) : i < j}
        begins(j) == before(j) # {} /\ fabs(ld.readings[Max(before(j))] - ld.readings[j]) > clustering_threshold
    IN  [ld EXCEPT !.cluster = [j \in Rays(ld) |-> Cardinality({i \in ValidRays(ld) : i <= j /\ begins(i)})]]

\* Readings of neighbouring valid rays that differ by more than the threshold
\* begin a new cluster.
ld_simple_clustering(ld) ==
    LET before(j) == {i \in ValidRays(ld) : i < j}
        begins(j) == before(j) # {} /\ fabs(ld.readings[Max(before(j))] - ld.readings[j]) > clustering_threshold
    IN  [ld EXCEPT !.cluster = [j \in Rays(ld) |->
            IF ld.valid[j] THEN Cardinality({i \in ValidRays(ld) : i <= j /\ begins(i)}) ELSE -1]]

\* The rays around ray i that follow one another in its cluster.
find_neighbours(ld, i) ==
    LET n == orientation_neighbourhood
        same(j) == ld_valid_ray(ld, j) /\ ld.cluster[j] = ld.cluster[i]
        up == {u \in i + 1 .. i + n : \A j \in i + 1 .. u : same(j)}
        down == {d \in i - n - 1 .. i - 1 : \A j \in d .. i - 1 : same(j)}
    IN  up \cup down

\* The direction of the surface there, by a regression: of its result only
\* that it turns with the slope of the readings.
Alpha(ld, i) ==
    LET ns == find_neighbours(ld, i)
        slope == ld.readings[Max(ns \cup {i})] - ld.readings[Min(ns \cup {i})]
    IN  NormalDeg(Theta(i) + 180 - 40 * (IF slope > 0 THEN 1 ELSE IF slope < 0 THEN -1 ELSE 0))

ld_compute_orientation(ld) ==
    [ld EXCEPT !.alpha_valid = [i \in Rays(ld) |->
        ld.valid[i] /\ ld.cluster[i] # -1 /\ find_neighbours(ld, i) # {}]]

-----------------------------------------------------------------------------
(* Finding correspondences *)

NoCorr == [valid |-> FALSE, j1 |-> -1, j2 |-> -1, dist2_j1 |-> 0, dist |-> 0]

\* C's conversion to int: towards zero.
Truncated(a, b) == IF a < 0 THEN -((-a) \div b) ELSE a \div b

Fov(ld) == max_theta(ld) - MinTheta

ld_next_valid(ld, j, beyond) == IF beyond = {} THEN -1
                                ELSE IF Min(beyond) > j THEN Min(beyond) ELSE Max(beyond)

\* The neighbour of j1 that is nearer, or -1.
SecondBest(ref, p, j1) ==
    LET up == ld_next_valid(ref, j1, {j \in ValidRays(ref) : j > j1})
        down == ld_next_valid(ref, j1, {j \in ValidRays(ref) : j < j1})
    IN  IF up = -1 THEN down ELSE IF down = -1 THEN up
        ELSE IF distance_squared_d(p, At(ref, up)) < distance_squared_d(p, At(ref, down)) THEN up ELSE down

Root(n) == Max({r \in 0 .. 100 : r * r <= n})

\* The distance from x to the segment from a to b, in tenths.
dist_to_segment(a, b, x) ==
    LET tenths(p) == <<(p.rho * CosDeg(p.phi)) \div 100, (p.rho * SinDeg(p.phi)) \div 100>>
        minus(u, v) == <<u[1] - v[1], u[2] - v[2]>>
        dot(u, v) == u[1] * v[1] + u[2] * v[2]
        ab == minus(tenths(b), tenths(a))
        ax == minus(tenths(x), tenths(a))
        bx == minus(tenths(x), tenths(b))
        cross == ab[1] * ax[2] - ab[2] * ax[1]
    IN  IF 0 < dot(ab, ax) /\ dot(ab, ax) < dot(ab, ab) THEN Root((cross * cross) \div dot(ab, ab))
        ELSE Root(Min({dot(ax, ax), dot(bx, bx)}))

\* The first and the last ray of the reference match nothing.  dist is what
\* trimming goes by.
Correspondence(ref, p, j1, dist2) ==
    LET j2 == SecondBest(ref, p, j1)
    IN  IF j1 \in {-1, 0, nrays(ref) - 1} \/ j2 = -1 THEN NoCorr
        ELSE [valid |-> TRUE, j1 |-> j1, j2 |-> j2, dist2_j1 |-> dist2,
              dist |-> dist_to_segment(At(ref, j1), At(ref, j2), p)]

\* The least angle whose tangent is opposite / adjacent, or more.
AtanDeg(opposite, adjacent) ==
    Min({a \in {10 * k : k \in 0 .. 9} : adjacent * SinDeg(a) >= opposite * CosDeg(a)})

minmax(from, to, x) == Max({Min({x, to}), from})

possible_interval(ref, p) ==
    LET n == nrays(ref)
        delta == max_angular_correction_deg + AtanDeg(max_linear_correction, p.rho)
        range == -((-delta * n) \div Fov(ref))
        \* An angle below the first ray's that is not beyond the last comes back.
        turned == IF p.phi < MinTheta THEN p.phi + 360 ELSE p.phi
        start == IF turned > max_theta(ref) THEN turned - 360 ELSE turned
        start_cell == Truncated((start - MinTheta) * n, Fov(ref))
    IN  minmax(0, n - 1, start_cell - range) .. minmax(0, n - 1, start_cell + range)

compatible(params, ref, sens, i, j) ==
    params.do_alpha_test /\ sens.alpha_valid[i] /\ ref.alpha_valid[j] =>
        fabs(angleDiff(Alpha(ref, j), Alpha(sens, i))) <= do_alpha_test_thresholdDeg + max_angular_correction_deg

\* The naive search, for ray i of the scan, which is at p.
Naive(params, ref, sens, i, p) ==
    LET dist(j) == distance_squared_d(p, At(ref, j))
        candidates == {j \in possible_interval(ref, p) \cap ValidRays(ref) :
                          /\ dist(j) <= 1000 * max_correspondence_dist * max_correspondence_dist
                          /\ compatible(params, ref, sens, i, j)}
        best == {j \in candidates : \A k \in candidates : dist(j) <= dist(k)}
    IN  IF best = {} THEN NoCorr ELSE Correspondence(ref, p, Min(best), dist(Min(best)))

\* The jump tables are made before the visibility test, and stay as they are.
ld_create_jump_tables(ld) == [ld EXCEPT !.tabled = ld.valid]

\* What they say: from i in direction dir to the first ray that was invalid, or
\* whose reading is bigger (or smaller), or beyond the scan.
Jump(ref, i, dir, bigger) ==
    LET stays(j) == /\ j \in Rays(ref) /\ ref.tabled[j]
                    /\ IF bigger THEN ref.readings[j] <= ref.readings[i] ELSE ref.readings[j] >= ref.readings[i]
        steps == {k \in 1 .. nrays(ref) + 1 : ~stays(i + dir * k)}
    IN  i + dir * Min(steps)


\* Nothing as far from the last ray in this direction as this can be nearer
\* than that, squared.
CannotImprove(p, delta_theta, best) ==
    LET sine == IF delta_theta > 90 THEN 1000 ELSE SinTable[delta_theta \div 10 + 1]
    IN  p.rho * p.rho * sine * sine > 1000 * best

\* One look at the next ray up (dir = 1) or down (-1).
Look(ref, p, start_cell, s, dir) ==
    LET now == IF dir = 1 THEN "up" ELSE "down"
        j == s.next[now]
        dist == distance_squared_d(p, At(ref, j))
        better == s.j1 = -1 \/ dist < s.best
        best == IF better THEN dist ELSE s.best
        away == (j - start_cell) * dir > 0
        delta_theta == (Theta(j) - p.phi) * dir
        found == [s EXCEPT !.j1 = IF better THEN j ELSE @, !.best = best, !.last[now] = dist]
    IN  IF j \notin Rays(ref) THEN [s EXCEPT !.stopped[now] = TRUE]
        ELSE IF ~ref.valid[j] THEN [s EXCEPT !.next[now] = j + dir]
        ELSE IF away /\ CannotImprove(p, delta_theta, best)
             THEN [found EXCEPT !.stopped[now] = TRUE]
        ELSE IF away THEN [found EXCEPT !.next[now] = Jump(ref, j, dir, ref.readings[j] < p.rho)]
        ELSE [found EXCEPT !.next[now] = j + dir]

\* The next look: to the side where the last one found the nearer ray.
LookAround(ref, p, start_cell, s) ==
    LET now_up == ~s.stopped.up /\ (s.stopped.down \/ s.last.up < s.last.down)
    IN  IF s.stopped.up /\ s.stopped.down THEN s
        ELSE Look(ref, p, start_cell, s, IF now_up THEN 1 ELSE -1)

\* The search outwards from where the last match was.  Every look goes on by a
\* ray at least, or stops a side: after two more than there are rays both have.
Outwards(ref, p, start_cell, start) ==
    LET n == nrays(ref) + 2
        s[k \in 0 .. n] == IF k = 0 THEN start ELSE LookAround(ref, p, start_cell, s[k - 1])
    IN  s[n]

Smart(ref, p, last_best) ==
    LET start_cell == Truncated((p.phi - MinTheta) * nrays(ref), Fov(ref))
        we_start_at == minmax(0, nrays(ref) - 1, IF last_best = -1 THEN start_cell ELSE last_best + 1)
        s == Outwards(ref, p, start_cell,
                [next |-> [up |-> we_start_at + 1, down |-> we_start_at],
                 last |-> [up |-> 0, down |-> -1], stopped |-> [up |-> FALSE, down |-> FALSE],
                 j1 |-> -1, best |-> 0])
    IN  IF s.j1 = -1 \/ s.best > 1000 * max_correspondence_dist * max_correspondence_dist THEN NoCorr
        ELSE Correspondence(ref, p, s.j1, s.best)

find_correspondences(params, ref, sens, points_w) ==
    [i \in Rays(sens) |-> IF sens.valid[i] THEN Naive(params, ref, sens, i, points_w[i]) ELSE NoCorr]

\* The match of ray i, from where the last ray that matched has left off.
MatchNext(ref, sens, points_w, s, i) ==
    LET c == IF sens.valid[i] THEN Smart(ref, points_w[i], s.last_best) ELSE NoCorr
    IN  [corr |-> [s.corr EXCEPT ![i] = c], last_best |-> IF c.valid THEN c.j1 ELSE s.last_best]

find_correspondences_tricks(ref, sens, points_w) ==
    LET n == nrays(sens)
        start == [corr |-> [i \in Rays(sens) |-> NoCorr], last_best |-> -1]
        s[k \in 0 .. n] == IF k = 0 THEN start ELSE MatchNext(ref, sens, points_w, s[k - 1], k - 1)
    IN  s[n].corr

-----------------------------------------------------------------------------
(* Outliers *)

ValidCorr(corr) == {i \in DOMAIN corr : corr[i].valid}

\* Of the points that correspond to the same one, those go that are three
\* times as far as the nearest.
kill_outliers_double(corr) ==
    LET dist2_j(j) == Min({corr[i].dist2_j1 : i \in {k \in ValidCorr(corr) : corr[k].j1 = j}})
    IN  [i \in DOMAIN corr |-> [corr[i] EXCEPT !.valid = @ /\ corr[i].dist2_j1 <= 9 * dist2_j(corr[i].j1)]]

Swapped(a, l, r) == [a EXCEPT ![l] = a[r], ![r] = a[l]]

\* quicksort's inner loop: what is not less than the pivot goes to the end.
Move(s, pivot) ==
    IF s.array[s.l] < pivot THEN [s EXCEPT !.l = @ + 1]
    ELSE [s EXCEPT !.array = Swapped(@, s.l, s.r - 1), !.r = @ - 1]

Partition(a, pivot, l, r) ==
    LET s[k \in 0 .. r - l] == IF k = 0 THEN [array |-> a, l |-> l, r |-> r] ELSE Move(s[k - 1], pivot)
    IN  s[r - l]

\* The two recursive calls of quicksort, if they are needed, are left to rest.
QuicksortStep(x, rest) ==
    LET a == x.array
        p == Partition(a, a[x.begin], x.begin + 1, x.end + 1)
        l == p.l - 1
        b == Swapped(p.array, x.begin, l)
        c == IF l > x.begin THEN rest[[array |-> b, begin |-> x.begin, end |-> l]] ELSE b
    IN  IF x.end <= x.begin THEN a
        ELSE IF x.end > p.r THEN rest[[array |-> c, begin |-> p.r, end |-> x.end]] ELSE c

\* quicksort from 0 to n - 1.  sort[m] has calls m deep: a call may sort the
\* segment it was given once more (when its first element is the greatest), but
\* not twice, so 2 n is deep enough.
quicksort(a, n) ==
    LET Segments == [array : [0 .. n - 1 -> Int], begin : 0 .. n - 1, end : 0 .. n - 1]
        sort[m \in 0 .. 2 * n] ==
            IF m = 0 THEN [x \in Segments |-> x.array] ELSE [x \in Segments |-> QuicksortStep(x, sort[m - 1])]
    IN  IF n = 0 THEN a ELSE sort[2 * n][[array |-> a, begin |-> 0, end |-> n - 1]]

\* Mutant: the percentile is counted from the other end.
PercentileFromEnd(array, n, percent) == array[n - 1 - minmax(0, n - 1, (n * percent) \div 100)]

\* The percentile of a sorted array with n elements.
Percentile(array, n, percent) == array[minmax(0, n - 1, (n * percent) \div 100)]

\* What the error may be: no more than a share of all have, nor than a multiple
\* of another percentile.  matched are the rays with a correspondence.
ErrorLimit(corr) ==
    LET n == Cardinality(DOMAIN corr)
        matched[i \in 0 .. n] == IF i = 0 THEN <<>>
                                 ELSE IF corr[i - 1].valid THEN Append(matched[i - 1], i - 1)
                                 ELSE matched[i - 1]
        k == Len(matched[n])
        dist2 == quicksort([h \in 0 .. k - 1 |-> corr[matched[n][h + 1]].dist], k)
        limit1 == Percentile(dist2, k, outliers_maxPerc)
        limit2 == outliers_adaptive_mult * Percentile(dist2, k, outliers_adaptive_order)
    IN  Min({limit1, limit2})

\* Drops the correspondences with more error than that.
kill_outliers_trim(corr) ==
    LET error_limit == ErrorLimit(corr)
    IN  [i \in DOMAIN corr |-> IF corr[i].valid /\ corr[i].dist > error_limit
                               THEN [corr[i] EXCEPT !.valid = FALSE, !.j1 = -1, !.j2 = -1] ELSE corr[i]]

total_error(corr) == MapThenSumSet(LAMBDA i : corr[i].dist, ValidCorr(corr))
=============================================================================

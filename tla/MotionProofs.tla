---------------------------- MODULE MotionProofs ----------------------------
(***************************************************************************)
(* Theorems about the robot's own motion: where it says it is (ScanMatcher),*)
(* how it finds that out of its scans (Icp), and what it is told to do     *)
(* (FollowStack).  The three specifications share no variable; each        *)
(* theorem is about one of them.                                           *)
(*                                                                         *)
(* The odometry: the pose and the velocity it publishes, for every place   *)
(* of the lidar on the robot, every motion and every threshold of the      *)
(* keyframes, and that a slow robot is never lost.                         *)
(*                                                                         *)
(* Following a person: for all timeouts and timer intervals, queue depths, *)
(* limits of the packets and positions of the person.  The two halves of   *)
(* FollowInv do not depend on each other: the clocks of the watchdog, and  *)
(* the commands on their way to the motors.                                *)
(*                                                                         *)
(* Matching two scans: for all scans, thresholds and options.  The         *)
(* algorithms of the csm library are recursive functions; for each there   *)
(* is the lemma that such a function exists, and one about what it is, by  *)
(* its least argument at which that would be wrong.                        *)
(***************************************************************************)
EXTENDS ScanMatcher, FollowStack, Icp, TLAPS, WellFoundedInduction, FiniteSetTheorems,
        FunctionTheorems

-----------------------------------------------------------------------------
(* Transforms are a group *)

Pose == [x : Int, y : Int, a : 0 .. 3]

\* What a turn by each number of quarters makes of a transform.
LEMMA Quarters ==
  ASSUME NEW p \in Pose, NEW q \in Pose
  PROVE  /\ p.a = 0 => p ** q = [x |-> p.x + q.x, y |-> p.y + q.y, a |-> q.a]
         /\ p.a = 1 => p ** q = [x |-> p.x - q.y, y |-> p.y + q.x,
                                 a |-> IF q.a = 3 THEN 0 ELSE q.a + 1]
         /\ p.a = 2 => p ** q = [x |-> p.x - q.x, y |-> p.y - q.y,
                                 a |-> IF q.a < 2 THEN q.a + 2 ELSE q.a - 2]
         /\ p.a = 3 => p ** q = [x |-> p.x + q.y, y |-> p.y - q.x,
                                 a |-> IF q.a = 0 THEN 3 ELSE q.a - 1]
         /\ p.a \in {0, 1, 2, 3}
         /\ p ** q \in Pose
<1>1. /\ p.x \in Int /\ p.y \in Int /\ q.x \in Int /\ q.y \in Int
      /\ p.a \in {0, 1, 2, 3} /\ q.a \in {0, 1, 2, 3}
  BY DEF Pose
<1>2. CASE p.a = 0
  <2>1. Cos[p.a + 1] = 1 /\ Sin[p.a + 1] = 0
    BY <1>2 DEF Cos, Sin
  <2>2. (p.a + q.a) % 4 = q.a
    BY <1>1, <1>2
  <2>3. p ** q = [x |-> p.x + q.x, y |-> p.y + q.y, a |-> q.a]
    BY <1>1, <2>1, <2>2 DEF **
  <2> QED BY <1>1, <1>2, <2>3 DEF Pose
<1>3. CASE p.a = 1
  <2>1. Cos[p.a + 1] = 0 /\ Sin[p.a + 1] = 1
    BY <1>3 DEF Cos, Sin
  <2>2. (p.a + q.a) % 4 = IF q.a = 3 THEN 0 ELSE q.a + 1
    BY <1>1, <1>3
  <2>3. p ** q = [x |-> p.x - q.y, y |-> p.y + q.x, a |-> IF q.a = 3 THEN 0 ELSE q.a + 1]
    BY <1>1, <2>1, <2>2 DEF **
  <2> QED BY <1>1, <1>3, <2>3 DEF Pose
<1>4. CASE p.a = 2
  <2>1. Cos[p.a + 1] = -1 /\ Sin[p.a + 1] = 0
    BY <1>4 DEF Cos, Sin
  <2>2. (p.a + q.a) % 4 = IF q.a < 2 THEN q.a + 2 ELSE q.a - 2
    BY <1>1, <1>4
  <2>3. p ** q = [x |-> p.x - q.x, y |-> p.y - q.y, a |-> IF q.a < 2 THEN q.a + 2 ELSE q.a - 2]
    BY <1>1, <2>1, <2>2 DEF **
  <2> QED BY <1>1, <1>4, <2>3 DEF Pose
<1>5. CASE p.a = 3
  <2>1. Cos[p.a + 1] = 0 /\ Sin[p.a + 1] = -1
    BY <1>5 DEF Cos, Sin
  <2>2. (p.a + q.a) % 4 = IF q.a = 0 THEN 3 ELSE q.a - 1
    BY <1>1, <1>5
  <2>3. p ** q = [x |-> p.x + q.y, y |-> p.y - q.x, a |-> IF q.a = 0 THEN 3 ELSE q.a - 1]
    BY <1>1, <2>1, <2>2 DEF **
  <2> QED BY <1>1, <1>5, <2>3 DEF Pose
<1> QED BY <1>1, <1>2, <1>3, <1>4, <1>5

\* Transforms with the same coordinates are the same.
LEMMA SamePose ==
  ASSUME NEW p \in Pose, NEW q \in Pose, p.x = q.x, p.y = q.y, p.a = q.a
  PROVE  p = q
BY DEF Pose

\* Quarters, by coordinate.
LEMMA Coordinates ==
  ASSUME NEW p \in Pose, NEW q \in Pose
  PROVE  /\ p.a = 0 => /\ (p ** q).x = p.x + q.x /\ (p ** q).y = p.y + q.y
                       /\ (p ** q).a = q.a
         /\ p.a = 1 => /\ (p ** q).x = p.x - q.y /\ (p ** q).y = p.y + q.x
                       /\ (p ** q).a = IF q.a = 3 THEN 0 ELSE q.a + 1
         /\ p.a = 2 => /\ (p ** q).x = p.x - q.x /\ (p ** q).y = p.y - q.y
                       /\ (p ** q).a = IF q.a < 2 THEN q.a + 2 ELSE q.a - 2
         /\ p.a = 3 => /\ (p ** q).x = p.x + q.y /\ (p ** q).y = p.y - q.x
                       /\ (p ** q).a = IF q.a = 0 THEN 3 ELSE q.a - 1
         /\ p ** q \in Pose
         /\ p.a \in {0, 1, 2, 3} /\ p.x \in Int /\ p.y \in Int
<1>1. p ** q \in Pose /\ p.a \in {0, 1, 2, 3} /\ p.x \in Int /\ p.y \in Int
  BY Quarters DEF Pose
<1> DEFINE r == p ** q
<1>2. p.a = 0 => r.x = p.x + q.x /\ r.y = p.y + q.y /\ r.a = q.a
  <2>1. p.a = 0 => r = [x |-> p.x + q.x, y |-> p.y + q.y, a |-> q.a]
    BY Quarters
  <2> HIDE DEF r
  <2> QED BY <2>1
<1>3. p.a = 1 => r.x = p.x - q.y /\ r.y = p.y + q.x /\ r.a = IF q.a = 3 THEN 0 ELSE q.a + 1
  <2>1. p.a = 1 => r = [x |-> p.x - q.y, y |-> p.y + q.x, a |-> IF q.a = 3 THEN 0 ELSE q.a + 1]
    BY Quarters
  <2> HIDE DEF r
  <2> QED BY <2>1
<1>4. p.a = 2 => r.x = p.x - q.x /\ r.y = p.y - q.y /\ r.a = IF q.a < 2 THEN q.a + 2 ELSE q.a - 2
  <2>1. p.a = 2 => r = [x |-> p.x - q.x, y |-> p.y - q.y,
                        a |-> IF q.a < 2 THEN q.a + 2 ELSE q.a - 2]
    BY Quarters
  <2> HIDE DEF r
  <2> QED BY <2>1
<1>5. p.a = 3 => r.x = p.x + q.y /\ r.y = p.y - q.x /\ r.a = IF q.a = 0 THEN 3 ELSE q.a - 1
  <2>1. p.a = 3 => r = [x |-> p.x + q.y, y |-> p.y - q.x, a |-> IF q.a = 0 THEN 3 ELSE q.a - 1]
    BY Quarters
  <2> HIDE DEF r
  <2> QED BY <2>1
<1> HIDE DEF r
<1> QED BY <1>1, <1>2, <1>3, <1>4, <1>5 DEF r

\* The composition of poses is associative.
LEMMA Associative ==
  ASSUME NEW p \in Pose, NEW q \in Pose, NEW r \in Pose
  PROVE  (p ** q) ** r = p ** (q ** r)
<1> DEFINE pq == p ** q
           qr == q ** r
<1>1. pq \in Pose /\ qr \in Pose
  BY Coordinates
<1>2. /\ p.x \in Int /\ p.y \in Int /\ q.x \in Int /\ q.y \in Int /\ r.x \in Int /\ r.y \in Int
      /\ p.a \in {0, 1, 2, 3} /\ q.a \in {0, 1, 2, 3} /\ r.a \in {0, 1, 2, 3}
  BY Coordinates
<1> HIDE DEF pq, qr
<1>3. /\ pq ** r \in Pose /\ p ** qr \in Pose
  BY <1>1, Coordinates
<1>4. (pq ** r).x = (p ** qr).x /\ (pq ** r).y = (p ** qr).y /\ (pq ** r).a = (p ** qr).a
  <2>1. /\ q.a = 0 => qr.x = q.x + r.x /\ qr.y = q.y + r.y /\ qr.a = r.a
        /\ q.a = 1 => qr.x = q.x - r.y /\ qr.y = q.y + r.x /\ qr.a = IF r.a = 3 THEN 0 ELSE r.a + 1
        /\ q.a = 2 => qr.x = q.x - r.x /\ qr.y = q.y - r.y /\ qr.a = IF r.a < 2 THEN r.a + 2 ELSE r.a - 2
        /\ q.a = 3 => qr.x = q.x + r.y /\ qr.y = q.y - r.x /\ qr.a = IF r.a = 0 THEN 3 ELSE r.a - 1
    BY Coordinates DEF qr
  <2>2. /\ pq.a = 0 => /\ (pq ** r).x = pq.x + r.x /\ (pq ** r).y = pq.y + r.y
                       /\ (pq ** r).a = r.a
        /\ pq.a = 1 => /\ (pq ** r).x = pq.x - r.y /\ (pq ** r).y = pq.y + r.x
                       /\ (pq ** r).a = IF r.a = 3 THEN 0 ELSE r.a + 1
        /\ pq.a = 2 => /\ (pq ** r).x = pq.x - r.x /\ (pq ** r).y = pq.y - r.y
                       /\ (pq ** r).a = IF r.a < 2 THEN r.a + 2 ELSE r.a - 2
        /\ pq.a = 3 => /\ (pq ** r).x = pq.x + r.y /\ (pq ** r).y = pq.y - r.x
                       /\ (pq ** r).a = IF r.a = 0 THEN 3 ELSE r.a - 1
    BY <1>1, Coordinates
  <2>3. CASE p.a = 0
    <3>1. pq.x = p.x + q.x /\ pq.y = p.y + q.y /\ pq.a = q.a
      BY <2>3, Coordinates DEF pq
    <3>2. (p ** qr).x = p.x + qr.x /\ (p ** qr).y = p.y + qr.y /\ (p ** qr).a = qr.a
      BY <1>1, <2>3, Coordinates
    <3> QED BY <1>2, <2>1, <2>2, <3>1, <3>2
  <2>4. CASE p.a = 1
    <3>1. pq.x = p.x - q.y /\ pq.y = p.y + q.x /\ pq.a = IF q.a = 3 THEN 0 ELSE q.a + 1
      BY <2>4, Coordinates DEF pq
    <3>2. /\ (p ** qr).x = p.x - qr.y /\ (p ** qr).y = p.y + qr.x
          /\ (p ** qr).a = IF qr.a = 3 THEN 0 ELSE qr.a + 1
      BY <1>1, <2>4, Coordinates
    <3> QED BY <1>2, <2>1, <2>2, <3>1, <3>2
  <2>5. CASE p.a = 2
    <3>1. pq.x = p.x - q.x /\ pq.y = p.y - q.y /\ pq.a = IF q.a < 2 THEN q.a + 2 ELSE q.a - 2
      BY <2>5, Coordinates DEF pq
    <3>2. /\ (p ** qr).x = p.x - qr.x /\ (p ** qr).y = p.y - qr.y
          /\ (p ** qr).a = IF qr.a < 2 THEN qr.a + 2 ELSE qr.a - 2
      BY <1>1, <2>5, Coordinates
    <3> QED BY <1>2, <2>1, <2>2, <3>1, <3>2
  <2>6. CASE p.a = 3
    <3>1. pq.x = p.x + q.y /\ pq.y = p.y - q.x /\ pq.a = IF q.a = 0 THEN 3 ELSE q.a - 1
      BY <2>6, Coordinates DEF pq
    <3>2. /\ (p ** qr).x = p.x + qr.y /\ (p ** qr).y = p.y - qr.x
          /\ (p ** qr).a = IF qr.a = 0 THEN 3 ELSE qr.a - 1
      BY <1>1, <2>6, Coordinates
    <3> QED BY <1>2, <2>1, <2>2, <3>1, <3>2
  <2> QED BY <1>2, <2>3, <2>4, <2>5, <2>6
<1> QED BY <1>3, <1>4, SamePose DEF pq, qr

\* The inverse of a pose, for each of the four headings.
LEMMA InverseQuarters ==
  ASSUME NEW p \in Pose
  PROVE  /\ p.a = 0 => InverseTf(p) = [x |-> -p.x, y |-> -p.y, a |-> 0]
         /\ p.a = 1 => InverseTf(p) = [x |-> -p.y, y |-> p.x, a |-> 3]
         /\ p.a = 2 => InverseTf(p) = [x |-> p.x, y |-> p.y, a |-> 2]
         /\ p.a = 3 => InverseTf(p) = [x |-> p.y, y |-> -p.x, a |-> 1]
         /\ InverseTf(p) \in Pose
<1>1. p.x \in Int /\ p.y \in Int /\ p.a \in {0, 1, 2, 3}
  BY DEF Pose
<1>2. CASE p.a = 0
  <2>1. Cos[p.a + 1] = 1 /\ Sin[p.a + 1] = 0 /\ (4 - p.a) % 4 = 0
    BY <1>2 DEF Cos, Sin
  <2> QED BY <1>1, <1>2, <2>1 DEF InverseTf, Pose
<1>3. CASE p.a = 1
  <2>1. Cos[p.a + 1] = 0 /\ Sin[p.a + 1] = 1 /\ (4 - p.a) % 4 = 3
    BY <1>3 DEF Cos, Sin
  <2> QED BY <1>1, <1>3, <2>1 DEF InverseTf, Pose
<1>4. CASE p.a = 2
  <2>1. Cos[p.a + 1] = -1 /\ Sin[p.a + 1] = 0 /\ (4 - p.a) % 4 = 2
    BY <1>4 DEF Cos, Sin
  <2> QED BY <1>1, <1>4, <2>1 DEF InverseTf, Pose
<1>5. CASE p.a = 3
  <2>1. Cos[p.a + 1] = 0 /\ Sin[p.a + 1] = -1 /\ (4 - p.a) % 4 = 1
    BY <1>5 DEF Cos, Sin
  <2> QED BY <1>1, <1>5, <2>1 DEF InverseTf, Pose
<1> QED BY <1>1, <1>2, <1>3, <1>4, <1>5

\* Origin moves nothing, and a transform and its inverse cancel out.
LEMMA Group ==
  /\ Origin \in Pose
  /\ \A p \in Pose : /\ InverseTf(p) \in Pose
                     /\ Origin ** p = p /\ p ** Origin = p
                     /\ InverseTf(p) ** p = Origin /\ p ** InverseTf(p) = Origin
  /\ \A p, q \in Pose : p ** q \in Pose
<1>1. Origin \in Pose /\ Origin.x = 0 /\ Origin.y = 0 /\ Origin.a = 0
  BY DEF Origin, Pose
<1>2. ASSUME NEW p \in Pose PROVE Origin ** p = p
  <2>1. Origin ** p \in Pose /\ p.x \in Int /\ p.y \in Int
    BY <1>1, Coordinates
  <2>2. /\ (Origin ** p).x = Origin.x + p.x /\ (Origin ** p).y = Origin.y + p.y
        /\ (Origin ** p).a = p.a
    BY <1>1, Coordinates
  <2>3. (Origin ** p).x = p.x /\ (Origin ** p).y = p.y
    BY <1>1, <2>1, <2>2
  <2> QED BY <2>1, <2>2, <2>3, SamePose
<1>3. ASSUME NEW p \in Pose PROVE p ** Origin = p
  <2> DEFINE r == p ** Origin
  <2>1. /\ r \in Pose /\ p.x \in Int /\ p.y \in Int /\ p.a \in {0, 1, 2, 3}
        /\ p.a = 0 => r.x = p.x + Origin.x /\ r.y = p.y + Origin.y /\ r.a = Origin.a
        /\ p.a = 1 => r.x = p.x - Origin.y /\ r.y = p.y + Origin.x
                        /\ r.a = IF Origin.a = 3 THEN 0 ELSE Origin.a + 1
        /\ p.a = 2 => r.x = p.x - Origin.x /\ r.y = p.y - Origin.y
                        /\ r.a = IF Origin.a < 2 THEN Origin.a + 2 ELSE Origin.a - 2
        /\ p.a = 3 => r.x = p.x + Origin.y /\ r.y = p.y - Origin.x
                        /\ r.a = IF Origin.a = 0 THEN 3 ELSE Origin.a - 1
    BY <1>1, Coordinates
  <2> HIDE DEF r
  <2>2. r.x = p.x /\ r.y = p.y /\ r.a = p.a
    BY <1>1, <2>1
  <2>3. r = p
    BY <2>1, <2>2, SamePose
  <2> QED BY <2>3 DEF r
<1>4. ASSUME NEW p \in Pose PROVE InverseTf(p) ** p = Origin /\ p ** InverseTf(p) = Origin
  <2> DEFINE i == InverseTf(p)
             l == i ** p
             r == p ** i
  <2>1. /\ p.x \in Int /\ p.y \in Int /\ p.a \in {0, 1, 2, 3} /\ i \in Pose
        /\ p.a = 0 => i.x = -p.x /\ i.y = -p.y /\ i.a = 0
        /\ p.a = 1 => i.x = -p.y /\ i.y = p.x /\ i.a = 3
        /\ p.a = 2 => i.x = p.x /\ i.y = p.y /\ i.a = 2
        /\ p.a = 3 => i.x = p.y /\ i.y = -p.x /\ i.a = 1
    <3>1. p.x \in Int /\ p.y \in Int /\ p.a \in {0, 1, 2, 3} /\ i \in Pose
      BY Coordinates, InverseQuarters
    <3> QED BY <3>1, InverseQuarters
  <2> HIDE DEF i
  <2>2. /\ l \in Pose
        /\ i.a = 0 => l.x = i.x + p.x /\ l.y = i.y + p.y /\ l.a = p.a
        /\ i.a = 1 => l.x = i.x - p.y /\ l.y = i.y + p.x /\ l.a = IF p.a = 3 THEN 0 ELSE p.a + 1
        /\ i.a = 2 => l.x = i.x - p.x /\ l.y = i.y - p.y /\ l.a = IF p.a < 2 THEN p.a + 2 ELSE p.a - 2
        /\ i.a = 3 => l.x = i.x + p.y /\ l.y = i.y - p.x /\ l.a = IF p.a = 0 THEN 3 ELSE p.a - 1
    BY <2>1, Coordinates
  <2>3. /\ r \in Pose
        /\ p.a = 0 => r.x = p.x + i.x /\ r.y = p.y + i.y /\ r.a = i.a
        /\ p.a = 1 => r.x = p.x - i.y /\ r.y = p.y + i.x /\ r.a = IF i.a = 3 THEN 0 ELSE i.a + 1
        /\ p.a = 2 => r.x = p.x - i.x /\ r.y = p.y - i.y /\ r.a = IF i.a < 2 THEN i.a + 2 ELSE i.a - 2
        /\ p.a = 3 => r.x = p.x + i.y /\ r.y = p.y - i.x /\ r.a = IF i.a = 0 THEN 3 ELSE i.a - 1
    BY <2>1, Coordinates
  <2> HIDE DEF l, r
  <2>4. l.x = 0 /\ l.y = 0 /\ l.a = 0
    BY <2>1, <2>2
  <2>5. r.x = 0 /\ r.y = 0 /\ r.a = 0
    BY <2>1, <2>3
  <2>6. l = Origin /\ r = Origin
    BY <1>1, <2>2, <2>3, <2>4, <2>5, SamePose
  <2> QED BY <2>6 DEF l, r, i
<1> QED BY <1>1, <1>2, <1>3, <1>4, Quarters, InverseQuarters

\* An inverse beside its transform drops out.
LEMMA Cancels ==
  ASSUME NEW p \in Pose, NEW q \in Pose
  PROVE  InverseTf(p) ** (p ** q) = q /\ p ** (InverseTf(p) ** q) = q
<1>1. InverseTf(p) \in Pose /\ InverseTf(p) ** p = Origin /\ p ** InverseTf(p) = Origin /\ Origin ** q = q
  BY Group
<1>2. InverseTf(p) ** (p ** q) = (InverseTf(p) ** p) ** q
  BY <1>1, Associative
<1>3. p ** (InverseTf(p) ** q) = (p ** InverseTf(p)) ** q
  BY <1>1, Associative
<1> QED BY <1>1, <1>2, <1>3

\* The inverse of a composition composes the inverses in reverse.
LEMMA InverseOfProduct ==
  ASSUME NEW p \in Pose, NEW q \in Pose
  PROVE  InverseTf(p ** q) = InverseTf(q) ** InverseTf(p)
<1>1. (p ** q) ** (InverseTf(q) ** InverseTf(p)) = Origin
  <2>1. (p ** q) ** (InverseTf(q) ** InverseTf(p)) = p ** (q ** (InverseTf(q) ** InverseTf(p)))
    BY Group, Associative
  <2> QED BY <2>1, Group, Cancels
<1>2. InverseTf(p ** q) ** ((p ** q) ** (InverseTf(q) ** InverseTf(p))) = InverseTf(q) ** InverseTf(p)
  BY Group, Cancels
<1> QED BY <1>1, <1>2, Group

\* The inverse of an inverse is the pose itself.
LEMMA InverseOfInverse ==
  ASSUME NEW p \in Pose
  PROVE  InverseTf(InverseTf(p)) = p
<1>1. InverseTf(p) \in Pose /\ InverseTf(InverseTf(p)) \in Pose /\ InverseTf(p) ** p = Origin
  BY Group
<1>2. InverseTf(InverseTf(p)) ** (InverseTf(p) ** p) = p
  BY <1>1, Cancels
<1> QED BY <1>1, <1>2, Group

\* Two motions from the same place, seen one from the end of the other; and two
\* motions one after the other.
LEMMA Relative ==
  ASSUME NEW s \in Pose, NEW p \in Pose, NEW q \in Pose
  PROVE  /\ InverseTf(InverseTf(s) ** p) ** (InverseTf(s) ** q) = InverseTf(p) ** q
         /\ (InverseTf(s) ** p) ** (InverseTf(p) ** q) = InverseTf(s) ** q
<1>1. InverseTf(s) \in Pose /\ InverseTf(p) \in Pose /\ InverseTf(s) ** q \in Pose /\ InverseTf(p) ** q \in Pose
  BY Group
<1>2. InverseTf(InverseTf(s) ** p) = InverseTf(p) ** s
  BY <1>1, InverseOfProduct, InverseOfInverse
<1>3. (InverseTf(p) ** s) ** (InverseTf(s) ** q) = InverseTf(p) ** (s ** (InverseTf(s) ** q))
  BY <1>1, Associative
<1>4. (InverseTf(s) ** p) ** (InverseTf(p) ** q) = InverseTf(s) ** (p ** (InverseTf(p) ** q))
  BY <1>1, Associative
<1> QED BY <1>2, <1>3, <1>4, Cancels

\* The mounting of the laser and the motions of the robot are poses.
LEMMA Mounting ==
  /\ base_to_laser \in Pose /\ laser_to_base \in Pose
  /\ Motions \subseteq Pose
BY ScanMatcherAssumption, Group DEF Pose, laser_to_base

\* What the lidar sees of a motion, carried back, is the motion; it sees none of
\* none, of two motions one after the other what it sees of each, and of their
\* difference the difference.
LEMMA SeenAndBack ==
  ASSUME NEW u \in Pose, NEW v \in Pose
  PROVE  /\ SeenByLaser(u) \in Pose
         /\ OfBase(SeenByLaser(u)) = u
         /\ SeenByLaser(Origin) = Origin
         /\ SeenByLaser(u) ** SeenByLaser(v) = SeenByLaser(u ** v)
         /\ InverseTf(SeenByLaser(u)) ** SeenByLaser(v) = SeenByLaser(InverseTf(u) ** v)
<1> DEFINE b == base_to_laser
           l == laser_to_base
<1>1. /\ b \in Pose /\ l \in Pose /\ l = InverseTf(b) /\ InverseTf(l) = b
  BY Mounting, InverseOfInverse DEF laser_to_base
<1>2. ASSUME NEW w \in Pose
      PROVE  SeenByLaser(w) = l ** (w ** b) /\ w ** b \in Pose /\ SeenByLaser(w) \in Pose
  <2>1. (l ** w) ** b = l ** (w ** b) /\ w ** b \in Pose /\ l ** (w ** b) \in Pose
    BY <1>1, Associative, Group
  <2> QED BY <2>1 DEF SeenByLaser
<1>3. OfBase(SeenByLaser(u)) = u
  <2>1. b ** (l ** (u ** b)) = u ** b
    BY <1>1, <1>2, Cancels
  <2>2. (u ** b) ** l = u ** (b ** l) /\ b ** l = Origin /\ u ** Origin = u
    BY <1>1, Associative, Group
  <2> QED BY <1>2, <2>1, <2>2 DEF OfBase
<1>4. SeenByLaser(Origin) = Origin
  <2>1. Origin \in Pose /\ Origin ** b = b /\ l ** b = Origin
    BY <1>1, Group
  <2> QED BY <1>2, <2>1
<1>5. ASSUME NEW w \in Pose
      PROVE  SeenByLaser(w) ** SeenByLaser(v) = SeenByLaser(w ** v)
  <2>1. /\ w ** b \in Pose /\ v ** b \in Pose /\ l ** (v ** b) \in Pose /\ w ** v \in Pose
        /\ w ** (v ** b) \in Pose
    BY <1>1, Group
  <2>2. (l ** (w ** b)) ** (l ** (v ** b)) = l ** ((w ** b) ** (l ** (v ** b)))
    BY <1>1, <2>1, Associative
  <2>3. (w ** b) ** (l ** (v ** b)) = w ** (b ** (l ** (v ** b)))
    BY <1>1, <2>1, Associative
  <2>4. b ** (l ** (v ** b)) = v ** b
    BY <1>1, <2>1, Cancels
  <2>5. w ** (v ** b) = (w ** v) ** b
    BY <1>1, Associative
  <2> QED BY <1>2, <2>1, <2>2, <2>3, <2>4, <2>5
<1>6. InverseTf(SeenByLaser(u)) = SeenByLaser(InverseTf(u))
  <2>1. InverseTf(u) \in Pose /\ l ** u \in Pose
    BY <1>1, Group
  <2>2. InverseTf((l ** u) ** b) = InverseTf(b) ** InverseTf(l ** u)
    BY <1>1, <2>1, InverseOfProduct
  <2>3. InverseTf(l ** u) = InverseTf(u) ** b
    BY <1>1, InverseOfProduct
  <2> QED BY <1>1, <1>2, <2>1, <2>2, <2>3 DEF SeenByLaser
<1>7. InverseTf(u) \in Pose
  BY Group
<1> QED BY <1>2, <1>3, <1>4, <1>5, <1>6, <1>7

\* The prediction is the motion since the keyframe, as the lidar sees it.
LEMMA PredictionIsMotion ==
  ASSUME f2b_ \in Pose, f2b_kf_ \in Pose
  PROVE  Prediction = SeenByLaser(InverseTf(f2b_kf_) ** f2b_)
<1> DEFINE f == f2b_
           k == InverseTf(f2b_kf_)
           l == laser_to_base
<1>1. f \in Pose /\ k \in Pose /\ l \in Pose /\ InverseTf(f) \in Pose /\ f ** k \in Pose
  BY Group, Mounting
<1>2. (l ** InverseTf(f)) ** (f ** k) = l ** (InverseTf(f) ** (f ** k))
  BY <1>1, Associative
<1>3. InverseTf(f) ** (f ** k) = k
  BY <1>1, Cancels
<1>4. (l ** k) ** f = l ** (k ** f)
  BY <1>1, Associative
<1> QED BY <1>2, <1>3, <1>4 DEF Prediction, SeenByLaser

-----------------------------------------------------------------------------
(* Types *)

Scan == [id : Nat, at : Pose, good : BOOLEAN, stamp : Nat]
Taken == {s \in Scan : s.stamp >= 1}

TypeInv ==
  /\ truth \in Pose /\ scans \in Nat /\ queue \in Seq(Taken)
  /\ initialized_ \in BOOLEAN /\ slow \in BOOLEAN /\ lost \in BOOLEAN
  /\ prev_ldp_scan_ \in Scan /\ curr_ldp_scan \in Scan /\ matched \in Scan
  /\ f2b_ \in Pose /\ f2b_kf_ \in Pose /\ prev_f2b_ \in Pose
  /\ last_icp_time_ \in Nat /\ dt \in Int
  /\ first_guess \in Pose /\ start \in Pose

\* laserScanToLDP keeps what the scan is, and gives it a number.
LEMMA Ldps ==
  ASSUME NEW scan \in Taken, NEW first \in BOOLEAN
  PROVE  /\ Ldp(scan, first) \in Scan /\ Ldp(scan, first) # NoScan
         /\ Ldp(scan, first).at = scan.at
         /\ Ldp(scan, first).good = scan.good
         /\ Ldp(scan, first).stamp = scan.stamp
<1>1. /\ scan \in Scan /\ scan.stamp \in Nat /\ scan.stamp >= 1
      /\ scan.at \in Pose /\ scan.good \in BOOLEAN
  BY DEF Taken, Scan
<1> DEFINE n == 2 * scan.stamp + IF first THEN 0 ELSE 1
<1>2. n \in Nat /\ n # 0
  BY <1>1
<1> HIDE DEF n
<1>3. Ldp(scan, first) = [scan EXCEPT !.id = n]
  BY DEF Ldp, n
<1>4. [scan EXCEPT !.id = n] = [id |-> n, at |-> scan.at, good |-> scan.good, stamp |-> scan.stamp]
  BY <1>1 DEF Scan
<1> QED BY <1>1, <1>2, <1>3, <1>4 DEF Scan, NoScan

\* A queue of scans without its first.
LEMMA Rest ==
  ASSUME NEW q \in Seq(Taken), q # <<>>
  PROVE  /\ Head(q) \in Taken /\ Head(q) = q[1] /\ Len(q) \in Nat /\ Len(q) >= 1
         /\ Tail(q) \in Seq(Taken) /\ Len(Tail(q)) = Len(q) - 1
         /\ \A i \in 1 .. Len(Tail(q)) : Tail(q)[i] = q[i + 1] /\ i + 1 \in 1 .. Len(q)
<1>1. Head(q) = q[1] /\ Len(q) \in Nat /\ Len(q) >= 1 /\ Head(q) \in Taken
  OBVIOUS
<1>2. Tail(q) \in Seq(Taken) /\ Len(Tail(q)) = Len(q) - 1
  OBVIOUS
<1>3. \A i \in 1 .. Len(Tail(q)) : Tail(q)[i] = q[i + 1] /\ i + 1 \in 1 .. Len(q)
  BY <1>1, <1>2
<1> QED BY <1>1, <1>2, <1>3

\* The scan that stands for none has the types of a scan.
LEMMA NoScanIsScan == NoScan \in Scan /\ NoScan.stamp = 0 /\ NoScan.at = Origin
BY Group DEF NoScan, Scan

\* What sm_icp finds between the two scans at hand.
LEMMA FoundPose ==
  ASSUME TypeInv
  PROVE  /\ Between(prev_ldp_scan_, curr_ldp_scan) \in Pose
         /\ Found \in Pose
         /\ OfBase(Found) = Between(prev_ldp_scan_, curr_ldp_scan)
         /\ OfBase(first_guess) \in Pose
         /\ prev_ldp_scan_.at \in Pose /\ curr_ldp_scan.at \in Pose
<1>1. prev_ldp_scan_.at \in Pose /\ curr_ldp_scan.at \in Pose /\ first_guess \in Pose
  BY DEF TypeInv, Scan
<1>2. Between(prev_ldp_scan_, curr_ldp_scan) \in Pose
  BY <1>1, Group DEF Between
<1>3. base_to_laser \in Pose /\ laser_to_base \in Pose
  BY Mounting
<1>4. OfBase(first_guess) \in Pose
  <2>1. base_to_laser ** first_guess \in Pose
    BY <1>1, <1>3, Group
  <2> QED BY <1>3, <2>1, Group DEF OfBase
<1> QED BY <1>1, <1>2, <1>4, SeenAndBack DEF Found

\* The types hold initially.
LEMMA TypeInit == MatcherInit => TypeInv
<1> SUFFICES ASSUME MatcherInit PROVE TypeInv
  OBVIOUS
<1>1. Origin \in Pose /\ NoScan \in Scan
  BY Group, NoScanIsScan
<1>2. queue \in Seq(Taken) /\ scans \in Nat /\ last_icp_time_ \in Nat /\ dt \in Int
  BY DEF MatcherInit
<1>3. initialized_ \in BOOLEAN /\ slow \in BOOLEAN /\ lost \in BOOLEAN
  BY DEF MatcherInit
<1>4. /\ truth \in Pose /\ f2b_ \in Pose /\ f2b_kf_ \in Pose /\ prev_f2b_ \in Pose
      /\ first_guess \in Pose /\ start \in Pose
      /\ prev_ldp_scan_ \in Scan /\ curr_ldp_scan \in Scan /\ matched \in Scan
  BY <1>1 DEF MatcherInit
<1> QED BY <1>2, <1>3, <1>4 DEF TypeInv

\* Every step keeps the types.
LEMMA TypeStep ==
  ASSUME TypeInv, [MatcherNext]_matcherVars
  PROVE  TypeInv'
<1>1. CASE TakeScan
  <2>1. PICK motion \in Motions, good \in BOOLEAN :
          /\ truth' = truth ** motion
          /\ queue' = Append(IF Len(queue) = Depth THEN Tail(queue) ELSE queue,
                             [id |-> 0, at |-> truth', good |-> good, stamp |-> scans'])
    BY <1>1 DEF TakeScan
  <2>2. motion \in Pose /\ truth \in Pose /\ truth' \in Pose
    BY <2>1, Mounting, Group DEF TypeInv
  <2>3. scans' \in Nat /\ scans' >= 1
    BY <1>1 DEF TakeScan, TypeInv
  <2>4. [id |-> 0, at |-> truth', good |-> good, stamp |-> scans'] \in Taken
    BY <2>2, <2>3 DEF Taken, Scan
  <2>5. queue \in Seq(Taken) /\ Depth \in Nat \ {0}
    BY ScanMatcherAssumption DEF TypeInv
  <2>6. (IF Len(queue) = Depth THEN Tail(queue) ELSE queue) \in Seq(Taken)
    BY <2>5
  <2>7. queue' \in Seq(Taken)
    BY <2>1, <2>4, <2>6
  <2> QED BY <1>1, <2>2, <2>3, <2>7 DEF TakeScan, TypeInv, poses, matching, history
<1>2. CASE SkipScan
  <2>1. queue' \in Seq(Taken)
    BY <1>2, Rest DEF SkipScan, TypeInv
  <2> QED BY <1>2, <2>1 DEF SkipScan, TypeInv, poses, matching, history
<1>3. CASE BeginScan
  <2> DEFINE scan == Head(queue)
  <2>1. scan \in Taken /\ queue' \in Seq(Taken)
    BY <1>3, Rest DEF BeginScan, TypeInv
  <2>2. scan.at \in Pose /\ scan.stamp \in Nat /\ scan.good \in BOOLEAN
    BY <2>1 DEF Taken, Scan
  <2>3. Ldp(scan, TRUE) \in Scan /\ Ldp(scan, FALSE) \in Scan
    BY <2>1, Ldps
  <2>4. Prediction \in Pose
    <3>1. f2b_ \in Pose /\ f2b_kf_ \in Pose /\ InverseTf(f2b_kf_) ** f2b_ \in Pose
      BY Group DEF TypeInv
    <3> QED BY <3>1, PredictionIsMotion, SeenAndBack
  <2>5. /\ prev_ldp_scan_' = (IF initialized_ THEN prev_ldp_scan_ ELSE Ldp(scan, TRUE))
        /\ last_icp_time_' = (IF initialized_ THEN last_icp_time_ ELSE scan.stamp)
        /\ curr_ldp_scan' = Ldp(scan, FALSE)
        /\ start' = (IF initialized_ THEN start ELSE scan.at)
        /\ initialized_' = TRUE /\ dt' = scans - last_icp_time_' /\ first_guess' = Prediction
        /\ slow' = (slow /\ scan.good /\ (initialized_ => Close(SeenByLaser(Between(matched, scan)))))
        /\ UNCHANGED <<truth, scans, poses, matched, lost>>
    BY <1>3 DEF BeginScan
  <2> HIDE DEF scan
  <2>6. slow' \in BOOLEAN
    BY <2>5
  <2>7. last_icp_time_' \in Nat /\ dt' \in Int
    BY <2>2, <2>5 DEF TypeInv
  <2>8. prev_ldp_scan_' \in Scan /\ curr_ldp_scan' \in Scan /\ start' \in Pose
    BY <2>2, <2>3, <2>5 DEF TypeInv
  <2> QED BY <2>1, <2>4, <2>5, <2>6, <2>7, <2>8 DEF TypeInv, poses
<1>4. CASE MatchFails
  BY <1>4, NoScanIsScan DEF MatchFails, TypeInv, poses
<1>5. CASE FinishScan
  <2>1. ASSUME NEW c \in Pose, Matches(c), OfBase(c) \in Pose
        PROVE  /\ f2b_' \in Pose /\ f2b_kf_' \in Pose /\ prev_f2b_' \in Pose
               /\ prev_ldp_scan_' \in Scan
    <3>1. f2b_' = f2b_kf_ ** OfBase(c) /\ PublishPose /\ SwapOldAndNew(OfBase(c))
      BY <2>1 DEF Matches
    <3>2. f2b_' \in Pose
      BY <2>1, <3>1, Group DEF TypeInv
    <3>3. prev_f2b_' \in Pose
      BY <3>1, <3>2 DEF PublishPose
    <3>4. \/ prev_ldp_scan_' = curr_ldp_scan /\ f2b_kf_' = f2b_'
          \/ prev_ldp_scan_' = prev_ldp_scan_ /\ f2b_kf_' = f2b_kf_
      BY <3>1 DEF SwapOldAndNew
    <3> QED BY <3>2, <3>3, <3>4 DEF TypeInv
  <2>2. /\ f2b_' \in Pose /\ f2b_kf_' \in Pose /\ prev_f2b_' \in Pose
        /\ prev_ldp_scan_' \in Scan
    <3>1. Matches(Found) \/ Matches(first_guess)
      BY <1>5 DEF FinishScan
    <3>2. Found \in Pose /\ OfBase(Found) \in Pose /\ first_guess \in Pose /\ OfBase(first_guess) \in Pose
      BY FoundPose DEF TypeInv
    <3> QED BY <2>1, <3>1, <3>2
  <2>3. lost' \in BOOLEAN
    BY <1>5 DEF FinishScan, TypeInv
  <2> QED BY <1>5, <2>2, <2>3, NoScanIsScan DEF FinishScan, TypeInv
<1>6. CASE UNCHANGED matcherVars
  BY <1>6 DEF matcherVars, poses, matching, history, TypeInv
<1> QED BY <1>1, <1>2, <1>3, <1>4, <1>5, <1>6 DEF MatcherNext

-----------------------------------------------------------------------------
(* The poses *)

\* Where the robot was when the odometry was brought up to date last.
LastAt == IF matched = NoScan THEN start ELSE matched.at

\* As long as no match was wrong, the odometry's poses are the robot's, seen from
\* its start: of the keyframe where the reference was taken, and of the robot
\* where the scan matched last was.
PoseInv ==
  /\ ~initialized_ =>
       /\ f2b_ = Origin /\ f2b_kf_ = Origin /\ prev_f2b_ = Origin
       /\ matched = NoScan /\ curr_ldp_scan = NoScan /\ odom = NoOdom /\ ~lost
  /\ initialized_ /\ ~lost =>
       /\ f2b_kf_ = InverseTf(start) ** prev_ldp_scan_.at
       /\ f2b_ = InverseTf(start) ** LastAt
       /\ prev_f2b_ = f2b_
  /\ PoseIsTrue
  /\ ~lost /\ odom.since # NoScan => odom.moved = Between(odom.since, odom.of)

\* The pose is the true one initially.
LEMMA PoseInit == MatcherInit => PoseInv
<1> SUFFICES ASSUME MatcherInit PROVE PoseInv
  OBVIOUS
<1> QED BY DEF MatcherInit, PoseInv, PoseIsTrue, NoOdom

\* A match that is true brings the odometry to where the scan was taken, and
\* publishes the motion since the scan matched before.
LEMMA TrueMatch ==
  ASSUME TypeInv, PoseInv, initialized_, ~lost, curr_ldp_scan # NoScan, Matches(Found)
  PROVE  /\ f2b_' = InverseTf(start) ** curr_ldp_scan.at
         /\ prev_f2b_' = f2b_'
         /\ odom'.of = curr_ldp_scan /\ odom'.since = matched
         /\ odom'.pose = f2b_'
         /\ odom'.moved = InverseTf(LastAt) ** curr_ldp_scan.at
         /\ \/ /\ newKeyframeNeeded(Between(prev_ldp_scan_, curr_ldp_scan))
               /\ prev_ldp_scan_' = curr_ldp_scan /\ f2b_kf_' = f2b_'
            \/ /\ ~newKeyframeNeeded(Between(prev_ldp_scan_, curr_ldp_scan))
               /\ prev_ldp_scan_' = prev_ldp_scan_ /\ f2b_kf_' = f2b_kf_
<1> DEFINE s == start
           k == prev_ldp_scan_.at
           m == LastAt
           c == curr_ldp_scan.at
<1>1. s \in Pose /\ k \in Pose /\ m \in Pose /\ c \in Pose
  BY DEF TypeInv, Scan, LastAt
<1>2. /\ f2b_kf_ = InverseTf(s) ** k
      /\ f2b_ = InverseTf(s) ** m
      /\ prev_f2b_ = f2b_
  BY DEF PoseInv
<1>3. OfBase(Found) = Between(prev_ldp_scan_, curr_ldp_scan) /\ OfBase(Found) = InverseTf(k) ** c
  BY FoundPose DEF Between
<1>4. f2b_' = f2b_kf_ ** OfBase(Found) /\ PublishPose /\ SwapOldAndNew(OfBase(Found))
  BY DEF Matches
<1>5. (InverseTf(s) ** k) ** (InverseTf(k) ** c) = InverseTf(s) ** c
  BY <1>1, Relative
<1>6. InverseTf(InverseTf(s) ** m) ** (InverseTf(s) ** c) = InverseTf(m) ** c
  BY <1>1, Relative
<1>7. f2b_' = InverseTf(s) ** c
  BY <1>2, <1>3, <1>4, <1>5
<1>8. /\ prev_f2b_' = f2b_'
      /\ odom' = [of |-> curr_ldp_scan, since |-> matched, pose |-> f2b_',
                  moved |-> InverseTf(prev_f2b_) ** f2b_', over |-> dt, from |-> published, to |-> begun]
  BY <1>4 DEF PublishPose
<1>9. InverseTf(prev_f2b_) ** f2b_' = InverseTf(m) ** c
  BY <1>2, <1>6, <1>7
<1>10. \/ /\ newKeyframeNeeded(OfBase(Found))
          /\ prev_ldp_scan_' = curr_ldp_scan /\ f2b_kf_' = f2b_'
       \/ /\ ~newKeyframeNeeded(OfBase(Found))
          /\ prev_ldp_scan_' = prev_ldp_scan_ /\ f2b_kf_' = f2b_kf_
  BY <1>4 DEF SwapOldAndNew
<1> HIDE DEF s, k, m, c
<1>11. /\ odom'.of = curr_ldp_scan /\ odom'.since = matched
       /\ odom'.pose = f2b_' /\ odom'.moved = InverseTf(m) ** c
  BY <1>8, <1>9
<1> QED BY <1>3, <1>7, <1>8, <1>10, <1>11 DEF s, m, c

\* The first scan is its own reference, and the robot's start.
LEMMA PoseBegins ==
  ASSUME TypeInv, PoseInv, BeginScan
  PROVE  PoseInv'
<1> DEFINE scan == Head(queue)
<1>1. scan \in Taken /\ scan.at \in Pose
  BY Rest DEF BeginScan, TypeInv, Taken, Scan
<1>2. /\ curr_ldp_scan = NoScan
      /\ prev_ldp_scan_' = (IF initialized_ THEN prev_ldp_scan_ ELSE Ldp(scan, TRUE))
      /\ curr_ldp_scan' = Ldp(scan, FALSE)
      /\ start' = (IF initialized_ THEN start ELSE scan.at)
      /\ initialized_'
      /\ UNCHANGED <<f2b_, f2b_kf_, prev_f2b_, odom, matched, lost>>
  BY DEF BeginScan, poses
<1>3. /\ Ldp(scan, TRUE).at = scan.at /\ Ldp(scan, FALSE).at = scan.at
      /\ Ldp(scan, FALSE) # NoScan
  BY <1>1, Ldps
<1> HIDE DEF scan
<1>4. CASE initialized_
  <2>1. LastAt' = LastAt
    BY <1>2, <1>4 DEF LastAt
  <2>2. /\ ~lost => /\ f2b_kf_ = InverseTf(start) ** prev_ldp_scan_.at
                    /\ f2b_ = InverseTf(start) ** LastAt
                    /\ prev_f2b_ = f2b_
        /\ PoseIsTrue
        /\ ~lost /\ odom.since # NoScan => odom.moved = Between(odom.since, odom.of)
    BY <1>2, <1>4 DEF PoseInv
  <2>3. start' = start /\ prev_ldp_scan_' = prev_ldp_scan_
    BY <1>2, <1>4
  <2>4. PoseIsTrue'
    BY <1>2, <2>2, <2>3 DEF PoseIsTrue
  <2>5. (~lost /\ odom.since # NoScan => odom.moved = Between(odom.since, odom.of))'
    BY <1>2, <2>2 DEF Between
  <2> QED BY <1>2, <2>1, <2>2, <2>3, <2>4, <2>5 DEF PoseInv
<1>5. CASE ~initialized_
  <2>1. /\ f2b_ = Origin /\ f2b_kf_ = Origin /\ prev_f2b_ = Origin
        /\ matched = NoScan /\ odom = NoOdom /\ ~lost
    BY <1>5 DEF PoseInv
  <2>2. start' = scan.at /\ prev_ldp_scan_'.at = scan.at /\ curr_ldp_scan'.at = scan.at
        /\ curr_ldp_scan' # NoScan /\ matched' = NoScan /\ LastAt' = scan.at
    BY <1>2, <1>3, <1>5, <2>1 DEF LastAt
  <2>3. InverseTf(scan.at) ** scan.at = Origin
    BY <1>1, Group
  <2>4. PoseIsTrue' /\ odom'.since = NoScan
    BY <1>2, <2>1 DEF PoseIsTrue, NoOdom
  <2> QED BY <1>2, <2>1, <2>2, <2>3, <2>4 DEF PoseInv
<1> QED BY <1>4, <1>5

\* The end of the matching of a scan keeps the pose invariant.
LEMMA PoseFinishes ==
  ASSUME TypeInv, PoseInv, FinishScan
  PROVE  PoseInv'
<1>1. /\ curr_ldp_scan # NoScan /\ matched' = curr_ldp_scan
      /\ initialized_' = initialized_ /\ start' = start
      /\ curr_ldp_scan' = NoScan
  BY DEF FinishScan
<1>2. initialized_
  BY <1>1 DEF PoseInv
<1>3. CASE lost'
  BY <1>1, <1>2, <1>3 DEF PoseInv, PoseIsTrue
<1>4. CASE ~lost'
  <2>1. ~lost /\ Matches(Found)
    BY <1>4 DEF FinishScan
  <2>2. /\ f2b_' = InverseTf(start) ** curr_ldp_scan.at
        /\ prev_f2b_' = f2b_'
        /\ odom'.of = curr_ldp_scan /\ odom'.since = matched
        /\ odom'.pose = f2b_'
        /\ odom'.moved = InverseTf(LastAt) ** curr_ldp_scan.at
        /\ \/ prev_ldp_scan_' = curr_ldp_scan /\ f2b_kf_' = f2b_'
           \/ prev_ldp_scan_' = prev_ldp_scan_ /\ f2b_kf_' = f2b_kf_
    BY <1>1, <1>2, <2>1, TrueMatch
  <2>3. LastAt' = curr_ldp_scan.at
    BY <1>1 DEF LastAt
  <2>4. f2b_kf_' = InverseTf(start') ** prev_ldp_scan_'.at
    BY <1>1, <1>2, <2>1, <2>2 DEF PoseInv
  <2>5. PoseIsTrue'
    BY <1>1, <2>2 DEF PoseIsTrue
  <2>6. odom'.since # NoScan => odom'.moved = Between(odom'.since, odom'.of)
    BY <2>2 DEF LastAt, Between
  <2>7. f2b_' = InverseTf(start') ** LastAt'
    BY <1>1, <2>2, <2>3
  <2>8. (~lost /\ odom.since # NoScan => odom.moved = Between(odom.since, odom.of))'
    BY <2>6 DEF Between
  <2> QED BY <1>1, <1>2, <2>2, <2>4, <2>5, <2>7, <2>8 DEF PoseInv
<1> QED BY <1>3, <1>4

\* Every step keeps the pose invariant.
LEMMA PoseStep ==
  ASSUME TypeInv, PoseInv, [MatcherNext]_matcherVars
  PROVE  PoseInv'
<1>1. CASE \/ TakeScan \/ SkipScan \/ UNCHANGED matcherVars
  <2>1. UNCHANGED <<initialized_, prev_ldp_scan_, f2b_, f2b_kf_, prev_f2b_, curr_ldp_scan, odom,
                    start, matched, lost>>
    BY <1>1 DEF TakeScan, SkipScan, matcherVars, poses, matching, history
  <2>2. LastAt' = LastAt /\ PoseIsTrue' = PoseIsTrue
    BY <2>1 DEF LastAt, PoseIsTrue
  <2> QED BY <2>1, <2>2 DEF PoseInv, Between
<1>2. CASE MatchFails
  <2>1. /\ curr_ldp_scan' = NoScan
        /\ UNCHANGED <<initialized_, prev_ldp_scan_, f2b_, f2b_kf_, prev_f2b_, odom, start, matched, lost>>
    BY <1>2 DEF MatchFails, poses
  <2>2. LastAt' = LastAt /\ PoseIsTrue' = PoseIsTrue
    BY <2>1 DEF LastAt, PoseIsTrue
  <2> QED BY <2>1, <2>2 DEF PoseInv, Between
<1> QED BY <1>1, <1>2, PoseBegins, PoseFinishes DEF MatcherNext

\* The time runs from the last message to the beginning of the match, and was
\* so when that message was published.
TimeInv ==
  /\ matched # NoScan => last_icp_time_ = published
  /\ curr_ldp_scan # NoScan => dt = begun - last_icp_time_
  /\ odom.since # NoScan => odom.over = odom.to - odom.from

\* No message was published initially.
LEMMA TimeInit == MatcherInit => TimeInv
BY DEF MatcherInit, TimeInv, NoOdom

\* Every step keeps the time invariant.
LEMMA TimeStep ==
  ASSUME PoseInv, TimeInv, [MatcherNext]_matcherVars
  PROVE  TimeInv'
<1>1. CASE \/ TakeScan \/ SkipScan \/ UNCHANGED matcherVars
  <2>1. UNCHANGED <<curr_ldp_scan, matched, last_icp_time_, dt, begun, published, odom>>
    BY <1>1 DEF TakeScan, SkipScan, matcherVars, poses, matching, history
  <2> QED BY <2>1 DEF TimeInv
<1>2. CASE BeginScan
  <2>1. /\ initialized_ => last_icp_time_' = last_icp_time_
        /\ dt' = scans - last_icp_time_' /\ begun' = scans
        /\ UNCHANGED <<matched, published, odom>>
    BY <1>2 DEF BeginScan
  <2>2. ~initialized_ => matched = NoScan
    BY DEF PoseInv
  <2> QED BY <2>1, <2>2 DEF TimeInv
<1>3. CASE MatchFails
  <2>1. /\ curr_ldp_scan' = NoScan
        /\ UNCHANGED <<matched, last_icp_time_, published, odom>>
    BY <1>3 DEF MatchFails
  <2> QED BY <2>1 DEF TimeInv
<1>4. CASE FinishScan
  <2>1. /\ curr_ldp_scan # NoScan /\ curr_ldp_scan' = NoScan
        /\ last_icp_time_' = scans /\ published' = scans /\ PublishPose
    BY <1>4 DEF FinishScan, Matches
  <2>2. odom'.since = matched /\ odom'.over = dt /\ odom'.from = published /\ odom'.to = begun
    BY <2>1 DEF PublishPose
  <2> QED BY <2>1, <2>2 DEF TimeInv
<1> QED BY <1>1, <1>2, <1>3, <1>4 DEF MatcherNext

\* As long as the robot is slow the reference is a good scan the robot is near
\* to, and the scan that is matched is good, and near to the guess.
TrackInv ==
  /\ slow => ~lost /\ failures = {}
  /\ slow /\ initialized_ =>
       /\ matched = NoScan => curr_ldp_scan # NoScan
       /\ prev_ldp_scan_.good
       /\ ~newKeyframeNeeded(InverseTf(prev_ldp_scan_.at) ** LastAt)
       /\ curr_ldp_scan # NoScan =>
            /\ curr_ldp_scan.good
            /\ first_guess = SeenByLaser(InverseTf(prev_ldp_scan_.at) ** LastAt)
            /\ Close(SeenByLaser(InverseTf(LastAt) ** curr_ldp_scan.at))

\* A robot that has not moved needs no new keyframe.
LEMMA NoKeyframeAtOnce == Close(Origin) /\ ~newKeyframeNeeded(Origin)
<1>1. DistanceSq(Origin) = 0 /\ Yaw(Origin) = 0
  BY DEF Origin, DistanceSq, Yaw
<1>2. kf_dist_linear_sq \in Nat /\ kf_dist_angular \in Nat /\ ReachSq \in Nat
  BY ScanMatcherAssumption
<1> QED BY <1>1, <1>2 DEF Close, newKeyframeNeeded

\* The robot is tracked initially.
LEMMA TrackInit == MatcherInit => TrackInv
BY DEF MatcherInit, TrackInv

\* A slow robot's scan is in reach of the match.
LEMMA SlowInReach ==
  ASSUME KeyframesOverlap(Pose), TypeInv, PoseInv, TrackInv, slow, curr_ldp_scan # NoScan
  PROVE  InReach /\ initialized_
<1> DEFINE k == prev_ldp_scan_.at
           m == LastAt
           c == curr_ldp_scan.at
           d == InverseTf(k) ** m
           w == InverseTf(m) ** c
<1>1. k \in Pose /\ m \in Pose /\ c \in Pose
  BY DEF TypeInv, Scan, LastAt
<1>2. initialized_
  BY DEF PoseInv
<1>3. /\ prev_ldp_scan_.good /\ curr_ldp_scan.good
      /\ ~newKeyframeNeeded(d)
      /\ first_guess = SeenByLaser(d)
      /\ Close(SeenByLaser(w))
  BY <1>2 DEF TrackInv
<1>4. Found = SeenByLaser(InverseTf(k) ** c)
  BY DEF Found, Between
<1>5. /\ InverseTf(d) ** (InverseTf(k) ** c) = w
      /\ d ** w = InverseTf(k) ** c
  BY <1>1, Relative
<1>6. d \in Pose /\ w \in Pose /\ InverseTf(k) ** c \in Pose
  BY <1>1, Group
<1> HIDE DEF d, w, k, c, m
<1>7. Close(InverseTf(first_guess) ** Found)
  <2>1. InverseTf(SeenByLaser(d)) ** SeenByLaser(InverseTf(k) ** c)
          = SeenByLaser(InverseTf(d) ** (InverseTf(k) ** c))
    BY <1>6, SeenAndBack
  <2> QED BY <1>3, <1>4, <1>5, <2>1
<1>8. DistanceSq(Found) <= OverlapSq
  <2>1. SeenByLaser(d) ** SeenByLaser(w) = SeenByLaser(d ** w)
    BY <1>6, SeenAndBack
  <2>2. SeenByLaser(w) \in Pose
    BY <1>6, SeenAndBack
  <2>3. DistanceSq(SeenByLaser(d) ** SeenByLaser(w)) <= OverlapSq
    BY <1>3, <1>6, <2>2 DEF KeyframesOverlap
  <2> QED BY <1>4, <1>5, <2>1, <2>3
<1> QED BY <1>2, <1>3, <1>7, <1>8 DEF InReach

\* The first guess lies at the scan matched last.
LEMMA TrackBegins ==
  ASSUME TypeInv, PoseInv, TrackInv, BeginScan
  PROVE  TrackInv'
<1> DEFINE scan == Head(queue)
<1>1. scan \in Taken /\ scan.at \in Pose
  BY Rest DEF BeginScan, TypeInv, Taken, Scan
<1>2. /\ curr_ldp_scan = NoScan
      /\ prev_ldp_scan_' = (IF initialized_ THEN prev_ldp_scan_ ELSE Ldp(scan, TRUE))
      /\ curr_ldp_scan' = Ldp(scan, FALSE)
      /\ start' = (IF initialized_ THEN start ELSE scan.at)
      /\ initialized_' /\ first_guess' = Prediction
      /\ slow' = (slow /\ scan.good /\ (initialized_ => Close(SeenByLaser(Between(matched, scan)))))
      /\ matched' = matched /\ lost' = lost /\ failures' = failures
  BY DEF BeginScan
<1>3. /\ Ldp(scan, TRUE).at = scan.at /\ Ldp(scan, TRUE).good = scan.good
      /\ Ldp(scan, FALSE).at = scan.at /\ Ldp(scan, FALSE).good = scan.good
  BY <1>1, Ldps
<1>4. Prediction = SeenByLaser(InverseTf(f2b_kf_) ** f2b_)
  BY PredictionIsMotion DEF TypeInv
<1> HIDE DEF scan
<1>5. CASE ~slow'
  BY <1>5 DEF TrackInv
<1>6. CASE slow'
  <2>1. slow /\ ~lost /\ failures = {} /\ scan.good
    BY <1>2, <1>6 DEF TrackInv
  <2>2. CASE initialized_
    <3>1. matched # NoScan /\ LastAt = matched.at /\ LastAt' = LastAt
      BY <1>2, <2>1, <2>2 DEF TrackInv, LastAt
    <3>2. /\ f2b_kf_ = InverseTf(start) ** prev_ldp_scan_.at
          /\ f2b_ = InverseTf(start) ** LastAt
      BY <2>1, <2>2 DEF PoseInv
    <3>3. start \in Pose /\ prev_ldp_scan_.at \in Pose /\ LastAt \in Pose
      BY DEF TypeInv, Scan, LastAt
    <3>4. InverseTf(f2b_kf_) ** f2b_ = InverseTf(prev_ldp_scan_.at) ** LastAt
      BY <3>2, <3>3, Relative
    <3>5. Close(SeenByLaser(InverseTf(LastAt) ** scan.at))
      BY <1>2, <1>6, <2>2, <3>1 DEF Between
    <3>6. prev_ldp_scan_.good /\ ~newKeyframeNeeded(InverseTf(prev_ldp_scan_.at) ** LastAt)
      BY <2>1, <2>2 DEF TrackInv
    <3>7. curr_ldp_scan' # NoScan
      BY <1>1, <1>2, Ldps
    <3> QED BY <1>2, <1>3, <1>4, <2>1, <2>2, <3>1, <3>4, <3>5, <3>6, <3>7 DEF TrackInv
  <2>3. CASE ~initialized_
    <3>1. /\ f2b_ = Origin /\ f2b_kf_ = Origin /\ matched = NoScan
      BY <2>3 DEF PoseInv
    <3>2. LastAt' = scan.at /\ prev_ldp_scan_'.at = scan.at /\ prev_ldp_scan_'.good
      BY <1>2, <1>3, <2>1, <2>3, <3>1 DEF LastAt
    <3>3. curr_ldp_scan'.at = scan.at /\ curr_ldp_scan'.good
      BY <1>2, <1>3, <2>1
    <3>4. InverseTf(scan.at) ** scan.at = Origin /\ InverseTf(Origin) ** Origin = Origin
      BY <1>1, Group
    <3>5. Close(SeenByLaser(Origin)) /\ ~newKeyframeNeeded(Origin)
      BY Group, SeenAndBack, NoKeyframeAtOnce
    <3>6. first_guess' = SeenByLaser(Origin)
      BY <1>2, <1>4, <3>1, <3>4
    <3>7. curr_ldp_scan' # NoScan
      BY <1>1, <1>2, Ldps
    <3> QED BY <1>2, <2>1, <3>2, <3>3, <3>4, <3>5, <3>6, <3>7 DEF TrackInv
  <2> QED BY <2>2, <2>3
<1> QED BY <1>5, <1>6

\* Every step keeps a slow robot tracked, if scans overlap as far as a keyframe lasts.
LEMMA TrackStep ==
  ASSUME KeyframesOverlap(Pose), TypeInv, PoseInv, TrackInv, [MatcherNext]_matcherVars
  PROVE  TrackInv'
<1>1. CASE \/ TakeScan \/ SkipScan \/ UNCHANGED matcherVars
  <2>1. UNCHANGED <<initialized_, prev_ldp_scan_, curr_ldp_scan, first_guess, start, matched, slow, lost,
                    failures>>
    BY <1>1 DEF TakeScan, SkipScan, matcherVars, poses, matching, history
  <2>2. LastAt' = LastAt
    BY <2>1 DEF LastAt
  <2> QED BY <2>1, <2>2 DEF TrackInv
<1>2. CASE MatchFails
  <2>1. ~slow /\ slow' = slow
    BY <1>2, SlowInReach DEF MatchFails
  <2> QED BY <2>1 DEF TrackInv
<1>3. CASE FinishScan
  <2>1. /\ curr_ldp_scan # NoScan /\ curr_ldp_scan' = NoScan /\ matched' = curr_ldp_scan
        /\ UNCHANGED <<initialized_, start, slow, failures>>
    BY <1>3 DEF FinishScan
  <2>2. CASE ~slow
    BY <2>1, <2>2 DEF TrackInv
  <2>3. CASE slow
    <3>1. InReach /\ initialized_
      BY <2>1, <2>3, SlowInReach
    <3>2. Matches(Found) /\ lost' = lost /\ ~lost /\ failures = {}
      BY <1>3, <2>3, <3>1 DEF FinishScan, TrackInv
    <3>3. LastAt' = curr_ldp_scan.at
      BY <2>1 DEF LastAt
    <3>4. prev_ldp_scan_.good /\ curr_ldp_scan.good
      BY <3>1 DEF InReach
    <3>5. \/ prev_ldp_scan_' = curr_ldp_scan
          \/ /\ ~newKeyframeNeeded(InverseTf(prev_ldp_scan_.at) ** curr_ldp_scan.at)
             /\ prev_ldp_scan_' = prev_ldp_scan_
      BY <2>1, <3>1, <3>2, TrueMatch DEF Between
    <3>6. InverseTf(curr_ldp_scan.at) ** curr_ldp_scan.at = Origin
      BY FoundPose, Group
    <3>7. ~newKeyframeNeeded(InverseTf(prev_ldp_scan_'.at) ** LastAt') /\ prev_ldp_scan_'.good
      BY <3>3, <3>4, <3>5, <3>6, NoKeyframeAtOnce
    <3> QED BY <2>1, <3>2, <3>7 DEF TrackInv
  <2> QED BY <2>2, <2>3
<1> QED BY <1>1, <1>2, <1>3, TrackBegins DEF MatcherNext

-----------------------------------------------------------------------------
(* Theorems *)

OdometryInv == TypeInv /\ PoseInv /\ TimeInv

\* The invariant about odometry is inductive.
LEMMA OdometryInductive ==
  /\ MatcherInit => OdometryInv
  /\ OdometryInv /\ [MatcherNext]_matcherVars => OdometryInv'
<1>1. MatcherInit => OdometryInv
  BY TypeInit, PoseInit, TimeInit DEF OdometryInv
<1>2. ASSUME OdometryInv, [MatcherNext]_matcherVars PROVE OdometryInv'
  <2>1. TypeInv /\ PoseInv /\ TimeInv
    BY <1>2 DEF OdometryInv
  <2>2. TypeInv' /\ PoseInv'
    BY <1>2, <2>1, TypeStep, PoseStep
  <2>3. TimeInv'
    BY <1>2, <2>1, TimeStep
  <2> QED BY <2>2, <2>3 DEF OdometryInv
<1> QED BY <1>1, <1>2

\* The odometry's poses are the robot's, and its times those of its messages: for
\* every place of the lidar, every motion, and every threshold, reach and overlap.
THEOREM OdometryCorrect == MatcherSpec => []OdometryInv
BY OdometryInductive, PTL DEF MatcherSpec

\* The pose that is published is the robot's motion since the first scan, as long
\* as no match was wrong, however many failed (laser_scan_matcher.cpp:378-430).
THEOREM PublishedPoseIsTrue == MatcherSpec => []PoseIsTrue
<1>1. OdometryInv => PoseIsTrue
  BY DEF OdometryInv, PoseInv
<1> QED BY <1>1, OdometryCorrect, PTL

\* The velocity that is published is the motion since the last message over the
\* time since then, whatever keyframes were taken and matches failed in between
\* (laser_scan_matcher.cpp:367, 425-430, 451-458, 494).
THEOREM VelocityOfLastMotion == MatcherSpec => []VelocityIsSinceLastMessage
<1>1. OdometryInv => VelocityIsSinceLastMessage
  BY DEF OdometryInv, PoseInv, TimeInv, VelocityIsSinceLastMessage
<1> QED BY <1>1, OdometryCorrect, PTL

\* A robot whose good scans come close enough to each other is never lost, if the
\* keyframes are renewed before their overlap is gone (laser_scan_matcher.cpp:376-386,
\* 481-509).
THEOREM SlowRobotIsTracked ==
  ASSUME KeyframesOverlap(Pose)
  PROVE  MatcherSpec => []TracksSlowRobot
<1>1. MatcherInit => OdometryInv /\ TrackInv
  BY OdometryInductive, TrackInit
<1>2. OdometryInv /\ TrackInv /\ [MatcherNext]_matcherVars => (OdometryInv /\ TrackInv)'
  BY OdometryInductive, TrackStep DEF OdometryInv
<1>3. TrackInv => TracksSlowRobot
  BY DEF TrackInv, TracksSlowRobot
<1> QED BY <1>1, <1>2, <1>3, PTL DEF MatcherSpec

USE RelayAssumption

-----------------------------------------------------------------------------
(* The watchdog *)

\* The clocks and flags of the relay (velocity_relay.py), without its packets.
ClockInv ==
  /\ relayUp \in BOOLEAN /\ sentVelCmd \in BOOLEAN
  /\ sinceSent \in 0 .. Longest + 1 /\ motorAge \in 0 .. Longest + 1
  /\ toTimer \in 0 .. TimerInterval
  /\ WatchdogInv

\* The relay starts with the motors off and the watchdog disarmed.
LEMMA ClocksStart == Init => ClockInv
<1> SUFFICES ASSUME Init PROVE ClockInv
  OBVIOUS
<1>1. motors = Stopped /\ sentVelCmd = FALSE
  BY DEF Init, RelayInit
<1>2. WatchdogInv
  BY <1>1, Zenon DEF WatchdogInv, Moving
<1>3. relayUp \in BOOLEAN /\ sentVelCmd \in BOOLEAN
  BY DEF Init, RelayInit
<1>4. sinceSent \in 0 .. Longest + 1 /\ motorAge \in 0 .. Longest + 1
  BY DEF Init, RelayInit, Longest
<1>5. toTimer \in 0 .. TimerInterval
  BY DEF Init, RelayInit
<1> QED BY <1>2, <1>3, <1>4, <1>5 DEF ClockInv

\* Ages stay in their range.
LEMMA OlderInRange ==
  ASSUME NEW age \in 0 .. Longest + 1
  PROVE  Older(age) \in 0 .. Longest + 1
BY DEF Older, Longest

\* A command written to the motors arms the watchdog and starts its clock
\* with theirs; one that is not written changes nothing.
LEMMA ListenerKeepsClocks ==
  ASSUME ClockInv, NEW cmd, Listener(cmd) \/ ListenerFails
  PROVE  ClockInv'
<1>1. CASE Listener(cmd)
  BY <1>1 DEF ClockInv, Listener, Writes, WatchdogInv, Moving, Longest
<1>2. CASE ListenerFails
  BY <1>2 DEF ClockInv, ListenerFails, relayVars, WatchdogInv, Moving, Longest
<1> QED BY <1>1, <1>2

\* The timer, when due, stops motors whose command is too old; a command
\* that may stand has an age that one more interval does not make too old.
LEMMA TimerKeepsClocks ==
  ASSUME ClockInv, TimerCallback
  PROVE  ClockInv'
<1>1. CASE TimedOut
  <2>1. motors' = Stopped /\ sentVelCmd' = FALSE
    BY <1>1 DEF TimerCallback, Writes
  <2>2. WatchdogInv'
    BY <2>1 DEF WatchdogInv, Moving, Stopped
  <2>3. sinceSent' \in 0 .. Longest + 1 /\ motorAge' \in 0 .. Longest + 1
    BY <1>1 DEF ClockInv, TimerCallback, Writes, Longest
  <2>4. relayUp' \in BOOLEAN /\ toTimer' \in 0 .. TimerInterval
    BY <1>1 DEF ClockInv, TimerCallback
  <2> QED BY <2>1, <2>2, <2>3, <2>4 DEF ClockInv
<1>2. CASE ~TimedOut
  <2>1. sentVelCmd => sinceSent <= TimeoutDuration
    BY <1>2 DEF ClockInv, TimedOut, Longest
  <2> QED BY <1>2, <2>1 DEF ClockInv, TimerCallback, WatchdogInv, Moving, Longest
<1> QED BY <1>1, <1>2

\* One tick makes all ages one older and brings the timer one nearer.
LEMMA TickKeepsClocks ==
  ASSUME ClockInv, RelayTick
  PROVE  ClockInv'
<1>1. sinceSent' \in 0 .. Longest + 1 /\ motorAge' \in 0 .. Longest + 1
  BY OlderInRange DEF ClockInv, RelayTick
<1>2. toTimer' \in 0 .. TimerInterval
  BY DEF ClockInv, RelayTick
<1>3. (Moving /\ relayUp => sentVelCmd /\ sinceSent = motorAge)'
  BY DEF ClockInv, WatchdogInv, RelayTick, Moving
<1>4. (sentVelCmd /\ relayUp => sinceSent <= Longest - toTimer)'
  BY DEF ClockInv, WatchdogInv, RelayTick, Older, Longest
<1> QED BY <1>1, <1>2, <1>3, <1>4 DEF ClockInv, WatchdogInv, RelayTick

\* No step of the stack breaks the clocks.
LEMMA ClocksStay == ClockInv /\ [Next]_vars => ClockInv'
<1> SUFFICES ASSUME ClockInv, [Next]_vars PROVE ClockInv'
  OBVIOUS
<1>1. CASE UNCHANGED relayVars
  BY <1>1 DEF ClockInv, relayVars, WatchdogInv, Moving, Longest
<1>2. CASE CommandReceived
  <2>1. Listener(Head(cmdVel)) \/ ListenerFails
    BY <1>2 DEF CommandReceived
  <2> QED BY <2>1, ListenerKeepsClocks
<1>3. CASE TimerCallback
  BY <1>3, TimerKeepsClocks
<1>4. CASE TimerCallbackFails
  BY <1>4 DEF ClockInv, TimerCallbackFails, WatchdogInv, Moving, Longest
<1>5. CASE RelayTick
  BY <1>5, TickKeepsClocks
<1> QED BY <1>1, <1>2, <1>3, <1>4, <1>5 DEF Next, Timer, Tick, vars

\* The watchdog's clock is that of the motors, and it is served in time.
THEOREM WatchdogCorrect == Spec => []ClockInv
<1>1. Init => ClockInv
  BY ClocksStart
<1>2. ClockInv /\ [Next]_vars => ClockInv'
  BY ClocksStay
<1> QED BY <1>1, <1>2, PTL DEF Spec

\* The motors never run longer on one command than the timeout and one
\* interval of the timer (velocity_relay.py, timer_callback).
THEOREM MotorsStopAfterSilence == Spec => []StopsAfterSilence
<1>1. ClockInv => StopsAfterSilence
  BY DEF ClockInv, WatchdogInv, StopsAfterSilence, Longest
<1> QED BY <1>1, WatchdogCorrect, PTL

-----------------------------------------------------------------------------
(* From commands to wheels *)

\* A faster wheel does not get a smaller value before the limit.
LEMMA ScaledMonotone ==
  ASSUME NEW k \in Nat, NEW x \in Nat, NEW y \in Nat, x <= y
  PROVE  (x * k) \div Unit <= (y * k) \div Unit
<1>1. x * k \in Nat /\ y * k \in Nat /\ x * k <= y * k
  OBVIOUS
<1>2. \A m, n \in Nat : m <= n => m \div Unit <= n \div Unit
  BY SMT DEF Unit
<1> QED BY <1>1, <1>2

\* It is a positive number and grows with the speed.
LEMMA DrivenMonotone ==
  ASSUME NEW x \in Int, NEW y \in Int, Abs(x) <= Abs(y)
  PROVE  Driven(x) \in Nat /\ Driven(y) \in Nat /\ Driven(x) <= Driven(y)
<1> DEFINE k == MaxPwm - MinPwm
           p == (Abs(x) * k) \div Unit
           q == (Abs(y) * k) \div Unit
<1>1. Abs(x) \in Nat /\ Abs(y) \in Nat /\ k \in Nat
  BY DEF Abs
<1>2. p <= q
  BY <1>1, ScaledMonotone
<1>3. p \in Nat /\ q \in Nat
  <2>1. \A n \in Nat : n \div Unit \in Nat
    BY SMT DEF Unit
  <2>2. Abs(x) * k \in Nat /\ Abs(y) * k \in Nat
    BY <1>1
  <2> QED BY <2>1, <2>2
<1> HIDE DEF p, q
<1>4. Driven(x) = (IF MinPwm + p > MaxPwm THEN MaxPwm ELSE MinPwm + p)
  BY DEF Driven, p
<1>5. Driven(y) = (IF MinPwm + q > MaxPwm THEN MaxPwm ELSE MinPwm + q)
  BY DEF Driven, q
<1> QED BY <1>2, <1>3, <1>4, <1>5

\* Two speeds that are not forward in sum are not forward in sum when they
\* are mapped, though the dead zone may take one of them away.
LEMMA MapToPwmSum ==
  ASSUME NEW x \in Int, NEW y \in Int, x + y <= 0
  PROVE  /\ MapToPwm(x) \in Int /\ MapToPwm(y) \in Int
         /\ MapToPwm(x) + MapToPwm(y) <= 0
<1>1. Driven(x) \in Nat /\ Driven(y) \in Nat
  BY DrivenMonotone DEF Abs
<1>2. CASE x > 0
  <2>1. y < 0 /\ Abs(x) <= Abs(y)
    BY <1>2 DEF Abs
  <2>2. Driven(x) <= Driven(y)
    BY <2>1, DrivenMonotone
  <2>3. Abs(y) < Unit \div 100 => Abs(x) < Unit \div 100
    BY <2>1, SMT DEF Abs, Unit
  <2> QED BY <1>1, <1>2, <2>1, <2>2, <2>3 DEF MapToPwm
<1>3. CASE y > 0
  <2>1. x < 0 /\ Abs(y) <= Abs(x)
    BY <1>3 DEF Abs
  <2>2. Driven(y) <= Driven(x)
    BY <2>1, DrivenMonotone
  <2>3. Abs(x) < Unit \div 100 => Abs(y) < Unit \div 100
    BY <2>1, SMT DEF Abs, Unit
  <2> QED BY <1>1, <1>3, <2>1, <2>2, <2>3 DEF MapToPwm
<1>4. CASE ~(x > 0) /\ ~(y > 0)
  BY <1>1, <1>4 DEF MapToPwm
<1> QED BY <1>2, <1>3, <1>4

-----------------------------------------------------------------------------
(* The commands *)

\* Every command is a stop or made for a box in the frame.
LEMMA ControlIsStopOrCommand ==
  ASSUME NEW cmd \in Controls
  PROVE  cmd = StopCommand \/ \E box \in Box : cmd = Command(box)
<1> SUFFICES ASSUME cmd # StopCommand
             PROVE  \E box \in Box : cmd = Command(box)
  OBVIOUS
<1>1. PICK boxes \in Frames : \E i \in BestBox(boxes) : cmd = Command(boxes[i])
  BY DEF Controls
<1>2. PICK i \in 1 .. Len(boxes) : cmd = Command(boxes[i])
  BY <1>1 DEF BestBox
<1>3. boxes \in Seq(Box)
  BY DEF Frames, SeqOf
<1> QED BY <1>2, <1>3

\* The command to stop is one of the controls, and the zero of them.
LEMMA StopIsControl == StopCommand \in Controls /\ Zero = StopCommand
BY DEF Controls, Zero, StopCommand

\* Speeds are limited and so integers; a box that is too high gives a speed
\* that is not forward.
LEMMA CommandSpeeds ==
  ASSUME NEW box \in Box
  PROVE  /\ Command(box).linear \in Int /\ Command(box).angular \in Int
         /\ box.height > 800 => Command(box).linear <= 0
<1>1. box.height \in Int /\ box.centre \in Int
  <2>1. box.height \in Heights /\ box.centre \in Centres
    BY DEF Box
  <2>2. Heights \subseteq Int /\ Centres \subseteq Int
    BY FollowerAssumption, SMT
  <2> QED BY <2>1, <2>2
<1>2. LinearError(box) \in Int /\ (box.height > 800 => LinearError(box) <= 0)
  BY <1>1 DEF LinearError
<1>3. AngularError(box) \in Int
  BY <1>1 DEF AngularError, Error, Magnitude, Sign
<1>4. \A x \in Int, n \in Nat : Clip(x, n) \in Int /\ (x <= 0 => Clip(x, n) <= 0)
  BY DEF Clip
<1>5. /\ 12 * LinearError(box) \in Int /\ 5 * AngularError(box) \in Int
      /\ box.height > 800 => 12 * LinearError(box) <= 0
  BY <1>2, <1>3
<1>6. /\ Clip(12 * LinearError(box), 2000) \in Int
      /\ Clip(5 * AngularError(box), 5000) \in Int
      /\ box.height > 800 => Clip(12 * LinearError(box), 2000) <= 0
  <2> DEFINE e == 12 * LinearError(box)
             a == 5 * AngularError(box)
  <2> HIDE DEF e, a
  <2>1. e \in Int /\ a \in Int /\ (box.height > 800 => e <= 0)
    BY <1>5 DEF e, a
  <2>2. Clip(e, 2000) \in Int /\ Clip(a, 5000) \in Int /\ (e <= 0 => Clip(e, 2000) <= 0)
    BY <2>1, <1>4, SMT
  <2> QED BY <2>1, <2>2 DEF e, a
<1> QED BY <1>6 DEF Command

\* The wheels' speeds add up to twice the linear one, and have its sign.
LEMMA WheelSpeeds ==
  ASSUME NEW cmd, cmd.linear \in Int, cmd.angular \in Int
  PROVE  \E x, y \in Int : /\ cmd.linear <= 0 => x + y <= 0
                           /\ Packet(cmd) = [left |-> MapToPwm(x), right |-> MapToPwm(y)]
<1> DEFINE turn == (cmd.angular * WheelSeparation) \div 2
<1>1. turn \in Int
  BY SMT DEF WheelSeparation
<1> HIDE DEF turn
<1>2. /\ cmd.linear * 10000 - turn \in Int /\ cmd.linear * 10000 + turn \in Int
      /\ cmd.linear <= 0 => (cmd.linear * 10000 - turn) + (cmd.linear * 10000 + turn) <= 0
  BY <1>1, SMT
<1>3. Packet(cmd) = [left |-> MapToPwm(cmd.linear * 10000 - turn),
                     right |-> MapToPwm(cmd.linear * 10000 + turn)]
  BY SMT DEF Packet, turn
<1> QED BY <1>2, <1>3, SMT

\* The packet of a command.
LEMMA PacketOfControl ==
  ASSUME NEW cmd \in Controls
  PROVE  /\ Packet(cmd) \in [left : Int, right : Int]
         /\ cmd.box # <<>> /\ cmd.box[1].height > 800 =>
              Packet(cmd).left + Packet(cmd).right <= 0
<1>1. /\ cmd.linear \in Int /\ cmd.angular \in Int
      /\ cmd.box # <<>> /\ cmd.box[1].height > 800 => cmd.linear <= 0
  <2>1. CASE cmd = StopCommand
    BY <2>1 DEF StopCommand
  <2>2. CASE \E box \in Box : cmd = Command(box)
    <3>1. PICK box \in Box : cmd = Command(box)
      BY <2>2
    <3>2. cmd.box[1] = box
      BY <3>1, SMT DEF Command
    <3> QED BY <3>1, <3>2, CommandSpeeds
  <2> QED BY <2>1, <2>2, ControlIsStopOrCommand
<1>2. PICK x, y \in Int : /\ cmd.linear <= 0 => x + y <= 0
                          /\ Packet(cmd) = [left |-> MapToPwm(x), right |-> MapToPwm(y)]
  BY <1>1, WheelSpeeds
<1>3. MapToPwm(x) \in Int /\ MapToPwm(y) \in Int
  <2>1. CASE x + y <= 0
    BY <2>1, MapToPwmSum
  <2>2. CASE ~(x + y <= 0)
    <3>1. Driven(x) \in Nat /\ Driven(y) \in Nat
      <4>1. Abs(x) <= Abs(x) /\ Abs(y) <= Abs(y)
        BY DEF Abs
      <4> QED BY <4>1, DrivenMonotone
    <3> QED BY <3>1 DEF MapToPwm
  <2> QED BY <2>1, <2>2
<1>4. cmd.linear <= 0 => MapToPwm(x) + MapToPwm(y) <= 0
  <2> SUFFICES ASSUME cmd.linear <= 0 PROVE MapToPwm(x) + MapToPwm(y) <= 0
    OBVIOUS
  <2>1. x + y <= 0
    BY <1>2
  <2> QED BY <2>1, MapToPwmSum
<1> QED BY <1>1, <1>2, <1>3, <1>4

-----------------------------------------------------------------------------
(* The commands on their way to the motors *)

\* The queue holds what the follower publishes, the motors obey one of its
\* commands, and while following is disabled the newest one is a stop.
CommandInv ==
  /\ following \in BOOLEAN /\ isProcessing \in BOOLEAN /\ frameWaiting \in BOOLEAN
  /\ sincePub \in 0 .. MinFrameGap
  /\ cmdVel \in Seq(Controls) /\ Len(cmdVel) <= QueueDepth
  /\ LastWordIsStop
  /\ PacketInv

\* What Publish leaves in the queue.
LEMMA PublishQueues ==
  ASSUME cmdVel \in Seq(Controls), Len(cmdVel) <= QueueDepth,
         NEW cmd \in Controls, Publish(cmd)
  PROVE  /\ cmdVel' \in Seq(Controls) /\ Len(cmdVel') <= QueueDepth
         /\ cmdVel' # <<>> /\ Last(cmdVel') = cmd
<1>0. QueueDepth \in Nat \ {0}
  BY FollowerAssumption
<1>1. CASE Len(cmdVel) < QueueDepth
  BY <1>0, <1>1 DEF Publish, Last
<1>2. CASE ~(Len(cmdVel) < QueueDepth)
  <2>1. cmdVel # <<>>
    BY <1>0, <1>2
  <2>2. Tail(cmdVel) \in Seq(Controls) /\ Len(Tail(cmdVel)) = Len(cmdVel) - 1
    BY <2>1
  <2> QED BY <1>0, <1>2, <2>2 DEF Publish, Last
<1> QED BY <1>1, <1>2

\* The packet of the command to stop stops the motors.
LEMMA PacketOfStop == Packet(StopCommand) = Stopped
<1>1. Packet(StopCommand) = [left |-> MapToPwm(0), right |-> MapToPwm(0)]
  BY SMT DEF Packet, StopCommand, WheelSeparation
<1>2. MapToPwm(0) = 0
  BY SMT DEF MapToPwm, Abs, Unit
<1> QED BY <1>1, <1>2 DEF Stopped

\* Both nodes start with nothing said.
LEMMA CommandsStart == Init => CommandInv
<1> SUFFICES ASSUME Init PROVE CommandInv
  OBVIOUS
<1>1. PacketInv
  BY StopIsControl, PacketOfStop DEF Init, RelayInit, PacketInv
<1>2. 0 \in 0 .. MinFrameGap /\ QueueDepth \in Nat
  BY FollowerAssumption
<1>3. cmdVel = <<>>
  BY DEF Init, FollowerInit
<1>4. cmdVel \in Seq(Controls) /\ Len(cmdVel) <= QueueDepth /\ LastWordIsStop
  BY <1>2, <1>3 DEF LastWordIsStop
<1> QED BY <1>1, <1>2, <1>4 DEF Init, FollowerInit, CommandInv

\* The follower's steps, which the relay does not see.
LEMMA FollowerKeepsCommands ==
  ASSUME CommandInv, FollowerActs, UNCHANGED relayVars
  PROVE  CommandInv'
<1>1. PacketInv'
  BY DEF CommandInv, PacketInv, relayVars
<1>2. 0 \in 0 .. MinFrameGap
  BY FollowerAssumption
<1>3. CASE FrameArrives
  BY <1>1, <1>3 DEF CommandInv, FrameArrives, LastWordIsStop
<1>4. CASE FrameDropped
  BY <1>1, <1>4 DEF CommandInv, FrameDropped, LastWordIsStop
<1>5. CASE FrameTaken
  BY <1>1, <1>2, <1>5 DEF CommandInv, FrameTaken, LastWordIsStop
<1>6. CASE NothingPublished
  BY <1>1, <1>6 DEF CommandInv, NothingPublished, LastWordIsStop
<1>7. CASE ControlPublished
  <2>1. PICK cmd \in Controls : Publish(cmd)
    BY <1>7 DEF ControlPublished
  <2>2. cmdVel' \in Seq(Controls) /\ Len(cmdVel') <= QueueDepth
    BY <2>1, PublishQueues DEF CommandInv
  <2>3. LastWordIsStop'
    BY <1>7 DEF ControlPublished, LastWordIsStop
  <2> QED BY <1>1, <1>7, <2>2, <2>3 DEF CommandInv, ControlPublished
<1>8. ASSUME NEW enable \in BOOLEAN, Toggle(enable) PROVE CommandInv'
  <2>1. CASE enable
    <3>1. UNCHANGED cmdVel /\ LastWordIsStop'
      BY <1>8, <2>1 DEF Toggle, LastWordIsStop
    <3> QED BY <1>1, <1>8, <3>1 DEF CommandInv, Toggle
  <2>2. CASE ~enable
    <3>1. Publish(StopCommand)
      BY <1>8, <2>2 DEF Toggle
    <3>2. /\ cmdVel' \in Seq(Controls) /\ Len(cmdVel') <= QueueDepth
          /\ Last(cmdVel') = StopCommand
      BY <3>1, StopIsControl, PublishQueues DEF CommandInv
    <3>3. LastWordIsStop'
      BY <3>2 DEF LastWordIsStop
    <3> QED BY <1>1, <1>8, <3>2, <3>3 DEF CommandInv, Toggle
  <2> QED BY <2>1, <2>2
<1> QED BY <1>3, <1>4, <1>5, <1>6, <1>7, <1>8 DEF FollowerActs

\* The relay takes the oldest command; the newest one stays the last word.
LEMMA ReceivingKeepsCommands ==
  ASSUME CommandInv, CommandReceived
  PROVE  CommandInv'
<1>1. /\ cmdVel \in Seq(Controls) /\ cmdVel # <<>> /\ cmdVel' = Tail(cmdVel)
      /\ Len(cmdVel) <= QueueDepth
  BY DEF CommandInv, CommandReceived
<1>2. Head(cmdVel) \in Controls /\ cmdVel' \in Seq(Controls) /\ Len(cmdVel') = Len(cmdVel) - 1
  BY <1>1
<1>3. PacketInv'
  <2>1. CASE Listener(Head(cmdVel))
    BY <1>2, <2>1 DEF Listener, Writes, PacketInv, Packet, MapToPwm, Driven, Abs, Unit, WheelSeparation
  <2>2. CASE ListenerFails
    BY <2>2 DEF CommandInv, ListenerFails, relayVars, PacketInv
  <2> QED BY <2>1, <2>2 DEF CommandReceived
<1>4. LastWordIsStop'
  <2> SUFFICES ASSUME ~following', cmdVel' # <<>> PROVE Last(cmdVel') = StopCommand
    BY DEF LastWordIsStop
  <2>1. Last(cmdVel) = StopCommand
    BY <1>1 DEF CommandInv, CommandReceived, LastWordIsStop
  <2>2. Last(cmdVel') = Last(cmdVel)
    BY <1>1, <1>2 DEF Last
  <2> QED BY <2>1, <2>2
<1>5. Len(cmdVel') <= QueueDepth
  BY <1>1, <1>2, FollowerAssumption
<1> QED BY <1>2, <1>3, <1>4, <1>5 DEF CommandInv, CommandReceived

\* The relay's timer and the time touch no command but the one the motors
\* obey, which the watchdog replaces by a stop.
LEMMA CommandsStay == CommandInv /\ [Next]_vars => CommandInv'
<1> SUFFICES ASSUME CommandInv, [Next]_vars PROVE CommandInv'
  OBVIOUS
<1>1. CASE FollowerActs /\ UNCHANGED relayVars
  BY <1>1, FollowerKeepsCommands
<1>2. CASE CommandReceived
  BY <1>2, ReceivingKeepsCommands
<1>3. CASE Timer
  <2>1. PacketInv'
    <3>1. CASE TimerCallback /\ TimedOut
      BY <3>1, StopIsControl, PacketOfStop DEF TimerCallback, Writes, PacketInv
    <3>2. CASE UNCHANGED <<motors, cause>>
      BY <3>2 DEF CommandInv, PacketInv
    <3> QED BY <1>3, <3>1, <3>2 DEF Timer, TimerCallback, TimerCallbackFails
  <2> QED BY <1>3, <2>1 DEF Timer, followerVars, CommandInv, LastWordIsStop
<1>4. CASE Tick
  <2>1. PacketInv'
    BY <1>4 DEF Tick, RelayTick, CommandInv, PacketInv
  <2>2. sincePub' \in 0 .. MinFrameGap
    BY <1>4, FollowerAssumption DEF Tick, FollowerTick, CommandInv
  <2> QED BY <1>4, <2>1, <2>2 DEF Tick, FollowerTick, CommandInv, LastWordIsStop
<1>5. CASE UNCHANGED vars
  BY <1>5 DEF vars, relayVars, followerVars, CommandInv, LastWordIsStop, PacketInv
<1> QED BY <1>1, <1>2, <1>3, <1>4, <1>5 DEF Next

\* Queue, flags and packets of the two nodes.
THEOREM CommandsCorrect == Spec => []CommandInv
<1> QED BY CommandsStart, CommandsStay, PTL DEF Spec

\* Once following is disabled the newest command on /cmd_vel is a stop
\* (human_follower.py, follower_toggle_cb), whatever the depth of the queue.
THEOREM DisablingSaysStop == Spec => []LastWordIsStop
<1>1. CommandInv => LastWordIsStop
  BY DEF CommandInv
<1> QED BY <1>1, CommandsCorrect, PTL

\* Nobody who is followed is approached when near: for all limits of the
\* packets, and for every position and height of the box that was chosen.
THEOREM TooNearIsNotApproached == Spec => []NeverApproaches
<1>1. CommandInv => NeverApproaches
  BY PacketOfControl DEF CommandInv, PacketInv, NeverApproaches
<1> QED BY <1>1, CommandsCorrect, PTL

\* Both halves together: types, the watchdog, the packets and the last word.
THEOREM FollowCorrect == Spec => []FollowInv
<1>1. ClockInv /\ CommandInv => FollowInv
  <2> SUFFICES ASSUME ClockInv, CommandInv PROVE FollowInv
    OBVIOUS
  <2>1. motors \in [left : Int, right : Int]
    BY PacketOfControl DEF CommandInv, PacketInv
  <2>2. TypeOK
    BY <2>1 DEF ClockInv, CommandInv, TypeOK, RelayTypeOK
  <2> QED BY <2>2 DEF ClockInv, CommandInv, FollowInv
<1> QED BY <1>1, WatchdogCorrect, CommandsCorrect, PTL

-----------------------------------------------------------------------------
(* Least and greatest *)

\* A non-empty set of naturals has a least element.
LEMMA LeastExists ==
  ASSUME NEW S \in SUBSET Nat, S # {}
  PROVE  \E x \in S : \A y \in S : x <= y
<1> DEFINE R == {ss \in Nat \X Nat : ss[1] < ss[2]}
<1>1. IsWellFoundedOn(R, Nat)
  BY NatLessThanWellFounded DEF OpToRel
<1>2. \A x, y \in Nat : <<y, x>> \in R <=> y < x
  OBVIOUS
<1> HIDE DEF R
<1>3. PICK x \in S : \A y \in S : ~(<<y, x>> \in R)
  BY <1>1, WFMin, Zenon
<1>4. ASSUME NEW y \in S PROVE x <= y
  <2>1. ~(y < x) /\ x \in Nat /\ y \in Nat
    BY <1>2, <1>3
  <2> QED BY <2>1
<1> QED BY <1>4

\* What is least in a set of numbers.
LEMMA MinIsLeast ==
  ASSUME NEW S \in SUBSET Nat, S # {}
  PROVE  Min(S) \in S /\ \A y \in S : Min(S) <= y
BY LeastExists DEF Min

\* What is greatest in a bounded one.
LEMMA MaxIsGreatest ==
  ASSUME NEW n \in Nat, NEW S \in SUBSET (0 .. n), S # {}
  PROVE  Max(S) \in S /\ \A y \in S : y <= Max(S)
<1> DEFINE T == {k \in Nat : n - k \in S}
<1>1. T # {}
  <2>1. PICK y \in S : TRUE
    OBVIOUS
  <2>2. n - y \in Nat /\ n - (n - y) = y
    OBVIOUS
  <2> QED BY <2>1, <2>2
<1>2. PICK k \in T : \A j \in T : k <= j
  BY <1>1, LeastExists
<1>3. n - k \in S /\ \A y \in S : n - k >= y
  <2>1. ASSUME NEW y \in S PROVE n - k >= y
    <3>1. y \in 0 .. n /\ n - y \in Nat /\ n - (n - y) = y
      OBVIOUS
    <3>2. n - y \in T /\ k \in Nat
      BY <3>1
    <3>3. k <= n - y
      BY <1>2, <3>2
    <3> HIDE DEF T
    <3> QED BY <3>1, <3>2, <3>3
  <2> QED BY <1>2, <2>1
<1>4. Max(S) \in S /\ \A y \in S : Max(S) >= y
  BY <1>3 DEF Max
<1> QED BY <1>4

\* The minimum of two integers.
LEMMA MinOfTwo ==
  ASSUME NEW a \in Int, NEW b \in Int
  PROVE  Min({a, b}) = IF a <= b THEN a ELSE b
BY DEF Min

-----------------------------------------------------------------------------
(* Scans *)

\* A scan as the messages give it and as sm_icp leaves it: what is valid is a
\* reading between the limits.
IsScan(ld) ==
  /\ ld = [readings |-> ld.readings, valid |-> ld.valid, tabled |-> ld.tabled,
           cluster |-> ld.cluster, alpha_valid |-> ld.alpha_valid]
  /\ \E n \in Nat : /\ ld.readings \in [0 .. n - 1 -> Int]
                    /\ ld.valid \in [0 .. n - 1 -> BOOLEAN]
  /\ \A j \in Rays(ld) : ld.valid[j] => min_reading < ld.readings[j] /\ ld.readings[j] < max_reading

\* The rays of a scan are numbered from 0.
LEMMA ScanRays ==
  ASSUME NEW ld, IsScan(ld)
  PROVE  /\ nrays(ld) \in Nat /\ Rays(ld) = 0 .. nrays(ld) - 1
         /\ ld.readings \in [Rays(ld) -> Int] /\ ld.valid \in [Rays(ld) -> BOOLEAN]
         /\ ValidRays(ld) \subseteq Rays(ld) /\ Rays(ld) \subseteq Nat
<1>1. PICK n \in Nat : ld.readings \in [0 .. n - 1 -> Int] /\ ld.valid \in [0 .. n - 1 -> BOOLEAN]
  BY DEF IsScan
<1>2. Rays(ld) = 0 .. n - 1
  BY <1>1 DEF Rays
<1>3. Cardinality(0 .. n - 1) = n
  <2>1. 0 \in Int /\ n - 1 \in Int
    BY <1>1
  <2>2. Cardinality(0 .. n - 1) = IF 0 > n - 1 THEN 0 ELSE n - 1 - 0 + 1
    BY <2>1, FS_Interval
  <2> QED BY <1>1, <2>2
<1>4. nrays(ld) = n
  BY <1>2, <1>3 DEF nrays
<1> QED BY <1>1, <1>2, <1>4 DEF ValidRays

\* What a message says is a scan.
LEMMA MessageIsScan ==
  ASSUME NEW s \in Seq(Nat)
  PROVE  IsScan(laserScanToLDP(s))
<1> DEFINE ld == laserScanToLDP(s)
           n == Len(s)
<1>1. n \in Nat /\ \A i \in 0 .. n - 1 : s[i + 1] \in Nat
  <2>1. ASSUME NEW i \in 0 .. n - 1 PROVE s[i + 1] \in Nat
    <3>1. i + 1 \in 1 .. Len(s)
      OBVIOUS
    <3> QED BY <3>1
  <2> QED BY <2>1
<1>2. /\ ld.readings = [i \in 0 .. n - 1 |-> IF min_reading < s[i + 1] /\ s[i + 1] < max_reading
                                             THEN s[i + 1] ELSE -1]
      /\ ld.valid = [i \in 0 .. n - 1 |-> min_reading < s[i + 1] /\ s[i + 1] < max_reading]
  BY DEF laserScanToLDP
<1>3. ld = [readings |-> ld.readings, valid |-> ld.valid, tabled |-> ld.tabled,
            cluster |-> ld.cluster, alpha_valid |-> ld.alpha_valid]
  BY DEF laserScanToLDP
<1>4. ld.readings \in [0 .. n - 1 -> Int] /\ ld.valid \in [0 .. n - 1 -> BOOLEAN]
  BY <1>1, <1>2
<1>5. \A j \in 0 .. n - 1 : ld.valid[j] => min_reading < ld.readings[j] /\ ld.readings[j] < max_reading
  BY <1>2
<1> HIDE DEF ld
<1>6. Rays(ld) = 0 .. n - 1
  BY <1>4 DEF Rays
<1>7. IsScan(ld)
  BY <1>1, <1>3, <1>4, <1>5, <1>6 DEF IsScan
<1> QED BY <1>7 DEF ld

\* Taking rays out leaves a scan.
LEMMA WithoutIsScan ==
  ASSUME NEW ld, IsScan(ld), NEW js
  PROVE  IsScan(Without(ld, js))
<1> DEFINE f == [j \in Rays(ld) |-> ld.valid[j] /\ j \notin js]
           w == Without(ld, js)
<1>1. PICK n \in Nat : ld.readings \in [0 .. n - 1 -> Int] /\ ld.valid \in [0 .. n - 1 -> BOOLEAN]
  BY DEF IsScan
<1>2. Rays(ld) = 0 .. n - 1
  BY <1>1 DEF Rays
<1>3. f \in [0 .. n - 1 -> BOOLEAN] /\ \A j \in Rays(ld) : f[j] => ld.valid[j]
  BY <1>1, <1>2
<1>4. w = [ld EXCEPT !.valid = f]
  BY DEF Without
<1> HIDE DEF f, w
<1>5. /\ w = [readings |-> w.readings, valid |-> w.valid, tabled |-> w.tabled,
              cluster |-> w.cluster, alpha_valid |-> w.alpha_valid]
      /\ w.readings = ld.readings /\ w.valid = f
  BY <1>4 DEF IsScan
<1>6. Rays(w) = Rays(ld)
  BY <1>5 DEF Rays
<1>7. \A j \in Rays(w) : w.valid[j] => min_reading < w.readings[j] /\ w.readings[j] < max_reading
  BY <1>3, <1>5, <1>6 DEF IsScan
<1>8. IsScan(w)
  BY <1>1, <1>3, <1>5, <1>7 DEF IsScan
<1> QED BY <1>8 DEF w

\* No ray that is valid is outside of the limits.
LEMMA NothingOutside ==
  ASSUME NEW ld, IsScan(ld)
  PROVE  ld_invalid_if_outside(ld) = ld
<1> DEFINE js == {j \in Rays(ld) : ld.readings[j] <= min_reading \/ ld.readings[j] > max_reading}
           f == [j \in Rays(ld) |-> ld.valid[j] /\ j \notin js]
<1>1. min_reading \in Nat /\ max_reading \in Nat
  BY CorrespondencesAssumption
<1>2. ld.readings \in [Rays(ld) -> Int] /\ ld.valid \in [Rays(ld) -> BOOLEAN]
  BY ScanRays
<1>3. ASSUME NEW j \in Rays(ld) PROVE f[j] = ld.valid[j]
  <2>1. CASE ld.valid[j]
    <3>1. min_reading < ld.readings[j] /\ ld.readings[j] < max_reading
      BY <2>1 DEF IsScan
    <3>2. ld.readings[j] \in Int
      BY <1>2
    <3>3. j \notin js
      BY <1>1, <3>1, <3>2
    <3> QED BY <1>2, <2>1, <3>3
  <2>2. CASE ~ld.valid[j]
    BY <1>2, <2>2
  <2> QED BY <2>1, <2>2
<1>4. f = ld.valid
  BY <1>2, <1>3
<1>5. ld_invalid_if_outside(ld) = [ld EXCEPT !.valid = f]
  BY DEF ld_invalid_if_outside, Without
<1> HIDE DEF f
<1>6. [ld EXCEPT !.valid = ld.valid] = ld
  BY DEF IsScan
<1> QED BY <1>4, <1>5, <1>6

\* Noting clusters, normals or jumps in a scan changes nothing else.
LEMMA NotesKeepScan ==
  ASSUME NEW ld, IsScan(ld), NEW f, NEW w,
         w \in {[ld EXCEPT !.cluster = f], [ld EXCEPT !.alpha_valid = f], [ld EXCEPT !.tabled = f]}
  PROVE  IsScan(w) /\ w.readings = ld.readings /\ w.valid = ld.valid /\ Rays(w) = Rays(ld)
<1>1. /\ w = [readings |-> w.readings, valid |-> w.valid, tabled |-> w.tabled,
              cluster |-> w.cluster, alpha_valid |-> w.alpha_valid]
      /\ w.readings = ld.readings /\ w.valid = ld.valid
  <2>1. CASE w = [ld EXCEPT !.cluster = f]
    BY <2>1 DEF IsScan
  <2>2. CASE w = [ld EXCEPT !.alpha_valid = f]
    BY <2>2 DEF IsScan
  <2>3. CASE w = [ld EXCEPT !.tabled = f]
    BY <2>3 DEF IsScan
  <2> QED BY <2>1, <2>2, <2>3
<1>2. Rays(w) = Rays(ld)
  BY <1>1 DEF Rays
<1> QED BY <1>1, <1>2 DEF IsScan

\* Whether a scan is usable depends on its readings, on what is valid, and on no
\* invalid ray being in a cluster.
LEMMA SameIsUsable ==
  ASSUME NEW ld, NEW w, ld_valid_fields(ld), Rays(w) = Rays(ld), w.readings = ld.readings,
         w.valid = ld.valid, \A j \in Rays(w) : ~w.valid[j] => w.cluster[j] = -1
  PROVE  ld_valid_fields(w)
<1>1. nrays(w) = nrays(ld) /\ ValidRays(w) = ValidRays(ld)
  BY DEF nrays, ValidRays
<1>2. max_theta(w) = max_theta(ld)
  BY <1>1 DEF max_theta
<1> QED BY <1>1, <1>2, Zenon DEF ld_valid_fields

\* What sm_icp makes of a scan before the loop.
LEMMA PreparedIsScan ==
  ASSUME NEW ld, IsScan(ld)
  PROVE  IsScan(Prepared(ld))
<1> DEFINE tables == ld_create_jump_tables(ld)
           clustered == ld_simple_clustering(tables)
           oriented == IF params.do_alpha_test THEN ld_compute_orientation(clustered) ELSE tables
<1>0. IsScan(tables)
  BY NotesKeepScan DEF ld_create_jump_tables
<1>1. IsScan(clustered)
  <2> HIDE DEF tables
  <2> QED BY <1>0, NotesKeepScan DEF ld_simple_clustering
<1>2. IsScan(ld_compute_orientation(clustered))
  <2> HIDE DEF clustered
  <2> QED BY <1>1, NotesKeepScan DEF ld_compute_orientation
<1>3. IsScan(oriented)
  BY <1>0, <1>2
<1>4. IsScan(visibilityTest(oriented))
  <2> HIDE DEF oriented
  <2> QED BY <1>3, WithoutIsScan DEF visibilityTest
<1>5. Prepared(ld) = IF params.do_visibility_test THEN visibilityTest(oriented) ELSE oriented
  BY NothingOutside DEF Prepared
<1> QED BY <1>3, <1>4, <1>5

\* Without the visibility test it is as usable as it was.
LEMMA PreparedIsUsable ==
  ASSUME NEW ld, IsScan(ld), ld_valid_fields(ld), ~params.do_visibility_test
  PROVE  ld_valid_fields(Prepared(ld))
<1> DEFINE t == ld_create_jump_tables(ld)
           c == ld_simple_clustering(t)
           o == ld_compute_orientation(c)
<1>1. /\ IsScan(t) /\ t.readings = ld.readings /\ t.valid = ld.valid /\ Rays(t) = Rays(ld)
      /\ t.cluster = ld.cluster
  BY NotesKeepScan DEF ld_create_jump_tables, IsScan
<1>2. ld_valid_fields(t)
  <2>1. \A j \in Rays(ld) : ~ld.valid[j] => ld.cluster[j] = -1
    BY DEF ld_valid_fields
  <2> HIDE DEF t
  <2> QED BY <1>1, <2>1, SameIsUsable
<1>3. /\ IsScan(c) /\ c.readings = t.readings /\ c.valid = t.valid /\ Rays(c) = Rays(t)
      /\ \A j \in Rays(t) : ~t.valid[j] => c.cluster[j] = -1
  <2> HIDE DEF t
  <2>1. IsScan(c) /\ c.readings = t.readings /\ c.valid = t.valid /\ Rays(c) = Rays(t)
    BY <1>1, NotesKeepScan DEF ld_simple_clustering
  <2>2. \A j \in Rays(t) : ~t.valid[j] => c.cluster[j] = -1
    BY <1>1 DEF ld_simple_clustering, IsScan
  <2> QED BY <2>1, <2>2
<1>4. /\ o.readings = c.readings /\ o.valid = c.valid /\ Rays(o) = Rays(c) /\ o.cluster = c.cluster
  <2> HIDE DEF c
  <2>1. o.readings = c.readings /\ o.valid = c.valid /\ Rays(o) = Rays(c)
    BY <1>3, NotesKeepScan DEF ld_compute_orientation
  <2>2. o.cluster = c.cluster
    BY <1>3 DEF ld_compute_orientation, IsScan
  <2> QED BY <2>1, <2>2
<1>5. ld_valid_fields(o)
  <2> HIDE DEF t, c, o
  <2>1. \A j \in Rays(o) : ~o.valid[j] => o.cluster[j] = -1
    BY <1>3, <1>4
  <2> QED BY <1>2, <1>3, <1>4, <2>1, SameIsUsable
<1>6. Prepared(ld) = IF params.do_alpha_test THEN o ELSE t
  BY NothingOutside DEF Prepared
<1> QED BY <1>2, <1>5, <1>6
-----------------------------------------------------------------------------
(* Distances *)

IsPoint(p) == p.rho \in Int /\ p.phi \in Int

LEMMA CosineIsInteger ==
  ASSUME NEW d \in Int
  PROVE  CosDeg(d) \in Int
<1> DEFINE m == (d + 179) % 360
           a == fabs(NormalDeg(d)) \div 10
<1>1. m \in 0 .. 359 /\ NormalDeg(d) = m - 179
  BY DEF NormalDeg
<1>2. fabs(NormalDeg(d)) \in 0 .. 180
  <2> HIDE DEF m
  <2> QED BY <1>1 DEF fabs
<1>3. a \in 0 .. 18
  BY <1>2
<1> HIDE DEF a
<1>4. CosDeg(d) = IF a <= 9 THEN CosTable[a + 1] ELSE -CosTable[19 - a]
  BY DEF CosDeg, a
<1>5. \A i \in 1 .. 10 : CosTable[i] \in Int
  BY DEF CosTable
<1>6. CASE a <= 9
  <2>1. a + 1 \in 1 .. 10
    BY <1>3, <1>6
  <2> QED BY <1>4, <1>5, <1>6, <2>1
<1>7. CASE ~(a <= 9)
  <2>1. 19 - a \in 1 .. 10
    BY <1>3, <1>7
  <2>2. CosTable[19 - a] \in Int
    BY <1>5, <2>1
  <2> QED BY <1>4, <1>7, <2>2
<1> QED BY <1>6, <1>7

LEMMA RootIsNatural ==
  ASSUME NEW n \in Nat
  PROVE  Root(n) \in Nat
<1> DEFINE S == {r \in 0 .. 100 : r * r <= n}
<1>1. 0 \in S
  OBVIOUS
<1>2. S \in SUBSET (0 .. 100) /\ S # {} /\ 100 \in Nat
  BY <1>1
<1> HIDE DEF S
<1>3. Max(S) \in S
  BY <1>2, MaxIsGreatest
<1>4. Root(n) = Max(S)
  BY DEF Root, S
<1>5. Max(S) \in 0 .. 100
  BY <1>2, <1>3
<1>6. \A r \in 0 .. 100 : r \in Nat
  OBVIOUS
<1> QED BY <1>4, <1>5, <1>6, Zenon

\* A sum of two squares.
LEMMA SquaresAreNatural ==
  ASSUME NEW x \in Int, NEW y \in Int
  PROVE  x * x \in Nat /\ x * x + y * y \in Nat
<1>1. \A z \in Int : z * z >= 0
  <2>1. ASSUME NEW z \in Int PROVE z * z >= 0
    <3>1. CASE z >= 0
      BY <3>1
    <3>2. CASE z < 0
      <4>1. -z \in Nat /\ (-z) * (-z) = z * z
        BY <3>2
      <4>2. \A k \in Nat : k * k >= 0
        OBVIOUS
      <4> QED BY <4>1, <4>2
    <3> QED BY <3>1, <3>2
  <2> QED BY <2>1
<1>2. x * x \in Int /\ y * y \in Int /\ x * x >= 0 /\ y * y >= 0
  BY <1>1
<1> QED BY <1>2

\* The distance of a point from a segment is a number.
LEMMA DistanceIsNatural ==
  ASSUME NEW a, NEW b, NEW x, IsPoint(a), IsPoint(b), IsPoint(x)
  PROVE  dist_to_segment(a, b, x) \in Nat
<1> DEFINE tenths(p) == <<(p.rho * CosDeg(p.phi)) \div 100, (p.rho * SinDeg(p.phi)) \div 100>>
           minus(u, v) == <<u[1] - v[1], u[2] - v[2]>>
           dot(u, v) == u[1] * v[1] + u[2] * v[2]
           ab == minus(tenths(b), tenths(a))
           ax == minus(tenths(x), tenths(a))
           bx == minus(tenths(x), tenths(b))
           cross == ab[1] * ax[2] - ab[2] * ax[1]
<1>1. ASSUME NEW p, IsPoint(p) PROVE tenths(p) \in Int \X Int
  <2>1. CosDeg(p.phi) \in Int /\ SinDeg(p.phi) \in Int
    BY <1>1, CosineIsInteger DEF IsPoint, SinDeg
  <2>2. p.rho \in Int
    BY <1>1 DEF IsPoint
  <2>3. \A c, d \in Int : (c * d) \div 100 \in Int
    OBVIOUS
  <2> QED BY <2>1, <2>2, <2>3
<1>2. \A u, v \in Int \X Int : minus(u, v) \in Int \X Int
  OBVIOUS
<1>3. \A u, v \in Int \X Int : dot(u, v) \in Int /\ dot(u, u) \in Nat
  <2>1. ASSUME NEW u \in Int \X Int, NEW v \in Int \X Int PROVE dot(u, v) \in Int /\ dot(u, u) \in Nat
    <3>1. u[1] \in Int /\ u[2] \in Int /\ v[1] \in Int /\ v[2] \in Int
      OBVIOUS
    <3>2. dot(u, u) \in Nat
      BY <3>1, SquaresAreNatural
    <3> QED BY <3>1, <3>2
  <2> QED BY <2>1
<1>4. ab \in Int \X Int /\ ax \in Int \X Int /\ bx \in Int \X Int
  <2>1. tenths(a) \in Int \X Int /\ tenths(b) \in Int \X Int /\ tenths(x) \in Int \X Int
    BY <1>1
  <2> HIDE DEF tenths, minus
  <2> QED BY <1>2, <2>1
<1>5. dist_to_segment(a, b, x) =
        IF 0 < dot(ab, ax) /\ dot(ab, ax) < dot(ab, ab) THEN Root((cross * cross) \div dot(ab, ab))
        ELSE Root(Min({dot(ax, ax), dot(bx, bx)}))
  BY DEF dist_to_segment
<1> HIDE DEF tenths, minus, ab, ax, bx
<1>6. cross \in Int
  BY <1>4
<1>7. dot(ab, ax) \in Int /\ dot(ab, ab) \in Nat /\ dot(ax, ax) \in Nat /\ dot(bx, bx) \in Nat
  BY <1>3, <1>4
<1>8. cross * cross \in Nat
  BY <1>6, SquaresAreNatural
<1> HIDE DEF dot, cross
<1>9. CASE 0 < dot(ab, ax) /\ dot(ab, ax) < dot(ab, ab)
  <2>1. PICK c, e : c = cross * cross /\ e = dot(ab, ab)
    OBVIOUS
  <2>2. c \in Nat /\ e \in Nat \ {0}
    BY <1>7, <1>8, <1>9, <2>1
  <2>3. c \div e \in Nat
    BY <2>2
  <2> QED BY <1>5, <1>9, <2>1, <2>3, RootIsNatural
<1>10. CASE ~(0 < dot(ab, ax) /\ dot(ab, ax) < dot(ab, ab))
  <2>1. Min({dot(ax, ax), dot(bx, bx)}) \in Nat
    BY <1>7, MinOfTwo
  <2> QED BY <1>5, <1>10, <2>1, RootIsNatural
<1> QED BY <1>9, <1>10
-----------------------------------------------------------------------------
(* Correspondences *)

\* A correspondence of some ray with two different ones of a reference, or none.
IsCorr(c, ld) ==
  /\ c = [valid |-> c.valid, j1 |-> c.j1, j2 |-> c.j2, dist2_j1 |-> c.dist2_j1, dist |-> c.dist]
  /\ c.valid \in BOOLEAN
  /\ c.valid => /\ c.j1 \in ValidRays(ld) /\ c.j2 \in ValidRays(ld) \ {c.j1}
                /\ c.dist \in Nat

\* What each ray of a scan corresponds to.
AreCorrs(c, scan, ld) ==
  /\ c = [i \in Rays(scan) |-> c[i]]
  /\ \A i \in Rays(scan) : IsCorr(c[i], ld)

LEMMA NoneIsCorr ==
  ASSUME NEW ld
  PROVE  IsCorr(NoCorr, ld) /\ ~NoCorr.valid
BY DEF IsCorr, NoCorr

\* The angle of a ray is a number.
LEMMA RayIsPoint ==
  ASSUME NEW ld, IsScan(ld), NEW j \in Rays(ld)
  PROVE  IsPoint(At(ld, j)) /\ Theta(j) \in Int
<1>1. MinTheta \in Int /\ RayStep \in Int
  BY CorrespondencesAssumption
<1>2. j \in Int /\ ld.readings[j] \in Int
  BY ScanRays
<1>3. Theta(j) \in Int
  BY <1>1, <1>2 DEF Theta
<1> QED BY <1>2, <1>3 DEF At, Point, IsPoint

\* The other ray of a correspondence is another one, and valid.
LEMMA SecondBestIsValid ==
  ASSUME NEW ld, IsScan(ld), NEW p, NEW j1 \in Rays(ld)
  PROVE  SecondBest(ld, p, j1) \in (ValidRays(ld) \ {j1}) \cup {-1}
<1> DEFINE above == {j \in ValidRays(ld) : j > j1}
           below == {j \in ValidRays(ld) : j < j1}
           up == ld_next_valid(ld, j1, above)
           down == ld_next_valid(ld, j1, below)
<1>1. PICK n \in Nat : ValidRays(ld) \subseteq 0 .. n /\ j1 \in Nat
  <2>1. nrays(ld) \in Nat /\ ValidRays(ld) \subseteq 0 .. nrays(ld) /\ j1 \in Nat
    BY ScanRays
  <2> QED BY <2>1
<1>2. ASSUME NEW beyond \in SUBSET ValidRays(ld), beyond # {}
      PROVE  Min(beyond) \in beyond /\ Max(beyond) \in beyond
  <2>1. beyond \in SUBSET Nat /\ beyond \in SUBSET (0 .. n)
    BY <1>1
  <2> QED BY <1>2, <2>1, MinIsLeast, MaxIsGreatest
<1>3. ASSUME NEW beyond \in {above, below}
      PROVE  ld_next_valid(ld, j1, beyond) \in (ValidRays(ld) \ {j1}) \cup {-1}
  <2>1. beyond \in SUBSET ValidRays(ld) /\ beyond \subseteq ValidRays(ld) \ {j1}
    BY <1>1, <1>3
  <2> HIDE DEF above, below
  <2> QED BY <1>2, <2>1 DEF ld_next_valid
<1>4. up \in (ValidRays(ld) \ {j1}) \cup {-1} /\ down \in (ValidRays(ld) \ {j1}) \cup {-1}
  BY <1>3
<1>5. SecondBest(ld, p, j1) = IF up = -1 THEN down ELSE IF down = -1 THEN up
        ELSE IF distance_squared_d(p, At(ld, up)) < distance_squared_d(p, At(ld, down)) THEN up ELSE down
  BY DEF SecondBest
<1> HIDE DEF up, down
<1> QED BY <1>4, <1>5

\* The correspondence of a point with a valid ray.
LEMMA CorrespondenceIsCorr ==
  ASSUME NEW ld, IsScan(ld), NEW p, IsPoint(p), NEW j1 \in ValidRays(ld) \cup {-1}, NEW d
  PROVE  IsCorr(Correspondence(ld, p, j1, d), ld)
<1> DEFINE j2 == SecondBest(ld, p, j1)
           c == Correspondence(ld, p, j1, d)
<1>1. CASE j1 \in {-1, 0, nrays(ld) - 1} \/ j2 = -1
  <2>1. c = NoCorr
    BY <1>1 DEF Correspondence
  <2> QED BY <2>1, NoneIsCorr
<1>2. CASE ~(j1 \in {-1, 0, nrays(ld) - 1} \/ j2 = -1)
  <2>1. j1 \in ValidRays(ld) /\ j1 \in Rays(ld)
    BY <1>2 DEF ValidRays
  <2>2. j2 \in ValidRays(ld) \ {j1} /\ j2 \in Rays(ld)
    BY <1>2, <2>1, SecondBestIsValid DEF ValidRays
  <2>3. dist_to_segment(At(ld, j1), At(ld, j2), p) \in Nat
    BY <2>1, <2>2, RayIsPoint, DistanceIsNatural
  <2>4. c = [valid |-> TRUE, j1 |-> j1, j2 |-> j2, dist2_j1 |-> d,
             dist |-> dist_to_segment(At(ld, j1), At(ld, j2), p)]
    BY <1>2 DEF Correspondence
  <2> HIDE DEF j2, c
  <2>5. IsCorr(c, ld)
    BY <2>1, <2>2, <2>3, <2>4 DEF IsCorr
  <2> QED BY <2>5 DEF c
<1> QED BY <1>1, <1>2

\* The naive search.
LEMMA NaiveIsCorr ==
  ASSUME NEW ld, IsScan(ld), NEW options, NEW scan, NEW i, NEW p, IsPoint(p)
  PROVE  IsCorr(Naive(options, ld, scan, i, p), ld)
<1> DEFINE dist(j) == distance_squared_d(p, At(ld, j))
           candidates == {j \in possible_interval(ld, p) \cap ValidRays(ld) :
                            /\ dist(j) <= 1000 * max_correspondence_dist * max_correspondence_dist
                            /\ compatible(options, ld, scan, i, j)}
           nearest == {j \in candidates : \A k \in candidates : dist(j) <= dist(k)}
<1>1. nearest \in SUBSET ValidRays(ld) /\ nearest \in SUBSET Nat
  BY ScanRays
<1>2. Naive(options, ld, scan, i, p) =
        IF nearest = {} THEN NoCorr ELSE Correspondence(ld, p, Min(nearest), dist(Min(nearest)))
  BY DEF Naive
<1> HIDE DEF nearest, dist
<1>3. CASE nearest = {}
  BY <1>2, <1>3, NoneIsCorr
<1>4. CASE nearest # {}
  <2>1. Min(nearest) \in ValidRays(ld) \cup {-1}
    BY <1>1, <1>4, MinIsLeast
  <2>2. IsCorr(Correspondence(ld, p, Min(nearest), dist(Min(nearest))), ld)
    BY <2>1, CorrespondenceIsCorr
  <2> QED BY <1>2, <1>4, <2>2
<1> QED BY <1>3, <1>4
\* The search after each of n looks.
Looks(f, n, ld, p, cell, s0) ==
  f = [i \in 0 .. n |-> IF i = 0 THEN s0 ELSE LookAround(ld, p, cell, f[i - 1])]

\* It exists for any number of looks.
LEMMA LooksExist ==
  ASSUME NEW ld, NEW p, NEW cell, NEW s0, NEW n \in Nat
  PROVE  \E f : Looks(f, n, ld, p, cell, s0)
<1> DEFINE none == {m \in Nat : ~\E f : Looks(f, m, ld, p, cell, s0)}
<1> SUFFICES ASSUME none # {} PROVE FALSE
  OBVIOUS
<1>1. PICK m \in none : \A k \in none : m <= k
  BY LeastExists
<1>2. CASE m = 0
  <2> DEFINE f == [i \in 0 .. 0 |-> s0]
  <2>1. Looks(f, 0, ld, p, cell, s0)
    BY DEF Looks
  <2> QED BY <1>2, <2>1
<1>3. CASE m # 0
  <2>1. m - 1 \in Nat /\ m - 1 \notin none
    BY <1>1, <1>3
  <2>2. PICK g : Looks(g, m - 1, ld, p, cell, s0)
    BY <2>1
  <2> DEFINE f == [i \in 0 .. m |-> IF i < m THEN g[i] ELSE LookAround(ld, p, cell, g[m - 1])]
  <2>3. ASSUME NEW i \in 0 .. m
        PROVE  f[i] = IF i = 0 THEN s0 ELSE LookAround(ld, p, cell, f[i - 1])
    <3>1. CASE i < m
      <4>1. i \in 0 .. m - 1 /\ f[i] = g[i] /\ (i # 0 => i - 1 \in 0 .. m /\ i - 1 < m)
        BY <2>1, <3>1
      <4>2. i # 0 => f[i - 1] = g[i - 1]
        BY <4>1
      <4>3. g[i] = IF i = 0 THEN s0 ELSE LookAround(ld, p, cell, g[i - 1])
        BY <2>2, <4>1 DEF Looks
      <4> QED BY <4>1, <4>2, <4>3
    <3>2. CASE i = m
      <4>1. f[i] = LookAround(ld, p, cell, g[m - 1]) /\ i # 0
        BY <1>3, <3>2
      <4>2. m - 1 \in 0 .. m /\ m - 1 < m
        BY <2>1
      <4>3. f[m - 1] = g[m - 1]
        BY <4>2
      <4> QED BY <3>2, <4>1, <4>3
    <3> QED BY <3>1, <3>2
  <2>4. f = [i \in 0 .. m |-> IF i = 0 THEN s0 ELSE LookAround(ld, p, cell, f[i - 1])]
    <3> HIDE DEF f
    <3>1. DOMAIN f = 0 .. m /\ f = [i \in 0 .. m |-> f[i]]
      BY DEF f
    <3> QED BY <2>3, <3>1
  <2>5. \E e : Looks(e, m, ld, p, cell, s0)
    <3> HIDE DEF f
    <3> QED BY <2>4 DEF Looks
  <2> QED BY <2>5
<1> QED BY <1>2, <1>3

\* What corresponds to what after each of n rays.
MatchesUpTo(f, n, ld, scan, points, s0) ==
  f = [i \in 0 .. n |-> IF i = 0 THEN s0 ELSE MatchNext(ld, scan, points, f[i - 1], i - 1)]

\* It exists for scans of any size.
LEMMA MatchesExist ==
  ASSUME NEW ld, NEW scan, NEW points, NEW s0, NEW n \in Nat
  PROVE  \E f : MatchesUpTo(f, n, ld, scan, points, s0)
<1> DEFINE none == {m \in Nat : ~\E f : MatchesUpTo(f, m, ld, scan, points, s0)}
<1> SUFFICES ASSUME none # {} PROVE FALSE
  OBVIOUS
<1>1. PICK m \in none : \A k \in none : m <= k
  BY LeastExists
<1>2. CASE m = 0
  <2> DEFINE f == [i \in 0 .. 0 |-> s0]
  <2>1. MatchesUpTo(f, 0, ld, scan, points, s0)
    BY DEF MatchesUpTo
  <2> QED BY <1>2, <2>1
<1>3. CASE m # 0
  <2>1. m - 1 \in Nat /\ m - 1 \notin none
    BY <1>1, <1>3
  <2>2. PICK g : MatchesUpTo(g, m - 1, ld, scan, points, s0)
    BY <2>1
  <2> DEFINE f == [i \in 0 .. m |-> IF i < m THEN g[i] ELSE MatchNext(ld, scan, points, g[m - 1], m - 1)]
  <2>3. ASSUME NEW i \in 0 .. m
        PROVE  f[i] = IF i = 0 THEN s0 ELSE MatchNext(ld, scan, points, f[i - 1], i - 1)
    <3>1. CASE i < m
      <4>1. i \in 0 .. m - 1 /\ f[i] = g[i] /\ (i # 0 => i - 1 \in 0 .. m /\ i - 1 < m)
        BY <2>1, <3>1
      <4>2. i # 0 => f[i - 1] = g[i - 1]
        BY <4>1
      <4>3. g[i] = IF i = 0 THEN s0 ELSE MatchNext(ld, scan, points, g[i - 1], i - 1)
        BY <2>2, <4>1 DEF MatchesUpTo
      <4> QED BY <4>1, <4>2, <4>3
    <3>2. CASE i = m
      <4>1. f[i] = MatchNext(ld, scan, points, g[m - 1], m - 1) /\ i # 0
        BY <1>3, <3>2
      <4>2. m - 1 \in 0 .. m /\ m - 1 < m
        BY <2>1
      <4>3. f[m - 1] = g[m - 1]
        BY <4>2
      <4> QED BY <3>2, <4>1, <4>3
    <3> QED BY <3>1, <3>2
  <2>4. f = [i \in 0 .. m |-> IF i = 0 THEN s0 ELSE MatchNext(ld, scan, points, f[i - 1], i - 1)]
    <3> HIDE DEF f
    <3>1. DOMAIN f = 0 .. m /\ f = [i \in 0 .. m |-> f[i]]
      BY DEF f
    <3> QED BY <2>3, <3>1
  <2>5. \E e : MatchesUpTo(e, m, ld, scan, points, s0)
    <3> HIDE DEF f
    <3> QED BY <2>4 DEF MatchesUpTo
  <2> QED BY <2>5
<1> QED BY <1>2, <1>3

-----------------------------------------------------------------------------
(* The search with the tricks *)

\* A search that has found a valid ray, or nothing.
IsSearch(s, ld) ==
  /\ s = [next |-> s.next, last |-> s.last, stopped |-> s.stopped, j1 |-> s.j1, best |-> s.best]
  /\ s.j1 \in ValidRays(ld) \cup {-1}

LEMMA LookIsSearch ==
  ASSUME NEW ld, NEW p, NEW cell, NEW s, IsSearch(s, ld), NEW dir
  PROVE  IsSearch(Look(ld, p, cell, s, dir), ld)
<1> DEFINE now == IF dir = 1 THEN "up" ELSE "down"
           j == s.next[now]
           dist == distance_squared_d(p, At(ld, j))
           better == s.j1 = -1 \/ dist < s.best
           best_ == IF better THEN dist ELSE s.best
           away == (j - cell) * dir > 0
           delta == (Theta(j) - p.phi) * dir
           found == [s EXCEPT !.j1 = IF better THEN j ELSE @, !.best = best_, !.last[now] = dist]
           jump == Jump(ld, j, dir, ld.readings[j] < p.rho)
           l == Look(ld, p, cell, s, dir)
<1>1. l = IF j \notin Rays(ld) THEN [s EXCEPT !.stopped[now] = TRUE]
          ELSE IF ~ld.valid[j] THEN [s EXCEPT !.next[now] = j + dir]
          ELSE IF away /\ CannotImprove(p, delta, best_) THEN [found EXCEPT !.stopped[now] = TRUE]
          ELSE IF away THEN [found EXCEPT !.next[now] = jump]
          ELSE [found EXCEPT !.next[now] = j + dir]
  BY DEF Look
<1> SUFFICES IsSearch(l, ld)
  OBVIOUS
<1> HIDE DEF now, j, dist, better, best_, away, delta, jump, l
<1>2. ASSUME NEW a, IsSearch(a, ld), NEW k, NEW v
      PROVE  IsSearch([a EXCEPT !.stopped[k] = v], ld) /\ IsSearch([a EXCEPT !.next[k] = v], ld)
  BY <1>2 DEF IsSearch
<1>3. ASSUME j \in Rays(ld), ld.valid[j] PROVE IsSearch(found, ld)
  <2>1. PICK f : f = found
    OBVIOUS
  <2>2. f.j1 = IF better THEN j ELSE s.j1
    BY <2>1 DEF IsSearch
  <2>3. f = [next |-> f.next, last |-> f.last, stopped |-> f.stopped, j1 |-> f.j1, best |-> f.best]
    BY <2>1 DEF IsSearch
  <2>4. j \in ValidRays(ld)
    BY <1>3 DEF ValidRays
  <2>5. IsSearch(f, ld)
    BY <2>2, <2>3, <2>4 DEF IsSearch
  <2> QED BY <2>1, <2>5
<1> HIDE DEF found
<1>4. CASE j \notin Rays(ld)
  BY <1>1, <1>2, <1>4
<1>5. CASE j \in Rays(ld) /\ ~ld.valid[j]
  BY <1>1, <1>2, <1>5
<1>6. CASE j \in Rays(ld) /\ ld.valid[j]
  BY <1>1, <1>2, <1>3, <1>6
<1> QED BY <1>4, <1>5, <1>6

LEMMA LookAroundIsSearch ==
  ASSUME NEW ld, NEW p, NEW cell, NEW s, IsSearch(s, ld)
  PROVE  IsSearch(LookAround(ld, p, cell, s), ld)
BY LookIsSearch DEF LookAround

\* So is what the search ends with.
LEMMA OutwardsIsSearch ==
  ASSUME NEW ld, IsScan(ld), NEW p, NEW cell, NEW s0, IsSearch(s0, ld)
  PROVE  IsSearch(Outwards(ld, p, cell, s0), ld)
<1> DEFINE n == nrays(ld) + 2
           c == CHOOSE f : Looks(f, n, ld, p, cell, s0)
           wrong == {k \in 0 .. n : ~IsSearch(c[k], ld)}
<1>1. n \in Nat
  BY ScanRays
<1> HIDE DEF n
<1>2. Looks(c, n, ld, p, cell, s0)
  <2>1. \E f : Looks(f, n, ld, p, cell, s0)
    BY <1>1, LooksExist
  <2> QED BY <2>1, Zenon
<1>3. Outwards(ld, p, cell, s0) = c[n]
  BY DEF Outwards, Looks, n
<1> HIDE DEF c
<1>4. wrong = {}
  <2> SUFFICES ASSUME wrong # {} PROVE FALSE
    OBVIOUS
  <2>1. PICK k \in wrong : \A m \in wrong : k <= m
    <3>1. wrong \in SUBSET Nat
      BY <1>1
    <3> QED BY <3>1, LeastExists
  <2>2. c[k] = IF k = 0 THEN s0 ELSE LookAround(ld, p, cell, c[k - 1])
    <3>1. k \in 0 .. n
      OBVIOUS
    <3> QED BY <1>2, <3>1 DEF Looks
  <2>3. CASE k = 0
    BY <2>2, <2>3
  <2>4. CASE k # 0
    <3>1. k - 1 \in 0 .. n /\ ~(k <= k - 1)
      BY <1>1, <2>4
    <3>2. IsSearch(c[k - 1], ld)
      BY <2>1, <3>1
    <3> QED BY <2>2, <2>4, <3>2, LookAroundIsSearch
  <2> QED BY <2>3, <2>4
<1>5. n \in 0 .. n
  BY <1>1
<1> QED BY <1>3, <1>4, <1>5

LEMMA SmartIsCorr ==
  ASSUME NEW ld, IsScan(ld), NEW p, IsPoint(p), NEW last_best
  PROVE  IsCorr(Smart(ld, p, last_best), ld)
<1> DEFINE cell == Truncated((p.phi - MinTheta) * nrays(ld), Fov(ld))
           first == minmax(0, nrays(ld) - 1, IF last_best = -1 THEN cell ELSE last_best + 1)
           s0 == [next |-> [up |-> first + 1, down |-> first],
                     last |-> [up |-> 0, down |-> -1], stopped |-> [up |-> FALSE, down |-> FALSE],
                     j1 |-> -1, best |-> 0]
           s == Outwards(ld, p, cell, s0)
<1>1. Smart(ld, p, last_best) =
        IF s.j1 = -1 \/ s.best > 1000 * max_correspondence_dist * max_correspondence_dist THEN NoCorr
        ELSE Correspondence(ld, p, s.j1, s.best)
  BY DEF Smart
<1>2. IsSearch(s0, ld)
  <2> HIDE DEF first
  <2> QED BY DEF IsSearch
<1> HIDE DEF cell, s0
<1>3. IsSearch(s, ld)
  BY <1>2, OutwardsIsSearch
<1> HIDE DEF s
<1>4. s.j1 \in ValidRays(ld) \cup {-1}
  BY <1>3 DEF IsSearch
<1>5. IsCorr(Correspondence(ld, p, s.j1, s.best), ld)
  BY <1>4, CorrespondenceIsCorr
<1> QED BY <1>1, <1>5, NoneIsCorr

\* Points of a scan.
ArePoints(points, scan) == \A i \in Rays(scan) : IsPoint(points[i])

IsMatching(s, scan, ld) ==
  s = [corr |-> s.corr, last_best |-> s.last_best] /\ AreCorrs(s.corr, scan, ld)

LEMMA MatchNextIsMatching ==
  ASSUME NEW ld, IsScan(ld), NEW scan, NEW points, ArePoints(points, scan),
         NEW s, IsMatching(s, scan, ld), NEW i \in Rays(scan)
  PROVE  IsMatching(MatchNext(ld, scan, points, s, i), scan, ld)
<1> DEFINE c == IF scan.valid[i] THEN Smart(ld, points[i], s.last_best) ELSE NoCorr
           b == IF c.valid THEN c.j1 ELSE s.last_best
           m == MatchNext(ld, scan, points, s, i)
<1>1. IsPoint(points[i])
  BY DEF ArePoints
<1>2. IsCorr(c, ld)
  <2>1. IsCorr(Smart(ld, points[i], s.last_best), ld)
    BY <1>1, SmartIsCorr
  <2> QED BY <2>1, NoneIsCorr
<1>3. m = [corr |-> [s.corr EXCEPT ![i] = c], last_best |-> b]
  BY DEF MatchNext
<1> HIDE DEF c, b, m
<1>4. s.corr = [k \in Rays(scan) |-> s.corr[k]] /\ \A k \in Rays(scan) : IsCorr(s.corr[k], ld)
  BY DEF IsMatching, AreCorrs
<1>5. PICK r : r = [s.corr EXCEPT ![i] = c]
  OBVIOUS
<1>6. /\ r = [k \in Rays(scan) |-> r[k]]
      /\ \A k \in Rays(scan) : r[k] = IF k = i THEN c ELSE s.corr[k]
  BY <1>4, <1>5
<1>7. AreCorrs(r, scan, ld)
  <2>1. \A k \in Rays(scan) : IsCorr(r[k], ld)
    BY <1>2, <1>4, <1>6
  <2> QED BY <1>6, <2>1, Zenon DEF AreCorrs
<1>8. IsMatching(m, scan, ld)
  BY <1>3, <1>5, <1>7 DEF IsMatching
<1> QED BY <1>8 DEF m

\* What the search with the tricks finds for all rays of a scan.
LEMMA TricksAreCorrs ==
  ASSUME NEW ld, IsScan(ld), NEW scan, IsScan(scan), NEW points, ArePoints(points, scan)
  PROVE  AreCorrs(find_correspondences_tricks(ld, scan, points), scan, ld)
<1> DEFINE n == nrays(scan)
           s0 == [corr |-> [i \in Rays(scan) |-> NoCorr], last_best |-> -1]
           c == CHOOSE f : MatchesUpTo(f, n, ld, scan, points, s0)
           wrong == {k \in 0 .. n : ~IsMatching(c[k], scan, ld)}
<1>1. n \in Nat /\ Rays(scan) = 0 .. n - 1
  BY ScanRays
<1>2. IsMatching(s0, scan, ld)
  <2>1. AreCorrs([i \in Rays(scan) |-> NoCorr], scan, ld)
    BY NoneIsCorr DEF AreCorrs
  <2> QED BY <2>1 DEF IsMatching
<1> HIDE DEF n, s0
<1>3. MatchesUpTo(c, n, ld, scan, points, s0)
  <2>1. \E f : MatchesUpTo(f, n, ld, scan, points, s0)
    BY <1>1, MatchesExist
  <2> QED BY <2>1, Zenon
<1>4. find_correspondences_tricks(ld, scan, points) = c[n].corr
  BY DEF find_correspondences_tricks, MatchesUpTo, n, s0
<1> HIDE DEF c
<1>5. wrong = {}
  <2> SUFFICES ASSUME wrong # {} PROVE FALSE
    OBVIOUS
  <2>1. PICK k \in wrong : \A m \in wrong : k <= m
    <3>1. wrong \in SUBSET Nat
      BY <1>1
    <3> QED BY <3>1, LeastExists
  <2>2. c[k] = IF k = 0 THEN s0 ELSE MatchNext(ld, scan, points, c[k - 1], k - 1)
    <3>1. k \in 0 .. n
      OBVIOUS
    <3> QED BY <1>3, <3>1 DEF MatchesUpTo
  <2>3. CASE k = 0
    BY <1>2, <2>2, <2>3
  <2>4. CASE k # 0
    <3>1. k - 1 \in 0 .. n /\ ~(k <= k - 1) /\ k - 1 \in Rays(scan)
      BY <1>1, <2>4
    <3>2. IsMatching(c[k - 1], scan, ld)
      BY <2>1, <3>1
    <3> QED BY <2>2, <2>4, <3>1, <3>2, MatchNextIsMatching
  <2> QED BY <2>3, <2>4
<1>6. IsMatching(c[n], scan, ld)
  BY <1>1, <1>5
<1> QED BY <1>4, <1>6 DEF IsMatching

\* What either search finds.
LEMMA CorrespondAreCorrs ==
  ASSUME IsScan(ref), IsScan(sens), NEW x \in Int
  PROVE  AreCorrs(Correspond(x), sens, ref)
<1> DEFINE points == points_w(sens, x)
<1>1. ArePoints(points, sens)
  <2>1. ASSUME NEW i \in Rays(sens) PROVE IsPoint(points[i])
    <3>1. Theta(i) \in Int /\ sens.readings[i] \in Int
      BY RayIsPoint, ScanRays
    <3>2. NormalDeg(Theta(i) + x) \in Int
      BY <3>1 DEF NormalDeg
    <3>3. points[i] = Point(sens.readings[i], NormalDeg(Theta(i) + x))
      BY DEF points_w
    <3> QED BY <3>1, <3>2, <3>3 DEF Point, IsPoint
  <2> QED BY <2>1 DEF ArePoints
<1> HIDE DEF points
<1>2. AreCorrs(find_correspondences_tricks(ref, sens, points), sens, ref)
  BY <1>1, TricksAreCorrs
<1>3. AreCorrs(find_correspondences(params, ref, sens, points), sens, ref)
  <2>1. \A i \in Rays(sens) : IsCorr(Naive(params, ref, sens, i, points[i]), ref)
    BY <1>1, NaiveIsCorr DEF ArePoints
  <2> QED BY <2>1, NoneIsCorr DEF find_correspondences, AreCorrs
<1> QED BY <1>2, <1>3 DEF Correspond, points

\* The rays with a correspondence, of the first n.
Gathers(f, n, c) ==
  f = [i \in 0 .. n |-> IF i = 0 THEN <<>> ELSE (IF c[i - 1].valid THEN Append(f[i - 1], i - 1) ELSE f[i - 1])]

\* They exist for any number of rays.
LEMMA GathersExist ==
  ASSUME NEW c, NEW n \in Nat
  PROVE  \E f : Gathers(f, n, c)
<1> DEFINE none == {m \in Nat : ~\E f : Gathers(f, m, c)}
<1> SUFFICES ASSUME none # {} PROVE FALSE
  OBVIOUS
<1>1. PICK m \in none : \A k \in none : m <= k
  BY LeastExists
<1>2. CASE m = 0
  <2> DEFINE f == [i \in 0 .. 0 |-> <<>>]
  <2>1. Gathers(f, 0, c)
    BY DEF Gathers
  <2> QED BY <1>2, <2>1
<1>3. CASE m # 0
  <2>1. m - 1 \in Nat /\ m - 1 \notin none
    BY <1>1, <1>3
  <2>2. PICK g : Gathers(g, m - 1, c)
    BY <2>1
  <2> DEFINE f == [i \in 0 .. m |-> IF i < m THEN g[i] ELSE (IF c[m - 1].valid THEN Append(g[m - 1], m - 1) ELSE g[m - 1])]
  <2>3. ASSUME NEW i \in 0 .. m
        PROVE  f[i] = IF i = 0 THEN <<>> ELSE (IF c[i - 1].valid THEN Append(f[i - 1], i - 1) ELSE f[i - 1])
    <3>1. CASE i < m
      <4>1. i \in 0 .. m - 1 /\ f[i] = g[i] /\ (i # 0 => i - 1 \in 0 .. m /\ i - 1 < m)
        BY <2>1, <3>1
      <4>2. i # 0 => f[i - 1] = g[i - 1]
        BY <4>1
      <4>3. g[i] = IF i = 0 THEN <<>> ELSE (IF c[i - 1].valid THEN Append(g[i - 1], i - 1) ELSE g[i - 1])
        BY <2>2, <4>1 DEF Gathers
      <4> QED BY <4>1, <4>2, <4>3
    <3>2. CASE i = m
      <4>1. f[i] = (IF c[m - 1].valid THEN Append(g[m - 1], m - 1) ELSE g[m - 1]) /\ i # 0
        BY <1>3, <3>2
      <4>2. m - 1 \in 0 .. m /\ m - 1 < m
        BY <2>1
      <4>3. f[m - 1] = g[m - 1]
        BY <4>2
      <4> QED BY <3>2, <4>1, <4>3
    <3> QED BY <3>1, <3>2
  <2>4. f = [i \in 0 .. m |-> IF i = 0 THEN <<>> ELSE (IF c[i - 1].valid THEN Append(f[i - 1], i - 1) ELSE f[i - 1])]
    <3> HIDE DEF f
    <3>1. DOMAIN f = 0 .. m /\ f = [i \in 0 .. m |-> f[i]]
      BY DEF f
    <3> QED BY <2>3, <3>1
  <2>5. \E e : Gathers(e, m, c)
    <3> HIDE DEF f
    <3> QED BY <2>4 DEF Gathers
  <2> QED BY <2>5
<1> QED BY <1>2, <1>3

\* The array after each of n turns of quicksort's inner loop.
Moves(f, n, s0, pivot) ==
  f = [i \in 0 .. n |-> IF i = 0 THEN s0 ELSE Move(f[i - 1], pivot)]

\* It exists for any number of turns.
LEMMA MovesExist ==
  ASSUME NEW s0, NEW pivot, NEW n \in Nat
  PROVE  \E f : Moves(f, n, s0, pivot)
<1> DEFINE none == {m \in Nat : ~\E f : Moves(f, m, s0, pivot)}
<1> SUFFICES ASSUME none # {} PROVE FALSE
  OBVIOUS
<1>1. PICK m \in none : \A k \in none : m <= k
  BY LeastExists
<1>2. CASE m = 0
  <2> DEFINE f == [i \in 0 .. 0 |-> s0]
  <2>1. Moves(f, 0, s0, pivot)
    BY DEF Moves
  <2> QED BY <1>2, <2>1
<1>3. CASE m # 0
  <2>1. m - 1 \in Nat /\ m - 1 \notin none
    BY <1>1, <1>3
  <2>2. PICK g : Moves(g, m - 1, s0, pivot)
    BY <2>1
  <2> DEFINE f == [i \in 0 .. m |-> IF i < m THEN g[i] ELSE Move(g[m - 1], pivot)]
  <2>3. ASSUME NEW i \in 0 .. m
        PROVE  f[i] = IF i = 0 THEN s0 ELSE Move(f[i - 1], pivot)
    <3>1. CASE i < m
      <4>1. i \in 0 .. m - 1 /\ f[i] = g[i] /\ (i # 0 => i - 1 \in 0 .. m /\ i - 1 < m)
        BY <2>1, <3>1
      <4>2. i # 0 => f[i - 1] = g[i - 1]
        BY <4>1
      <4>3. g[i] = IF i = 0 THEN s0 ELSE Move(g[i - 1], pivot)
        BY <2>2, <4>1 DEF Moves
      <4> QED BY <4>1, <4>2, <4>3
    <3>2. CASE i = m
      <4>1. f[i] = Move(g[m - 1], pivot) /\ i # 0
        BY <1>3, <3>2
      <4>2. m - 1 \in 0 .. m /\ m - 1 < m
        BY <2>1
      <4>3. f[m - 1] = g[m - 1]
        BY <4>2
      <4> QED BY <3>2, <4>1, <4>3
    <3> QED BY <3>1, <3>2
  <2>4. f = [i \in 0 .. m |-> IF i = 0 THEN s0 ELSE Move(f[i - 1], pivot)]
    <3> HIDE DEF f
    <3>1. DOMAIN f = 0 .. m /\ f = [i \in 0 .. m |-> f[i]]
      BY DEF f
    <3> QED BY <2>3, <3>1
  <2>5. \E e : Moves(e, m, s0, pivot)
    <3> HIDE DEF f
    <3> QED BY <2>4 DEF Moves
  <2> QED BY <2>5
<1> QED BY <1>2, <1>3

\* What quicksort makes of segments with calls i deep.
Sorts(f, n, S) ==
  f = [i \in 0 .. n |-> IF i = 0 THEN [x \in S |-> x.array] ELSE [x \in S |-> QuicksortStep(x, f[i - 1])]]

\* It exists for any depth.
LEMMA SortsExist ==
  ASSUME NEW S, NEW n \in Nat
  PROVE  \E f : Sorts(f, n, S)
<1> DEFINE none == {m \in Nat : ~\E f : Sorts(f, m, S)}
<1> SUFFICES ASSUME none # {} PROVE FALSE
  OBVIOUS
<1>1. PICK m \in none : \A k \in none : m <= k
  BY LeastExists
<1>2. CASE m = 0
  <2> DEFINE f == [i \in 0 .. 0 |-> [x \in S |-> x.array]]
  <2>1. Sorts(f, 0, S)
    BY DEF Sorts
  <2> QED BY <1>2, <2>1
<1>3. CASE m # 0
  <2>1. m - 1 \in Nat /\ m - 1 \notin none
    BY <1>1, <1>3
  <2>2. PICK g : Sorts(g, m - 1, S)
    BY <2>1
  <2> DEFINE f == [i \in 0 .. m |-> IF i < m THEN g[i] ELSE [x \in S |-> QuicksortStep(x, g[m - 1])]]
  <2>3. ASSUME NEW i \in 0 .. m
        PROVE  f[i] = IF i = 0 THEN [x \in S |-> x.array] ELSE [x \in S |-> QuicksortStep(x, f[i - 1])]
    <3>1. CASE i < m
      <4>1. i \in 0 .. m - 1 /\ f[i] = g[i] /\ (i # 0 => i - 1 \in 0 .. m /\ i - 1 < m)
        BY <2>1, <3>1
      <4>2. i # 0 => f[i - 1] = g[i - 1]
        BY <4>1
      <4>3. g[i] = IF i = 0 THEN [x \in S |-> x.array] ELSE [x \in S |-> QuicksortStep(x, g[i - 1])]
        BY <2>2, <4>1 DEF Sorts
      <4> QED BY <4>1, <4>2, <4>3
    <3>2. CASE i = m
      <4>1. f[i] = [x \in S |-> QuicksortStep(x, g[m - 1])] /\ i # 0
        BY <1>3, <3>2
      <4>2. m - 1 \in 0 .. m /\ m - 1 < m
        BY <2>1
      <4>3. f[m - 1] = g[m - 1]
        BY <4>2
      <4> QED BY <3>2, <4>1, <4>3
    <3> QED BY <3>1, <3>2
  <2>4. f = [i \in 0 .. m |-> IF i = 0 THEN [x \in S |-> x.array] ELSE [x \in S |-> QuicksortStep(x, f[i - 1])]]
    <3> HIDE DEF f
    <3>1. DOMAIN f = 0 .. m /\ f = [i \in 0 .. m |-> f[i]]
      BY DEF f
    <3> QED BY <2>3, <3>1
  <2>5. \E e : Sorts(e, m, S)
    <3> HIDE DEF f
    <3> QED BY <2>4 DEF Sorts
  <2> QED BY <2>5
<1> QED BY <1>2, <1>3

-----------------------------------------------------------------------------
(* The hand-written quicksort *)

\* b has the elements of a, those from lo to hi in another order.
Permutes(pi, b, a, lo, hi, n) ==
  /\ pi \in [0 .. n - 1 -> 0 .. n - 1]
  /\ \A x, y \in 0 .. n - 1 : pi[x] = pi[y] => x = y
  /\ \A y \in 0 .. n - 1 : \E x \in 0 .. n - 1 : pi[x] = y
  /\ \A x \in 0 .. n - 1 : b[x] = a[pi[x]]
  /\ \A x \in 0 .. n - 1 : IF x \in lo .. hi THEN pi[x] \in lo .. hi ELSE pi[x] = x

Rearranges(b, a, lo, hi, n) == \E pi : Permutes(pi, b, a, lo, hi, n)

LEMMA SameOrder ==
  ASSUME NEW n \in Nat, NEW a, NEW lo, NEW hi
  PROVE  Rearranges(a, a, lo, hi, n)
<1> DEFINE id == [x \in 0 .. n - 1 |-> x]
<1>1. Permutes(id, a, a, lo, hi, n)
  BY DEF Permutes
<1> QED BY <1>1 DEF Rearranges

LEMMA OrderOfOrder ==
  ASSUME NEW n \in Nat, NEW a, NEW b, NEW c, NEW lo, NEW hi,
         Rearranges(b, a, lo, hi, n), Rearranges(c, b, lo, hi, n)
  PROVE  Rearranges(c, a, lo, hi, n)
<1>1. PICK pi : Permutes(pi, b, a, lo, hi, n)
  BY DEF Rearranges
<1>2. PICK si : Permutes(si, c, b, lo, hi, n)
  BY DEF Rearranges
<1> DEFINE ti == [x \in 0 .. n - 1 |-> pi[si[x]]]
<1>3. /\ pi \in [0 .. n - 1 -> 0 .. n - 1] /\ si \in [0 .. n - 1 -> 0 .. n - 1]
      /\ ti \in [0 .. n - 1 -> 0 .. n - 1] /\ \A x \in 0 .. n - 1 : ti[x] = pi[si[x]]
  BY <1>1, <1>2 DEF Permutes
<1> HIDE DEF ti
<1>4. ASSUME NEW x \in 0 .. n - 1
      PROVE  /\ c[x] = a[ti[x]] /\ \A y \in 0 .. n - 1 : ti[x] = ti[y] => x = y
             /\ IF x \in lo .. hi THEN ti[x] \in lo .. hi ELSE ti[x] = x
  <2>1. si[x] \in 0 .. n - 1 /\ \A y \in 0 .. n - 1 : si[y] \in 0 .. n - 1
    BY <1>3
  <2>2. c[x] = b[si[x]] /\ b[si[x]] = a[pi[si[x]]]
    BY <1>1, <1>2, <2>1, Zenon DEF Permutes
  <2>3. ASSUME NEW y \in 0 .. n - 1, pi[si[x]] = pi[si[y]] PROVE x = y
    <3>1. si[x] = si[y]
      BY <1>1, <2>1, <2>3, Zenon DEF Permutes
    <3> QED BY <1>2, <3>1, Zenon DEF Permutes
  <2>4. IF x \in lo .. hi THEN si[x] \in lo .. hi ELSE si[x] = x
    BY <1>2, Zenon DEF Permutes
  <2>5. IF si[x] \in lo .. hi THEN pi[si[x]] \in lo .. hi ELSE pi[si[x]] = si[x]
    BY <1>1, <2>1, Zenon DEF Permutes
  <2> QED BY <1>3, <2>2, <2>3, <2>4, <2>5
<1>5. \A y \in 0 .. n - 1 : \E x \in 0 .. n - 1 : ti[x] = y
  <2>1. ASSUME NEW y \in 0 .. n - 1 PROVE \E x \in 0 .. n - 1 : ti[x] = y
    <3>1. PICK z \in 0 .. n - 1 : pi[z] = y
      BY <1>1 DEF Permutes
    <3>2. PICK x \in 0 .. n - 1 : si[x] = z
      BY <1>2 DEF Permutes
    <3> QED BY <1>3, <3>1, <3>2
  <2> QED BY <2>1
<1>6. Permutes(ti, c, a, lo, hi, n)
  BY <1>3, <1>4, <1>5, Zenon DEF Permutes
<1> QED BY <1>6 DEF Rearranges

\* Another order of a part is one of the whole.
LEMMA OrderOfPart ==
  ASSUME NEW n \in Nat, NEW a, NEW b, NEW lo \in Int, NEW hi \in Int, NEW low \in Int, NEW high \in Int,
         low <= lo, hi <= high, Rearranges(b, a, lo, hi, n)
  PROVE  Rearranges(b, a, low, high, n)
<1>1. PICK pi : Permutes(pi, b, a, lo, hi, n)
  BY DEF Rearranges
<1>2. \A x \in lo .. hi : x \in low .. high
  OBVIOUS
<1>3. \A x \in 0 .. n - 1 : IF x \in low .. high THEN pi[x] \in low .. high ELSE pi[x] = x
  BY <1>1, <1>2 DEF Permutes
<1>4. Permutes(pi, b, a, low, high, n)
  BY <1>1, <1>3 DEF Permutes
<1> QED BY <1>4 DEF Rearranges

\* The elements of the part are the same in both, those outside of it as well.
IsReordering(b, a, lo, hi, n) ==
  /\ n \in Nat /\ a \in [0 .. n - 1 -> Int] /\ b \in [0 .. n - 1 -> Int]
  /\ lo \in Nat /\ hi \in Int /\ hi <= n - 1 /\ Rearranges(b, a, lo, hi, n)

LEMMA NoOtherElements ==
  ASSUME NEW n, NEW a, NEW b, NEW lo, NEW hi, IsReordering(b, a, lo, hi, n), NEW x \in lo .. hi
  PROVE  \E y \in lo .. hi : b[x] = a[y]
<1>1. PICK pi : Permutes(pi, b, a, lo, hi, n)
  BY DEF Rearranges, IsReordering
<1>2. x \in 0 .. n - 1
  BY DEF IsReordering
<1>3. pi[x] \in lo .. hi /\ b[x] = a[pi[x]]
  BY <1>1, <1>2 DEF Permutes
<1> QED BY <1>3

LEMMA AllElements ==
  ASSUME NEW n, NEW a, NEW b, NEW lo, NEW hi, IsReordering(b, a, lo, hi, n), NEW y \in lo .. hi
  PROVE  \E x \in lo .. hi : b[x] = a[y]
<1>1. PICK pi : Permutes(pi, b, a, lo, hi, n)
  BY DEF Rearranges, IsReordering
<1>2. y \in 0 .. n - 1
  BY DEF IsReordering
<1>3. PICK x \in 0 .. n - 1 : pi[x] = y
  BY <1>1, <1>2 DEF Permutes
<1>4. x \in lo .. hi /\ b[x] = a[y]
  BY <1>1, <1>3 DEF Permutes
<1> QED BY <1>4

LEMMA OthersStay ==
  ASSUME NEW n \in Nat, NEW a, NEW b, NEW lo, NEW hi, Rearranges(b, a, lo, hi, n),
         NEW x \in 0 .. n - 1, x \notin lo .. hi
  PROVE  b[x] = a[x]
BY DEF Rearranges, Permutes

LEMMA SwappingPermutes ==
  ASSUME NEW n \in Nat, NEW a \in [0 .. n - 1 -> Int], NEW lo \in Nat, NEW hi \in Int, hi <= n - 1,
         NEW i \in lo .. hi, NEW j \in lo .. hi, NEW b, b = Swapped(a, i, j)
  PROVE  b \in [0 .. n - 1 -> Int] /\ Rearranges(b, a, lo, hi, n)
<1> DEFINE pi == [x \in 0 .. n - 1 |-> IF x = i THEN j ELSE IF x = j THEN i ELSE x]
<1>1. i \in 0 .. n - 1 /\ j \in 0 .. n - 1
  OBVIOUS
<1>2. /\ b \in [0 .. n - 1 -> Int]
      /\ \A x \in 0 .. n - 1 : b[x] = IF x = i THEN a[j] ELSE IF x = j THEN a[i] ELSE a[x]
  BY <1>1 DEF Swapped
<1>3. /\ pi \in [0 .. n - 1 -> 0 .. n - 1]
      /\ \A x \in 0 .. n - 1 : pi[x] = IF x = i THEN j ELSE IF x = j THEN i ELSE x
  BY <1>1
<1> HIDE DEF pi
<1>4. Permutes(pi, b, a, lo, hi, n)
  <2>1. \A x, y \in 0 .. n - 1 : pi[x] = pi[y] => x = y
    BY <1>3
  <2>2. \A y \in 0 .. n - 1 : \E x \in 0 .. n - 1 : pi[x] = y
    <3>1. \A y \in 0 .. n - 1 : pi[y] \in 0 .. n - 1 /\ pi[pi[y]] = y
      BY <1>1, <1>3
    <3> QED BY <3>1
  <2>3. \A x \in 0 .. n - 1 : b[x] = a[pi[x]]
    BY <1>2, <1>3
  <2>4. \A x \in 0 .. n - 1 : IF x \in lo .. hi THEN pi[x] \in lo .. hi ELSE pi[x] = x
    BY <1>3
  <2> QED BY <1>3, <2>1, <2>2, <2>3, <2>4 DEF Permutes
<1>5. Rearranges(b, a, lo, hi, n)
  BY <1>4 DEF Rearranges
<1> QED BY <1>2, <1>5

\* The inner loop: what has been looked at is on its side of the pivot.
IsParted(s, a, pivot, lo, hi, n, left) ==
  /\ s = [array |-> s.array, l |-> s.l, r |-> s.r]
  /\ s.array \in [0 .. n - 1 -> Int] /\ Rearranges(s.array, a, lo, hi, n)
  /\ s.l \in lo .. hi + 1 /\ s.r \in lo .. hi + 1 /\ s.r - s.l = left
  /\ \A x \in lo .. hi : (x < s.l => s.array[x] < pivot) /\ (x >= s.r => s.array[x] >= pivot)

LEMMA MoveParts ==
  ASSUME NEW n \in Nat, NEW a, NEW pivot \in Int, NEW lo \in Nat, NEW hi \in Int, hi <= n - 1,
         NEW s, NEW left \in Nat \ {0}, IsParted(s, a, pivot, lo, hi, n, left)
  PROVE  IsParted(Move(s, pivot), a, pivot, lo, hi, n, left - 1)
<1>1. /\ s = [array |-> s.array, l |-> s.l, r |-> s.r]
      /\ s.array \in [0 .. n - 1 -> Int] /\ Rearranges(s.array, a, lo, hi, n)
      /\ s.l \in lo .. hi /\ s.r - 1 \in lo .. hi /\ s.l <= s.r - 1 /\ s.r - s.l = left
      /\ s.l \in Int /\ s.r \in Int
      /\ \A x \in lo .. hi : (x < s.l => s.array[x] < pivot) /\ (x >= s.r => s.array[x] >= pivot)
      /\ \A x \in lo .. hi : x \in 0 .. n - 1
  BY DEF IsParted
<1>2. PICK ar, l, r : ar = s.array /\ l = s.l /\ r = s.r
  OBVIOUS
<1> DEFINE inside == /\ l \in Int /\ r \in Int /\ left \in Int /\ r - l = left /\ lo <= l /\ l <= r - 1
                     /\ r - 1 <= hi /\ lo \in Int /\ hi \in Int
<1>3. inside
  BY <1>1, <1>2
<1>4. CASE ar[l] < pivot
  <2>1. PICK t : t = [s EXCEPT !.l = @ + 1]
    OBVIOUS
  <2>2. Move(s, pivot) = t
    BY <1>2, <1>4, <2>1 DEF Move
  <2>3. t.array = ar /\ t.l = l + 1 /\ t.r = r /\ t = [array |-> t.array, l |-> t.l, r |-> t.r]
    BY <1>1, <1>2, <2>1
  <2>4. l + 1 \in lo .. hi + 1 /\ r \in lo .. hi + 1 /\ r - (l + 1) = left - 1
    BY <1>3
  <2>5. \A x \in lo .. hi : (x < l + 1 => ar[x] < pivot) /\ (x >= r => ar[x] >= pivot)
    <3>1. ASSUME NEW x \in lo .. hi, x < l + 1 PROVE ar[x] < pivot
      <4>1. CASE x = l
        BY <1>4, <4>1
      <4>2. CASE x < l
        BY <1>1, <1>2, <4>2
      <4> QED BY <1>1, <1>2, <3>1, <4>1, <4>2
    <3> QED BY <1>1, <1>2, <3>1
  <2>6. IsParted(t, a, pivot, lo, hi, n, left - 1)
    BY <1>1, <1>2, <2>3, <2>4, <2>5 DEF IsParted
  <2> QED BY <2>2, <2>6
<1>5. CASE ~(ar[l] < pivot)
  <2>1. PICK b : b = Swapped(ar, l, r - 1)
    OBVIOUS
  <2>2. PICK t : t = [s EXCEPT !.array = Swapped(@, s.l, s.r - 1), !.r = @ - 1]
    OBVIOUS
  <2>3. Move(s, pivot) = t
    BY <1>2, <1>5, <2>2 DEF Move
  <2>4. t.array = b /\ t.l = l /\ t.r = r - 1 /\ t = [array |-> t.array, l |-> t.l, r |-> t.r]
    BY <1>1, <1>2, <2>1, <2>2
  <2>5. /\ b \in [0 .. n - 1 -> Int] /\ Rearranges(b, ar, lo, hi, n)
        /\ \A x \in 0 .. n - 1 : b[x] = IF x = l THEN ar[r - 1] ELSE IF x = r - 1 THEN ar[l] ELSE ar[x]
    <3>1. l \in lo .. hi /\ r - 1 \in lo .. hi
      BY <1>3
    <3>2. ar \in [0 .. n - 1 -> Int]
      BY <1>1, <1>2
    <3>3. PICK j : j = r - 1
      OBVIOUS
    <3>4. j \in lo .. hi /\ b = Swapped(ar, l, j)
      BY <2>1, <3>1, <3>3
    <3>5. b \in [0 .. n - 1 -> Int]
      BY <3>1, <3>2, <3>4, SwappingPermutes
    <3>6. Rearranges(b, ar, lo, hi, n)
      BY <3>1, <3>2, <3>4, SwappingPermutes
    <3>7. ASSUME NEW x \in 0 .. n - 1
          PROVE  b[x] = IF x = l THEN ar[j] ELSE IF x = j THEN ar[l] ELSE ar[x]
      BY <3>2, <3>4 DEF Swapped
    <3> QED BY <3>3, <3>5, <3>6, <3>7
  <2>6. Rearranges(b, a, lo, hi, n)
    BY <1>1, <1>2, <2>5, OrderOfOrder
  <2>7. l \in lo .. hi + 1 /\ r - 1 \in lo .. hi + 1 /\ (r - 1) - l = left - 1
    BY <1>3
  <2>8. \A x \in lo .. hi : (x < l => b[x] < pivot) /\ (x >= r - 1 => b[x] >= pivot)
    <3>1. ASSUME NEW x \in lo .. hi, x < l PROVE b[x] < pivot
      <4>1. x # l /\ x # r - 1
        BY ONLY <1>3, <3>1
      <4> QED BY <1>1, <1>2, <2>5, <3>1, <4>1
    <3>2. ASSUME NEW x \in lo .. hi, x >= r - 1 PROVE b[x] >= pivot
      <4>1. CASE x = r - 1
        <5>1. b[x] = ar[l]
          BY <1>1, <1>2, <2>5, <4>1
        <5>2. ar[l] \in Int
          BY <1>1, <1>2
        <5> QED BY <1>5, <5>1, <5>2
      <4>2. CASE x # r - 1
        <5>1. x >= r /\ x # l
          BY ONLY <1>3, <3>2, <4>2
        <5> QED BY <1>1, <1>2, <2>5, <4>2, <5>1
      <4> QED BY <4>1, <4>2
    <3> QED BY <3>1, <3>2
  <2>9. IsParted(t, a, pivot, lo, hi, n, left - 1)
    BY <1>1, <2>4, <2>5, <2>6, <2>7, <2>8 DEF IsParted
  <2> QED BY <2>3, <2>9
<1> QED BY <1>4, <1>5

LEMMA PartitionIsMoves ==
  ASSUME NEW a, NEW pivot, NEW l, NEW r
  PROVE  Partition(a, pivot, l, r) =
           (CHOOSE f : Moves(f, r - l, [array |-> a, l |-> l, r |-> r], pivot))[r - l]
BY DEF Partition, Moves

\* It ends with nothing left between the two sides.
LEMMA PartitionParts ==
  ASSUME NEW n \in Nat, NEW a \in [0 .. n - 1 -> Int], NEW pivot \in Int,
         NEW lo \in Nat, NEW hi \in Int, hi <= n - 1, lo <= hi + 1
  PROVE  IsParted(Partition(a, pivot, lo, hi + 1), a, pivot, lo, hi, n, 0)
<1> DEFINE d == hi + 1 - lo
           s0 == [array |-> a, l |-> lo, r |-> hi + 1]
           c == CHOOSE f : Moves(f, d, s0, pivot)
           wrong == {k \in 0 .. d : ~IsParted(c[k], a, pivot, lo, hi, n, d - k)}
<1>1. d \in Nat
  OBVIOUS
<1>2. IsParted(s0, a, pivot, lo, hi, n, d)
  <2>1. Rearranges(a, a, lo, hi, n)
    BY SameOrder
  <2> QED BY <2>1 DEF IsParted
<1>3. Partition(a, pivot, lo, hi + 1) = c[d]
  BY PartitionIsMoves
<1> HIDE DEF d, s0
<1>4. Moves(c, d, s0, pivot)
  <2>1. \E f : Moves(f, d, s0, pivot)
    BY <1>1, MovesExist
  <2> QED BY <2>1, Zenon
<1> HIDE DEF c
<1>5. wrong = {}
  <2> SUFFICES ASSUME wrong # {} PROVE FALSE
    OBVIOUS
  <2>1. PICK k \in wrong : \A m \in wrong : k <= m
    <3>1. wrong \in SUBSET Nat
      BY <1>1
    <3> QED BY <3>1, LeastExists
  <2>2. c[k] = IF k = 0 THEN s0 ELSE Move(c[k - 1], pivot)
    <3>1. k \in 0 .. d
      OBVIOUS
    <3> QED BY <1>4, <3>1 DEF Moves
  <2>3. CASE k = 0
    <3>1. d - k = d
      BY <1>1, <2>3
    <3> QED BY <1>2, <2>2, <2>3, <3>1
  <2>4. CASE k # 0
    <3>1. k - 1 \in 0 .. d /\ ~(k <= k - 1) /\ d - (k - 1) \in Nat \ {0} /\ (d - (k - 1)) - 1 = d - k
      BY <1>1, <2>4
    <3>2. IsParted(c[k - 1], a, pivot, lo, hi, n, d - (k - 1))
      BY <2>1, <3>1
    <3>3. IsParted(Move(c[k - 1], pivot), a, pivot, lo, hi, n, (d - (k - 1)) - 1)
      BY <3>1, <3>2, MoveParts
    <3> QED BY <2>2, <2>4, <3>1, <3>3
  <2> QED BY <2>3, <2>4
<1>6. d \in 0 .. d /\ d - d = 0
  BY <1>1
<1>7. IsParted(c[d], a, pivot, lo, hi, n, d - d)
  BY <1>5, <1>6
<1> QED BY <1>3, <1>6, <1>7

Segment(n) == [array : [0 .. n - 1 -> Int], begin : 0 .. n - 1, end : 0 .. n - 1]

\* b is a with the elements of a segment sorted.
IsSortOf(b, a, lo, hi, n) ==
  /\ b \in [0 .. n - 1 -> Int] /\ Rearranges(b, a, lo, hi, n)
  /\ \A x, y \in lo .. hi : x <= y => b[x] <= b[y]

\* Calls m deep are enough for a segment of up to m / 2 elements more than one,
\* or of half an element more when its last is the greatest.
IsDeepEnough(x, m) ==
  \/ x.end <= x.begin
  \/ 2 * (x.end - x.begin) <= m
  \/ /\ 2 * (x.end - x.begin) <= m + 1
     /\ \A y \in x.begin .. x.end : x.array[y] <= x.array[x.end]

SortsSegments(sort, m, n) ==
  \A x \in Segment(n) : IsDeepEnough(x, m) => IsSortOf(sort[x], x.array, x.begin, x.end, n)

\* A segment of one element, or none.
LEMMA NothingToSort ==
  ASSUME NEW n \in Nat, NEW a \in [0 .. n - 1 -> Int], NEW lo \in 0 .. n - 1, NEW hi \in 0 .. n - 1,
         hi <= lo
  PROVE  IsSortOf(a, a, lo, hi, n)
<1>1. \A x, y \in lo .. hi : x = y /\ x \in 0 .. n - 1
  OBVIOUS
<1>2. \A x \in 0 .. n - 1 : a[x] <= a[x]
  OBVIOUS
<1> QED BY <1>1, <1>2, SameOrder DEF IsSortOf

\* The pivot between what is less and what is not, before the recursive calls.
IsSplit(b, a, lo, l, hi, n) ==
  /\ b \in [0 .. n - 1 -> Int] /\ Rearranges(b, a, lo, hi, n) /\ l \in lo .. hi
  /\ \A x \in lo .. l : b[x] <= b[l]
  /\ \A x \in l + 1 .. hi : b[l] <= b[x]
  /\ l = hi => \E x \in lo .. hi : ~(a[x] <= a[hi])

\* p is the partition of a segment of a with two elements or more, and b what
\* comes of it when the pivot is put in its place.
IsCut(p, b, a, lo, hi, n) ==
  /\ n \in Nat /\ a \in [0 .. n - 1 -> Int] /\ lo \in 0 .. n - 1 /\ hi \in 0 .. n - 1 /\ lo < hi
  /\ p = Partition(a, a[lo], lo + 1, hi + 1) /\ b = Swapped(p.array, lo, p.l - 1)

LEMMA PartitionSplits ==
  ASSUME NEW p, NEW b, NEW a, NEW lo, NEW hi, NEW n, IsCut(p, b, a, lo, hi, n),
         NEW l, l = p.l - 1
  PROVE  IsSplit(b, a, lo, l, hi, n) /\ p.r = p.l /\ p.l \in Int
<1> n \in Nat /\ a \in [0 .. n - 1 -> Int] /\ lo \in 0 .. n - 1 /\ hi \in 0 .. n - 1 /\ lo < hi
  BY DEF IsCut
<1> p = Partition(a, a[lo], lo + 1, hi + 1) /\ b = Swapped(p.array, lo, p.l - 1)
  BY DEF IsCut
<1>1. PICK ar, pivot : ar = p.array /\ pivot = a[lo]
  OBVIOUS
<1>2. pivot \in Int
  BY <1>1
<1>3. IsParted(p, a, pivot, lo + 1, hi, n, 0)
  <2>1. lo + 1 \in Nat /\ hi \in Int /\ hi <= n - 1 /\ lo + 1 <= hi + 1
    OBVIOUS
  <2>2. PICK first : first = lo + 1
    OBVIOUS
  <2>3. IsParted(Partition(a, pivot, first, hi + 1), a, pivot, first, hi, n, 0)
    BY <1>2, <2>1, <2>2, PartitionParts
  <2> QED BY <1>1, <2>2, <2>3
<1>4. /\ ar \in [0 .. n - 1 -> Int] /\ Rearranges(ar, a, lo + 1, hi, n)
      /\ p.r = p.l /\ p.l \in Int /\ l \in lo .. hi
      /\ \A x \in lo + 1 .. hi : (x <= l => ar[x] < pivot) /\ (x > l => ar[x] >= pivot)
  BY <1>1, <1>3 DEF IsParted
<1>5. Rearranges(ar, a, lo, hi, n) /\ ar[lo] = pivot
  <2>1. PICK first : first = lo + 1 /\ first \in Nat /\ first \in Int /\ lo <= first
    OBVIOUS
  <2>2. Rearranges(ar, a, first, hi, n)
    BY <1>4, <2>1
  <2>3. Rearranges(ar, a, lo, hi, n)
    BY <2>1, <2>2, OrderOfPart
  <2>4. lo \notin first .. hi /\ hi <= n - 1 /\ hi \in Int
    BY <2>1
  <2>5. ar[lo] = a[lo]
    BY <2>2, <2>4, OthersStay
  <2> QED BY <1>1, <2>3, <2>5
<1>6. l \in lo .. hi /\ lo \in lo .. hi /\ l \in 0 .. n - 1 /\ hi <= n - 1
      /\ lo \in Nat /\ hi \in Int /\ l \in Int
  <2>1. n \in Nat /\ lo \in 0 .. n - 1 /\ hi \in 0 .. n - 1 /\ l \in lo .. hi
    BY <1>4
  <2>2. PICK h : h = n - 1 /\ h \in Int
    BY <2>1
  <2>3. lo \in 0 .. h /\ hi \in 0 .. h /\ l \in lo .. hi
    BY <2>1, <2>2
  <2>4. l \in 0 .. h /\ lo \in lo .. hi /\ hi <= h /\ lo \in Nat /\ hi \in Int /\ l \in Int
    BY ONLY <2>2, <2>3
  <2> QED BY <2>1, <2>2, <2>4
<1>7. b = Swapped(ar, lo, l)
  BY <1>1
<1>8. b \in [0 .. n - 1 -> Int] /\ Rearranges(b, ar, lo, hi, n)
  <2>1. b \in [0 .. n - 1 -> Int]
    <3>1. ar \in [0 .. n - 1 -> Int] /\ lo \in 0 .. n - 1 /\ l \in 0 .. n - 1
      BY <1>4, <1>6
    <3> QED BY ONLY <1>7, <3>1 DEF Swapped
  <2>2. Rearranges(b, ar, lo, hi, n)
    BY <1>4, <1>6, <1>7, SwappingPermutes
  <2> QED BY <2>1, <2>2
<1>9. Rearranges(b, a, lo, hi, n)
  BY <1>5, <1>8, OrderOfOrder
<1>10. \A x \in 0 .. n - 1 : b[x] = IF x = l THEN ar[lo] ELSE IF x = lo THEN ar[l] ELSE ar[x]
  <2>1. ASSUME NEW x \in 0 .. n - 1
        PROVE  b[x] = IF x = l THEN ar[lo] ELSE IF x = lo THEN ar[l] ELSE ar[x]
    BY <1>4, <1>6, <1>7 DEF Swapped
  <2> QED BY <2>1
<1>11. b[l] = pivot
  BY <1>5, <1>6, <1>10
<1>12. ASSUME NEW x \in lo .. l PROVE b[x] <= b[l]
  <2>1. x \in 0 .. n - 1 /\ x <= l
    BY <1>6
  <2>2. CASE x = l
    BY <1>2, <1>11, <2>2
  <2>3. CASE x # l /\ x = lo
    <3>1. b[x] = ar[l] /\ l \in lo + 1 .. hi
      <4>1. b[x] = ar[l]
        BY <1>10, <2>1, <2>3
      <4>2. l \in lo + 1 .. hi
        BY ONLY <1>6, <2>3
      <4> QED BY <4>1, <4>2
    <3>2. ar[l] < pivot /\ ar[l] \in Int
      BY <1>4, <1>6, <3>1
    <3> QED BY <1>2, <1>11, <3>1, <3>2
  <2>4. CASE x # l /\ x # lo
    <3>1. b[x] = ar[x] /\ x \in lo + 1 .. hi
      <4>1. b[x] = ar[x]
        BY <1>10, <2>1, <2>4
      <4>2. x \in lo + 1 .. hi
        BY ONLY <1>6, <1>12, <2>4
      <4> QED BY <4>1, <4>2
    <3>2. ar[x] < pivot /\ ar[x] \in Int
      BY <1>4, <2>1, <3>1
    <3> QED BY <1>2, <1>11, <3>1, <3>2
  <2> QED BY <2>2, <2>3, <2>4
<1>13. ASSUME NEW x \in l + 1 .. hi PROVE b[l] <= b[x]
  <2>1. x \in 0 .. n - 1 /\ x > l /\ x # l /\ x # lo /\ x \in lo + 1 .. hi
    BY ONLY <1>6, <1>13, n \in Nat
  <2>2. b[x] = ar[x]
    BY <1>10, <2>1
  <2>3. ar[x] >= pivot /\ ar[x] \in Int
    BY <1>4, <2>1
  <2> QED BY <1>2, <1>11, <2>2, <2>3
<1>14. l = hi => \E x \in lo .. hi : ~(a[x] <= a[hi])
  <2>1. ASSUME l = hi PROVE ~(a[lo] <= a[hi])
    <3>1. PICK first : first = lo + 1 /\ first \in Nat /\ hi \in first .. hi
      OBVIOUS
    <3>2. IsReordering(ar, a, first, hi, n)
      BY <1>4, <3>1 DEF IsReordering
    <3>3. PICK y : y = hi /\ y \in first .. hi
      BY <3>1
    <3>4. PICK x \in first .. hi : ar[x] = a[y]
      BY ONLY <3>2, <3>3, AllElements
    <3>5. x \in lo + 1 .. hi /\ x <= l
      BY <2>1, <3>1
    <3>6. ar[x] < pivot
      BY <1>4, <3>5
    <3>7. a[hi] \in Int
      OBVIOUS
    <3> QED BY <1>1, <1>2, <3>3, <3>4, <3>6, <3>7
  <2>2. lo \in lo .. hi
    OBVIOUS
  <2> QED BY <2>1, <2>2
<1> QED BY <1>1, <1>4, <1>6, <1>8, <1>9, <1>12, <1>13, <1>14 DEF IsSplit

\* One call, when the calls it makes are right.
LEMMA StepSorts ==
  ASSUME NEW n \in Nat, NEW m \in Nat, NEW rest, SortsSegments(rest, m, n),
         NEW x \in Segment(n), IsDeepEnough(x, m + 1)
  PROVE  IsSortOf(QuicksortStep(x, rest), x.array, x.begin, x.end, n)
<1>1. PICK a, lo, hi : a = x.array /\ lo = x.begin /\ hi = x.end
  OBVIOUS
<1>2. a \in [0 .. n - 1 -> Int] /\ lo \in 0 .. n - 1 /\ hi \in 0 .. n - 1
  BY <1>1 DEF Segment
<1> DEFINE p == Partition(a, a[lo], lo + 1, hi + 1)
           b == Swapped(p.array, lo, p.l - 1)
           c == IF p.l - 1 > lo THEN rest[[array |-> b, begin |-> lo, end |-> p.l - 1]] ELSE b
           q == QuicksortStep(x, rest)
<1>3. q = IF hi <= lo THEN a
          ELSE IF hi > p.r THEN rest[[array |-> c, begin |-> p.r, end |-> hi]] ELSE c
  BY <1>1 DEF QuicksortStep
<1> SUFFICES IsSortOf(q, a, lo, hi, n)
  BY <1>1
<1> HIDE DEF p, b, c, q
<1>4. CASE hi <= lo
  BY <1>2, <1>3, <1>4, NothingToSort
<1>5. CASE lo < hi
  <2>1. PICK l : l = p.l - 1
    OBVIOUS
  <2>2. IsSplit(b, a, lo, l, hi, n) /\ p.r = p.l /\ p.l \in Int
    <3>1. IsCut(p, b, a, lo, hi, n)
      BY <1>2, <1>5 DEF IsCut, p, b
    <3> QED BY <2>1, <3>1, PartitionSplits
  <2>3. /\ b \in [0 .. n - 1 -> Int] /\ Rearranges(b, a, lo, hi, n) /\ l \in lo .. hi
        /\ \A y \in lo .. l : b[y] <= b[l]
        /\ \A y \in l + 1 .. hi : b[l] <= b[y]
        /\ l = hi => \E y \in lo .. hi : ~(a[y] <= a[hi])
    BY <2>1, <2>2 DEF IsSplit
  <2>4. p.r = l + 1
    BY <2>1, <2>2
  <2>5. lo \in Nat /\ hi \in Int /\ l \in Nat /\ lo <= l /\ l <= hi /\ hi <= n - 1 /\ l \in 0 .. n - 1
    BY <1>2, <2>3
  <2>6. c = IF l > lo THEN rest[[array |-> b, begin |-> lo, end |-> l]] ELSE b
    BY <2>1 DEF c
  <2>7. IsSortOf(c, b, lo, l, n)
    <3>1. CASE ~(l > lo)
      BY <1>2, <2>3, <2>5, <2>6, <3>1, NothingToSort
    <3>2. CASE l > lo
      <4>1. PICK y : y = [array |-> b, begin |-> lo, end |-> l]
        OBVIOUS
      <4>2. y \in Segment(n) /\ y.array = b /\ y.begin = lo /\ y.end = l
        BY <1>2, <2>3, <2>5, <4>1 DEF Segment
      <4>3. IsDeepEnough(y, m)
        <5>1. CASE l < hi
          <6>1. 2 * (hi - lo) <= m + 2
            BY <1>1, <1>5, <2>5 DEF IsDeepEnough
          <6>2. 2 * (l - lo) <= m
            BY <2>5, <5>1, <6>1
          <6> QED BY <4>2, <6>2 DEF IsDeepEnough
        <5>2. CASE l = hi
          <6>1. 2 * (hi - lo) <= m + 1
            <7>1. ~\A v \in lo .. hi : a[v] <= a[hi]
              BY <2>3, <5>2
            <7>2. \/ hi <= lo
                  \/ 2 * (hi - lo) <= m + 1
                  \/ \A v \in lo .. hi : a[v] <= a[hi]
              BY <1>1, Zenon DEF IsDeepEnough
            <7> QED BY <1>5, <2>5, <7>1, <7>2
          <6> QED BY <2>3, <4>2, <5>2, <6>1 DEF IsDeepEnough
        <5> QED BY <2>5, <5>1, <5>2
      <4>4. IsSortOf(rest[y], b, lo, l, n)
        BY <4>2, <4>3 DEF SortsSegments
      <4> QED BY <2>6, <3>2, <4>1, <4>4
    <3> QED BY <3>1, <3>2
  <2>8. PICK r : r = l + 1 /\ r \in Nat /\ r \in Int /\ lo <= r
    BY <2>5
  <2>9. c \in [0 .. n - 1 -> Int] /\ Rearranges(c, b, lo, l, n) /\ Rearranges(c, b, lo, hi, n)
    <3>1. c \in [0 .. n - 1 -> Int] /\ Rearranges(c, b, lo, l, n)
      BY <2>7 DEF IsSortOf
    <3>2. lo \in Int /\ l \in Int /\ hi \in Int /\ lo <= lo /\ l <= hi
      BY <2>5
    <3> QED BY <3>1, <3>2, OrderOfPart
  <2>10. Rearranges(c, a, lo, hi, n)
    BY <2>3, <2>9, OrderOfOrder
  <2>11. \A y \in lo .. l : c[y] <= b[l]
    <3>1. ASSUME NEW y \in lo .. l PROVE c[y] <= b[l]
      <4>1. IsReordering(c, b, lo, l, n)
        BY <2>3, <2>5, <2>9 DEF IsReordering
      <4>2. \E w \in lo .. l : c[y] = b[w]
        BY <4>1, NoOtherElements
      <4>3. PICK w \in lo .. l : c[y] = b[w]
        BY <4>2
      <4> QED BY <2>3, <4>3
    <3> QED BY <3>1
  <2>12. \A y \in r .. hi : b[l] <= c[y]
    <3>1. ASSUME NEW y \in r .. hi PROVE b[l] <= c[y]
      <4>1. y \in 0 .. n - 1 /\ y \notin lo .. l /\ y \in l + 1 .. hi
        BY <2>5, <2>8
      <4>2. c[y] = b[y]
        BY <2>9, <4>1, OthersStay
      <4> QED BY <2>3, <4>1, <4>2
    <3> QED BY <3>1
  <2>13. IsSortOf(q, c, r, hi, n)
    <3>1. q = IF hi > r THEN rest[[array |-> c, begin |-> r, end |-> hi]] ELSE c
      BY <1>3, <1>5, <2>4, <2>5, <2>8
    <3>2. CASE ~(hi > r)
      <4>1. Rearranges(c, c, r, hi, n)
        BY SameOrder
      <4>2. \A y, z \in r .. hi : y = z /\ y \in 0 .. n - 1
        BY <2>5, <2>8, <3>2
      <4>3. \A y \in 0 .. n - 1 : c[y] <= c[y]
        BY <2>9
      <4>4. IsSortOf(c, c, r, hi, n)
        BY <2>9, <4>1, <4>2, <4>3 DEF IsSortOf
      <4> QED BY <3>1, <3>2, <4>4
    <3>3. CASE hi > r
      <4>1. PICK y : y = [array |-> c, begin |-> r, end |-> hi]
        OBVIOUS
      <4>2. y \in Segment(n) /\ y.array = c /\ y.begin = r /\ y.end = hi
        <5>1. r \in 0 .. n - 1
          BY <2>5, <2>8, <3>3
        <5> QED BY <1>2, <2>9, <4>1, <5>1 DEF Segment
      <4>3. IsDeepEnough(y, m)
        <5>1. 2 * (hi - lo) <= m + 2
          BY <1>1, <1>5, <2>5 DEF IsDeepEnough
        <5>2. 2 * (hi - r) <= m
          BY <2>5, <2>8, <5>1
        <5> QED BY <4>2, <5>2 DEF IsDeepEnough
      <4>4. IsSortOf(rest[y], c, r, hi, n)
        BY <4>2, <4>3 DEF SortsSegments
      <4> QED BY <3>1, <3>3, <4>1, <4>4
    <3> QED BY <3>2, <3>3
  <2>14. q \in [0 .. n - 1 -> Int] /\ Rearranges(q, c, r, hi, n)
    BY <2>13 DEF IsSortOf
  <2>15. Rearranges(q, a, lo, hi, n)
    <3>1. lo \in Int /\ hi \in Int /\ hi <= hi
      BY <2>5
    <3>2. Rearranges(q, c, lo, hi, n)
      BY <2>8, <2>14, <3>1, OrderOfPart
    <3> QED BY <2>10, <3>2, OrderOfOrder
  <2>16. \A y \in lo .. l : q[y] = c[y]
    <3>1. ASSUME NEW y \in lo .. l PROVE q[y] = c[y]
      <4>1. y \in 0 .. n - 1 /\ y \notin r .. hi
        BY <2>5, <2>8
      <4> QED BY <2>14, <4>1, OthersStay
    <3> QED BY <3>1
  <2>17. \A y \in r .. hi : b[l] <= q[y]
    <3>1. ASSUME NEW y \in r .. hi PROVE b[l] <= q[y]
      <4>1. \E w \in r .. hi : q[y] = c[w]
        <5>1. IsReordering(q, c, r, hi, n)
          BY <2>5, <2>8, <2>9, <2>14 DEF IsReordering
        <5> QED BY <5>1, NoOtherElements
      <4>2. PICK w \in r .. hi : q[y] = c[w]
        BY <4>1
      <4> QED BY <2>12, <4>2
    <3> QED BY <3>1
  <2>18. ASSUME NEW y \in lo .. hi, NEW z \in lo .. hi, y <= z PROVE q[y] <= q[z]
    <3>1. CASE z <= l
      <4>1. y \in lo .. l /\ z \in lo .. l
        BY <2>5, <2>18, <3>1
      <4>2. c[y] <= c[z]
        BY <2>7, <2>18, <4>1 DEF IsSortOf
      <4> QED BY <2>16, <4>1, <4>2
    <3>2. CASE y > l
      <4>1. y \in r .. hi /\ z \in r .. hi
        BY <2>5, <2>8, <2>18, <3>2
      <4> QED BY <2>13, <2>18, <4>1 DEF IsSortOf
    <3>3. CASE y <= l /\ z > l
      <4>1. y \in lo .. l /\ z \in r .. hi /\ y \in 0 .. n - 1 /\ z \in 0 .. n - 1
        BY <2>5, <2>8, <3>3
      <4>2. q[y] <= b[l] /\ b[l] <= q[z]
        BY <2>11, <2>16, <2>17, <4>1
      <4>3. q[y] \in Int /\ q[z] \in Int /\ b[l] \in Int
        BY <2>3, <2>5, <2>14, <4>1
      <4> QED BY <4>2, <4>3
    <3> QED BY <2>5, <3>1, <3>2, <3>3
  <2> QED BY <2>14, <2>15, <2>18 DEF IsSortOf
<1> QED BY <1>2, <1>4, <1>5
\* quicksort sorts, for arrays of any length.
LEMMA QuicksortSorts ==
  ASSUME NEW n \in Nat \ {0}, NEW a \in [0 .. n - 1 -> Int]
  PROVE  IsSortOf(quicksort(a, n), a, 0, n - 1, n)
<1> DEFINE c == CHOOSE f : Sorts(f, 2 * n, Segment(n))
           wrong == {m \in 0 .. 2 * n : ~SortsSegments(c[m], m, n)}
           x == [array |-> a, begin |-> 0, end |-> n - 1]
<1>1. 2 * n \in Nat
  OBVIOUS
<1>2. Sorts(c, 2 * n, Segment(n))
  <2>1. \E f : Sorts(f, 2 * n, Segment(n))
    BY <1>1, SortsExist
  <2> QED BY <2>1, Zenon
<1>3. quicksort(a, n) = c[2 * n][x]
  BY DEF quicksort, Sorts, Segment
<1> HIDE DEF c
<1>4. wrong = {}
  <2> SUFFICES ASSUME wrong # {} PROVE FALSE
    OBVIOUS
  <2>1. PICK m \in wrong : \A k \in wrong : m <= k
    <3>1. wrong \in SUBSET Nat
      BY <1>1
    <3> QED BY <3>1, LeastExists
  <2>2. c[m] = IF m = 0 THEN [y \in Segment(n) |-> y.array]
               ELSE [y \in Segment(n) |-> QuicksortStep(y, c[m - 1])]
    <3>1. m \in 0 .. 2 * n
      OBVIOUS
    <3> QED BY <1>2, <3>1 DEF Sorts
  <2>3. CASE m = 0
    <3>1. ASSUME NEW y \in Segment(n), IsDeepEnough(y, m)
          PROVE  IsSortOf(c[m][y], y.array, y.begin, y.end, n)
      <4>1. y.array \in [0 .. n - 1 -> Int] /\ y.begin \in 0 .. n - 1 /\ y.end \in 0 .. n - 1
        BY DEF Segment
      <4>2. y.end <= y.begin
        <5>1. PICK u, v : u = y.begin /\ v = y.end
          OBVIOUS
        <5>2. u \in Nat /\ v \in Nat /\ (v <= u \/ 2 * (v - u) <= 0 \/ 2 * (v - u) <= 1)
          BY <2>3, <3>1, <4>1, <5>1 DEF IsDeepEnough
        <5>3. v <= u
          BY <5>2
        <5> QED BY <5>1, <5>3
      <4>3. c[m][y] = y.array
        BY <2>2, <2>3
      <4> QED BY <4>1, <4>2, <4>3, NothingToSort
    <3> QED BY <3>1 DEF SortsSegments
  <2>4. CASE m # 0
    <3>1. m - 1 \in Nat /\ m - 1 \in 0 .. 2 * n /\ ~(m <= m - 1) /\ (m - 1) + 1 = m
      BY <1>1, <2>4
    <3>2. SortsSegments(c[m - 1], m - 1, n)
      BY <2>1, <3>1
    <3>3. ASSUME NEW y \in Segment(n), IsDeepEnough(y, m)
          PROVE  IsSortOf(c[m][y], y.array, y.begin, y.end, n)
      <4>1. IsSortOf(QuicksortStep(y, c[m - 1]), y.array, y.begin, y.end, n)
        <5>1. PICK k : k = m - 1
          OBVIOUS
        <5>2. k \in Nat /\ SortsSegments(c[k], k, n) /\ IsDeepEnough(y, k + 1)
          BY <3>1, <3>2, <3>3, <5>1
        <5>3. IsSortOf(QuicksortStep(y, c[k]), y.array, y.begin, y.end, n)
          BY <5>2, StepSorts
        <5> QED BY <5>1, <5>3
      <4> QED BY <2>2, <2>4, <4>1
    <3> QED BY <3>3 DEF SortsSegments
  <2> QED BY <2>3, <2>4
<1>5. SortsSegments(c[2 * n], 2 * n, n)
  <2>1. 2 * n \in 0 .. 2 * n
    OBVIOUS
  <2> QED BY <1>4, <2>1
<1>6. x \in Segment(n) /\ x.array = a /\ x.begin = 0 /\ x.end = n - 1
  BY DEF Segment
<1>7. IsDeepEnough(x, 2 * n)
  BY <1>6 DEF IsDeepEnough
<1> HIDE DEF x
<1>8. IsSortOf(c[2 * n][x], a, 0, n - 1, n)
  BY <1>5, <1>6, <1>7 DEF SortsSegments
<1> QED BY <1>3, <1>8

\* The rays with a correspondence, in some order, each once.
IsGathered(m, c, n) ==
  /\ m \in Seq(Nat)
  /\ \A i \in 1 .. Len(m) : m[i] \in 0 .. n - 1 /\ c[m[i]].valid
  /\ \A i, j \in 1 .. Len(m) : m[i] = m[j] => i = j
  /\ \A x \in 0 .. n - 1 : c[x].valid => \E i \in 1 .. Len(m) : m[i] = x

LEMMA GatherOne ==
  ASSUME NEW c, NEW k \in Nat, NEW m, IsGathered(m, c, k)
  PROVE  IsGathered(IF c[k].valid THEN Append(m, k) ELSE m, c, k + 1)
<1>1. /\ m \in Seq(Nat) /\ Len(m) \in Nat
      /\ \A i \in 1 .. Len(m) : m[i] \in 0 .. k - 1 /\ c[m[i]].valid
      /\ \A i, j \in 1 .. Len(m) : m[i] = m[j] => i = j
      /\ \A x \in 0 .. k - 1 : c[x].valid => \E i \in 1 .. Len(m) : m[i] = x
  BY DEF IsGathered
<1>2. \A x \in 0 .. k : x = k \/ x \in 0 .. k - 1
  OBVIOUS
<1>3. CASE ~c[k].valid
  <2>1. \A i \in 1 .. Len(m) : m[i] \in 0 .. (k + 1) - 1
    BY <1>1
  <2>2. \A x \in 0 .. (k + 1) - 1 : c[x].valid => \E i \in 1 .. Len(m) : m[i] = x
    BY <1>1, <1>2, <1>3
  <2> QED BY <1>1, <1>3, <2>1, <2>2 DEF IsGathered
<1>4. CASE c[k].valid
  <2>1. PICK a, l : a = Append(m, k) /\ l = Len(m)
    OBVIOUS
  <2>2. /\ a \in Seq(Nat) /\ Len(a) = l + 1 /\ l \in Nat /\ a[l + 1] = k
        /\ \A i \in 1 .. l : a[i] = m[i]
    BY <1>1, <2>1
  <2>3. \A i \in 1 .. l + 1 : i = l + 1 \/ i \in 1 .. l
    BY <2>2
  <2>4. \A i \in 1 .. l + 1 : a[i] \in 0 .. k /\ c[a[i]].valid
    BY <1>1, <1>4, <2>1, <2>2, <2>3
  <2>5. ASSUME NEW i \in 1 .. l + 1, NEW j \in 1 .. l + 1, a[i] = a[j] PROVE i = j
    <3>1. \A h \in 1 .. l : a[h] = m[h] /\ m[h] # k
      BY <1>1, <2>1, <2>2
    <3> QED BY <1>1, <2>1, <2>2, <2>3, <2>5, <3>1
  <2>6. ASSUME NEW x \in 0 .. k, c[x].valid PROVE \E i \in 1 .. l + 1 : a[i] = x
    <3>1. CASE x = k
      <4>1. l + 1 \in 1 .. l + 1
        BY <2>2
      <4> QED BY <2>2, <3>1, <4>1
    <3>2. CASE x \in 0 .. k - 1
      <4>1. PICK i \in 1 .. l : m[i] = x
        BY <1>1, <2>1, <2>6, <3>2
      <4>2. i \in 1 .. l + 1 /\ a[i] = x
        BY <2>2, <4>1
      <4> QED BY <4>2
    <3> QED BY <1>2, <3>1, <3>2
  <2>7. (k + 1) - 1 = k
    OBVIOUS
  <2>8. IsGathered(a, c, k + 1)
    BY <2>2, <2>4, <2>5, <2>6, <2>7 DEF IsGathered
  <2> QED BY <1>4, <2>1, <2>8
<1> QED BY <1>3, <1>4

LEMMA GatherAll ==
  ASSUME NEW c, NEW n \in Nat, NEW f, Gathers(f, n, c)
  PROVE  IsGathered(f[n], c, n)
<1> DEFINE wrong == {k \in 0 .. n : ~IsGathered(f[k], c, k)}
<1>1. wrong = {}
  <2> SUFFICES ASSUME wrong # {} PROVE FALSE
    OBVIOUS
  <2>1. PICK k \in wrong : \A m \in wrong : k <= m
    <3>1. wrong \in SUBSET Nat
      OBVIOUS
    <3> QED BY <3>1, LeastExists
  <2>2. f[k] = IF k = 0 THEN <<>> ELSE (IF c[k - 1].valid THEN Append(f[k - 1], k - 1) ELSE f[k - 1])
    <3>1. k \in 0 .. n
      OBVIOUS
    <3> QED BY <3>1 DEF Gathers
  <2>3. CASE k = 0
    <3>1. IsGathered(<<>>, c, 0)
      BY DEF IsGathered
    <3> QED BY <2>2, <2>3, <3>1
  <2>4. CASE k # 0
    <3>1. PICK h : h = k - 1 /\ h \in Nat /\ h \in 0 .. n /\ ~(k <= h) /\ k = h + 1
      BY <2>4
    <3>2. IsGathered(f[h], c, h)
      BY <2>1, <3>1
    <3>3. IsGathered(IF c[h].valid THEN Append(f[h], h) ELSE f[h], c, h + 1)
      BY <3>1, <3>2, GatherOne
    <3> QED BY <2>2, <2>4, <3>1, <3>3
  <2> QED BY <2>3, <2>4
<1>2. n \in 0 .. n
  OBVIOUS
<1> QED BY <1>1, <1>2

-----------------------------------------------------------------------------
(* Trimming *)

LEMMA MaxOfTwo ==
  ASSUME NEW a \in Int, NEW b \in Int
  PROVE  Max({a, b}) = IF a >= b THEN a ELSE b
BY DEF Max

\* Where a percentile is in a sorted array: a share of its elements is not after it.
LEMMA RankOfShare ==
  ASSUME NEW k \in Nat \ {0}, NEW percent \in 0 .. 100, NEW share \in 0 .. percent,
         NEW q, q = minmax(0, k - 1, (k * percent) \div 100)
  PROVE  q \in 0 .. k - 1 /\ 100 * (q + 1) >= share * k
<1>1. PICK d : d = (k * percent) \div 100
  OBVIOUS
<1>2. PICK kp, ks : kp = k * percent /\ ks = share * k
  OBVIOUS
<1>3. kp \in Nat /\ ks \in Nat /\ ks <= kp /\ kp <= 100 * k
  <2>1. \A a, b, e \in Nat : a <= b => a * e <= b * e
    OBVIOUS
  <2>2. k * percent = percent * k /\ percent * k \in Nat /\ share * k \in Nat /\ k \in Nat
    OBVIOUS
  <2>3. share \in Nat /\ percent \in Nat /\ share <= percent /\ percent <= 100 /\ 100 \in Nat
    OBVIOUS
  <2>4. share * k <= percent * k
    BY <2>1, <2>2, <2>3
  <2>5. percent * k <= 100 * k
    BY <2>1, <2>2, <2>3
  <2> QED BY <1>2, <2>2, <2>4, <2>5
<1>4. d \in Nat /\ 100 * (d + 1) >= kp
  <2>1. d = kp \div 100
    BY <1>1, <1>2
  <2> QED BY <1>3, <2>1
<1>5. q = IF d <= k - 1 THEN d ELSE k - 1
  <2>1. Min({d, k - 1}) = IF d <= k - 1 THEN d ELSE k - 1
    BY <1>4, MinOfTwo
  <2>2. PICK l : l = Min({d, k - 1})
    OBVIOUS
  <2>3. l \in Nat
    BY <1>4, <2>1, <2>2
  <2>4. Max({l, 0}) = l
    BY <2>3, MaxOfTwo
  <2> QED BY <1>1, <2>1, <2>2, <2>4 DEF minmax
<1>6. CASE d <= k - 1
  <2>1. q = d
    BY <1>5, <1>6
  <2> QED BY <1>2, <1>3, <1>4, <1>6, <2>1
<1>7. CASE ~(d <= k - 1)
  <2>1. q = k - 1
    BY <1>5, <1>7
  <2> QED BY <1>2, <1>3, <2>1
<1> QED BY <1>6, <1>7

\* Their errors, in that order.
ErrorsOf(m, c) == [h \in 0 .. Len(m) - 1 |-> c[m[h + 1]].dist]

\* s are the errors a of the k gathered correspondences, sorted.
AreRanked(s, a, k, m, c, n) ==
  /\ DOMAIN c = 0 .. n - 1 /\ IsFiniteSet(ValidCorr(c)) /\ IsGathered(m, c, n)
  /\ k \in Nat \ {0} /\ k = Len(m) /\ a \in [0 .. k - 1 -> Int] /\ a = ErrorsOf(m, c)
  /\ IsSortOf(s, a, 0, k - 1, k)

Within(c, limit) == {i \in ValidCorr(c) : c[i].dist <= limit}

\* Of errors that are sorted, those up to the one at o are at least o + 1.
LEMMA UpToRank ==
  ASSUME NEW s, NEW a, NEW k, NEW m, NEW c, NEW n, AreRanked(s, a, k, m, c, n),
         NEW o \in 0 .. k - 1, NEW limit \in Int, s[o] <= limit
  PROVE  o + 1 <= Cardinality(Within(c, limit))
<1> DEFINE kept == Within(c, limit)
<1> USE DEF AreRanked
<1>1. PICK all : all = ValidCorr(c)
  OBVIOUS
<1>2. /\ a = [h \in 0 .. k - 1 |-> c[m[h + 1]].dist]
      /\ all = {i \in 0 .. n - 1 : c[i].valid} /\ IsFiniteSet(all)
      /\ kept = {i \in all : c[i].dist <= limit}
  BY <1>1 DEF ErrorsOf, ValidCorr, Within
<1> HIDE DEF kept
<1>3. /\ \A i \in 1 .. k : m[i] \in all
      /\ \A i, j \in 1 .. k : m[i] = m[j] => i = j
  BY <1>2 DEF IsGathered
<1>4. PICK pi : Permutes(pi, s, a, 0, k - 1, k)
  BY DEF IsSortOf, Rearranges
<1> DEFINE f == [x \in 0 .. o |-> m[pi[x] + 1]]
<1>5. ASSUME NEW x \in 0 .. o PROVE f[x] \in kept
  <2>1. x \in 0 .. k - 1 /\ o \in 0 .. k - 1 /\ x <= o
    OBVIOUS
  <2>2. pi[x] \in 0 .. k - 1 /\ s[x] = a[pi[x]]
    BY <1>4, <2>1 DEF Permutes
  <2>3. a[pi[x]] = c[m[pi[x] + 1]].dist /\ pi[x] + 1 \in 1 .. k
    BY <1>2, <2>2
  <2>4. s[x] <= s[o] /\ s[x] \in Int /\ s[o] \in Int
    BY <2>1 DEF IsSortOf
  <2>5. s[x] <= limit
    BY <2>4
  <2> QED BY <1>2, <1>3, <2>2, <2>3, <2>5
<1>6. ASSUME NEW x \in 0 .. o, NEW y \in 0 .. o, f[x] = f[y] PROVE x = y
  <2>1. x \in 0 .. k - 1 /\ y \in 0 .. k - 1
    OBVIOUS
  <2>2. pi[x] \in 0 .. k - 1 /\ pi[y] \in 0 .. k - 1
    BY <1>4, <2>1 DEF Permutes
  <2>3. m[pi[x] + 1] = m[pi[y] + 1]
    BY <1>6
  <2>4. PICK v \in 0 .. k - 1, w \in 0 .. k - 1 : v = pi[x] /\ w = pi[y]
    BY <2>2
  <2>5. v + 1 \in 1 .. k /\ w + 1 \in 1 .. k /\ v \in Int /\ w \in Int
    <3>1. k \in Nat
      BY DEF AreRanked
    <3> QED BY ONLY <3>1, v \in 0 .. k - 1, w \in 0 .. k - 1
  <2>6. v + 1 = w + 1
    BY <1>3, <2>3, <2>4, <2>5
  <2>7. pi[x] = pi[y]
    BY <2>4, <2>5, <2>6
  <2> QED BY <1>4, <2>1, <2>7 DEF Permutes
<1>7. f \in Injection(0 .. o, kept)
  <2>1. f \in [0 .. o -> kept]
    <3>1. \A x \in 0 .. o : m[pi[x] + 1] \in kept
      BY <1>5
    <3> QED BY <3>1
  <2> HIDE DEF f
  <2> QED BY <1>6, <2>1 DEF Injection, IsInjective
<1> HIDE DEF f
<1>8. IsFiniteSet(kept)
  <2>1. kept \in SUBSET all
    BY <1>2
  <2> QED BY <1>2, <2>1, FS_Subset
<1>9. Cardinality(0 .. o) <= Cardinality(kept)
  BY <1>7, <1>8, FS_Injection
<1>10. Cardinality(0 .. o) = o + 1
  <2>1. 0 \in Int /\ o \in Int /\ o >= 0
    OBVIOUS
  <2>2. Cardinality(0 .. o) = IF 0 > o THEN 0 ELSE o - 0 + 1
    BY <2>1, FS_Interval
  <2> QED BY <2>1, <2>2
<1> QED BY <1>9, <1>10 DEF kept

LEMMA AllAreGathered ==
  ASSUME NEW c, NEW n, DOMAIN c = 0 .. n - 1,
         NEW m, IsGathered(m, c, n), NEW k \in Nat \ {0}, k = Len(m)
  PROVE  Cardinality(ValidCorr(c)) <= k
<1>1. PICK all : all = ValidCorr(c)
  OBVIOUS
<1>2. all = {i \in 0 .. n - 1 : c[i].valid}
  BY <1>1 DEF ValidCorr
<1>3. /\ \A i \in 1 .. k : m[i] \in all
      /\ \A x \in all : \E i \in 1 .. k : m[i] = x
  BY <1>2 DEF IsGathered
<1> DEFINE g == [i \in 1 .. k |-> m[i]]
<1>4. g \in Surjection(1 .. k, all)
  <2>1. g \in [1 .. k -> all]
    BY <1>3
  <2>2. \A x \in all : \E i \in 1 .. k : g[i] = x
    BY <1>3
  <2> HIDE DEF g
  <2> QED BY <2>1, <2>2 DEF Surjection
<1> HIDE DEF g
<1>5. IsFiniteSet(1 .. k) /\ Cardinality(1 .. k) = k
  <2>1. 1 \in Int /\ k \in Int /\ k >= 1
    OBVIOUS
  <2>2. IsFiniteSet(1 .. k) /\ Cardinality(1 .. k) = IF 1 > k THEN 0 ELSE k - 1 + 1
    BY <2>1, FS_Interval
  <2> QED BY <2>1, <2>2
<1>6. Cardinality(all) <= Cardinality(1 .. k)
  BY <1>4, <1>5, FS_Surjection
<1> QED BY <1>1, <1>5, <1>6

\* The error that is allowed lets a share of all stay, the smaller one of the two.
LEMMA LimitLeavesShare ==
  ASSUME NEW c, NEW n \in Nat, DOMAIN c = 0 .. n - 1,
         \A i \in 0 .. n - 1 : c[i].valid \in BOOLEAN /\ (c[i].valid => c[i].dist \in Nat),
         ValidCorr(c) # {}
  PROVE  LET share == Min({outliers_maxPerc, outliers_adaptive_order})
             kept == {i \in ValidCorr(c) : c[i].dist <= ErrorLimit(c)}
         IN  /\ ErrorLimit(c) \in Int
             /\ 100 * Cardinality(kept) >= share * Cardinality(ValidCorr(c))
<1> DEFINE all == ValidCorr(c)
           nrays_ == Cardinality(DOMAIN c)
           g == CHOOSE f : Gathers(f, nrays_, c)
           m == g[nrays_]
           k == Len(m)
           a == ErrorsOf(m, c)
           s == quicksort(a, k)
           q1 == minmax(0, k - 1, (k * outliers_maxPerc) \div 100)
           q2 == minmax(0, k - 1, (k * outliers_adaptive_order) \div 100)
           limit1 == s[q1]
           limit2 == outliers_adaptive_mult * s[q2]
           limit == ErrorLimit(c)
           share == Min({outliers_maxPerc, outliers_adaptive_order})
           kept == {i \in all : c[i].dist <= limit}
<1>1. nrays_ = n
  <2>1. 0 \in Int /\ n - 1 \in Int
    OBVIOUS
  <2>2. Cardinality(0 .. n - 1) = IF 0 > n - 1 THEN 0 ELSE n - 1 - 0 + 1
    BY <2>1, FS_Interval
  <2> QED BY <2>2
<1>2. limit = Min({limit1, limit2})
  BY Zenon DEF ErrorLimit, ErrorsOf, Percentile, Gathers
<1>3. all = {i \in 0 .. n - 1 : c[i].valid} /\ IsFiniteSet(all)
  <2>1. all = {i \in 0 .. n - 1 : c[i].valid}
    BY DEF ValidCorr
  <2>2. 0 \in Int /\ n - 1 \in Int
    OBVIOUS
  <2>3. IsFiniteSet(0 .. n - 1)
    BY <2>2, FS_Interval
  <2>4. all \in SUBSET (0 .. n - 1)
    BY <2>1
  <2> QED BY <2>1, <2>3, <2>4, FS_Subset
<1>4. IsGathered(m, c, n)
  <2> HIDE DEF nrays_
  <2>1. \E f : Gathers(f, nrays_, c)
    BY <1>1, GathersExist
  <2>2. Gathers(g, nrays_, c)
    BY <2>1, Zenon
  <2> HIDE DEF g
  <2>3. IsGathered(g[nrays_], c, nrays_)
    BY <1>1, <2>2, GatherAll
  <2> QED BY <1>1, <2>3
<1> HIDE DEF m
<1>5. k \in Nat \ {0}
  <2>1. PICK i \in 0 .. n - 1 : c[i].valid
    BY <1>3
  <2>2. PICK j \in 1 .. Len(m) : m[j] = i
    BY <1>4, <2>1 DEF IsGathered
  <2>3. m \in Seq(Nat)
    BY <1>4 DEF IsGathered
  <2> QED BY <2>2, <2>3
<1>6. a \in [0 .. k - 1 -> Int] /\ \A h \in 0 .. k - 1 : a[h] \in Nat
  <2>1. ASSUME NEW h \in 0 .. k - 1 PROVE c[m[h + 1]].dist \in Nat
    <3>1. h + 1 \in 1 .. Len(m)
      BY <1>5
    <3>2. m[h + 1] \in 0 .. n - 1 /\ c[m[h + 1]].valid
      BY <1>4, <3>1 DEF IsGathered
    <3> QED BY <3>2
  <2>2. a = [h \in 0 .. k - 1 |-> c[m[h + 1]].dist]
    BY DEF ErrorsOf
  <2> HIDE DEF a, k
  <2>3. a \in [0 .. k - 1 -> Nat]
    BY <2>1, <2>2
  <2> QED BY <2>3
<1> HIDE DEF k, a
<1>7. IsSortOf(s, a, 0, k - 1, k)
  BY <1>5, <1>6, QuicksortSorts
<1> HIDE DEF s
<1>8. \A h \in 0 .. k - 1 : s[h] \in Nat
  <2>1. PICK pi : Permutes(pi, s, a, 0, k - 1, k)
    BY <1>7 DEF IsSortOf, Rearranges
  <2>2. ASSUME NEW h \in 0 .. k - 1 PROVE s[h] \in Nat
    <3>1. pi[h] \in 0 .. k - 1 /\ s[h] = a[pi[h]]
      BY <2>1 DEF Permutes
    <3> QED BY <1>6, <3>1
  <2> QED BY <2>2
<1>9. /\ outliers_maxPerc \in 0 .. 100 /\ outliers_adaptive_order \in 0 .. 100
      /\ outliers_adaptive_mult \in Nat \ {0}
  BY CorrespondencesAssumption
<1>10. share \in 0 .. outliers_maxPerc /\ share \in 0 .. outliers_adaptive_order /\ share \in Nat
  <2>1. share = IF outliers_maxPerc <= outliers_adaptive_order THEN outliers_maxPerc ELSE outliers_adaptive_order
    <3>1. outliers_maxPerc \in Int /\ outliers_adaptive_order \in Int
      BY <1>9
    <3> QED BY <3>1, MinOfTwo
  <2> HIDE DEF share
  <2> QED BY <1>9, <2>1
<1> HIDE DEF share
<1>11. q1 \in 0 .. k - 1 /\ 100 * (q1 + 1) >= share * k
  BY <1>5, <1>9, <1>10, RankOfShare
<1>12. q2 \in 0 .. k - 1 /\ 100 * (q2 + 1) >= share * k
  BY <1>5, <1>9, <1>10, RankOfShare
<1> HIDE DEF q1, q2
<1>13. limit1 \in Nat /\ s[q2] \in Nat /\ limit2 \in Nat /\ s[q2] <= limit2
  <2>1. limit1 \in Nat /\ s[q2] \in Nat
    BY <1>8, <1>11, <1>12
  <2>2. \A x \in Nat, y \in Nat \ {0} : y * x \in Nat /\ x <= y * x
    <3>1. ASSUME NEW x \in Nat, NEW y \in Nat \ {0} PROVE y * x \in Nat /\ x <= y * x
      <4>1. PICK z \in Nat : y = z + 1
        <5>1. y - 1 \in Nat /\ y = (y - 1) + 1
          OBVIOUS
        <5> QED BY <5>1
      <4>2. y * x = z * x + x /\ z * x \in Nat
        BY <4>1
      <4> QED BY <4>2
    <3> QED BY <3>1
  <2> QED BY <1>9, <2>1, <2>2
<1> HIDE DEF limit1, limit2
<1>14. limit \in Nat /\ (limit = limit1 \/ limit = limit2) /\ limit <= limit1 /\ limit <= limit2
  <2>1. limit = IF limit1 <= limit2 THEN limit1 ELSE limit2
    BY <1>2, <1>13, MinOfTwo
  <2> HIDE DEF limit
  <2> QED BY <1>13, <2>1
<1> HIDE DEF limit
\* The first of the two percentiles is within the limit.
<1>15. PICK o \in 0 .. k - 1 : s[o] <= limit /\ 100 * (o + 1) >= share * k
  <2>1. ASSUME NEW x \in 0 .. k - 1, NEW y \in 0 .. k - 1, x <= y PROVE s[x] <= s[y]
    BY <1>7, <2>1 DEF IsSortOf
  <2>2. CASE limit = limit1
    BY <1>11, <1>13, <2>2 DEF limit1
  <2>3. CASE limit = limit2
    BY <1>12, <1>13, <2>3
  <2> QED BY <1>14, <2>2, <2>3
<1>16. o + 1 <= Cardinality(kept) /\ Cardinality(all) <= k
  <2>1. k = Len(m) /\ a = ErrorsOf(m, c) /\ all = ValidCorr(c)
    BY DEF k, a
  <2>2. limit \in Int /\ s[o] <= limit
    BY <1>14, <1>15
  <2>3. kept = Within(c, limit)
    BY DEF Within
  <2> HIDE DEF kept
  <2>4. o + 1 <= Cardinality(kept)
    <3>1. DOMAIN c = 0 .. n - 1 /\ IsFiniteSet(ValidCorr(c)) /\ IsGathered(m, c, n)
      BY <1>3, <1>4
    <3>2. k \in Nat \ {0} /\ k = Len(m) /\ a \in [0 .. k - 1 -> Int] /\ a = ErrorsOf(m, c)
      BY <1>5, <1>6, <2>1
    <3>3. AreRanked(s, a, k, m, c, n)
      BY <1>7, <3>1, <3>2 DEF AreRanked
    <3>4. o + 1 <= Cardinality(Within(c, limit))
      BY ONLY <3>3, <2>2, o \in 0 .. k - 1, UpToRank
    <3> QED BY <2>3, <3>4
  <2>5. Cardinality(ValidCorr(c)) <= k
    BY <1>4, <1>5, <2>1, AllAreGathered
  <2> QED BY <2>4, <2>5
<1>17. Cardinality(all) \in Nat /\ Cardinality(kept) \in Nat
  <2>1. kept \in SUBSET all
    OBVIOUS
  <2>2. IsFiniteSet(kept)
    BY <1>3, <2>1, FS_Subset
  <2> QED BY <1>3, <2>2, FS_CardinalityType
<1>18. 100 * Cardinality(kept) >= share * Cardinality(all)
  <2>1. PICK x, y : x = Cardinality(kept) /\ y = Cardinality(all)
    OBVIOUS
  <2>2. x \in Nat /\ y \in Nat /\ o + 1 <= x /\ y <= k /\ k \in Nat /\ o \in Nat
    BY <1>5, <1>16, <1>17, <2>1
  <2>3. \A u, v, w \in Nat : u <= v => w * u <= w * v
    OBVIOUS
  <2>4. share * y <= share * k
    BY <1>10, <2>2, <2>3
  <2>5. share * y \in Nat /\ share * k \in Nat
    BY <1>10, <2>2
  <2>6. 100 * (o + 1) <= 100 * x
    BY <2>2
  <2>7. 100 * x >= share * y
    BY <1>15, <2>2, <2>4, <2>5, <2>6
  <2> QED BY <2>1, <2>7
<1> QED BY <1>14, <1>18 DEF share, limit

\* Outliers are dropped, and nothing else becomes of a correspondence.
LEMMA DoublesAreCorrs ==
  ASSUME NEW c, NEW scan, NEW ld, AreCorrs(c, scan, ld), NEW d, d = kill_outliers_double(c)
  PROVE  AreCorrs(d, scan, ld) /\ \A i \in Rays(scan) : d[i].dist = c[i].dist
<1>1. PICK far : d = [i \in DOMAIN c |-> [c[i] EXCEPT !.valid = @ /\ c[i].dist2_j1 <= 9 * far[c[i].j1]]]
  <2> DEFINE far == [j \in {c[i].j1 : i \in DOMAIN c} |->
                      Min({c[i].dist2_j1 : i \in {k \in ValidCorr(c) : c[k].j1 = j}})]
  <2>1. \A i \in DOMAIN c : far[c[i].j1] = Min({c[h].dist2_j1 : h \in {k \in ValidCorr(c) : c[k].j1 = c[i].j1}})
    OBVIOUS
  <2>2. d = [i \in DOMAIN c |-> [c[i] EXCEPT !.valid = @ /\ c[i].dist2_j1
              <= 9 * Min({c[h].dist2_j1 : h \in {k \in ValidCorr(c) : c[k].j1 = c[i].j1}})]]
    BY DEF kill_outliers_double
  <2> HIDE DEF far
  <2>3. d = [i \in DOMAIN c |-> [c[i] EXCEPT !.valid = @ /\ c[i].dist2_j1 <= 9 * far[c[i].j1]]]
    BY <2>1, <2>2
  <2> QED BY <2>3
<1>2. DOMAIN c = Rays(scan) /\ \A i \in Rays(scan) : IsCorr(c[i], ld)
  BY DEF AreCorrs
<1>3. ASSUME NEW i \in Rays(scan)
      PROVE  IsCorr(d[i], ld) /\ d[i].dist = c[i].dist
  <2>1. PICK b, e : b = c[i] /\ e = (b.valid /\ b.dist2_j1 <= 9 * far[b.j1])
    OBVIOUS
  <2>2. d[i] = [b EXCEPT !.valid = e] /\ e \in BOOLEAN /\ (e => b.valid)
    BY <1>1, <1>2, <2>1
  <2>3. IsCorr(b, ld)
    BY <1>2, <2>1
  <2>4. IsCorr([b EXCEPT !.valid = e], ld) /\ [b EXCEPT !.valid = e].dist = b.dist
    BY <2>2, <2>3 DEF IsCorr
  <2> QED BY <2>1, <2>2, <2>4
<1>4. d = [i \in Rays(scan) |-> d[i]]
  BY <1>1, <1>2
<1> QED BY <1>3, <1>4 DEF AreCorrs

LEMMA TrimmedAreCorrs ==
  ASSUME NEW c, NEW scan, NEW ld, AreCorrs(c, scan, ld), NEW d, d = kill_outliers_trim(c)
  PROVE  AreCorrs(d, scan, ld)
<1>1. PICK limit : limit = ErrorLimit(c)
  OBVIOUS
<1>2. d = [i \in DOMAIN c |-> IF c[i].valid /\ c[i].dist > limit
             THEN [c[i] EXCEPT !.valid = FALSE, !.j1 = -1, !.j2 = -1] ELSE c[i]]
  BY <1>1 DEF kill_outliers_trim
<1>3. DOMAIN c = Rays(scan) /\ \A i \in Rays(scan) : IsCorr(c[i], ld)
  BY DEF AreCorrs
<1>4. ASSUME NEW i \in Rays(scan) PROVE IsCorr(d[i], ld)
  <2>1. PICK b, e : b = c[i] /\ e = [b EXCEPT !.valid = FALSE, !.j1 = -1, !.j2 = -1] /\ IsCorr(b, ld)
    BY <1>3
  <2>2. e = [valid |-> FALSE, j1 |-> -1, j2 |-> -1, dist2_j1 |-> b.dist2_j1, dist |-> b.dist]
    BY <2>1 DEF IsCorr
  <2>3. IsCorr(e, ld)
    BY <2>2 DEF IsCorr
  <2> QED BY <1>2, <1>3, <2>1, <2>3
<1>5. d = [i \in Rays(scan) |-> d[i]]
  BY <1>2, <1>3
<1> QED BY <1>4, <1>5 DEF AreCorrs

\* What is left is within the error that is allowed: with something to trim it
\* is a number, and leaves a share of all.
LEMMA TrimKeepsWithin ==
  ASSUME NEW c, NEW scan, IsScan(scan), NEW ld, AreCorrs(c, scan, ld),
         NEW kept, kept = ValidCorr(kill_outliers_trim(c)), NEW all, all = ValidCorr(c)
  PROVE  /\ kept \subseteq all /\ all \subseteq Rays(scan)
         /\ \A i \in kept, k \in all \ kept : c[i].dist < c[k].dist
         /\ 100 * Cardinality(kept) >= Min({outliers_maxPerc, outliers_adaptive_order}) * Cardinality(all)
<1> DEFINE limit == ErrorLimit(c)
           share == Min({outliers_maxPerc, outliers_adaptive_order})
<1>1. PICK n : n = nrays(scan) /\ n \in Nat /\ Rays(scan) = 0 .. n - 1
  BY ScanRays
<1>2. DOMAIN c = 0 .. n - 1 /\ \A i \in 0 .. n - 1 : IsCorr(c[i], ld)
  BY <1>1 DEF AreCorrs
<1>3. \A i \in 0 .. n - 1 : c[i].valid \in BOOLEAN /\ (c[i].valid => c[i].dist \in Nat)
  BY <1>2 DEF IsCorr
<1>4. all = {i \in 0 .. n - 1 : c[i].valid}
  BY <1>2 DEF ValidCorr
<1>5. kept = {i \in all : ~(c[i].dist > limit)}
  <2>1. PICK d : d = kill_outliers_trim(c)
    OBVIOUS
  <2>2. d = [i \in DOMAIN c |-> IF c[i].valid /\ c[i].dist > limit
             THEN [c[i] EXCEPT !.valid = FALSE, !.j1 = -1, !.j2 = -1] ELSE c[i]]
    BY <2>1 DEF kill_outliers_trim
  <2> HIDE DEF limit
  <2>3. \A i \in 0 .. n - 1 : [c[i] EXCEPT !.valid = FALSE, !.j1 = -1, !.j2 = -1].valid = FALSE
    BY <1>2 DEF IsCorr
  <2>4. ASSUME NEW i \in 0 .. n - 1 PROVE d[i].valid <=> c[i].valid /\ ~(c[i].dist > limit)
    BY <1>2, <1>3, <2>2, <2>3
  <2>5. kept = {i \in 0 .. n - 1 : d[i].valid}
    BY <1>2, <2>1, <2>2 DEF ValidCorr
  <2> QED BY <1>4, <2>4, <2>5
<1>6. CASE all = {}
  <2>1. kept = {}
    BY <1>5, <1>6
  <2>2. Cardinality({}) = 0
    BY FS_EmptySet
  <2>3. share \in Nat
    <3>1. outliers_maxPerc \in Nat /\ outliers_adaptive_order \in Nat
      BY CorrespondencesAssumption
    <3> QED BY <3>1, MinOfTwo
  <2> HIDE DEF share
  <2>4. 100 * Cardinality(kept) >= share * Cardinality(all)
    BY <1>6, <2>1, <2>2, <2>3
  <2> QED BY <1>6, <2>1, <2>4 DEF share
<1>7. CASE all # {}
  <2>1. limit \in Int /\ 100 * Cardinality(Within(c, limit)) >= share * Cardinality(all)
    BY <1>1, <1>2, <1>3, <1>7, LimitLeavesShare DEF Within
  <2> HIDE DEF limit
  <2>2. \A i \in all : c[i].dist \in Int /\ i \in 0 .. n - 1
    BY <1>3, <1>4
  <2>3. Within(c, limit) = kept
    BY <1>5, <2>1, <2>2 DEF Within
  <2>4. ASSUME NEW i \in kept, NEW k \in all \ kept PROVE c[i].dist < c[k].dist
    <3>1. c[i].dist \in Int /\ c[k].dist \in Int /\ ~(c[i].dist > limit) /\ c[k].dist > limit
      BY <1>5, <2>2
    <3> QED BY <2>1, <3>1
  <2> HIDE DEF share
  <2>5. 100 * Cardinality(kept) >= share * Cardinality(all)
    BY <2>1, <2>3
  <2> QED BY <1>1, <1>4, <1>5, <2>4, <2>5 DEF share
<1> QED BY <1>6, <1>7
-----------------------------------------------------------------------------
(* sm_icp *)

ScansAre == IsScan(ref) /\ IsScan(sens)
UsableScans ==
  ~params.do_visibility_test =>
      (accepted => ld_valid_fields(ref)) /\ (pc # "idle" => ld_valid_fields(sens))
LoopIsAt ==
  /\ pc \in {"idle", "find", "estimate", "returned"}
  /\ x_old \in Int /\ x_first \in Int /\ best.x \in Int
  /\ iteration \in 0 .. max_iterations - 1 /\ restarts \in 0 .. 6
CorrsAre == pc # "idle" => accepted /\ AreCorrs(corr, sens, ref)
IcpInv ==
  /\ params \in ParamSets /\ calls \in 0 .. MaxCalls
  /\ ScansAre /\ UsableScans /\ LoopIsAt /\ CorrsAre

LEMMA IcpInitInv == IcpInit => IcpInv
<1> SUFFICES ASSUME IcpInit PROVE IcpInv
  OBVIOUS
<1>1. IsScan(ref) /\ IsScan(sens)
  <2>1. <<>> \in Seq(Nat) /\ \A s \in Scans : s \in Seq(Nat)
    BY IcpAssumption
  <2> QED BY <2>1, MessageIsScan DEF IcpInit, NoReadings
<1>2. max_iterations \in Nat \ {0} /\ MaxCalls \in Nat \ {0}
  BY IcpAssumption
<1>3. LoopIsAt
  BY <1>2 DEF IcpInit, LoopIsAt
<1> QED BY <1>1, <1>2, <1>3 DEF IcpInit, IcpInv, ScansAre, UsableScans, CorrsAre

\* What the loop does is to these variables only.
LoopStep == UNCHANGED <<params, ref, sens, accepted, calls>>

\* A step of the loop that leaves it in order leaves everything in order.
LEMMA LoopStepInv ==
  ASSUME IcpInv, pc # "idle", LoopStep, LoopIsAt', pc' # "idle", AreCorrs(corr', sens, ref)
  PROVE  IcpInv'
<1>1. AreCorrs(corr', sens', ref')
  BY DEF LoopStep
<1>2. ScansAre' /\ UsableScans'
  BY DEF LoopStep, IcpInv, ScansAre, UsableScans
<1>3. CorrsAre'
  BY <1>1 DEF CorrsAre, IcpInv, LoopStep
<1> QED BY <1>2, <1>3 DEF IcpInv, LoopStep

\* sm_icp returns.
LEMMA ReturnInv ==
  ASSUME IcpInv, pc # "idle", LoopStep, NEW found, found.x \in Int,
         NEW c, AreCorrs(c, sens, ref), Return(found, c),
         UNCHANGED <<loop, restarts, x_first>>
  PROVE  IcpInv'
<1>1. LoopIsAt' /\ pc' # "idle"
  BY DEF IcpInv, LoopIsAt, Return, loop
<1>2. AreCorrs(corr', sens, ref)
  <2>1. AreCorrs(Correspond(found.x), sens, ref)
    BY CorrespondAreCorrs DEF IcpInv, ScansAre
  <2> QED BY <2>1 DEF Return
<1> QED BY <1>1, <1>2, LoopStepInv

LEMMA LoopFailsInv ==
  ASSUME IcpInv, pc # "idle", LoopStep, NEW c, AreCorrs(c, sens, ref), LoopFails(c)
  PROVE  IcpInv'
<1>1. best.x \in Int
  BY DEF IcpInv, LoopIsAt
<1>2. CASE restarts = 0
  <2>1. LoopIsAt' /\ pc' # "idle" /\ corr' = c
    BY <1>2 DEF IcpInv, LoopIsAt, LoopFails, loop
  <2> QED BY <2>1, LoopStepInv
<1>3. CASE restarts # 0
  <2>1. Return(best, c) /\ UNCHANGED <<loop, restarts, x_first>>
    BY <1>3 DEF LoopFails
  <2> QED BY <1>1, <2>1, ReturnInv
<1> QED BY <1>2, <1>3

LEMMA LoopEndsInv ==
  ASSUME IcpInv, pc # "idle", LoopStep, NEW x \in Int, NEW error,
         NEW c, AreCorrs(c, sens, ref), LoopEnds(x, error, c)
  PROVE  IcpInv'
<1> DEFINE first == restarts = 0
           found == IF first \/ error < best.error THEN [x |-> x, error |-> error] ELSE best
           from == IF first THEN x ELSE x_first
           more == IF first THEN params.restart /\ error > Cardinality(ValidCorr(c)) * restart_threshold_mean_error
                   ELSE restarts < 6
<1>1. found.x \in Int /\ from \in Int
  BY DEF IcpInv, LoopIsAt
<1>2. IF more THEN /\ BeginLoop(from + Perturbation(restarts + 1)) /\ restarts' = restarts + 1
                   /\ x_first' = from /\ best' = found /\ corr' = c
                   /\ UNCHANGED valid
      ELSE Return(found, c) /\ UNCHANGED <<loop, restarts, x_first>>
  BY DEF LoopEnds
<1>3. restarts \in 0 .. 6
  BY DEF IcpInv, LoopIsAt
<1>4. more => restarts \in 0 .. 5
  BY <1>3
<1> HIDE DEF found, from, more
<1>5. CASE more
  <2>1. from + Perturbation(restarts + 1) \in Int
    <3>1. restart_dtheta_deg \in Int
      BY IcpAssumption
    <3>2. Perturbation(restarts + 1) \in Int
      BY <3>1 DEF Perturbation
    <3> QED BY <1>1, <3>2
  <2>2. max_iterations \in Nat \ {0}
    BY IcpAssumption
  <2>3. restarts + 1 \in 0 .. 6
    BY <1>4, <1>5
  <2>4. LoopIsAt' /\ pc' # "idle" /\ corr' = c
    BY <1>1, <1>2, <1>5, <2>1, <2>2, <2>3 DEF BeginLoop, LoopIsAt
  <2> QED BY <2>4, LoopStepInv
<1>6. CASE ~more
  BY <1>1, <1>2, <1>6, ReturnInv
<1> QED BY <1>5, <1>6

LEMMA FindInv ==
  ASSUME IcpInv, Find
  PROVE  IcpInv'
<1>1. pc = "find" /\ pc # "idle" /\ LoopStep
  BY DEF Find, LoopStep
<1>2. PICK found : /\ found = Correspond(x_old)
                   /\ IF TooFew(found) THEN LoopFails(found)
                      ELSE pc' = "estimate" /\ corr' = found /\ UNCHANGED <<loop, results>>
  BY DEF Find
<1>3. AreCorrs(found, sens, ref)
  BY <1>2, CorrespondAreCorrs DEF IcpInv, ScansAre, LoopIsAt
<1>4. CASE LoopFails(found)
  BY <1>1, <1>3, <1>4, LoopFailsInv
<1>5. CASE pc' = "estimate" /\ corr' = found /\ UNCHANGED <<loop, results>>
  <2>1. LoopIsAt'
    BY <1>5 DEF IcpInv, LoopIsAt, loop, results
  <2> QED BY <1>1, <1>3, <1>5, <2>1, LoopStepInv
<1> QED BY <1>2, <1>4, <1>5

\* What trimming leaves are correspondences.
LEMMA OnceAndTrimmed ==
  ASSUME IcpInv, pc # "idle"
  PROVE  /\ AreCorrs(Once, sens, ref) /\ AreCorrs(Trimmed, sens, ref)
         /\ \A i \in Rays(sens) : Once[i].dist = corr[i].dist
<1>1. AreCorrs(corr, sens, ref)
  BY DEF IcpInv, CorrsAre
<1>2. AreCorrs(Once, sens, ref) /\ \A i \in Rays(sens) : Once[i].dist = corr[i].dist
  BY <1>1, DoublesAreCorrs DEF Once
<1>3. AreCorrs(Trimmed, sens, ref)
  BY <1>2, TrimmedAreCorrs DEF Trimmed
<1> QED BY <1>2, <1>3

LEMMA EstimateInv ==
  ASSUME IcpInv, Estimate
  PROVE  IcpInv'
<1>1. pc = "estimate" /\ pc # "idle" /\ LoopStep
  BY DEF Estimate, LoopStep
<1>2. PICK c :
        /\ c = Trimmed
        /\ \/ LoopFails(c)
           \/ /\ ~TooFew(c)
              /\ \E turn \in Turns :
                   IF \/ params.use_point_to_line_distance /\ Hash(c) \in hashes
                      \/ turn = 0
                      \/ iteration + 1 = max_iterations
                   THEN LoopEnds(x_old + turn, total_error(c), c)
                   ELSE /\ pc' = "find" /\ x_old' = x_old + turn /\ iteration' = iteration + 1
                        /\ hashes' = hashes \cup {Hash(c)} /\ corr' = c
                        /\ UNCHANGED results
  BY DEF Estimate
<1>3. AreCorrs(c, sens, ref)
  BY <1>1, <1>2, OnceAndTrimmed
<1>4. CASE LoopFails(c)
  BY <1>1, <1>3, <1>4, LoopFailsInv
<1>5. ASSUME NEW turn \in Turns, LoopEnds(x_old + turn, total_error(c), c) PROVE IcpInv'
  <2>1. x_old + turn \in Int
    BY IcpAssumption DEF IcpInv, LoopIsAt
  <2> QED BY <1>1, <1>3, <1>5, <2>1, LoopEndsInv
<1>6. ASSUME NEW turn \in Turns, iteration + 1 # max_iterations,
             pc' = "find", x_old' = x_old + turn, iteration' = iteration + 1, corr' = c, UNCHANGED results
      PROVE  IcpInv'
  <2>1. x_old + turn \in Int
    BY IcpAssumption DEF IcpInv, LoopIsAt
  <2>2. iteration + 1 \in 0 .. max_iterations - 1
    BY <1>6, IcpAssumption DEF IcpInv, LoopIsAt
  <2>3. LoopIsAt' /\ pc' # "idle"
    BY <1>6, <2>1, <2>2 DEF IcpInv, LoopIsAt, results
  <2> QED BY <1>1, <1>3, <1>6, <2>3, LoopStepInv
<1> QED BY <1>2, <1>4, <1>5, <1>6

LEMMA CallInv ==
  ASSUME IcpInv, NEW s \in Scans, Call(s)
  PROVE  IcpInv'
<1> DEFINE message == laserScanToLDP(s)
<1>1. IsScan(message) /\ IsScan(ref)
  BY MessageIsScan, IcpAssumption DEF IcpInv, ScansAre
<1>2. params \in ParamSets /\ params' = params /\ calls' \in 0 .. MaxCalls
  BY IcpAssumption DEF IcpInv, Call
<1>3. CASE ld_valid_fields(ref) /\ ld_valid_fields(message)
  <2>1. PICK guess \in FirstGuesses : BeginLoop(guess)
    BY <1>3 DEF Call
  <2>2. /\ ref' = Prepared(ref) /\ sens' = Prepared(message) /\ accepted' = TRUE
        /\ restarts' = 0 /\ UNCHANGED <<x_first, best>>
    BY <1>3 DEF Call
  <2>3. ScansAre'
    BY <1>1, <2>2, PreparedIsScan DEF ScansAre
  <2>4. UsableScans'
    <3>1. ~params.do_visibility_test => ld_valid_fields(Prepared(ref)) /\ ld_valid_fields(Prepared(message))
      BY <1>1, <1>3, PreparedIsUsable
    <3> QED BY <1>2, <2>2, <3>1 DEF UsableScans
  <2>5. LoopIsAt'
    <3>1. guess \in Int /\ max_iterations \in Nat \ {0}
      BY IcpAssumption
    <3> QED BY <2>1, <2>2, <3>1 DEF IcpInv, LoopIsAt, BeginLoop
  <2>6. AreCorrs(corr', sens', ref')
    BY NoneIsCorr DEF Call, AreCorrs
  <2> QED BY <1>2, <2>2, <2>3, <2>4, <2>5, <2>6 DEF IcpInv, CorrsAre
<1>4. CASE ~(ld_valid_fields(ref) /\ ld_valid_fields(message))
  <2>1. pc = "idle" /\ sens' = message /\ UNCHANGED <<ref, accepted, pc, loop, restarts, x_first, best>>
    BY <1>4 DEF Call
  <2> HIDE DEF message
  <2>2. ScansAre' /\ UsableScans' /\ LoopIsAt' /\ CorrsAre'
    BY <1>1, <1>2, <2>1 DEF IcpInv, ScansAre, UsableScans, LoopIsAt, CorrsAre, loop
  <2> QED BY <1>2, <2>2 DEF IcpInv
<1> QED BY <1>3, <1>4

LEMMA ExchangeInv ==
  ASSUME IcpInv, ExchangeReference
  PROVE  IcpInv'
<1>1. /\ pc = "returned" /\ pc' = "idle" /\ ref' \in {ref, sens}
      /\ UNCHANGED <<params, sens, accepted, calls, loop, corr, results>>
  BY DEF ExchangeReference
<1>2. ScansAre' /\ UsableScans'
  BY <1>1 DEF IcpInv, ScansAre, UsableScans
<1>3. LoopIsAt' /\ CorrsAre'
  BY <1>1 DEF IcpInv, LoopIsAt, CorrsAre, loop, results
<1> QED BY <1>1, <1>2, <1>3 DEF IcpInv

LEMMA IcpInvHolds == IcpSpec => []IcpInv
<1>1. IcpInit => IcpInv
  BY IcpInitInv
<1>2. IcpInv /\ [IcpNext]_icpVars => IcpInv'
  <2> SUFFICES ASSUME IcpInv, [IcpNext]_icpVars PROVE IcpInv'
    OBVIOUS
  <2>1. ASSUME NEW s \in Scans, Call(s) PROVE IcpInv'
    BY <2>1, CallInv
  <2>2. CASE Find
    BY <2>2, FindInv
  <2>3. CASE Estimate
    BY <2>3, EstimateInv
  <2>4. CASE ExchangeReference
    BY <2>4, ExchangeInv
  <2>5. CASE UNCHANGED icpVars
    BY <2>5 DEF icpVars, loop, results, IcpInv, ScansAre, UsableScans, LoopIsAt, CorrsAre
  <2> QED BY <2>1, <2>2, <2>3, <2>4, <2>5 DEF IcpNext
<1> QED BY <1>1, <1>2, PTL DEF IcpSpec

\* The loop of sm_icp stays within its iterations and restarts, and its
\* correspondences name two different valid rays of the reference, for all
\* scans, thresholds and options: both searches, the removal of doubles and
\* trimming, the one after restarts and those of a scan no pose was found for
\* included (icp_corr_tricks.cpp:220, icp_outliers.cpp:156).
THEOREM CorrespondencesAreValid == IcpSpec => []IcpTypeOK
<1>1. IcpInv => IcpTypeOK
  <2> SUFFICES ASSUME IcpInv PROVE IcpTypeOK
    OBVIOUS
  <2>1. ASSUME pc # "idle", NEW i \in ValidCorr(corr)
        PROVE  corr[i].j1 \in ValidRays(ref) /\ corr[i].j2 \in ValidRays(ref) \ {corr[i].j1}
    <3>1. AreCorrs(corr, sens, ref)
      BY <2>1 DEF IcpInv, CorrsAre
    <3>2. i \in Rays(sens) /\ corr[i].valid
      BY <2>1, <3>1 DEF AreCorrs, ValidCorr
    <3> QED BY <3>1, <3>2 DEF AreCorrs, IsCorr
  <2> QED BY <2>1 DEF IcpInv, IcpTypeOK, LoopIsAt
<1> QED BY <1>1, IcpInvHolds, PTL

\* A reference that sm_icp took is not refused by a later call: taking out rays
\* beyond the limits takes out none, and what is noted in the others, or a scan
\* that takes the place of the reference, passes ld_valid_fields again
\* (icp.cpp:36, laser_data.cpp:238).  For all scans, and any number of calls.
THEOREM ReferencesStayUsable == IcpSpec => []ReferenceStaysUsable
<1>1. IcpInv => ReferenceStaysUsable
  BY DEF IcpInv, UsableScans, ReferenceStaysUsable
<1> QED BY <1>1, IcpInvHolds, PTL

\* The hand-written quicksort does sort, so that trimming keeps those that fit
\* best and leaves the share its percentiles promise, for any number of rays,
\* any distances and any percentiles (icp_outliers.cpp:128, 175).
THEOREM TrimmingKeepsNearest == IcpSpec => []TrimKeepsNearest
<1>1. IcpInv => TrimKeepsNearest
  <2> SUFFICES ASSUME IcpInv, pc = "estimate" PROVE TrimKeepsNearest
    BY DEF TrimKeepsNearest
  <2>1. PICK kept, all : kept = ValidCorr(Trimmed) /\ all = ValidCorr(Once)
    OBVIOUS
  <2>2. /\ AreCorrs(Once, sens, ref) /\ IsScan(sens)
        /\ \A i \in Rays(sens) : Once[i].dist = corr[i].dist
    BY OnceAndTrimmed DEF IcpInv, ScansAre
  <2>3. /\ kept \subseteq all /\ all \subseteq Rays(sens)
        /\ \A i \in kept, k \in all \ kept : Once[i].dist < Once[k].dist
        /\ 100 * Cardinality(kept) >= Min({outliers_maxPerc, outliers_adaptive_order}) * Cardinality(all)
    BY <2>1, <2>2, TrimKeepsWithin DEF Trimmed
  <2>4. \A i \in kept, k \in all \ kept : corr[i].dist < corr[k].dist
    BY <2>2, <2>3
  <2> QED BY <2>1, <2>3, <2>4 DEF TrimKeepsNearest
<1> QED BY <1>1, IcpInvHolds, PTL
=============================================================================

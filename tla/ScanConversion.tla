--------------------------- MODULE ScanConversion ---------------------------
(***************************************************************************)
(* What becomes of a scan between grabScanDataHq and the topic: the driver *)
(* gives the missing samples an angle and sorts (ascendScanData), the node *)
(* spreads them over a circle of equal cells (angle_compensate) or cuts    *)
(* the missing ones off both ends, and publish_scan mirrors and shifts     *)
(* them (inverted, flip_x_axis).                                           *)
(*                                                                         *)
(* Angles are whole numbers, Circle of them a turn; an angle is stored in  *)
(* 16 bits of which a turn is 2^16, hence modulo Circle.  A sample is its  *)
(* angle, its distance (0: nothing was measured) and its quality; both     *)
(* distance and quality of the i-th sample of a scan are i, so that one    *)
(* can see where a published number comes from.                            *)
(***************************************************************************)
EXTENDS Integers, Sequences, FiniteSetsExt

CONSTANTS Circle,     \* the angles of a turn
          Degrees,    \* the cells of a turn, for a multiple of 1
          Multiples,  \* angle_compensate_multiple, fixed when scanning starts
          Counts,     \* the numbers of samples a scan can have
          RawAngles   \* the angles the lidar reports

ASSUME UnitsAssumption ==
    /\ Circle \in Nat \ {0} /\ Degrees \in Nat \ {0} /\ Circle % Degrees = 0
    /\ Counts \subseteq Nat \ {0} /\ \A n \in Counts : Circle % n = 0
    /\ Multiples \subseteq Nat \ {0} /\ RawAngles \subseteq 0 .. Circle - 1

VARIABLES settings,   \* the node's parameters
          grabbed,    \* the scan as it came from the driver's holder
          nodes,      \* the node's own buffer
          cells,      \* what was given to publish_scan
          msg,        \* the last message
          at          \* the next thing the node does

conversionVars == <<settings, grabbed, nodes, cells, msg, at>>

Infinity == -1    \* what a ray without a measurement is published as
Unwritten == 0    \* what resize() leaves in a ray nobody writes

Settings == [inverted : BOOLEAN, flip_x_axis : BOOLEAN, angle_compensate : BOOLEAN,
             multiple : Multiples]
NoMsg == [reversed |-> TRUE, ranges |-> <<>>, intensities |-> <<>>]

ConversionInit ==
        /\ settings \in Settings
        /\ grabbed = <<>> /\ nodes = <<>> /\ cells = <<>> /\ msg = NoMsg
        /\ at = "grab"

Measured(s) == {i \in DOMAIN s : s[i].dist # 0}

\* A scan from the holder: its samples come in any order.
Grab ==
    /\ at = "grab"
    /\ \E n \in Counts : \E angle \in [1 .. n -> RawAngles] : \E seen \in SUBSET (1 .. n) :
         grabbed' = [i \in 1 .. n |-> [angle |-> angle[i], quality |-> i,
                                       dist |-> IF i \in seen THEN i ELSE 0]]
    /\ nodes' = grabbed'
    /\ at' = "ascend"
    /\ UNCHANGED <<settings, cells, msg>>

(***************************************************************************)
(* ascendScanData                                                          *)
(***************************************************************************)
setAngle(sample, a) == [sample EXCEPT !.angle = a % Circle]

\* The missing samples before the first measured one get the angles before its own,
\* none less than 0.
TuneHead(s) ==
    LET first == Min(Measured(s))
        inc == Circle \div Len(s)
    IN  [i \in DOMAIN s |->
           IF i >= first THEN s[i]
           ELSE setAngle(s[i], Max({0, s[first].angle - (first - i) * inc}))]

\* Mutant: measured samples get an angle from their place, too.
FillEvery(s) ==
    LET inc == Circle \div Len(s)
    IN  [i \in DOMAIN s |-> IF i = 1 THEN s[i] ELSE setAngle(s[i], s[1].angle + (i - 1) * inc)]

\* Every other missing sample gets the angle of its place.  (The angles that the code
\* gives to the missing ones at the end are all overwritten here.)
Fill(s) ==
    LET inc == Circle \div Len(s)
    IN  [i \in DOMAIN s |->
           IF i = 1 \/ s[i].dist # 0 THEN s[i]
           ELSE setAngle(s[i], s[1].angle + (i - 1) * inc)]

Ascending(s) == \A i, j \in DOMAIN s : i < j => s[i].angle <= s[j].angle

Ascend ==
    /\ at = "ascend"
    /\ IF Measured(nodes) = {}
       THEN UNCHANGED nodes                    \* SL_RESULT_OPERATION_FAIL
       ELSE LET filled == Fill(TuneHead(nodes))
            IN  \E p \in Bijection(DOMAIN nodes, DOMAIN nodes) :   \* std::sort is not stable
                  /\ nodes' = [i \in DOMAIN nodes |-> filled[p[i]]]
                  /\ Ascending(nodes')
    /\ at' = "publish"
    /\ UNCHANGED <<settings, grabbed, cells, msg>>

(***************************************************************************)
(* The node's loop                                                         *)
(***************************************************************************)
NoSample == [angle |-> 0, dist |-> 0, quality |-> 0]   \* memset

NumCells == Degrees * settings.multiple
angle_value(sample) == (sample.angle * NumCells) \div Circle

\* Mutant: the loop over the cells of a sample starts at 1.
WrittenLess(sample) ==
    {Min({angle_value(sample) + j, NumCells - 1}) : j \in 1 .. settings.multiple - 1}

\* The cells a sample is written to: `multiple` of them, and not past the last one.
Written(sample) ==
    {Min({angle_value(sample) + j, NumCells - 1}) : j \in 0 .. settings.multiple - 1}

\* The circle of cells: a later sample overwrites an earlier one.
Compensated(s) ==
    [k \in 1 .. NumCells |->
       LET by == {i \in Measured(s) : k - 1 \in Written(s[i])}
       IN  IF by = {} THEN NoSample ELSE s[Max(by)]]

\* From the first measured sample to the last one.
Trimmed(s) == SubSeq(s, Min(Measured(s)), Max(Measured(s)))

(***************************************************************************)
(* publish_scan                                                            *)
(***************************************************************************)
\* Mutant: mirrored into 1 .. n instead of 0 .. n - 1 (modulo n).
PlaceOffByOne(i, n, reverse_data) ==
    LET mirrored == IF reverse_data THEN (n - i) % n ELSE i
        midpoint == n \div 2
    IN  IF ~settings.flip_x_axis THEN mirrored
        ELSE IF mirrored >= midpoint THEN mirrored - midpoint ELSE mirrored + midpoint

\* apply_index: the ray that shows sample i of n (both from 0).
Place(i, n, reverse_data) ==
    LET mirrored == IF reverse_data THEN n - 1 - i ELSE i
        midpoint == n \div 2
    IN  IF ~settings.flip_x_axis THEN mirrored
        ELSE IF mirrored >= midpoint THEN mirrored - midpoint ELSE mirrored + midpoint

\* The message for samples `s`, whose angles rise if `reversed`.  The intensity is read
\* at the index it is written to.
Message(s, reversed) ==
    LET n == Len(s)
        reverse_data == settings.inverted # reversed
        From(k) == {i \in 0 .. n - 1 : Place(i, n, reverse_data) = k - 1}
        Reading(sample) == IF sample.dist = 0 THEN Infinity ELSE sample.dist
    IN  [reversed |-> reversed,
         ranges |-> [k \in 1 .. n |-> IF From(k) = {} THEN Unwritten
                                      ELSE Reading(s[Max(From(k)) + 1])],
         intensities |-> [k \in 1 .. n |-> IF From(k) = {} THEN 0 ELSE s[k].quality]]

\* Mirrored from 359 degrees to 0, unless both ends are the same sample.
Publish ==
    /\ at = "publish"
    /\ cells' = IF Measured(nodes) = {} THEN nodes
                ELSE IF settings.angle_compensate THEN Compensated(nodes)
                ELSE Trimmed(nodes)
    /\ msg' = Message(cells', \/ settings.angle_compensate
                              \/ Measured(nodes) = {}
                              \/ cells'[Len(cells')].angle > cells'[1].angle)
    /\ at' = "spin"
    /\ UNCHANGED <<settings, grabbed, nodes>>

\* The end of the loop's body: its buffers are gone.
Spin ==
    /\ at = "spin"
    /\ grabbed' = <<>> /\ nodes' = <<>> /\ cells' = <<>> /\ msg' = NoMsg
    /\ at' = "grab"
    /\ UNCHANGED settings

ConversionNext == Grab \/ Ascend \/ Publish \/ Spin
ConversionSpec == ConversionInit /\ [][ConversionNext]_conversionVars
-----------------------------------------------------------------------------
(***************************************************************************)
(* Properties                                                              *)
(***************************************************************************)
Published == at = "spin"
Readings == {k \in DOMAIN msg.ranges : msg.ranges[k] \notin {Infinity, Unwritten}}

\* Giving the missing samples an angle and sorting moves no measurement: in the
\* ascending scan every measured sample of the grabbed one is there once, at the angle
\* it was measured at.
MeasurementsKeepTheirAngles ==
    (at = "publish" /\ Measured(grabbed) # {}) =>
        /\ Ascending(nodes)
        /\ Measured(nodes) # {}
        /\ \A i \in Measured(grabbed) :
             Cardinality({j \in DOMAIN nodes : nodes[j] = grabbed[i]}) = 1
        /\ Cardinality(Measured(nodes)) = Cardinality(Measured(grabbed))

\* Nothing that was measured is published as free.  On the circle of cells, the cell in
\* which a sample was measured shows it or another one of the same cells, never
\* "infinity".  Without compensation every measured sample is in a ray, unless an odd
\* number of rays is flipped: then two samples share a ray, one is lost, and the last
\* ray says 0 metres.
MeasurementsAreShown ==
    (Published /\ Measured(grabbed) # {}) =>
        IF settings.angle_compensate
        THEN \A i \in Measured(grabbed) :
               LET cell == cells[angle_value(grabbed[i]) + 1]
               IN  /\ cell.dist # 0
                   /\ angle_value(grabbed[i]) - angle_value(cell) \in 0 .. settings.multiple - 1
        ELSE LET lost == {i \in Measured(grabbed) : \A k \in Readings : msg.ranges[k] # i}
                 oddFlip == settings.flip_x_axis /\ Len(cells) % 2 = 1
             IN  /\ lost # {} => oddFlip /\ Cardinality(lost) = 1
                 /\ Unwritten \in {msg.ranges[k] : k \in DOMAIN msg.ranges} => oddFlip

\* A ray points to where its range was measured: seen upright, turning the other way
\* round than the lidar, and half a circle on; with flip_x_axis half a circle back;
\* within the `multiple` cells that one sample covers (and the one cell that a circle
\* of 359 degrees lacks).
RaysPointToMeasurements ==
    (Published /\ settings.angle_compensate /\ Measured(grabbed) # {}) =>
        \A k \in Readings :
          LET half == NumCells \div 2
              \* the direction of the ray, in cells: it starts at PI - angle_max
              direction == half + 1 + (k - 1) - (IF settings.flip_x_axis THEN half ELSE 0)
              sample == grabbed[msg.ranges[k]]
              cell == angle_value(sample)
              expected == IF settings.inverted THEN cell + half + 1 ELSE half - cell
              off == IF settings.inverted THEN direction - expected ELSE expected - direction
          IN  off % NumCells \in 0 .. settings.multiple - 1
=============================================================================

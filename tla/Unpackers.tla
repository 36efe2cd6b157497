----------------------------- MODULE Unpackers ------------------------------
(***************************************************************************)
(* From the payload of sample messages to samples: the six handlers of     *)
(* dataunpacker/unpacker and the choice among them (dataunpacker.cpp).     *)
(*                                                                         *)
(* A capsule says at which angle it starts; where its samples lie is known *)
(* when the next one has come.  Angles are fixed-point as in the code: q6  *)
(* on the wire, q8 for starts, q16 for the running angle.  A handler is    *)
(* a record:                                                               *)
(*   buf    bytes of the packet being received (_cached_scan_node_buf)     *)
(*   ready  _is_previous_capsuledataRdy      prev  the capsule before      *)
(*   ts     _cached_last_data_timestamp_us   sync  sync bit of last sample *)
(* Distances, qualities and which checksum it is are left out: a packet    *)
(* passes its check when it is as the lidar sent it.                       *)
(***************************************************************************)
EXTENDS Integers, Sequences

CONSTANTS
    PacketSize,     \* bytes in a packet, at least 4
    Points,         \* Points[k]: samples in a packet of kind k; of "hq", one for all
    Cabins,         \* Cabins[k]: elements of its array of cabins
    SampleDuration, \* _cachedTimingDesc.sample_duration_uS
    Transmission    \* microseconds the packet takes on the line

Second == 1000000   \* in microseconds
CapsuleKinds == {"capsule", "ultra", "dense", "ultradense"}
Kinds == CapsuleKinds \cup {"normal", "hq"}

ASSUME PacketAssumption == PacketSize \in Nat /\ PacketSize >= 4
ASSUME PointsAssumption ==
    /\ Points \in [Kinds -> Nat \ {0}] /\ Cabins \in [Kinds -> Nat \ {0}]
    /\ Points["normal"] = 1 /\ Points["hq"] = 1
    /\ 256 % Points["capsule"] = 0 /\ 256 % Points["ultradense"] = 0
ASSUME TimingAssumption ==
    /\ SampleDuration \in Nat \ {0} /\ SampleDuration <= Second /\ Transmission \in Nat

NoPacket == [what |-> "none"]
FreshHandler == [buf |-> <<>>, ready |-> FALSE, prev |-> NoPacket, ts |-> 0, sync |-> FALSE]

\* What a byte makes of a handler: its new state and the samples published, none or
\* one batch.  Left out: a first capsule also rewinds the scan being gathered (see
\* ScanHolder), and errors are reported to a listener that ignores them.
Result(h, out) == [h |-> h, out |-> out]

Hi(b) == CASE b.val = "A5" -> "A" [] b.val = "5A" -> "5" [] OTHER -> "0"

\* Checksum or CRC is right: the bytes are one packet of samples.
Intact(buf) ==
    /\ buf[1].pkt.what = "samples"
    /\ \A i \in DOMAIN buf : buf[i].pkt = buf[1].pkt /\ buf[i].pos = i

(***************************************************************************)
(* Arithmetic of angles                                                    *)
(***************************************************************************)
Turn_q8  == 360 * 256
Turn_q16 == 360 * 65536
Turn_q6  == 360 * 64

\* prevStartAngle_q8, currentStartAngle_q8 and diffAngle_q8
Start_q8(cap) == cap.start * 4

\* Mutant: the turn is never added.
MutantDiff(prev, cur) == Start_q8(cur) - Start_q8(prev)

Diff_q8(prev, cur) ==
    LET d == Start_q8(cur) - Start_q8(prev)
    IN  IF Start_q8(prev) > Start_q8(cur) THEN d + Turn_q8 ELSE d

\* angle_q6 after the two corrections
Normal_q6(a) ==
    LET b == IF a < 0 THEN a + Turn_q6 ELSE a
    IN  IF b >= Turn_q6 THEN b - Turn_q6 ELSE b

\* Samples of `prev`, which began at time `ts` less their delays.
Batch(prev, cur, angle, sync, time) ==
    <<[prev |-> prev, cur |-> cur, angle |-> angle, sync |-> sync, time |-> time]>>

\* sampleFilterDelay + sampleDelay + tranmissionDelay (linkage is 0)
FixedDelay == SampleDuration + SampleDuration \div 2 + Transmission

DelayCapsule(i)    == FixedDelay + (Points["capsule"] - 1 - i) * SampleDuration
\* Mutant: the first sample of a packet is taken for the last.
MutantDelayUltra(i) == FixedDelay + i * SampleDuration
DelayUltra(i)      == FixedDelay + (Points["ultra"] - 1 - i) * SampleDuration
DelayDense(i)      == FixedDelay + (Points["dense"] - 1 - i) * SampleDuration
DelayUltraDense(i) == FixedDelay + (Points["ultradense"] - 1 - i) * SampleDuration
DelayHQ     == FixedDelay
DelayNormal == FixedDelay

(***************************************************************************)
(* The two older formats: a sample has the sync bit when the step to the   *)
(* next one crosses 0.  Every angle has an offset subtracted (largest one) *)
(***************************************************************************)
OffsetCapsule_q16 == 63 * 8192
OffsetUltra_q16   == 491520           \* 7.5 degrees

CapsuleDecode(h, cap, now) ==
    LET I      == 0 .. Points["capsule"] - 1
        inc    == (Diff_q8(h.prev, cap) * 256) \div Points["capsule"]
        raw(i) == Start_q8(h.prev) * 256 + i * inc
        next   == [h EXCEPT !.prev = cap, !.ready = TRUE, !.ts = now]
    IN  IF ~h.ready THEN Result(next, <<>>)
        ELSE Result(next,
               Batch(h.prev, cap,
                     [i \in I |-> Normal_q6((raw(i) - OffsetCapsule_q16) \div 1024)],
                     [i \in I |-> (raw(i) + inc) % Turn_q16 < inc],
                     [i \in I |-> h.ts - DelayCapsule(i)]))

\* Here the step is rounded down when it is no multiple of 3.
UltraDecode(h, cap, now) ==
    LET I      == 0 .. Points["ultra"] - 1
        inc    == (Diff_q8(h.prev, cap) * 256) \div Points["ultra"]
        raw(i) == Start_q8(h.prev) * 256 + i * inc
        next   == [h EXCEPT !.prev = cap, !.ready = TRUE, !.ts = now]
    IN  IF ~h.ready THEN Result(next, <<>>)
        ELSE Result(next,
               Batch(h.prev, cap,
                     [i \in I |-> Normal_q6((raw(i) - OffsetUltra_q16) \div 1024)],
                     [i \in I |-> (raw(i) + inc) % Turn_q16 < inc],
                     [i \in I |-> h.ts - DelayUltra(i)]))

(***************************************************************************)
(* The two dense formats: twice the step counts as crossing 0, and a       *)
(* sample whose predecessor had the sync bit does not get it.  Too wide a  *)
(* step between two capsules is discarded; `ready` and `ts` stay.          *)
(***************************************************************************)
MaxDiff_q8(k) == ((360 * 100 * Cabins[k]) \div (Second \div SampleDuration)) * 256

Deduped(raw, I, last) ==
    LET s[i \in I] == raw[i] /\ ~(IF i = 0 THEN last ELSE s[i - 1]) IN s

DenseDecode(h, cap, now) ==
    LET n      == Points["dense"]
        I      == 0 .. n - 1
        inc    == (Diff_q8(h.prev, cap) * 256) \div n
        raw(i) == Start_q8(h.prev) * 256 + i * inc
        sync   == Deduped([i \in I |-> (raw(i) + inc) % Turn_q16 < 2 * inc], I, h.sync)
        next   == [h EXCEPT !.prev = cap, !.ready = TRUE]
    IN  IF ~h.ready THEN Result(next, <<>>)
        ELSE IF Diff_q8(h.prev, cap) > MaxDiff_q8("dense") THEN Result([h EXCEPT !.prev = cap], <<>>)
        ELSE Result([next EXCEPT !.sync = sync[n - 1]],
               Batch(h.prev, cap, [i \in I |-> Normal_q6(raw(i) \div 1024)], sync,
                     [i \in I |-> now - DelayDense(i)]))

UltraDenseDecode(h, cap, now) ==
    LET n      == Points["ultradense"]
        I      == 0 .. n - 1
        inc    == (Diff_q8(h.prev, cap) * 256) \div n
        raw(i) == Start_q8(h.prev) * 256 + i * inc
        sync   == Deduped([i \in I |-> (raw(i) + inc) % Turn_q16 < 2 * inc], I, h.sync)
        next   == [h EXCEPT !.prev = cap, !.ready = TRUE]
    IN  IF ~h.ready THEN Result(next, <<>>)
        ELSE IF Diff_q8(h.prev, cap) > MaxDiff_q8("ultradense")
             THEN Result([h EXCEPT !.prev = cap], <<>>)
        ELSE Result([next EXCEPT !.sync = sync[n - 1]],
               Batch(h.prev, cap, [i \in I |-> Normal_q6(raw(i) \div 1024)], sync,
                     [i \in I |-> now - DelayUltraDense(i)]))

(***************************************************************************)
(* Gathering the bytes of a packet                                         *)
(***************************************************************************)
\* The four handlers of capsules gather alike: the handler after a byte, and the
\* capsule that is complete with it.
Gathered(h, cap) == [h |-> h, cap |-> cap]

CapsuleByte(h, b) ==
    LET buf == Append(h.buf, b) IN
    IF Len(buf) = 1 /\ Hi(b) # "A" THEN Gathered([h EXCEPT !.ready = FALSE], NoPacket)
    ELSE IF Len(buf) = 2 /\ Hi(b) # "5"
         THEN Gathered([h EXCEPT !.buf = <<>>, !.ready = FALSE], NoPacket)
    ELSE IF Len(buf) < PacketSize THEN Gathered([h EXCEPT !.buf = buf], NoPacket)
    ELSE IF ~Intact(buf) THEN Gathered([h EXCEPT !.buf = <<>>, !.ready = FALSE], NoPacket)
    ELSE LET cap == buf[1].pkt
         IN  Gathered([h EXCEPT !.buf = <<>>, !.ready = @ /\ ~cap.first], cap)

CapsuleOnData(h, b, now) ==
    LET g == CapsuleByte(h, b)
    IN  IF g.cap = NoPacket THEN Result(g.h, <<>>) ELSE CapsuleDecode(g.h, g.cap, now)
UltraOnData(h, b, now) ==
    LET g == CapsuleByte(h, b)
    IN  IF g.cap = NoPacket THEN Result(g.h, <<>>) ELSE UltraDecode(g.h, g.cap, now)
DenseOnData(h, b, now) ==
    LET g == CapsuleByte(h, b)
    IN  IF g.cap = NoPacket THEN Result(g.h, <<>>) ELSE DenseDecode(g.h, g.cap, now)
UltraDenseOnData(h, b, now) ==
    LET g == CapsuleByte(h, b)
    IN  IF g.cap = NoPacket THEN Result(g.h, <<>>) ELSE UltraDenseDecode(g.h, g.cap, now)

\* A packet of samples that say themselves where they are.
HQOnData(h, b, now) ==
    LET buf == Append(h.buf, b)
        cap == buf[1].pkt
    IN  IF Len(buf) = 1 /\ b.val # "A5" THEN Result(h, <<>>)
        ELSE IF Len(buf) < PacketSize THEN Result([h EXCEPT !.buf = buf], <<>>)
        ELSE Result([h EXCEPT !.buf = <<>>],
               IF Intact(buf)
               THEN Batch(cap, cap, [i \in {0} |-> cap.start], [i \in {0} |-> cap.wrap],
                          [i \in {0} |-> now - DelayHQ])
               ELSE <<>>)

\* One sample, found by its sync bit being the inverse of the bit next to it
\* and by a check bit; there is no checksum.
NormalOnData(h, b, now) ==
    LET buf == Append(h.buf, b)
        cap == IF Intact(buf) THEN buf[1].pkt ELSE NoPacket
    IN  IF Len(buf) = 1 /\ b.val = "00" THEN Result(h, <<>>)
        ELSE IF Len(buf) = 2 /\ b.val # "A5" THEN Result([h EXCEPT !.buf = <<>>], <<>>)
        ELSE IF Len(buf) < PacketSize THEN Result([h EXCEPT !.buf = buf], <<>>)
        ELSE Result([h EXCEPT !.buf = <<>>],
               Batch(cap, cap, [i \in {0} |-> IF cap = NoPacket THEN 0 ELSE cap.start],
                     [i \in {0} |-> buf[1].val = "A5"], [i \in {0} |-> now - DelayNormal]))

(***************************************************************************)
(* reset of the handlers: what each forgets                                *)
(***************************************************************************)
\* Mutant: the capsule before is kept, as the dense formats do.
MutantCapsuleReset(h) == [h EXCEPT !.buf = <<>>, !.ts = 0]
CapsuleReset(h)    == [h EXCEPT !.buf = <<>>, !.ready = FALSE, !.ts = 0]
UltraReset(h)      == [h EXCEPT !.buf = <<>>, !.ready = FALSE]
\* Mutant: bytes of an unfinished packet are kept.
MutantDenseReset(h) == [h EXCEPT !.ts = 0]
DenseReset(h)      == [h EXCEPT !.buf = <<>>, !.ts = 0]
UltraDenseReset(h) == [h EXCEPT !.buf = <<>>, !.ts = 0, !.sync = FALSE]
HQReset(h)         == [h EXCEPT !.buf = <<>>]
NormalReset(h)     == [h EXCEPT !.buf = <<>>]

OnByte(k, h, b, now) ==
    CASE k = "capsule"    -> CapsuleOnData(h, b, now)
      [] k = "ultra"      -> UltraOnData(h, b, now)
      [] k = "dense"      -> DenseOnData(h, b, now)
      [] k = "ultradense" -> UltraDenseOnData(h, b, now)
      [] k = "hq"         -> HQOnData(h, b, now)
      [] k = "normal"     -> NormalOnData(h, b, now)

ResetHandler(k, h) ==
    CASE k = "capsule"    -> CapsuleReset(h)
      [] k = "ultra"      -> UltraReset(h)
      [] k = "dense"      -> DenseReset(h)
      [] k = "ultradense" -> UltraDenseReset(h)
      [] k = "hq"         -> HQReset(h)
      [] k = "normal"     -> NormalReset(h)
=============================================================================

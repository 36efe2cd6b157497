---------------------------- MODULE SampleStream ----------------------------
(***************************************************************************)
(* The way of the samples from the lidar's bytes to the driver's listener: *)
(* FrameCodec cuts the bytes into messages, the unpacker gives them to the *)
(* handler of their type, the handler of Unpackers makes samples of them.  *)
(* The client starts and stops scans; the line loses and damages bytes, or *)
(* (UDP) whole packets.                                                    *)
(*                                                                         *)
(* A chunk of received bytes is taken byte by byte, so every way to cut    *)
(* the stream in chunks is covered.  The lidar has a clock of its own: the *)
(* decoder may get to a packet late, when others have followed, and take   *)
(* several from one chunk.  The line keeps their order, so the model puts  *)
(* a packet on the wire when the decoder is through with the one before,   *)
(* however long ago the lidar sent it.  A start waits until the line is    *)
(* silent, longer than the decoder is late (stop waits 100 ms): scan k     *)
(* begins at time k * ScanTime, so that two histories that differ only in  *)
(* how long the scan before took are one.                                  *)
(***************************************************************************)
EXTENDS Unpackers, FrameCodec, FiniteSets

CONSTANTS
    UsedKinds,       \* formats the lidar may send
    Starts, Steps,   \* start angles and steps between packets, in q6
    Fills,           \* value of the bytes after the two sync bytes
    Garbage,         \* what a damaged header may be taken for
    MaxSessions, MaxPackets, MaxFaults,
    EarlierPackets,  \* packets in a session that is not the last
    MaxLate          \* the most by which the decoder is late, in packets

ASSUME SampleStreamAssumption ==
    /\ UsedKinds \subseteq Kinds /\ Starts \subseteq 0 .. Turn_q6 - 1 /\ Steps \subseteq Nat
    /\ Garbage \subseteq [len : Nat, loop : BOOLEAN]
    /\ MaxPackets \in Nat /\ EarlierPackets \in Nat /\ MaxLate \in Nat

VARIABLES
    kind,     \* the format
    lidar,    \* the lidar: sending?, session, packets sent in it, too wide steps, angle, fill,
              \* and when the packet sent last was complete
    wire,     \* bytes on their way
    codec,    \* state of the decoder of frames
    enabled,  \* _enabled of the unpacker
    active,   \* type of the selected handler ("none": no type, no handler)
    h,        \* the handler of `kind`
    now,      \* microseconds, when the decoder reads the clock
    client,   \* "stopped" or "scanning"
    faults,   \* faults so far, those of this session, one in its header, packets lost
    batch,    \* samples published by the last step
    chain,    \* since samples come without a gap: end, turns, sync bits, and whether
              \* the sample before had the bit
    got       \* batches of this session

vars == <<kind, lidar, wire, codec, enabled, active, h, now, client, faults, batch, chain, got>>

Chain == [end |-> NoPacket, turns |-> 0, syncs |-> 0, masked |-> FALSE]

Init ==
    /\ kind \in UsedKinds
    /\ lidar = [on |-> FALSE, s |-> 0, n |-> 0, wide |-> 0, start |-> 0, fill |-> "00", at |-> 0]
    /\ wire = <<>> /\ codec = DecodeReset
    /\ enabled = FALSE /\ active = "none" /\ h = FreshHandler
    /\ now = 0 /\ client = "stopped"
    /\ faults = [all |-> 0, here |-> 0, header |-> FALSE, packets |-> 0]
    /\ batch = <<>> /\ chain = Chain /\ got = 0

(***************************************************************************)
(* The lidar (external) and the line                                       *)
(***************************************************************************)
HeaderPacket == [what |-> "header", len |-> PacketSize, type |-> kind, s |-> lidar.s + 1]
HeaderBytes ==
    [i \in 1 .. HeaderLength |->
        [val |-> CASE i = 1 -> "A5" [] i = 2 -> "5A" [] OTHER -> "00", pkt |-> HeaderPacket, pos |-> i]]

\* The two sync bytes of a packet; those of a single sample carry its sync bit.
PacketByte(p, i) ==
    CASE i = 1 -> IF kind # "normal" \/ p.wrap THEN "A5" ELSE "5A"
      [] i = 2 -> IF kind = "normal" THEN "A5" ELSE "5A"
      [] OTHER -> lidar.fill

Period == Points[kind] * SampleDuration
Lateness == MaxLate * Period

\* Longer than a scan lasts, with the decoder late.
ScanTime == (EarlierPackets + MaxPackets + MaxLate + 1) * Period

\* The clock when something happens that is due at t: then, or now if t has passed.
ClockAt(t) == IF now >= t THEN now ELSE t

\* The dense formats are not meant for such a step: the lidar turns too fast.
TooWide(step) == kind \in {"dense", "ultradense"} /\ step * 4 > MaxDiff_q8(kind)

\* The decoder gets to the packet when it is complete, or later by `late`, or when
\* it is through with those before.
SendPacket(step, late) ==
    /\ lidar.on /\ wire = <<>>
    /\ lidar.n < IF lidar.s < MaxSessions THEN EarlierPackets ELSE MaxPackets
    /\ LET angle == (lidar.start + step) % Turn_q6
           sent  == lidar.at + Period
           p     == [what |-> "samples", s |-> lidar.s, n |-> lidar.n + 1, at |-> sent,
                     start |-> angle, first |-> lidar.n = 0, wrap |-> angle < lidar.start]
       IN  /\ lidar' = [lidar EXCEPT !.n = @ + 1, !.start = angle, !.at = sent,
                                        !.wide = @ + IF lidar.n > 0 /\ TooWide(step) THEN 1 ELSE 0]
           /\ wire' = [i \in 1 .. PacketSize |-> [val |-> PacketByte(p, i), pkt |-> p, pos |-> i]]
           /\ now' = ClockAt(sent + late)
    /\ batch' = <<>>
    /\ UNCHANGED <<kind, codec, enabled, active, h, client, faults, chain, got>>

\* A fault: a byte is lost, a byte is changed, a datagram is lost.
Fault(left, packets) ==
    /\ faults.all < MaxFaults /\ wire # <<>>
    /\ wire' = left
    /\ faults' = [all |-> faults.all + 1, here |-> faults.here + 1,
                  header |-> faults.header \/ Head(wire).pkt.what = "header",
                  packets |-> faults.packets + packets]
    /\ batch' = <<>>
    /\ UNCHANGED <<kind, lidar, codec, enabled, active, h, now, client, chain, got>>

LoseByte == Fault(Tail(wire), 0)
DamageByte(v) ==
    /\ wire # <<>> /\ v # Head(wire).val
    /\ Fault(<<[val |-> v, pkt |-> NoPacket, pos |-> 0]>> \o Tail(wire), 0)
LosePacket ==
    /\ Len(wire) \in {PacketSize, HeaderLength} /\ wire[1].pos = 1
    /\ Fault(<<>>, 1)

(***************************************************************************)
(* The unpacker                                                            *)
(***************************************************************************)
\* clearCache: only the selected handler is reset.
ClearCache == IF active = kind THEN ResetHandler(kind, h) ELSE h

\* reset(), of enable() and disable(): forgets the selection as well.
UnpackerReset == active' = "none" /\ h' = ClearCache

\* A byte for the handler; then all bytes of a payload, one after the other.
Take(r, b) == LET q == OnByte(kind, r.h, b, now) IN Result(q.h, r.out \o q.out)
TakeAll(from, payload) ==
    LET taken[i \in 0 .. Len(payload)] ==
          IF i = 0 THEN Result(from, <<>>) ELSE Take(taken[i - 1], payload[i])
    IN  taken[Len(payload)]

\* onSampleData: the handler and the batches it publishes.
OnSampleData(type, payload) ==
    LET from  == IF type = active THEN h ELSE ClearCache
    IN  IF enabled /\ type = kind THEN TakeAll(from, payload)
        ELSE Result(IF enabled THEN from ELSE h, <<>>)

Syncs(b) == Cardinality({i \in DOMAIN b.sync : b.sync[i]})
Turns(b) == IF b.prev # NoPacket /\ b.cur.start < b.prev.start THEN 1 ELSE 0
Extend(c, b) ==
    LET from == IF b.prev = c.end /\ c.end # NoPacket THEN c
                ELSE [Chain EXCEPT !.masked = h.sync]
    IN  [end |-> b.cur, masked |-> from.masked, turns |-> from.turns + Turns(b),
         syncs |-> from.syncs + Syncs(b)]

\* onDecodeData and, when a message is complete, onProtocolMessageDecoded.
DecodeNext(g) ==
    /\ wire # <<>>
    /\ LET b    == Head(wire)
           msgs == Decoded(codec, b)
           r    == IF msgs = <<>> THEN Result(h, <<>>) ELSE OnSampleData(codec.cmd, msgs[1])
       IN  /\ codec' = DecodeByte(codec, b, g)
           /\ h' = r.h
           /\ active' = IF msgs # <<>> /\ enabled THEN codec.cmd ELSE active
           /\ batch' = r.out
           /\ chain' = FoldLeft(Extend, chain, r.out)
           /\ got' = got + Len(r.out)
    /\ wire' = Tail(wire)
    /\ UNCHANGED <<kind, lidar, enabled, now, client, faults>>

(***************************************************************************)
(* The driver                                                              *)
(***************************************************************************)
ScanCommand ==
    IF kind \in {"normal", "hq"} THEN EncodeData(ByteOf(32), <<>>)
    ELSE EncodeData(ByteOf(130), <<ByteOf(2), {}, {}, {}, {}>>)

\* The end of startScanNormal_commonpath or startScanExpress: the last request
\* before has made the codec leave its loop; the unpacker is enabled before the
\* command is sent.
StartScan(start, fill) ==
    /\ client = "stopped" /\ wire = <<>> /\ lidar.s < MaxSessions
    /\ client' = "scanning"
    /\ codec' = ExitLoopMode
    /\ enabled' = TRUE /\ UnpackerReset
    /\ now' = ClockAt((lidar.s + 1) * ScanTime)
    /\ IF LidarAccepts(ScanCommand)
       THEN /\ lidar' = [on |-> TRUE, s |-> lidar.s + 1, n |-> 0, wide |-> 0,
                       start |-> start, fill |-> fill, at |-> now']
            /\ wire' = HeaderBytes
       ELSE UNCHANGED <<lidar, wire>>
    /\ faults' = [faults EXCEPT !.here = 0, !.header = FALSE]
    /\ chain' = Chain /\ got' = 0 /\ batch' = <<>>
    /\ UNCHANGED kind

\* stop(): the STOP command, then _disableDataGrabbing.  What is on the line
\* still arrives.
StopScan ==
    /\ client = "scanning"
    /\ client' = "stopped"
    /\ lidar' = [lidar EXCEPT !.on = FALSE]
    /\ enabled' = FALSE /\ UnpackerReset
    /\ codec' = ExitLoopMode
    /\ batch' = <<>>
    /\ UNCHANGED <<kind, wire, now, faults, chain, got>>

Next ==
    \/ \E start \in Starts, fill \in Fills : StartScan(start, fill)
    \/ StopScan
    \/ \E step \in Steps, late \in {0, Lateness} : SendPacket(step, late)
    \/ \E g \in Garbage : DecodeNext(g)
    \/ LoseByte
    \/ \E v \in {"A5", "5A", "00"} : DamageByte(v)
    \/ LosePacket

Spec == Init /\ [][Next]_vars

(***************************************************************************)
(* Properties                                                              *)
(***************************************************************************)
Batches == {batch[i] : i \in DOMAIN batch}

TypeOK ==
    /\ kind \in UsedKinds /\ client \in {"stopped", "scanning"}
    /\ codec.st \in {"sync1", "sync2", "size", "type", "payload"}
    /\ Len(h.buf) < PacketSize
    /\ enabled = (client = "scanning")
    /\ active \in {"none", "unknown", kind}

\* Samples are computed from two packets the lidar sent one after the other: what
\* a lost or damaged byte spoils never becomes an end of the arc the samples are
\* spread over, and with the two older formats the arc never begins in the scan
\* before a restart, whatever is lost (handler_capsules.cpp 107-204).  There are
\* no numbers in the packets: after the loss of a whole one, or of as many bytes
\* as it has, nothing is promised.
NeighboursOnly ==
    kind \in CapsuleKinds => \A b \in Batches :
        /\ faults.packets = 0 /\ faults.here < PacketSize =>
             b.prev.s = b.cur.s /\ b.cur.n = b.prev.n + 1
        /\ kind \in {"capsule", "ultra"} => b.prev.s = b.cur.s /\ b.cur.n > b.prev.n

\* Of the samples of a gapless stretch as many have the sync bit as the stretch
\* passed 0: one revolution is neither cut nor joined with the next.  "ultra"
\* rounds its step down and may miss one; the dense formats miss none, but give it
\* with the next packet when that starts at 0, and withhold it when the sample
\* before a gap had it.
SyncsMatchTurns ==
    CASE kind = "capsule" -> chain.syncs = chain.turns
      [] kind = "ultra"   -> chain.syncs <= chain.turns
      [] kind \in {"dense", "ultradense"} ->
           \/ chain.syncs >= chain.turns
           \/ chain.syncs = chain.turns - 1 /\ (chain.masked \/ chain.end.start = 0)
      [] OTHER -> TRUE

\* Every sample lies on the arc between the starts of its packet and the next,
\* moved back by the largest offset, also when the arc passes 0.
Offset_q6 == CASE kind = "capsule" -> OffsetCapsule_q16 \div 1024
               [] kind = "ultra"   -> OffsetUltra_q16 \div 1024
               [] OTHER            -> 0
SamplesOnArc ==
    kind \in CapsuleKinds => \A b \in Batches : \A i \in DOMAIN b.angle :
        /\ b.angle[i] \in 0 .. Turn_q6 - 1
        /\ (b.angle[i] + Offset_q6 - b.prev.start) % Turn_q6
              <= (b.cur.start - b.prev.start) % Turn_q6

\* Without a fault every packet but the first of a scan becomes samples, in the
\* second scan as in the first: nothing of the scan before is left in the codec
\* or in the handler.  And one fault costs the samples of three packets, and
\* delays those of the others by one (in loop mode a lost byte shifts all later
\* payloads), as long as no data byte looks like a sync byte: one that does may be
\* taken for the beginning of a packet, again and again.
EveryPacketDecoded ==
    client = "scanning" /\ wire = <<>> =>
        LET due == IF kind \in CapsuleKinds THEN lidar.n - 1 - lidar.wide ELSE lidar.n IN
        /\ lidar.on
        /\ faults.here = 0 => got >= due
        /\ faults.here = 1 /\ ~faults.header /\ lidar.fill = "00" /\ kind # "normal"
              => got >= due - 4

\* The packet whose decoding a batch is stamped with (getus()): the older formats
\* remember when that of the samples was decoded, the dense ones stamp its samples
\* when the next one is, a packet's time later than the older ones do.
Dated(b) == IF kind \in {"capsule", "ultra"} THEN b.prev ELSE b.cur

\* The time of sample i of a batch by the lidar's clock, less what a handler takes off.
TakenAt(b, i) == Dated(b).at - (FixedDelay + (Points[kind] - 1 - i) * SampleDuration)

\* No sample is stamped earlier than it was taken: the time a handler remembers is
\* the one of the packet it remembers, whatever was lost, damaged or left over from
\* the scan before, however late the decoder is (handler_capsules.cpp 107-215).
StampedNotEarly ==
    \A b \in Batches : Dated(b) # NoPacket =>
        \A i \in DOMAIN b.time : b.time[i] >= TakenAt(b, i)

\* And as long as nothing is lost, none is stamped later than the decoder is late.
\* (So times may run backwards from packet to packet, by as much as that.)
StampedInTime ==
    /\ StampedNotEarly
    /\ faults.here = 0 =>
         \A b \in Batches : \A i \in DOMAIN b.time : b.time[i] <= TakenAt(b, i) + Lateness

\* The comment of handler_capsules.cpp:767 about the dense formats: no sync bit
\* more than revolutions begun.
SyncExactlyDetected == kind \in {"dense", "ultradense"} => chain.syncs <= chain.turns
=============================================================================

----------------------------- MODULE FrameCodec -----------------------------
(***************************************************************************)
(* The codec between bytes and messages (sl_lidarprotocol_codec.cpp).      *)
(*                                                                         *)
(* A received byte is a record: its value `val`, and where it comes from,  *)
(* the packet `pkt` and the place `pos` in it.  Three values are told      *)
(* apart, "A5" and "5A", the sync bytes of the frame header whose high     *)
(* nibbles are also those of the capsules, and "00".  An answer is framed  *)
(* as A5 5A, four bytes of length and flags, a type, and the payload; in   *)
(* loop mode the payload comes again and again without a header.           *)
(*                                                                         *)
(* A sent byte is the set of its bits, so that exclusive or is symmetric   *)
(* difference.                                                             *)
(***************************************************************************)
EXTENDS Naturals, Sequences, SequencesExt

(***************************************************************************)
(* Encoding a command                                                      *)
(***************************************************************************)
Bits == 0 .. 7
Xor(a, b) == (a \ b) \cup (b \ a)
ByteOf(n) == {i \in Bits : (n \div 2^i) % 2 = 1}
CmdSync == ByteOf(165)                    \* RPLIDAR_CMD_SYNC_BYTE
HasPayload(cmd) == 7 \in cmd              \* RPLIDAR_CMDFLAG_HAS_PAYLOAD

\* 2 bytes, and for a command with a payload its length (8 bits of it), a byte
\* for the length and one for the checksum.
EstimateLength(cmd, payload) ==
    IF HasPayload(cmd) THEN 4 + (Len(payload) % 256) ELSE 2

\* The bytes of a command; the checksum is over everything before it.
EncodeData(cmd, payload) ==
    LET body == <<CmdSync, cmd, ByteOf(Len(payload))>> \o payload
    IN  IF HasPayload(cmd)
        THEN SubSeq(Append(body, FoldLeft(Xor, {}, body)), 1, EstimateLength(cmd, payload))
        ELSE <<CmdSync, cmd>>

\* What the lidar takes for a command (external): the exclusive or over all
\* bytes of a command with a payload is nothing, and the length is right.
LidarAccepts(bytes) ==
    /\ Len(bytes) >= 2
    /\ bytes[1] = CmdSync
    /\ HasPayload(bytes[2]) =>
         /\ Len(bytes) >= 4
         /\ bytes[3] = ByteOf(Len(bytes) - 4)
         /\ FoldLeft(Xor, {}, bytes) = {}

(***************************************************************************)
(* Decoding an answer                                                      *)
(***************************************************************************)
\* `rx` holds what was received in the present state: its length is _rx_pos.
DecodeReset == [st |-> "sync1", loop |-> FALSE, len |-> 0, cmd |-> "none", rx |-> <<>>]

\* exitLoopMode: called by the driver whenever it stops listening to samples
ExitLoopMode == DecodeReset

\* The places of a header: A5, 5A, four of the length, the type.
HeaderLength == 7
Whole(rx, from) ==
    \A i \in DOMAIN rx : rx[i].pkt = rx[1].pkt /\ rx[i].pos = from + i - 1

\* Length, flags as the last of their four bytes completes them: those the lidar
\* sent, or `g` when the four bytes are not the four it sent.
SizeFlag(rx, g) ==
    IF rx[1].pkt.what = "header" /\ Whole(rx, 3) THEN [len |-> rx[1].pkt.len, loop |-> TRUE] ELSE g

\* One turn of the loop in onDecodeData for byte `b`.
DecodeByte(c, b, g) ==
    LET rx == Append(c.rx, b) IN
    CASE c.st = "sync1" -> IF b.val = "A5" THEN [c EXCEPT !.st = "sync2"] ELSE c
      [] c.st = "sync2" ->
           IF b.val = "5A" THEN [c EXCEPT !.st = "size", !.rx = <<>>] ELSE [c EXCEPT !.st = "sync1"]
      [] c.st = "size" ->
           IF Len(rx) < 4 THEN [c EXCEPT !.rx = rx]
           ELSE [c EXCEPT !.st = "type", !.rx = <<>>,
                          !.len = SizeFlag(rx, g).len, !.loop = SizeFlag(rx, g).loop]
      [] c.st = "type" ->
           LET type == IF b.pkt.what = "header" /\ b.pos = HeaderLength THEN b.pkt.type ELSE "unknown"
           IN  IF c.len = 0 THEN [c EXCEPT !.st = "sync1", !.loop = FALSE, !.cmd = type]
               ELSE [c EXCEPT !.st = "payload", !.cmd = type]
      [] c.st = "payload" ->
           IF Len(rx) < c.len THEN [c EXCEPT !.rx = rx]
           ELSE IF c.loop THEN [c EXCEPT !.rx = <<>>]
           ELSE [c EXCEPT !.st = "sync1", !.rx = <<>>]

\* The payloads handed to the listener with that byte: none or one.
Decoded(c, b) ==
    IF c.st = "payload" /\ Len(c.rx) + 1 = c.len THEN <<Append(c.rx, b)>> ELSE <<>>
=============================================================================

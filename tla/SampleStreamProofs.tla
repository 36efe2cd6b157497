------------------------- MODULE SampleStreamProofs -------------------------
(***************************************************************************)
(* Proofs about SampleStream: what the samples are computed from, for      *)
(* every size of the packets, every number of samples in them, any number  *)
(* of sessions, packets and faults, whatever a damaged header is taken     *)
(* for.                                                                    *)
(*                                                                         *)
(* The argument is about one sequence, the stream: the bytes the handler   *)
(* has, those the codec has, those on the wire.  Wherever a packet ends in *)
(* it, the next byte that begins one begins the next packet (or, when a    *)
(* whole one was lost, a later one).  The handler can only join what       *)
(* stands side by side in the stream.  A payload is taken byte by byte by  *)
(* a recursive function; what holds after it is shown of the least number  *)
(* of bytes after which it would not.                                      *)
(*                                                                         *)
(* The second argument is about times: every byte that has come is of a    *)
(* packet that was sent, and the time a handler remembers is one at which  *)
(* the packet it remembers had been.                                       *)
(***************************************************************************)
EXTENDS SampleStream, TLAPS, WellFoundedInduction

-----------------------------------------------------------------------------
(* The stream *)

\* What a byte on the line may belong to: a header, a packet of samples, nothing.
Headers == [what : {"header"}, len : {PacketSize}, type : UsedKinds, s : Nat]
Samples == [what : {"samples"}, s : Nat, n : Nat \ {0}, at : Nat, start : Nat, first : BOOLEAN,
            wrap : BOOLEAN]
Packets == {NoPacket} \cup Headers \cup Samples
Byte == [val : {"A5", "5A", "00"} \cup Fills, pkt : Packets, pos : Nat]
Good(b) == b.pkt.what = "samples"
Older == kind \in {"capsule", "ultra"}

\* No packet is lost, and not as many bytes as a packet has.
NoLoss(F) == F.packets = 0 /\ F.here < PacketSize

\* The number of the packet a handler has decoded last, in this session.
Before(hd, L) == IF hd.prev.s = L.s THEN hd.prev.n ELSE 0

\* Byte `y`, if it begins a packet, begins the one after packet `m`, or, after
\* a loss, a later one.
Follows(m, y, F) == Good(y) /\ y.pos = 1 => y.pkt.n > m /\ (NoLoss(F) => y.pkt.n = m + 1)

\* A packet `m` that ends where the stream ends is followed by the one on the wire:
\* the last that was sent, none having been skipped.
EndLink(m, w, L, F) ==
  /\ m <= L.n /\ (m = L.n => w = <<>>)
  /\ NoLoss(F) => m = L.n \/ (m = L.n - 1 /\ Len(w) + F.here >= PacketSize)

\* The bytes `Z` are of packets of this session, in the order they were sent.  `w`
\* is on the wire behind them.
Carry(Z, w, L, F) ==
  /\ \A i \in 1 .. Len(Z) : Good(Z[i]) =>
       /\ Z[i].pkt.s = L.s /\ Z[i].pkt.n <= L.n
       /\ Z[i].pkt.n = L.n => Z[i].pos <= PacketSize - Len(w)
       /\ Z[i].pkt.first = (Z[i].pkt.n = 1)
  /\ \A i \in 1 .. Len(Z) - 1 : Good(Z[i]) /\ Z[i].pos = PacketSize => Follows(Z[i].pkt.n, Z[i + 1], F)
  /\ Z # <<>> /\ Good(Z[Len(Z)]) /\ Z[Len(Z)].pos = PacketSize => EndLink(Z[Len(Z)].pkt.n, w, L, F)

\* The packet a handler has decoded is followed by the one that begins behind it:
\* byte `j + 1` of `Z`, or what is on the wire.
Ahead(hd, j, Z, w, L, F) ==
  hd.ready => IF j = Len(Z) THEN EndLink(Before(hd, L), w, L, F) ELSE Follows(Before(hd, L), Z[j + 1], F)

\* With the older formats a handler that is ready has a packet of this session.
Prevs(hd, L) == hd.ready => hd.prev \in Samples /\ hd.prev.s <= L.s /\ (Older => hd.prev.s = L.s)

\* The handler holds bytes `j + 1` to `k` of the stream.
Holding(hd, j, k, Z) == 
  /\ j \in 0 .. k /\ k <= Len(Z) /\ Len(hd.buf) = k - j /\ \A i \in 1 .. k - j : hd.buf[i] = Z[j + i]

\* What NeighboursOnly says of one batch.
Linked(b, F) ==
  /\ NoLoss(F) => b.prev.s = b.cur.s /\ b.cur.n = b.prev.n + 1
  /\ Older => b.prev.s = b.cur.s /\ b.cur.n > b.prev.n

\* Every batch is linked.  A set of batches is easier to reason about than their
\* sequence.
Published(out, F) == \E S : out \in Seq(S) /\ \A b \in S : Linked(b, F)

-----------------------------------------------------------------------------
(* Induction over a payload *)

\* A set of numbers has a least element.
LEMMA LeastExists ==
  ASSUME NEW S \in SUBSET Nat, S # {}
  PROVE  \E x \in S : \A y \in S : x <= y
<1> DEFINE R == {ss \in Nat \X Nat : ss[1] < ss[2]}
<1>1. IsWellFoundedOn(R, Nat)
  BY NatLessThanWellFounded DEF OpToRel
<1>2. \A x, y \in Nat : <<y, x>> \in R <=> y < x
  OBVIOUS
<1> HIDE DEF R
<1>3. PICK x \in S : \A y \in S : ~(<<y, x>> \in R)
  BY <1>1, WFMin, Zenon
<1>4. ASSUME NEW y \in S PROVE x <= y
  <2>1. ~(y < x) /\ x \in Nat /\ y \in Nat
    BY <1>2, <1>3
  <2> QED BY <2>1
<1> QED BY <1>4

\* taken, for the first n bytes of a payload.
Takes(f, n, from, payload) ==
  f = [i \in 0 .. n |-> IF i = 0 THEN Result(from, <<>>) ELSE Take(f[i - 1], payload[i])]

\* The recursive function of TakeAll exists, for payloads of any length.
LEMMA TakesExist ==
  ASSUME NEW from, NEW payload, NEW n \in Nat
  PROVE  \E f : Takes(f, n, from, payload)
<1> DEFINE none == {m \in Nat : ~\E f : Takes(f, m, from, payload)}
<1> SUFFICES ASSUME none # {} PROVE FALSE
  OBVIOUS
<1>1. PICK m \in none : \A k \in none : m <= k
  BY LeastExists
<1>2. CASE m = 0
  <2> DEFINE f == [i \in 0 .. 0 |-> Result(from, <<>>)]
  <2>1. Takes(f, 0, from, payload)
    BY DEF Takes
  <2> QED BY <1>2, <2>1
<1>3. CASE m # 0
  <2>1. m - 1 \in Nat /\ m - 1 \notin none
    BY <1>1, <1>3
  <2>2. PICK g : Takes(g, m - 1, from, payload)
    BY <2>1
  <2> DEFINE f == [i \in 0 .. m |-> IF i < m THEN g[i] ELSE Take(g[m - 1], payload[m])]
  <2>3. ASSUME NEW i \in 0 .. m
        PROVE  f[i] = IF i = 0 THEN Result(from, <<>>) ELSE Take(f[i - 1], payload[i])
    <3>1. CASE i < m
      <4>1. i \in 0 .. m - 1 /\ f[i] = g[i] /\ (i # 0 => i - 1 \in 0 .. m /\ i - 1 < m)
        BY <2>1, <3>1
      <4>2. i # 0 => f[i - 1] = g[i - 1]
        BY <4>1
      <4>3. g[i] = IF i = 0 THEN Result(from, <<>>) ELSE Take(g[i - 1], payload[i])
        BY <2>2, <4>1 DEF Takes
      <4> QED BY <4>1, <4>2, <4>3
    <3>2. CASE i = m
      <4>1. f[i] = Take(g[m - 1], payload[m]) /\ i # 0
        BY <1>3, <3>2
      <4>2. m - 1 \in 0 .. m /\ m - 1 < m
        BY <2>1
      <4>3. f[m - 1] = g[m - 1]
        BY <4>2
      <4> QED BY <3>2, <4>1, <4>3
    <3> QED BY <3>1, <3>2
  <2>4. f = [i \in 0 .. m |-> IF i = 0 THEN Result(from, <<>>) ELSE Take(f[i - 1], payload[i])]
    <3> HIDE DEF f
    <3>1. DOMAIN f = 0 .. m /\ f = [i \in 0 .. m |-> f[i]]
      BY DEF f
    <3> QED BY <2>3, <3>1
  <2>5. \E e : Takes(e, m, from, payload)
    <3> HIDE DEF f
    <3> QED BY <2>4 DEF Takes
  <2> QED BY <2>5
<1> QED BY <1>2, <1>3

\* TakeAll is the last value of that function.
LEMMA Taking ==
  ASSUME NEW from, NEW payload, Len(payload) \in Nat
  PROVE  \E f : Takes(f, Len(payload), from, payload) /\ TakeAll(from, payload) = f[Len(payload)]
<1> DEFINE n == Len(payload)
           c == CHOOSE f : Takes(f, n, from, payload)
<1>1. Takes(c, n, from, payload)
  <2>1. \E f : Takes(f, n, from, payload)
    BY TakesExist
  <2> QED BY <2>1, Zenon
<1>2. TakeAll(from, payload) = c[n]
  BY DEF TakeAll, Takes
<1> QED BY <1>1, <1>2

-----------------------------------------------------------------------------
(* Handlers *)

\* A handler between two bytes.  Its fields are named because the provers do not
\* find them in a record that was updated several times.
IsHandler(hd) ==
  /\ hd = [buf |-> hd.buf, ready |-> hd.ready, prev |-> hd.prev, ts |-> hd.ts, sync |-> hd.sync]
  /\ hd.buf \in Seq(Byte) /\ Len(hd.buf) < PacketSize /\ hd.ready \in BOOLEAN

\* What is assumed of a packet's size (the structs of sl_lidar_cmd.h have at least
\* four bytes).
LEMMA Sizes == PacketSize \in Nat /\ PacketSize >= 4
BY PacketAssumption

\* The record has the fields of a handler, and no other.
IsRecord(hd) == hd = [buf |-> hd.buf, ready |-> hd.ready, prev |-> hd.prev, ts |-> hd.ts, sync |-> hd.sync]

\* A handler that is no longer ready keeps what else it has.
LEMMA Unready ==
  ASSUME NEW hd, IsHandler(hd), NEW r, r = [hd EXCEPT !.ready = FALSE]
  PROVE  IsHandler(r) /\ r.buf = hd.buf /\ r.ready = FALSE /\ r.prev = hd.prev /\ r.ts = hd.ts
<1>1. r.buf = hd.buf /\ r.ready = FALSE /\ r.prev = hd.prev /\ r.ts = hd.ts
  BY DEF IsHandler
<1>2. IsRecord(r)
  BY DEF IsHandler, IsRecord
<1> QED BY <1>1, <1>2 DEF IsHandler, IsRecord

\* A handler that drops its bytes and is no longer ready.
LEMMA Forget ==
  ASSUME NEW hd, IsHandler(hd), NEW r, r = [hd EXCEPT !.buf = <<>>, !.ready = FALSE]
  PROVE  IsHandler(r) /\ r.buf = <<>> /\ r.ready = FALSE /\ r.prev = hd.prev /\ r.ts = hd.ts
<1>1. r.buf = <<>> /\ r.ready = FALSE /\ r.prev = hd.prev /\ r.ts = hd.ts
  BY DEF IsHandler
<1>2. IsRecord(r)
  BY DEF IsHandler, IsRecord
<1>3. <<>> \in Seq(Byte) /\ Len(<<>>) < PacketSize
  BY Sizes
<1> QED BY <1>1, <1>2, <1>3 DEF IsHandler, IsRecord

\* A handler with other bytes.
LEMMA Gather ==
  ASSUME NEW hd, IsHandler(hd), NEW buf \in Seq(Byte), Len(buf) < PacketSize,
         NEW r, r = [hd EXCEPT !.buf = buf]
  PROVE  IsHandler(r) /\ r.buf = buf /\ r.ready = hd.ready /\ r.prev = hd.prev /\ r.ts = hd.ts
<1>1. r.buf = buf /\ r.ready = hd.ready /\ r.prev = hd.prev /\ r.ts = hd.ts
  BY DEF IsHandler
<1>2. IsRecord(r)
  BY DEF IsHandler, IsRecord
<1> QED BY <1>1, <1>2 DEF IsHandler, IsRecord

\* A byte of a packet of samples says which one.
LEMMA GoodByte ==
  ASSUME NEW b \in Byte, Good(b)
  PROVE  /\ b.pkt \in Samples /\ b.pkt.s \in Nat /\ b.pkt.n \in Nat \ {0} /\ b.pkt.first \in BOOLEAN
         /\ b.pkt.at \in Nat /\ b.pkt # NoPacket /\ b.pkt \in Packets /\ b.pos \in Nat
<1>1. PICK p : p = b.pkt /\ p \in Packets /\ p.what = "samples" /\ b.pos \in Nat
  BY DEF Byte, Good
<1>2. p \in Samples /\ p # NoPacket
  BY ONLY <1>1 DEF Packets, Headers, NoPacket
<1>3. p.n \in Nat \ {0} /\ p.s \in Nat /\ p.first \in BOOLEAN /\ p.at \in Nat
  BY ONLY <1>2 DEF Samples
<1> QED BY <1>1, <1>2, <1>3

\* The samples of a batch are stamped backwards from `base`.
Stamped(k, base) == [i \in 0 .. Points[k] - 1 |-> base - (FixedDelay + (Points[k] - 1 - i) * SampleDuration)]

\* With a byte, a handler of capsules drops what it has, ..
Dropped(hd, r) == 
  /\ r.out = <<>> /\ IsHandler(r.h) /\ r.h.buf = <<>> /\ r.h.ready = FALSE
  /\ r.h.prev = hd.prev /\ r.h.ts = hd.ts

\* .. or keeps it, ..
Gathers(hd, b, r) ==
  /\ r.out = <<>> /\ IsHandler(r.h) /\ r.h.buf = Append(hd.buf, b)
  /\ r.h.ready = hd.ready /\ r.h.prev = hd.prev /\ r.h.ts = hd.ts

\* One batch, of packets `prev` and `cap`.
Publishes(out, prev, cap, time) ==
  out = <<out[1]>> /\ out[1].prev = prev /\ out[1].cur = cap /\ out[1].time = time

\* .. or completes a capsule, and publishes at most one batch, which joins the
\* capsule before, if there was one, with it.
Completes(hd, cap, k, r) ==
  /\ IsHandler(r.h) /\ r.h.buf = <<>> /\ r.h.prev = cap
  /\ r.h.ts = IF k \in {"capsule", "ultra"} THEN now ELSE hd.ts
  /\ \/ r.out = <<>>
     \/ /\ hd.ready /\ ~cap.first
        /\ Publishes(r.out, hd.prev, cap, Stamped(k, IF k \in {"capsule", "ultra"} THEN hd.ts ELSE now))

\* The handler a capsule is decoded with.
Emptied(hd, cap) == [hd EXCEPT !.buf = <<>>, !.ready = @ /\ ~cap.first]

\* Gathering (handler_capsules.cpp 107-160): a capsule is complete only when all
\* its bytes are those of one packet.
LEMMA CapsuleByteCases ==
  ASSUME NEW hd, IsHandler(hd), NEW b \in Byte, NEW g, g = CapsuleByte(hd, b)
  PROVE  LET buf == Append(hd.buf, b) IN
         \/ g.cap = NoPacket /\ Dropped(hd, Result(g.h, <<>>))
         \/ g.cap = NoPacket /\ Gathers(hd, b, Result(g.h, <<>>))
         \/ /\ Len(buf) = PacketSize /\ Intact(buf) /\ g.cap = buf[1].pkt
            /\ g.h = Emptied(hd, g.cap) /\ g.cap # NoPacket /\ g.cap.first \in BOOLEAN
<1> DEFINE buf == Append(hd.buf, b)
<1> USE Sizes
<1>1. /\ buf \in Seq(Byte) /\ Len(buf) = Len(hd.buf) + 1 /\ Len(hd.buf) \in Nat
      /\ Len(hd.buf) = 0 => hd.buf = <<>>
  BY DEF IsHandler
<1>2. <<>> \in Seq(Byte) /\ Len(<<>>) = 0 /\ 0 < PacketSize
  OBVIOUS
<1> HIDE DEF buf
<1>3. CASE Len(buf) = 1 /\ Hi(b) # "A"
  <2>1. g = Gathered([hd EXCEPT !.ready = FALSE], NoPacket)
    BY <1>3 DEF CapsuleByte, buf
  <2>2. Dropped(hd, Result(g.h, <<>>))
    <3>1. IsHandler(g.h) /\ g.h.buf = hd.buf /\ g.h.ready = FALSE /\ g.h.prev = hd.prev /\ g.h.ts = hd.ts
      <4>1. g.h = [hd EXCEPT !.ready = FALSE]
        BY <2>1 DEF Gathered
      <4> QED BY <4>1, Unready, Zenon
    <3>2. hd.buf = <<>>
      <4>1. Len(buf) = Len(hd.buf) + 1 /\ Len(hd.buf) \in Nat /\ Len(buf) = 1
        BY <1>1, <1>3, Zenon
      <4>2. Len(hd.buf) = 0
        <5>1. \A m : \A n \in Nat : m = n + 1 /\ m = 1 => n = 0
          OBVIOUS
        <5> QED BY <4>1, <5>1, Zenon
      <4> QED BY <1>1, <4>2, Zenon
    <3> QED BY <3>1, <3>2 DEF Dropped, Result
  <2> QED BY <2>1, <2>2 DEF Gathered
<1>4. CASE ~(Len(buf) = 1 /\ Hi(b) # "A") /\ Len(buf) = 2 /\ Hi(b) # "5"
  <2>1. g = Gathered([hd EXCEPT !.buf = <<>>, !.ready = FALSE], NoPacket)
    BY <1>4 DEF CapsuleByte, buf
  <2>2. Dropped(hd, Result(g.h, <<>>))
    <3>1. IsHandler(g.h) /\ g.h.buf = <<>> /\ g.h.ready = FALSE /\ g.h.prev = hd.prev /\ g.h.ts = hd.ts
      <4>1. g.h = [hd EXCEPT !.buf = <<>>, !.ready = FALSE]
        BY <2>1 DEF Gathered
      <4> QED BY <4>1, Forget, Zenon
    <3> QED BY <3>1 DEF Dropped, Result
  <2> QED BY <2>1, <2>2 DEF Gathered
<1>5. CASE /\ ~(Len(buf) = 1 /\ Hi(b) # "A") /\ ~(Len(buf) = 2 /\ Hi(b) # "5")
           /\ Len(buf) < PacketSize
  <2>1. g = Gathered([hd EXCEPT !.buf = buf], NoPacket)
    BY <1>5 DEF CapsuleByte, buf
  <2>2. Gathers(hd, b, Result(g.h, <<>>))
    <3>1. Gathers(hd, b, Result(g.h, <<>>)) <=> 
            /\ IsHandler(g.h) /\ g.h.buf = buf
            /\ g.h.ready = hd.ready /\ g.h.prev = hd.prev /\ g.h.ts = hd.ts
      BY DEF Gathers, Result, buf
    <3>2. IsHandler(g.h) /\ g.h.buf = buf /\ g.h.ready = hd.ready /\ g.h.prev = hd.prev /\ g.h.ts = hd.ts
      BY <1>1, <1>5, <2>1, Gather DEF Gathered
    <3> QED BY <3>1, <3>2
  <2> QED BY <2>1, <2>2 DEF Gathered
<1>6. CASE /\ ~(Len(buf) = 1 /\ Hi(b) # "A") /\ ~(Len(buf) = 2 /\ Hi(b) # "5")
           /\ ~(Len(buf) < PacketSize)
  <2>1. CASE ~Intact(buf)
    <3>1. g = Gathered([hd EXCEPT !.buf = <<>>, !.ready = FALSE], NoPacket)
      BY <1>6, <2>1 DEF CapsuleByte, buf
    <3>2. Dropped(hd, Result(g.h, <<>>))
      <4>1. IsHandler(g.h) /\ g.h.buf = <<>> /\ g.h.ready = FALSE /\ g.h.prev = hd.prev /\ g.h.ts = hd.ts
        <5>1. g.h = [hd EXCEPT !.buf = <<>>, !.ready = FALSE]
          BY <3>1 DEF Gathered
        <5> QED BY <5>1, Forget, Zenon
      <4> QED BY <4>1 DEF Dropped, Result
    <3> QED BY <3>1, <3>2 DEF Gathered
  <2>2. CASE Intact(buf)
    <3>1. g = Gathered(Emptied(hd, buf[1].pkt), buf[1].pkt)
      BY <1>6, <2>2 DEF CapsuleByte, buf, Emptied
    <3>2. buf[1] \in Byte /\ Good(buf[1])
      BY <1>1, <1>6, <2>2 DEF Intact, Good
    <3>3. buf[1].pkt # NoPacket /\ buf[1].pkt.first \in BOOLEAN
      BY <3>2, GoodByte
    <3>4. Len(buf) = PacketSize
      BY <1>1, <1>6 DEF IsHandler
    <3> QED BY <2>2, <3>1, <3>3, <3>4 DEF Gathered, buf
  <2> QED BY <2>1, <2>2
<1> QED BY <1>3, <1>4, <1>5, <1>6

\* Such a handler is ready only if it was, and the capsule is not the first of a scan.
LEMMA EmptiedHandler ==
  ASSUME NEW hd, IsHandler(hd), NEW cap, cap.first \in BOOLEAN, NEW e, e = Emptied(hd, cap)
  PROVE  /\ IsHandler(e) /\ e.buf = <<>> /\ e.prev = hd.prev /\ e.ts = hd.ts
         /\ e.ready \in BOOLEAN /\ (e.ready => hd.ready /\ ~cap.first)
<1>1. e.buf = <<>> /\ e.ready = (hd.ready /\ ~cap.first) /\ e.prev = hd.prev /\ e.ts = hd.ts
  BY DEF IsHandler, Emptied
<1>2. IsRecord(e)
  BY DEF IsHandler, IsRecord, Emptied
<1>3. <<>> \in Seq(Byte) /\ Len(<<>>) < PacketSize
  BY Sizes
<1>4. e.ready \in BOOLEAN /\ (e.ready => hd.ready /\ ~cap.first)
  <2>1. CASE hd.ready /\ ~cap.first
    BY <1>1, <2>1
  <2>2. CASE ~(hd.ready /\ ~cap.first)
    BY <1>1, <2>2
  <2> QED BY <2>1, <2>2
<1> QED BY <1>1, <1>2, <1>3, <1>4 DEF IsHandler, IsRecord

\* A handler of the older formats that has taken a capsule.
LEMMA Loaded ==
  ASSUME NEW e, IsHandler(e), NEW cap, NEW n, n = [e EXCEPT !.prev = cap, !.ready = TRUE, !.ts = now]
  PROVE  IsHandler(n) /\ n.buf = e.buf /\ n.prev = cap /\ n.ts = now
<1>1. n.buf = e.buf /\ n.ready = TRUE /\ n.prev = cap /\ n.ts = now
  BY DEF IsHandler
<1>2. IsRecord(n)
  BY DEF IsHandler, IsRecord
<1> QED BY <1>1, <1>2 DEF IsHandler, IsRecord

\* Batch makes one batch, of the packets it is given.
LEMMA BatchPublishes ==
  ASSUME NEW out, NEW prev, NEW cap, NEW angle, NEW sync, NEW time,
         out = Batch(prev, cap, angle, sync, time)
  PROVE  Publishes(out, prev, cap, time)
BY DEF Batch, Publishes

\* A handler of the dense formats after capsule `cap`, when it was `hd` before.
Taken(n, cap, hd) == IsHandler(n) /\ n.buf = <<>> /\ n.prev = cap /\ n.ts = hd.ts

\* A handler of the dense formats that has taken a capsule, whatever its sync bit.
LEMMA LoadedDense ==
  ASSUME NEW hd, NEW e, IsHandler(e), e.buf = <<>>, e.ts = hd.ts, NEW cap,
         NEW n, n = [e EXCEPT !.prev = cap, !.ready = TRUE],
         NEW m, m = [e EXCEPT !.prev = cap]
  PROVE  Taken(n, cap, hd) /\ Taken(m, cap, hd) /\ \A s : Taken([n EXCEPT !.sync = s], cap, hd)
<1>1. n.buf = e.buf /\ n.ready = TRUE /\ n.prev = cap /\ n.ts = e.ts
  BY DEF IsHandler
<1>2. m.buf = e.buf /\ m.ready = e.ready /\ m.prev = cap /\ m.ts = e.ts
  BY DEF IsHandler
<1>3. IsRecord(n) /\ IsRecord(m)
  BY DEF IsHandler, IsRecord
<1>4. Taken(n, cap, hd) /\ Taken(m, cap, hd)
  BY <1>1, <1>2, <1>3 DEF IsHandler, IsRecord, Taken
<1>5. ASSUME NEW s, NEW q, q = [n EXCEPT !.sync = s]
      PROVE  Taken(q, cap, hd)
  <2>1. q.buf = n.buf /\ q.ready = n.ready /\ q.prev = n.prev /\ q.ts = n.ts
    BY <1>3, <1>5 DEF IsRecord
  <2>2. IsRecord(q)
    BY <1>3, <1>5 DEF IsRecord
  <2> QED BY <1>4, <2>1, <2>2 DEF IsHandler, IsRecord, Taken
<1> QED BY <1>4, <1>5, Zenon

\* A decoder joins the capsule before with this one, and no other: "capsule".
LEMMA CapsuleDecodes ==
  ASSUME NEW hd, IsHandler(hd), NEW cap, cap.first \in BOOLEAN
  PROVE  Completes(hd, cap, "capsule", CapsuleDecode(Emptied(hd, cap), cap, now))
<1> DEFINE e == Emptied(hd, cap)
           r == CapsuleDecode(e, cap, now)
           I == 0 .. Points["capsule"] - 1
<1>1. /\ IsHandler(e) /\ e.buf = <<>> /\ e.prev = hd.prev /\ e.ts = hd.ts
      /\ e.ready \in BOOLEAN /\ (e.ready => hd.ready /\ ~cap.first)
  BY EmptiedHandler
<1> HIDE DEF e
<1>2. PICK n : n = [e EXCEPT !.prev = cap, !.ready = TRUE, !.ts = now]
  OBVIOUS
<1>3. IsHandler(n) /\ n.buf = <<>> /\ n.prev = cap /\ n.ts = now
  <2>1. IsHandler(e) /\ e.buf = <<>>
    BY <1>1, Zenon
  <2>2. \A c, m : m = [e EXCEPT !.prev = c, !.ready = TRUE, !.ts = now]
                  => IsHandler(m) /\ m.buf = e.buf /\ m.prev = c /\ m.ts = now
    BY <2>1, Loaded, Zenon
  <2>3. IsHandler(n) /\ n.buf = e.buf /\ n.prev = cap /\ n.ts = now
    BY <1>2, <2>2, Zenon
  <2> QED BY <2>1, <2>3, Zenon
<1>4. CASE ~e.ready
  <2>1. r = Result(n, <<>>)
    BY <1>2, <1>4, Zenon DEF CapsuleDecode
  <2> HIDE DEF r
  <2>2. r.h = n /\ r.out = <<>>
    BY <2>1 DEF Result
  <2>3. Completes(hd, cap, "capsule", r)
    BY <1>3, <2>2 DEF Completes
  <2> QED BY <2>3 DEF r, e
<1>5. CASE e.ready
  <2> DEFINE time == [i \in I |-> e.ts - DelayCapsule(i)]
  <2>1. PICK angle, sync : r = Result(n, Batch(e.prev, cap, angle, sync, time))
    BY <1>2, <1>5, Zenon DEF CapsuleDecode
  <2>2. time = Stamped("capsule", hd.ts)
    BY <1>1 DEF Stamped, DelayCapsule
  <2> HIDE DEF time, r
  <2>3. r.h = n /\ r.out = Batch(hd.prev, cap, angle, sync, time)
    BY <1>1, <2>1 DEF Result
  <2>4. Publishes(r.out, hd.prev, cap, time)
    BY <2>3, BatchPublishes
  <2>5. Completes(hd, cap, "capsule", r)
    BY <1>1, <1>3, <1>5, <2>2, <2>3, <2>4 DEF Completes
  <2> QED BY <2>5 DEF r, e
<1> QED BY <1>4, <1>5

\* The same of "ultra".
LEMMA UltraDecodes ==
  ASSUME NEW hd, IsHandler(hd), NEW cap, cap.first \in BOOLEAN
  PROVE  Completes(hd, cap, "ultra", UltraDecode(Emptied(hd, cap), cap, now))
<1> DEFINE e == Emptied(hd, cap)
           r == UltraDecode(e, cap, now)
           I == 0 .. Points["ultra"] - 1
<1>1. /\ IsHandler(e) /\ e.buf = <<>> /\ e.prev = hd.prev /\ e.ts = hd.ts
      /\ e.ready \in BOOLEAN /\ (e.ready => hd.ready /\ ~cap.first)
  BY EmptiedHandler
<1> HIDE DEF e
<1>2. PICK n : n = [e EXCEPT !.prev = cap, !.ready = TRUE, !.ts = now]
  OBVIOUS
<1>3. IsHandler(n) /\ n.buf = <<>> /\ n.prev = cap /\ n.ts = now
  <2>1. IsHandler(e) /\ e.buf = <<>>
    BY <1>1, Zenon
  <2>2. \A c, m : m = [e EXCEPT !.prev = c, !.ready = TRUE, !.ts = now]
                  => IsHandler(m) /\ m.buf = e.buf /\ m.prev = c /\ m.ts = now
    BY <2>1, Loaded, Zenon
  <2>3. IsHandler(n) /\ n.buf = e.buf /\ n.prev = cap /\ n.ts = now
    BY <1>2, <2>2, Zenon
  <2> QED BY <2>1, <2>3, Zenon
<1>4. CASE ~e.ready
  <2>1. r = Result(n, <<>>)
    BY <1>2, <1>4, Zenon DEF UltraDecode
  <2> HIDE DEF r
  <2>2. r.h = n /\ r.out = <<>>
    BY <2>1 DEF Result
  <2>3. Completes(hd, cap, "ultra", r)
    BY <1>3, <2>2 DEF Completes
  <2> QED BY <2>3 DEF r, e
<1>5. CASE e.ready
  <2> DEFINE time == [i \in I |-> e.ts - DelayUltra(i)]
  <2>1. PICK angle, sync : r = Result(n, Batch(e.prev, cap, angle, sync, time))
    BY <1>2, <1>5, Zenon DEF UltraDecode
  <2>2. time = Stamped("ultra", hd.ts)
    BY <1>1 DEF Stamped, DelayUltra
  <2> HIDE DEF time, r
  <2>3. r.h = n /\ r.out = Batch(hd.prev, cap, angle, sync, time)
    BY <1>1, <2>1 DEF Result
  <2>4. Publishes(r.out, hd.prev, cap, time)
    BY <2>3, BatchPublishes
  <2>5. Completes(hd, cap, "ultra", r)
    BY <1>1, <1>3, <1>5, <2>2, <2>3, <2>4 DEF Completes
  <2> QED BY <2>5 DEF r, e
<1> QED BY <1>4, <1>5

\* The same of "dense", for a step that is too wide as well.
LEMMA DenseDecodes ==
  ASSUME NEW hd, IsHandler(hd), NEW cap, cap.first \in BOOLEAN
  PROVE  Completes(hd, cap, "dense", DenseDecode(Emptied(hd, cap), cap, now))
<1> DEFINE e == Emptied(hd, cap)
           r == DenseDecode(e, cap, now)
           I == 0 .. Points["dense"] - 1
           time == [i \in I |-> now - DelayDense(i)]
<1>1. /\ IsHandler(e) /\ e.buf = <<>> /\ e.prev = hd.prev /\ e.ts = hd.ts
      /\ e.ready \in BOOLEAN /\ (e.ready => hd.ready /\ ~cap.first)
  BY EmptiedHandler
<1> HIDE DEF e
<1>2. PICK n, m : n = [e EXCEPT !.prev = cap, !.ready = TRUE] /\ m = [e EXCEPT !.prev = cap]
  OBVIOUS
<1>3. Taken(n, cap, hd) /\ Taken(m, cap, hd) /\ \A s : Taken([n EXCEPT !.sync = s], cap, hd)
  BY <1>1, <1>2, LoadedDense, Zenon
<1>4. CASE ~(e.ready /\ ~(Diff_q8(e.prev, cap) > MaxDiff_q8("dense")))
  <2>1. r = Result(n, <<>>) \/ r = Result(m, <<>>)
    BY <1>2, <1>4, Zenon DEF DenseDecode
  <2> HIDE DEF r
  <2>2. (r.h = n \/ r.h = m) /\ r.out = <<>>
    BY <2>1 DEF Result
  <2>3. Completes(hd, cap, "dense", r)
    BY <1>3, <2>2 DEF Completes, Taken
  <2> QED BY <2>3 DEF r, e
<1>5. CASE e.ready /\ ~(Diff_q8(e.prev, cap) > MaxDiff_q8("dense"))
  <2>1. PICK angle, sync, s : r = Result([n EXCEPT !.sync = s], Batch(e.prev, cap, angle, sync, time))
    BY <1>2, <1>5, Zenon DEF DenseDecode
  <2>2. time = Stamped("dense", now)
    BY <1>1 DEF Stamped, DelayDense
  <2> HIDE DEF time, r
  <2>3. Taken(r.h, cap, hd) /\ r.out = Batch(hd.prev, cap, angle, sync, time)
    <3>1. r.h = [n EXCEPT !.sync = s] /\ r.out = Batch(e.prev, cap, angle, sync, time)
      BY <2>1 DEF Result
    <3> QED BY <1>1, <1>3, <3>1, Zenon
  <2>4. Publishes(r.out, hd.prev, cap, time)
    BY <2>3, BatchPublishes
  <2>5. Completes(hd, cap, "dense", r)
    BY <1>1, <1>5, <2>2, <2>3, <2>4 DEF Completes, Taken
  <2> QED BY <2>5 DEF r, e
<1> QED BY <1>4, <1>5

\* The same of "ultradense".
LEMMA UltraDenseDecodes ==
  ASSUME NEW hd, IsHandler(hd), NEW cap, cap.first \in BOOLEAN
  PROVE  Completes(hd, cap, "ultradense", UltraDenseDecode(Emptied(hd, cap), cap, now))
<1> DEFINE e == Emptied(hd, cap)
           r == UltraDenseDecode(e, cap, now)
           I == 0 .. Points["ultradense"] - 1
           time == [i \in I |-> now - DelayUltraDense(i)]
<1>1. /\ IsHandler(e) /\ e.buf = <<>> /\ e.prev = hd.prev /\ e.ts = hd.ts
      /\ e.ready \in BOOLEAN /\ (e.ready => hd.ready /\ ~cap.first)
  BY EmptiedHandler
<1> HIDE DEF e
<1>2. PICK n, m : n = [e EXCEPT !.prev = cap, !.ready = TRUE] /\ m = [e EXCEPT !.prev = cap]
  OBVIOUS
<1>3. Taken(n, cap, hd) /\ Taken(m, cap, hd) /\ \A s : Taken([n EXCEPT !.sync = s], cap, hd)
  BY <1>1, <1>2, LoadedDense, Zenon
<1>4. CASE ~(e.ready /\ ~(Diff_q8(e.prev, cap) > MaxDiff_q8("ultradense")))
  <2>1. r = Result(n, <<>>) \/ r = Result(m, <<>>)
    BY <1>2, <1>4, Zenon DEF UltraDenseDecode
  <2> HIDE DEF r
  <2>2. (r.h = n \/ r.h = m) /\ r.out = <<>>
    BY <2>1 DEF Result
  <2>3. Completes(hd, cap, "ultradense", r)
    BY <1>3, <2>2 DEF Completes, Taken
  <2> QED BY <2>3 DEF r, e
<1>5. CASE e.ready /\ ~(Diff_q8(e.prev, cap) > MaxDiff_q8("ultradense"))
  <2>1. PICK angle, sync, s : r = Result([n EXCEPT !.sync = s], Batch(e.prev, cap, angle, sync, time))
    BY <1>2, <1>5, Zenon DEF UltraDenseDecode
  <2>2. time = Stamped("ultradense", now)
    BY <1>1 DEF Stamped, DelayUltraDense
  <2> HIDE DEF time, r
  <2>3. Taken(r.h, cap, hd) /\ r.out = Batch(hd.prev, cap, angle, sync, time)
    <3>1. r.h = [n EXCEPT !.sync = s] /\ r.out = Batch(e.prev, cap, angle, sync, time)
      BY <2>1 DEF Result
    <3> QED BY <1>1, <1>3, <3>1, Zenon
  <2>4. Publishes(r.out, hd.prev, cap, time)
    BY <2>3, BatchPublishes
  <2>5. Completes(hd, cap, "ultradense", r)
    BY <1>1, <1>5, <2>2, <2>3, <2>4 DEF Completes, Taken
  <2> QED BY <2>5 DEF r, e
<1> QED BY <1>4, <1>5

\* A byte for the handler of any kind of capsules: one of the three cases.
LEMMA OnByteCases ==
  ASSUME kind \in CapsuleKinds, NEW hd, IsHandler(hd), NEW b \in Byte
  PROVE  LET buf == Append(hd.buf, b)
             r   == OnByte(kind, hd, b, now)
         IN  \/ Dropped(hd, r)
             \/ Gathers(hd, b, r)
             \/ Len(buf) = PacketSize /\ Intact(buf) /\ Completes(hd, buf[1].pkt, kind, r)
<1> DEFINE buf == Append(hd.buf, b)
           g == CapsuleByte(hd, b)
<1>1. \/ g.cap = NoPacket /\ Dropped(hd, Result(g.h, <<>>))
      \/ g.cap = NoPacket /\ Gathers(hd, b, Result(g.h, <<>>))
      \/ /\ Len(buf) = PacketSize /\ Intact(buf) /\ g.cap = buf[1].pkt
         /\ g.h = Emptied(hd, g.cap) /\ g.cap # NoPacket /\ g.cap.first \in BOOLEAN
  BY CapsuleByteCases, Zenon
<1>2. CASE g.cap = NoPacket
  <2>1. OnByte(kind, hd, b, now) = Result(g.h, <<>>)
    BY <1>2 DEF OnByte, CapsuleKinds, CapsuleOnData, UltraOnData, DenseOnData, UltraDenseOnData
  <2> HIDE DEF g, buf
  <2> QED BY <1>1, <1>2, <2>1
<1>3. CASE g.cap # NoPacket
  <2> DEFINE e == Emptied(hd, g.cap)
  <2>1. /\ Len(buf) = PacketSize /\ Intact(buf) /\ g.cap = buf[1].pkt
        /\ g.h = e /\ g.cap.first \in BOOLEAN
    BY <1>1, <1>3, Zenon
  <2>2. OnByte(kind, hd, b, now) =
          CASE kind = "capsule"    -> CapsuleDecode(e, g.cap, now)
            [] kind = "ultra"      -> UltraDecode(e, g.cap, now)
            [] kind = "dense"      -> DenseDecode(e, g.cap, now)
            [] kind = "ultradense" -> UltraDenseDecode(e, g.cap, now)
    <3> HIDE DEF e
    <3> QED BY <1>3, <2>1 DEF OnByte, CapsuleKinds, CapsuleOnData, UltraOnData, DenseOnData, UltraDenseOnData
  <2>3. Completes(hd, g.cap, kind, OnByte(kind, hd, b, now))
    <3>1. CASE kind = "capsule"
      <4>1. OnByte(kind, hd, b, now) = CapsuleDecode(e, g.cap, now)
        <5> HIDE DEF e, g
        <5> QED BY <2>2, <3>1
      <4>2. Completes(hd, g.cap, "capsule", CapsuleDecode(e, g.cap, now))
        <5> HIDE DEF g, buf
        <5>1. g.cap.first \in BOOLEAN
          BY <2>1
        <5> QED BY <5>1, CapsuleDecodes
      <4> QED BY <3>1, <4>1, <4>2, Zenon
    <3>2. CASE kind = "ultra"
      <4>1. OnByte(kind, hd, b, now) = UltraDecode(e, g.cap, now)
        <5> HIDE DEF e, g
        <5> QED BY <2>2, <3>2
      <4>2. Completes(hd, g.cap, "ultra", UltraDecode(e, g.cap, now))
        <5> HIDE DEF g, buf
        <5>1. g.cap.first \in BOOLEAN
          BY <2>1
        <5> QED BY <5>1, UltraDecodes
      <4> QED BY <3>2, <4>1, <4>2, Zenon
    <3>3. CASE kind = "dense"
      <4>1. OnByte(kind, hd, b, now) = DenseDecode(e, g.cap, now)
        <5> HIDE DEF e, g
        <5> QED BY <2>2, <3>3
      <4>2. Completes(hd, g.cap, "dense", DenseDecode(e, g.cap, now))
        <5> HIDE DEF g, buf
        <5>1. g.cap.first \in BOOLEAN
          BY <2>1
        <5> QED BY <5>1, DenseDecodes
      <4> QED BY <3>3, <4>1, <4>2, Zenon
    <3>4. CASE kind = "ultradense"
      <4>1. OnByte(kind, hd, b, now) = UltraDenseDecode(e, g.cap, now)
        <5> HIDE DEF e, g
        <5> QED BY <2>2, <3>4
      <4>2. Completes(hd, g.cap, "ultradense", UltraDenseDecode(e, g.cap, now))
        <5> HIDE DEF g, buf
        <5>1. g.cap.first \in BOOLEAN
          BY <2>1
        <5> QED BY <5>1, UltraDenseDecodes
      <4> QED BY <3>4, <4>1, <4>2, Zenon
    <3> QED BY <3>1, <3>2, <3>3, <3>4 DEF CapsuleKinds
  <2> QED BY <2>1, <2>3, Zenon
<1> QED BY <1>2, <1>3

-----------------------------------------------------------------------------
(* A handler and the stream *)

\* One byte further, the handler holds the bytes of the stream that end there, and
\* what it publishes is linked: the capsule it completes began where the one before
\* ended, or bytes behind it were dropped.
LEMMA ByteKeepsStream ==
  ASSUME kind \in CapsuleKinds, NEW L, L.s \in Nat, L.n \in Nat, NEW F,
         NEW Z \in Seq(Byte), NEW w, Carry(Z, w, L, F),
         NEW hd, IsHandler(hd), Prevs(hd, L),
         NEW k \in 0 .. Len(Z) - 1, NEW j, Holding(hd, j, k, Z), Ahead(hd, j, Z, w, L, F),
         NEW r, r = OnByte(kind, hd, Z[k + 1], now)
  PROVE  /\ IsHandler(r.h) /\ Prevs(r.h, L)
         /\ \E i : Holding(r.h, i, k + 1, Z) /\ Ahead(r.h, i, Z, w, L, F)
         /\ r.out = <<>> \/ (r.out = <<r.out[1]>> /\ Linked(r.out[1], F))
<1> DEFINE b == Z[k + 1]
           buf == Append(hd.buf, b)
<1>1. b \in Byte /\ hd.buf \in Seq(Byte) /\ j \in 0 .. k /\ k + 1 <= Len(Z) /\ Len(Z) \in Nat
  BY DEF IsHandler, Holding
<1>2. /\ Len(buf) = k + 1 - j /\ buf \in Seq(Byte)
      /\ \A i \in 1 .. k + 1 - j : buf[i] = Z[j + i]
  <2>1. Len(hd.buf) = k - j /\ \A i \in 1 .. k - j : hd.buf[i] = Z[j + i]
    BY DEF Holding
  <2>2. Len(buf) = k + 1 - j /\ buf \in Seq(Byte)
    BY <1>1, <2>1
  <2>3. ASSUME NEW i \in 1 .. k + 1 - j
        PROVE  buf[i] = Z[j + i]
    <3>1. CASE i = k + 1 - j
      <4>1. i = Len(hd.buf) + 1 /\ j + i = k + 1
        BY <1>1, <2>1, <3>1
      <4> QED BY <1>1, <4>1
    <3>2. CASE i # k + 1 - j
      <4>1. i \in 1 .. k - j
        BY <1>1, <3>2
      <4>2. i \in 1 .. Len(hd.buf)
        BY <2>1, <4>1
      <4> QED BY <1>1, <2>1, <4>1, <4>2
    <3> QED BY <3>1, <3>2
  <2> QED BY <2>2, <2>3
<1>3. CASE Dropped(hd, r)
  <2>1. Holding(r.h, k + 1, k + 1, Z)
    BY <1>1, <1>3 DEF Holding, Dropped
  <2>2. ~r.h.ready
    BY <1>3 DEF Dropped
  <2> QED BY <1>3, <2>1, <2>2 DEF Dropped, Ahead, Prevs
<1>4. CASE Gathers(hd, b, r)
  <2>1. Holding(r.h, j, k + 1, Z)
    BY <1>1, <1>2, <1>4 DEF Holding, Gathers
  <2>2. Ahead(r.h, j, Z, w, L, F)
    BY <1>4 DEF Gathers, Ahead, Before
  <2> QED BY <1>4, <2>1, <2>2 DEF Gathers, Prevs
<1>5. CASE Len(buf) = PacketSize /\ Intact(buf) /\ Completes(hd, buf[1].pkt, kind, r)
  <2> DEFINE cap == buf[1].pkt
  <2>1. /\ k + 1 - j = PacketSize /\ j + 1 \in 1 .. Len(Z) /\ PacketSize \in Nat /\ PacketSize >= 4
        /\ Len(buf) = PacketSize
    BY <1>1, <1>2, <1>5, Sizes
  <2>2. /\ buf[1] = Z[j + 1] /\ buf[1].pos = 1 /\ Good(buf[1]) /\ buf[1] \in Byte
        /\ buf[PacketSize] = Z[k + 1] /\ Z[k + 1].pos = PacketSize /\ Z[k + 1].pkt = cap
    <3>1. 1 \in DOMAIN buf /\ PacketSize \in DOMAIN buf
      BY <1>2, <2>1
    <3>2. buf[1].pos = 1 /\ buf[1].pkt.what = "samples" /\ buf[PacketSize].pos = PacketSize
          /\ buf[PacketSize].pkt = buf[1].pkt
      BY <1>5, <3>1 DEF Intact
    <3>3. buf[1] = Z[j + 1] /\ buf[PacketSize] = Z[j + PacketSize] /\ j + PacketSize = k + 1
      BY <1>1, <1>2, <2>1
    <3> QED BY <1>2, <2>1, <3>2, <3>3 DEF Good
  <2>3. cap \in Samples /\ cap.n \in Nat \ {0} /\ cap.s \in Nat /\ cap.first \in BOOLEAN
    <3> HIDE DEF buf
    <3> QED BY <2>2, GoodByte
  <2>4. cap.s = L.s /\ (cap.first = (cap.n = 1))
    BY <2>1, <2>2 DEF Carry
  <2>5. /\ IsHandler(r.h) /\ r.h.buf = <<>> /\ r.h.prev = cap
    BY <1>5 DEF Completes
  <2> HIDE DEF cap, buf
  <2>6. Prevs(r.h, L)
    BY <2>3, <2>4, <2>5 DEF Prevs
  <2>7. Holding(r.h, k + 1, k + 1, Z)
    BY <1>1, <2>5 DEF Holding
  <2>8. Before(r.h, L) = cap.n
    BY <2>4, <2>5 DEF Before
  <2>9. Ahead(r.h, k + 1, Z, w, L, F)
    <3>1. Good(Z[k + 1]) /\ Z[k + 1].pos = PacketSize /\ Z[k + 1].pkt = cap
      BY <2>2 DEF Good, cap
    <3>2. CASE k + 1 = Len(Z)
      <4>1. EndLink(cap.n, w, L, F)
        <5>1. Z # <<>>
          BY <1>1
        <5> QED BY <3>1, <3>2, <5>1 DEF Carry
      <4> QED BY <2>8, <3>2, <4>1 DEF Ahead
    <3>3. CASE k + 1 # Len(Z)
      <4>1. k + 1 \in 1 .. Len(Z) - 1
        BY <1>1, <3>3
      <4>2. Follows(cap.n, Z[k + 1 + 1], F)
        BY <3>1, <4>1 DEF Carry
      <4> QED BY <2>8, <3>3, <4>2 DEF Ahead
    <3> QED BY <3>2, <3>3
  <2>10. r.out = <<>> \/ (r.out = <<r.out[1]>> /\ Linked(r.out[1], F))
    <3> SUFFICES ASSUME r.out # <<>> PROVE r.out = <<r.out[1]>> /\ Linked(r.out[1], F)
      OBVIOUS
    <3>1. /\ hd.ready /\ ~cap.first
          /\ r.out = <<r.out[1]>> /\ r.out[1].prev = hd.prev /\ r.out[1].cur = cap
      BY <1>5 DEF Completes, Publishes, cap
    <3>2. Follows(Before(hd, L), Z[j + 1], F)
      <4>1. j # Len(Z)
        BY <1>1, <2>1
      <4> QED BY <3>1, <4>1 DEF Ahead
    <3>3. cap.n > Before(hd, L) /\ (NoLoss(F) => cap.n = Before(hd, L) + 1)
      BY <2>2, <3>2 DEF Follows, cap
    <3>4. hd.prev \in Samples /\ (Older => hd.prev.s = L.s)
      BY <3>1 DEF Prevs
    <3>5. cap.n # 1
      BY <2>4, <3>1
    <3>6. NoLoss(F) => hd.prev.s = L.s
      BY <2>3, <3>3, <3>5 DEF Before
    <3>7. Linked(r.out[1], F)
      BY <2>4, <3>1, <3>3, <3>4, <3>6 DEF Linked, Before
    <3> QED BY <3>1, <3>7
  <2> QED BY <2>5, <2>6, <2>7, <2>9, <2>10
<1> QED
  <2>1. \/ Dropped(hd, r)
        \/ Gathers(hd, b, r)
        \/ Len(buf) = PacketSize /\ Intact(buf) /\ Completes(hd, buf[1].pkt, kind, r)
    <3>1. b \in Byte /\ r = OnByte(kind, hd, b, now)
      BY <1>1
    <3> HIDE DEF b
    <3> QED BY <3>1, OnByteCases, Zenon
  <2> QED BY <1>3, <1>4, <1>5, <2>1
\* What holds of a handler and of what it has published, `k` bytes into the stream.
Fine(r, k, Z, w, L, F) ==
  /\ IsHandler(r.h) /\ Prevs(r.h, L) /\ Published(r.out, F)
  /\ \E i : Holding(r.h, i, k, Z) /\ Ahead(r.h, i, Z, w, L, F)

\* The same of Take, which adds the batches of a byte to those before.
LEMMA TakeKeepsStream ==
  ASSUME kind \in CapsuleKinds, NEW L, L.s \in Nat, L.n \in Nat, NEW F,
         NEW Z \in Seq(Byte), NEW w, Carry(Z, w, L, F),
         NEW k \in 0 .. Len(Z) - 1, NEW r, Fine(r, k, Z, w, L, F),
         NEW t, t = Take(r, Z[k + 1])
  PROVE  Fine(t, k + 1, Z, w, L, F)
<1> DEFINE q == OnByte(kind, r.h, Z[k + 1], now)
<1>1. PICK j : Holding(r.h, j, k, Z) /\ Ahead(r.h, j, Z, w, L, F)
  BY DEF Fine
<1>2. IsHandler(r.h) /\ Prevs(r.h, L)
  BY DEF Fine
<1>3. PICK p : p = q
  OBVIOUS
<1>4. /\ IsHandler(p.h) /\ Prevs(p.h, L)
      /\ \E i : Holding(p.h, i, k + 1, Z) /\ Ahead(p.h, i, Z, w, L, F)
      /\ p.out = <<>> \/ (p.out = <<p.out[1]>> /\ Linked(p.out[1], F))
  <2>1. p = OnByte(kind, r.h, Z[k + 1], now)
    BY <1>3
  <2> HIDE DEF q
  <2>2. PICK hd : hd = r.h
    OBVIOUS
  <2>3. p = OnByte(kind, hd, Z[k + 1], now) /\ IsHandler(hd) /\ Prevs(hd, L)
    BY <1>2, <2>1, <2>2
  <2>4. Holding(hd, j, k, Z) /\ Ahead(hd, j, Z, w, L, F)
    BY <1>1, <2>2
  <2> QED BY <2>3, <2>4, ByteKeepsStream, Zenon
<1>5. t.h = p.h /\ t.out = r.out \o p.out
  <2> HIDE DEF q
  <2> QED BY <1>3 DEF Take, Result, q
<1>6. Published(t.out, F)
  <2>1. PICK S : r.out \in Seq(S) /\ \A b \in S : Linked(b, F)
    BY DEF Fine, Published
  <2>2. CASE p.out = <<>>
    <3>1. t.out = r.out
      BY <1>5, <2>1, <2>2
    <3> QED BY <2>1, <3>1 DEF Published
  <2>3. CASE p.out = <<p.out[1]>> /\ Linked(p.out[1], F)
    <3> DEFINE x == p.out[1]
               U == S \cup {x}
    <3>1. p.out = <<x>> /\ Linked(x, F)
      BY <2>3
    <3> HIDE DEF x
    <3>2. r.out \in Seq(U) /\ <<x>> \in Seq(U)
      <4>1. S \subseteq U /\ x \in U
        OBVIOUS
      <4> HIDE DEF U
      <4> QED BY <2>1, <4>1
    <3>3. t.out \in Seq(U)
      <4> HIDE DEF U
      <4> QED BY <1>5, <3>1, <3>2
    <3>4. \A b \in U : Linked(b, F)
      BY <2>1, <3>1
    <3> QED BY <3>3, <3>4 DEF Published
  <2> QED BY <1>4, <2>2, <2>3
<1> QED BY <1>4, <1>5, <1>6 DEF Fine

\* The same of a whole payload.  It stands in the stream behind the handler's bytes.
LEMMA PayloadKeepsStream ==
  ASSUME kind \in CapsuleKinds, NEW L, L.s \in Nat, L.n \in Nat, NEW F,
         NEW Z \in Seq(Byte), NEW w, Carry(Z, w, L, F),
         NEW from, IsHandler(from), Prevs(from, L), NEW l \in Nat,
         Holding(from, 0, l, Z), Ahead(from, 0, Z, w, L, F),
         NEW payload \in Seq(Byte), Len(Z) = l + Len(payload),
         \A i \in 1 .. Len(payload) : payload[i] = Z[l + i]
  PROVE  Fine(TakeAll(from, payload), Len(Z), Z, w, L, F)
<1> DEFINE n == Len(payload)
<1>1. n \in Nat
  OBVIOUS
<1>2. PICK f : Takes(f, n, from, payload) /\ TakeAll(from, payload) = f[n]
  BY <1>1, Taking, Zenon
<1> DEFINE bad == {m \in 0 .. n : ~Fine(f[m], l + m, Z, w, L, F)}
<1>3. ASSUME bad # {} PROVE FALSE
  <2>1. bad \in SUBSET Nat
    BY <1>1
  <2>2. PICK m \in bad : \A k \in bad : m <= k
    <3> HIDE DEF bad
    <3> QED BY <1>3, <2>1, LeastExists
  <2>3. m \in 0 .. n /\ ~Fine(f[m], l + m, Z, w, L, F)
    BY <2>2
  <2>4. CASE m = 0
    <3>1. PICK r : r = Result(from, <<>>)
      OBVIOUS
    <3>2. f[0] = r
      BY <1>1, <1>2, <3>1 DEF Takes
    <3>3. r.h = from /\ r.out = <<>>
      BY <3>1 DEF Result
    <3>4. Published(<<>>, F)
      <4>1. PICK S : S = {}
        OBVIOUS
      <4>2. <<>> \in Seq(S) /\ \A b \in S : Linked(b, F)
        BY <4>1
      <4> QED BY <4>2, Zenon DEF Published
    <3>5. Fine(r, l, Z, w, L, F)
      BY <3>3, <3>4, Zenon DEF Fine
    <3>6. l + m = l
      BY <2>4
    <3> QED BY <2>3, <2>4, <3>2, <3>5, <3>6
  <2>5. CASE m # 0
    <3>1. m - 1 \in 0 .. n /\ ~(m <= m - 1) /\ m \in 1 .. n
      BY <1>1, <2>3, <2>5
    <3>2. m - 1 \notin bad
      BY <2>2, <3>1
    <3>3. Fine(f[m - 1], l + (m - 1), Z, w, L, F)
      BY <3>1, <3>2
    <3>4. f[m] = Take(f[m - 1], payload[m])
      BY <1>1, <1>2, <2>3, <2>5 DEF Takes
    <3>5. PICK k : k = l + (m - 1)
      OBVIOUS
    <3>6. k \in 0 .. Len(Z) - 1 /\ k + 1 = l + m
      BY <1>1, <3>1, <3>5
    <3>7. payload[m] = Z[k + 1]
      BY <3>1, <3>6
    <3>8. Fine(f[m], k + 1, Z, w, L, F)
      <4>1. Fine(f[m - 1], k, Z, w, L, F) /\ f[m] = Take(f[m - 1], Z[k + 1])
        BY <3>3, <3>4, <3>5, <3>7, Zenon
      <4> QED BY <3>6, <4>1, TakeKeepsStream
    <3> QED BY <2>3, <3>6, <3>8
  <2> QED BY <2>4, <2>5
<1>4. Fine(f[n], l + n, Z, w, L, F)
  <2>1. n \in 0 .. n
    BY <1>1
  <2> QED BY <1>3, <2>1
<1> QED BY <1>2, <1>4

-----------------------------------------------------------------------------
(* The stream and the wire *)

\* What is on the wire: the rest of the packet sent last, or of a header.
OnWire(w, L) ==
  /\ w \in Seq(Byte)
  /\ Len(w) <= IF L.n > 0 THEN PacketSize ELSE HeaderLength
  /\ \A i \in 1 .. Len(w) :
       /\ Good(w[i]) => /\ w[i].pkt.s = L.s /\ w[i].pkt.n = L.n /\ L.n > 0
                        /\ w[i].pos = PacketSize - Len(w) + i
                        /\ w[i].pkt.first = (w[i].pkt.n = 1)
       /\ w[i].pkt.what = "header" => /\ L.n = 0 /\ w[i].pos = HeaderLength - Len(w) + i
                                      /\ w[i].pkt.type = kind

\* The stream in front of handler `hd`, which holds its first bytes.
Stream(hd, Z, w, L, F) == Carry(Z, w, L, F) /\ Ahead(hd, 0, Z, w, L, F)

\* The first byte and the others.
LEMMA HeadTail ==
  ASSUME NEW w \in Seq(Byte), w # <<>>
  PROVE  /\ Len(w) \in Nat \ {0} /\ Head(w) = w[1] /\ Head(w) \in Byte
         /\ Tail(w) \in Seq(Byte) /\ Len(Tail(w)) = Len(w) - 1
         /\ \A i \in 1 .. Len(w) - 1 : Tail(w)[i] = w[i + 1]
OBVIOUS

\* One byte more.
LEMMA Appended ==
  ASSUME NEW Z \in Seq(Byte), NEW b \in Byte, NEW Y, Y = Append(Z, b)
  PROVE  /\ Y \in Seq(Byte) /\ Len(Y) = Len(Z) + 1 /\ Y # <<>> /\ Y[Len(Z) + 1] = b
         /\ Len(Z) \in Nat /\ \A i \in 1 .. Len(Z) : Y[i] = Z[i]
OBVIOUS

\* A byte goes from the wire to the end of the stream.
LEMMA ByteArrives ==
  ASSUME NEW L, L.s \in Nat, L.n \in Nat, NEW F, F.here \in Nat, NEW w, OnWire(w, L), w # <<>>,
         NEW hd, Prevs(hd, L), NEW Z \in Seq(Byte), Stream(hd, Z, w, L, F),
         NEW Y, Y = Append(Z, Head(w))
  PROVE  Stream(hd, Y, Tail(w), L, F)
<1> DEFINE b == Head(w)
           v == Tail(w)
           m == Len(Z)
<1>1. /\ Len(w) \in Nat \ {0} /\ b = w[1] /\ b \in Byte /\ Len(v) = Len(w) - 1
      /\ v = <<>> <=> Len(v) = 0
  <2>1. w \in Seq(Byte)
    BY DEF OnWire
  <2> QED BY <2>1, HeadTail
<1>2. Y \in Seq(Byte) /\ Len(Y) = m + 1 /\ m \in Nat /\ Y # <<>> /\ Y[m + 1] = b /\ \A i \in 1 .. m : Y[i] = Z[i]
  BY <1>1, Appended
<1>3. Good(b) => /\ b.pkt.s = L.s /\ b.pkt.n = L.n /\ L.n > 0 /\ b.pos = PacketSize - Len(v)
                 /\ b.pkt.first = (b.pkt.n = 1)
  BY <1>1, Sizes DEF OnWire
<1> HIDE DEF b, v, m
<1>4. ASSUME NEW a \in Nat, EndLink(a, w, L, F)
      PROVE  Follows(a, b, F)
  <2>1. a <= L.n /\ a # L.n /\ (NoLoss(F) => a = L.n - 1)
    BY <1>4 DEF EndLink
  <2>2. ASSUME Good(b) PROVE b.pkt.n > a /\ (NoLoss(F) => b.pkt.n = a + 1)
    <3>1. b.pkt.n = L.n
      BY <1>3, <2>2
    <3>3. NoLoss(F) => b.pkt.n = a + 1
      BY <2>1, <3>1
    <3> QED BY <2>1, <3>1, <3>3
  <2> QED BY <2>2 DEF Follows
<1>5. Carry(Y, v, L, F)
  <2>1. ASSUME NEW i \in 1 .. Len(Y), Good(Y[i])
        PROVE  /\ Y[i].pkt.s = L.s /\ Y[i].pkt.n <= L.n
               /\ Y[i].pkt.n = L.n => Y[i].pos <= PacketSize - Len(v)
               /\ Y[i].pkt.first = (Y[i].pkt.n = 1)
    <3>1. CASE i = m + 1
      <4>1. Y[i] = b /\ Good(b)
        BY <1>2, <2>1, <3>1
      <4>2. b.pos <= PacketSize - Len(v) /\ b.pkt.n <= L.n
        BY <1>1, <1>3, <4>1, Sizes
      <4> QED BY <1>3, <4>1, <4>2
    <3>2. CASE i # m + 1
      <4>1. i \in 1 .. m /\ Y[i] = Z[i]
        BY <1>2, <3>2
      <4>2. /\ Z[i].pkt.s = L.s /\ Z[i].pkt.n <= L.n
            /\ Z[i].pkt.n = L.n => Z[i].pos <= PacketSize - Len(w)
            /\ Z[i].pkt.first = (Z[i].pkt.n = 1)
        BY <2>1, <4>1 DEF Stream, Carry, m
      <4>3. Z[i].pos \in Nat
        <5>1. Z[i] \in Byte
          BY <4>1 DEF m
        <5> QED BY <5>1 DEF Byte
      <4> QED BY <1>1, <4>1, <4>2, <4>3, Sizes
    <3> QED BY <3>1, <3>2
  <2>2. ASSUME NEW i \in 1 .. Len(Y) - 1, Good(Y[i]), Y[i].pos = PacketSize
        PROVE  Follows(Y[i].pkt.n, Y[i + 1], F)
    <3>1. i \in 1 .. m /\ Y[i] = Z[i]
      BY <1>2
    <3>2. CASE i = m
      <4>1. Y[i + 1] = b /\ Z # <<>>
        BY <1>2, <3>1, <3>2 DEF m
      <4>2. EndLink(Z[i].pkt.n, w, L, F)
        BY <2>2, <3>1, <3>2, <4>1 DEF Stream, Carry, m
      <4>3. Z[i].pkt.n \in Nat
        <5>1. Z[i] \in Byte
          BY <3>1 DEF m
        <5> QED BY <2>2, <3>1, <5>1, GoodByte
      <4> QED BY <1>4, <3>1, <4>1, <4>2, <4>3
    <3>3. CASE i # m
      <4>1. i \in 1 .. m - 1 /\ i + 1 \in 1 .. m
        BY <1>2, <3>1, <3>3
      <4>2. Follows(Z[i].pkt.n, Z[i + 1], F)
        BY <2>2, <3>1, <4>1 DEF Stream, Carry, m
      <4> QED BY <1>2, <3>1, <4>1, <4>2
    <3> QED BY <3>2, <3>3
  <2>3. ASSUME Good(Y[Len(Y)]), Y[Len(Y)].pos = PacketSize
        PROVE  EndLink(Y[Len(Y)].pkt.n, v, L, F)
    <3>1. Y[Len(Y)] = b
      BY <1>2
    <3>2. b.pkt.n = L.n /\ Len(v) = 0
      BY <1>1, <1>3, <2>3, <3>1, Sizes
    <3> QED BY <1>1, <3>1, <3>2 DEF EndLink
  <2> QED BY <2>1, <2>2, <2>3 DEF Carry
<1>6. Ahead(hd, 0, Y, v, L, F)
  <2> SUFFICES ASSUME hd.ready PROVE Follows(Before(hd, L), Y[0 + 1], F)
    BY <1>2 DEF Ahead
  <2>1. CASE m = 0
    <3>1. EndLink(Before(hd, L), w, L, F)
      BY <2>1 DEF Stream, Ahead, m
    <3>2. Y[0 + 1] = b
      BY <1>2, <2>1
    <3>3. Before(hd, L) \in Nat
      BY DEF Before, Prevs, Samples
    <3> QED BY <1>4, <3>1, <3>2, <3>3
  <2>2. CASE m # 0
    <3>1. Follows(Before(hd, L), Z[0 + 1], F)
      BY <2>2 DEF Stream, Ahead, m
    <3>2. Y[0 + 1] = Z[0 + 1]
      BY <1>2, <2>2
    <3> QED BY <3>1, <3>2
  <2> QED BY <2>1, <2>2
<1> QED BY <1>5, <1>6 DEF Stream, v

\* A byte lost on the wire is one fault more: the last packet is still the next,
\* as long as not all of it is gone.
LEMMA EndLinkFault ==
  ASSUME NEW L, L.n \in Nat, NEW F, NEW E, NEW w, NEW v, w # <<>>,
         Len(w) \in Nat, Len(v) \in Nat, F.here \in Nat, E.here \in Nat,
         NoLoss(E) => NoLoss(F) /\ Len(v) + E.here >= Len(w) + F.here,
         NEW a \in Nat, EndLink(a, w, L, F)
  PROVE  EndLink(a, v, L, E)
BY Sizes DEF EndLink

\* A fault on the line takes nothing from the stream that was promised of it.
LEMMA LineFault ==
  ASSUME NEW L, L.s \in Nat, L.n \in Nat, NEW F, NEW E, NEW w, NEW v, w # <<>>,
         Len(w) \in Nat, Len(v) \in Nat, F.here \in Nat, E.here \in Nat, Len(v) <= Len(w),
         NoLoss(E) => NoLoss(F) /\ Len(v) + E.here >= Len(w) + F.here,
         NEW hd, Prevs(hd, L), NEW Z \in Seq(Byte), Stream(hd, Z, w, L, F)
  PROVE  Stream(hd, Z, v, L, E)
<1>1. \A a \in Nat : EndLink(a, w, L, F) => EndLink(a, v, L, E)
  BY EndLinkFault, Zenon
<1>2. \A a, y : Follows(a, y, F) => Follows(a, y, E)
  BY DEF Follows
<1>3. Len(Z) \in Nat /\ (Z # <<>> => Len(Z) \in 1 .. Len(Z))
  OBVIOUS
<1>4. \A i \in 1 .. Len(Z) : Z[i].pos \in Nat /\ (Good(Z[i]) => Z[i].pkt.n \in Nat)
  <2> TAKE i \in 1 .. Len(Z)
  <2>1. Z[i] \in Byte
    OBVIOUS
  <2> QED BY <2>1, GoodByte DEF Byte
<1>5. Before(hd, L) \in Nat \/ ~hd.ready
  BY DEF Before, Prevs, Samples
<1>6. Carry(Z, v, L, E)
  <2>1. ASSUME NEW i \in 1 .. Len(Z), Good(Z[i])
        PROVE  /\ Z[i].pkt.s = L.s /\ Z[i].pkt.n <= L.n
               /\ Z[i].pkt.n = L.n => Z[i].pos <= PacketSize - Len(v)
               /\ Z[i].pkt.first = (Z[i].pkt.n = 1)
    <3>1. /\ Z[i].pkt.s = L.s /\ Z[i].pkt.n <= L.n
          /\ Z[i].pkt.n = L.n => Z[i].pos <= PacketSize - Len(w)
          /\ Z[i].pkt.first = (Z[i].pkt.n = 1)
      BY <2>1 DEF Stream, Carry
    <3>2. Z[i].pos \in Nat
      BY <1>4
    <3> QED BY <3>1, <3>2, Sizes
  <2>2. ASSUME NEW i \in 1 .. Len(Z) - 1, Good(Z[i]), Z[i].pos = PacketSize
        PROVE  Follows(Z[i].pkt.n, Z[i + 1], E)
    <3>1. Follows(Z[i].pkt.n, Z[i + 1], F)
      BY <2>2 DEF Stream, Carry
    <3> QED BY <1>2, <3>1
  <2>3. ASSUME Z # <<>>, Good(Z[Len(Z)]), Z[Len(Z)].pos = PacketSize
        PROVE  EndLink(Z[Len(Z)].pkt.n, v, L, E)
    <3>1. EndLink(Z[Len(Z)].pkt.n, w, L, F)
      BY <2>3 DEF Stream, Carry
    <3>2. Z[Len(Z)].pkt.n \in Nat
      BY <1>3, <1>4, <2>3
    <3> QED BY <1>1, <3>1, <3>2
  <2> QED BY <2>1, <2>2, <2>3 DEF Carry
<1>7. Ahead(hd, 0, Z, v, L, E)
  BY <1>1, <1>2, <1>5 DEF Ahead, Stream
<1> QED BY <1>6, <1>7 DEF Stream

\* The lidar sends the next packet when the wire is empty.
LEMMA PacketSent ==
  ASSUME NEW L, L.s \in Nat, L.n \in Nat, NEW N, N.s = L.s, N.n = L.n + 1, NEW F, F.here \in Nat,
         NEW w, w = <<>>, NEW v, Len(v) = PacketSize,
         NEW hd, Prevs(hd, L), NEW Z \in Seq(Byte), Stream(hd, Z, w, L, F)
  PROVE  Stream(hd, Z, v, N, F)
<1>1. ASSUME NEW a \in Nat, EndLink(a, w, L, F)
      PROVE  EndLink(a, v, N, F)
  <2>1. Len(w) = 0
    OBVIOUS
  <2> QED BY <1>1, <2>1, Sizes DEF EndLink, NoLoss
<1>2. Len(Z) \in Nat /\ (Z # <<>> => Len(Z) \in 1 .. Len(Z))
  OBVIOUS
<1>3. \A i \in 1 .. Len(Z) : Good(Z[i]) => Z[i].pkt.n \in Nat
  <2> TAKE i \in 1 .. Len(Z)
  <2>1. Z[i] \in Byte
    OBVIOUS
  <2> QED BY <2>1, GoodByte
<1>4. /\ Before(hd, N) = Before(hd, L)
      /\ Before(hd, L) \in Nat \/ ~hd.ready
  BY DEF Before, Prevs, Samples
<1>5. Carry(Z, v, N, F)
  <2>1. ASSUME NEW i \in 1 .. Len(Z), Good(Z[i])
        PROVE  /\ Z[i].pkt.s = N.s /\ Z[i].pkt.n <= N.n
               /\ Z[i].pkt.n = N.n => Z[i].pos <= PacketSize - Len(v)
               /\ Z[i].pkt.first = (Z[i].pkt.n = 1)
    <3>1. Z[i].pkt.s = L.s /\ Z[i].pkt.n <= L.n /\ Z[i].pkt.first = (Z[i].pkt.n = 1)
      BY <2>1 DEF Stream, Carry
    <3>2. Z[i].pkt.n \in Nat
      BY <1>3, <2>1
    <3>3. Z[i].pkt.n <= N.n /\ Z[i].pkt.n # N.n
      BY <3>1, <3>2
    <3> QED BY <3>1, <3>3
  <2>2. ASSUME NEW i \in 1 .. Len(Z) - 1, Good(Z[i]), Z[i].pos = PacketSize
        PROVE  Follows(Z[i].pkt.n, Z[i + 1], F)
    BY <2>2 DEF Stream, Carry
  <2>3. ASSUME Z # <<>>, Good(Z[Len(Z)]), Z[Len(Z)].pos = PacketSize
        PROVE  EndLink(Z[Len(Z)].pkt.n, v, N, F)
    <3>1. EndLink(Z[Len(Z)].pkt.n, w, L, F)
      BY <2>3 DEF Stream, Carry
    <3>2. Z[Len(Z)].pkt.n \in Nat
      BY <1>2, <1>3, <2>3
    <3> QED BY <1>1, <3>1, <3>2
  <2> QED BY <2>1, <2>2, <2>3 DEF Carry
<1>6. Ahead(hd, 0, Z, v, N, F)
  BY <1>1, <1>4 DEF Ahead, Stream
<1> QED BY <1>5, <1>6 DEF Stream

\* Once a payload is taken, what is left of the stream are the handler's bytes.
LEMMA StreamRests ==
  ASSUME NEW L, NEW F, NEW w, NEW Z \in Seq(Byte), Carry(Z, w, L, F),
         NEW r, Fine(r, Len(Z), Z, w, L, F)
  PROVE  Stream(r.h, r.h.buf, w, L, F)
<1> DEFINE Y == r.h.buf
<1>1. PICK j : Holding(r.h, j, Len(Z), Z) /\ Ahead(r.h, j, Z, w, L, F)
  BY DEF Fine
<1>2. Y \in Seq(Byte)
  BY DEF Fine, IsHandler
<1>3. /\ Len(Z) \in Nat /\ j \in 0 .. Len(Z) /\ Len(Y) = Len(Z) - j
      /\ \A i \in 1 .. Len(Z) - j : Y[i] = Z[j + i]
  BY <1>1 DEF Holding
<1> HIDE DEF Y
<1>4. \A i \in 1 .. Len(Y) : Y[i] = Z[j + i] /\ j + i \in 1 .. Len(Z)
  BY <1>3
<1>5. Carry(Y, w, L, F)
  <2>1. ASSUME NEW i \in 1 .. Len(Y), Good(Y[i])
        PROVE  /\ Y[i].pkt.s = L.s /\ Y[i].pkt.n <= L.n
               /\ Y[i].pkt.n = L.n => Y[i].pos <= PacketSize - Len(w)
               /\ Y[i].pkt.first = (Y[i].pkt.n = 1)
    BY <1>4, <2>1 DEF Carry
  <2>2. ASSUME NEW i \in 1 .. Len(Y) - 1, Good(Y[i]), Y[i].pos = PacketSize
        PROVE  Follows(Y[i].pkt.n, Y[i + 1], F)
    <3>1. i \in 1 .. Len(Y) /\ i + 1 \in 1 .. Len(Y) /\ j + i \in 1 .. Len(Z) - 1 /\ j + (i + 1) = (j + i) + 1
      BY <1>3
    <3>2. Y[i] = Z[j + i] /\ Y[i + 1] = Z[(j + i) + 1]
      BY <1>4, <3>1
    <3> QED BY <2>2, <3>1, <3>2 DEF Carry
  <2>3. ASSUME Y # <<>>, Good(Y[Len(Y)]), Y[Len(Y)].pos = PacketSize
        PROVE  EndLink(Y[Len(Y)].pkt.n, w, L, F)
    <3>1. Len(Y) \in 1 .. Len(Y)
      BY <1>2, <2>3
    <3>2. Y[Len(Y)] = Z[Len(Z)] /\ Z # <<>>
      BY <1>3, <1>4, <3>1
    <3> QED BY <2>3, <3>2 DEF Carry
  <2> QED BY <2>1, <2>2, <2>3 DEF Carry
<1>6. Ahead(r.h, 0, Y, w, L, F)
  <2> SUFFICES ASSUME r.h.ready
               PROVE  IF 0 = Len(Y) THEN EndLink(Before(r.h, L), w, L, F)
                      ELSE Follows(Before(r.h, L), Y[0 + 1], F)
    BY DEF Ahead
  <2>1. CASE Len(Y) = 0
    <3>1. j = Len(Z)
      BY <1>3, <2>1
    <3> QED BY <1>1, <2>1, <3>1 DEF Ahead
  <2>2. CASE Len(Y) # 0
    <3>1. j # Len(Z) /\ Y[0 + 1] = Z[j + 1]
      BY <1>3, <2>2
    <3> QED BY <1>1, <2>2, <3>1 DEF Ahead
  <2> QED BY <2>1, <2>2
<1> QED BY <1>5, <1>6 DEF Stream, Y

-----------------------------------------------------------------------------
(* The invariant *)

\* A header whose end is still to come.
HeaderIn(w) == \E i \in 1 .. Len(w) : w[i].pkt.what = "header" /\ w[i].pos = HeaderLength
HeaderAhead == HeaderIn(wire)
Flow == enabled /\ codec.st = "payload" /\ codec.cmd = kind

\* The decoder of frames: a payload is never complete between two bytes.
Codecs == [st : {"sync1", "sync2", "size", "type", "payload"}, loop : BOOLEAN, len : Nat,
           cmd : Kinds \cup {"none", "unknown"}, rx : Seq(Byte)]
CodecOK(c) ==
  /\ c \in Codecs /\ c.cmd \in {"none", "unknown", kind}
  /\ c.st = "payload" => Len(c.rx) < c.len /\ c.cmd # "none"
  /\ c.st = "type" => c.rx = <<>>

\* The types, and what the sizes of the buffers are.
TypeInv ==
  /\ kind \in UsedKinds /\ client \in {"stopped", "scanning"} /\ enabled = (client = "scanning")
  /\ active \in {"none", "unknown", kind}
  /\ lidar \in [on : BOOLEAN, s : Nat, n : Nat, wide : Nat, start : Nat, fill : Fills \cup {"00"}, at : Nat]
  /\ faults \in [all : Nat, here : Nat, header : BOOLEAN, packets : Nat]
  /\ CodecOK(codec) /\ OnWire(wire, lidar) /\ IsHandler(h) /\ now \in Nat

\* The handler, for the formats of capsules: what a restart leaves of it, and the
\* stream while samples flow.  A handler that is not selected holds no byte; while
\* a header is under way nothing is selected yet, so what the handler knows is of
\* an earlier session.
HandlerInv ==
  /\ h.ready => h.prev \in Samples /\ h.prev.s <= lidar.s
  /\ active # kind => h.buf = <<>> /\ (Older => ~h.ready)
  /\ HeaderAhead /\ enabled => codec.cmd # kind /\ active # kind /\ (h.ready => h.prev.s < lidar.s)
  /\ Flow => Stream(h, h.buf \o codec.rx, wire, lidar, faults) /\ Prevs(h, lidar)

\* The inductive invariant.
StreamInv == TypeInv /\ (kind \in CapsuleKinds => HandlerInv /\ Published(batch, faults))

\* No batch at all is linked.
LEMMA NothingPublished == ASSUME NEW F PROVE Published(<<>>, F)
<1>1. PICK S : S = {}
  OBVIOUS
<1>2. <<>> \in Seq(S) /\ \A b \in S : Linked(b, F)
  BY <1>1
<1> QED BY <1>2, Zenon DEF Published

\* The formats in use are formats.
LEMMA UsedAreKinds == UsedKinds \subseteq Kinds
BY SampleStreamAssumption

\* Angles stay angles.
LEMMA StartsAngles == Starts \subseteq Nat /\ Steps \subseteq Nat /\ \A a, d \in Nat : (a + d) % Turn_q6 \in Nat
<1>1. Turn_q6 \in Nat \ {0}
  BY DEF Turn_q6
<1>2. \A a, d \in Nat : (a + d) % Turn_q6 \in Nat
  BY <1>1
<1> QED BY <1>1, <1>2, SampleStreamAssumption

\* A reset drops the bytes; with the older formats it also forgets the capsule before.
LEMMA ResetForgets ==
  ASSUME NEW hd, IsHandler(hd), kind \in Kinds, NEW r, r = ResetHandler(kind, hd)
  PROVE  /\ IsHandler(r) /\ r.buf = <<>> /\ r.prev = hd.prev /\ r.ts \in {hd.ts, 0}
         /\ (r.ready => hd.ready) /\ (Older => ~r.ready)
<1>0. <<>> \in Seq(Byte) /\ Len(<<>>) < PacketSize
  BY Sizes
<1>1. CASE kind = "capsule"
  <2>1. r = [hd EXCEPT !.buf = <<>>, !.ready = FALSE, !.ts = 0]
    BY <1>1 DEF ResetHandler, CapsuleReset
  <2>2. r.buf = <<>> /\ r.ready = FALSE /\ r.prev = hd.prev /\ r.ts = 0
    BY <2>1 DEF IsHandler
  <2>3. IsRecord(r)
    BY <2>1 DEF IsHandler, IsRecord
  <2> QED BY <1>0, <2>2, <2>3 DEF IsHandler, IsRecord
<1>2. CASE kind = "ultra"
  <2>1. r = [hd EXCEPT !.buf = <<>>, !.ready = FALSE]
    BY <1>2 DEF ResetHandler, UltraReset
  <2> QED BY <2>1, Forget
<1>3. CASE kind = "dense"
  <2>1. r = [hd EXCEPT !.buf = <<>>, !.ts = 0]
    BY <1>3 DEF ResetHandler, DenseReset
  <2>2. r.buf = <<>> /\ r.ready = hd.ready /\ r.prev = hd.prev /\ r.ts = 0
    BY <2>1 DEF IsHandler
  <2>3. IsRecord(r)
    BY <2>1 DEF IsHandler, IsRecord
  <2> QED BY <1>0, <1>3, <2>2, <2>3 DEF IsHandler, IsRecord, Older
<1>4. CASE kind = "ultradense"
  <2>1. r = [hd EXCEPT !.buf = <<>>, !.ts = 0, !.sync = FALSE]
    BY <1>4 DEF ResetHandler, UltraDenseReset
  <2>2. r.buf = <<>> /\ r.ready = hd.ready /\ r.prev = hd.prev /\ r.ts = 0
    BY <2>1 DEF IsHandler
  <2>3. IsRecord(r)
    BY <2>1 DEF IsHandler, IsRecord
  <2> QED BY <1>0, <1>4, <2>2, <2>3 DEF IsHandler, IsRecord, Older
<1>5. CASE kind \in {"hq", "normal"}
  <2>1. r = [hd EXCEPT !.buf = <<>>]
    BY <1>5 DEF ResetHandler, HQReset, NormalReset
  <2>2. r.buf = <<>> /\ r.ready = hd.ready /\ r.prev = hd.prev /\ r.ts = hd.ts
    BY <2>1 DEF IsHandler
  <2>3. IsRecord(r)
    BY <2>1 DEF IsHandler, IsRecord
  <2> QED BY <1>0, <1>5, <2>2, <2>3 DEF IsHandler, IsRecord, Older
<1> QED BY <1>1, <1>2, <1>3, <1>4, <1>5 DEF Kinds, CapsuleKinds

\* The same of clearCache, which resets the handler that is selected.
LEMMA Clears ==
  ASSUME IsHandler(h), kind \in Kinds, NEW r, r = ClearCache
  PROVE  /\ IsHandler(r) /\ r.prev = h.prev /\ (r.ready => h.ready) /\ r.ts \in {h.ts, 0}
         /\ active = kind => r.buf = <<>> /\ (Older => ~r.ready)
         /\ active # kind => r = h
<1>1. CASE active = kind
  <2>1. r = ResetHandler(kind, h)
    BY <1>1 DEF ClearCache
  <2> QED BY <1>1, <2>1, ResetForgets
<1>2. CASE active # kind
  BY <1>2 DEF ClearCache
<1> QED BY <1>1, <1>2

\* What the times are counted in.
LEMMA Durations ==
  ASSUME kind \in Kinds
  PROVE  Period \in Nat /\ FixedDelay \in Nat /\ SampleDuration \in Nat /\ Lateness \in Nat /\ ScanTime \in Nat
<1>1. SampleDuration \in Nat /\ FixedDelay \in Nat
  <2>1. SampleDuration \div 2 \in Nat
    BY TimingAssumption
  <2> QED BY <2>1, TimingAssumption DEF FixedDelay
<1>2. PICK k \in Nat : k = Points[kind]
  BY PointsAssumption
<1>3. k * SampleDuration \in Nat /\ Period = k * SampleDuration
  BY <1>1, <1>2 DEF Period
<1>4. MaxLate \in Nat
  BY SampleStreamAssumption
<1>5. PICK p \in Nat : p = Period
  BY <1>3
<1>6. MaxLate * p \in Nat
  BY <1>4, <1>5
<1>7. PICK n \in Nat : n = EarlierPackets + MaxPackets + MaxLate + 1
  BY <1>4, SampleStreamAssumption
<1>8. n * p \in Nat
  OBVIOUS
<1>9. ScanTime = n * p
  BY <1>5, <1>7 DEF ScanTime
<1> QED BY <1>1, <1>5, <1>6, <1>8, <1>9 DEF Lateness

-----------------------------------------------------------------------------
(* The steps *)

\* At the beginning nothing is under way.
LEMMA InitStream == Init => StreamInv
<1> SUFFICES ASSUME Init PROVE StreamInv
  OBVIOUS
<1>1. IsHandler(h)
  BY Sizes DEF Init, IsHandler, FreshHandler
<1>2. CodecOK(codec)
  BY DEF Init, CodecOK, Codecs, DecodeReset
<1>3. OnWire(wire, lidar)
  BY DEF Init, OnWire, HeaderLength
<1>4. TypeInv
  BY <1>1, <1>2, <1>3 DEF Init, TypeInv
<1>5. HandlerInv
  BY DEF Init, HandlerInv, FreshHandler, HeaderAhead, HeaderIn, Flow
<1>6. Published(batch, faults)
  BY NothingPublished DEF Init
<1> QED BY <1>4, <1>5, <1>6 DEF StreamInv

\* The fields of a result.
LEMMA ResultFields == ASSUME NEW a, NEW o, NEW r, r = Result(a, o) PROVE r.h = a /\ r.out = o
BY DEF Result

\* What a byte does to the codec, and the message it completes (onDecodeData).
LEMMA DecodeCases ==
  ASSUME kind \in Kinds, NEW c, CodecOK(c), NEW b \in Byte,
         b.pkt.what = "header" => b.pkt.type = kind,
         NEW g \in Garbage, NEW d, d = DecodeByte(c, b, g)
  PROVE  /\ CodecOK(d)
         /\ \/ /\ c.st = "payload" /\ Decoded(c, b) = <<>>
               /\ d.st = "payload" /\ d.cmd = c.cmd /\ d.rx = Append(c.rx, b)
            \/ /\ c.st = "payload" /\ Decoded(c, b) = <<Append(c.rx, b)>>
               /\ d.rx = <<>> /\ d.cmd = c.cmd
            \/ /\ c.st = "type" /\ Decoded(c, b) = <<>>
               /\ d.rx = <<>>
               /\ d.cmd = kind => b.pkt.what = "header" /\ b.pos = HeaderLength
            \/ /\ c.st \notin {"payload", "type"} /\ Decoded(c, b) = <<>>
               /\ d.st # "payload" /\ d.cmd = c.cmd
<1> DEFINE rx == Append(c.rx, b)
<1>1. /\ c \in Codecs /\ c.rx \in Seq(Byte) /\ rx \in Seq(Byte) /\ Len(rx) = Len(c.rx) + 1 /\ Len(c.rx) \in Nat
      /\ c.len \in Nat /\ c.cmd \in {"none", "unknown", kind} /\ <<>> \in Seq(Byte) /\ Len(<<>>) = 0
      /\ kind # "none" /\ kind # "unknown"
  BY DEF CodecOK, Codecs, Kinds, CapsuleKinds
<1>2. CASE c.st = "payload"
  <2>1. Len(c.rx) < c.len /\ c.cmd # "none"
    BY <1>2 DEF CodecOK
  <2>2. CASE Len(rx) < c.len
    <3>1. d = [c EXCEPT !.rx = rx]
      BY <1>2, <2>2 DEF DecodeByte
    <3>2. Decoded(c, b) = <<>>
      BY <1>1, <2>2 DEF Decoded
    <3> HIDE DEF rx
    <3>3. d \in Codecs /\ d.st = "payload" /\ d.cmd = c.cmd /\ d.rx = rx /\ d.len = c.len
      BY <1>1, <1>2, <3>1 DEF Codecs
    <3>4. CodecOK(d)
      BY <1>1, <2>1, <2>2, <3>3 DEF CodecOK
    <3> QED BY <1>2, <3>2, <3>3, <3>4 DEF rx
  <2>3. CASE ~(Len(rx) < c.len)
    <3>1. Decoded(c, b) = <<rx>>
      BY <1>1, <1>2, <2>1, <2>3 DEF Decoded
    <3>2. d = [c EXCEPT !.rx = <<>>] \/ d = [c EXCEPT !.st = "sync1", !.rx = <<>>]
      BY <1>2, <2>3 DEF DecodeByte
    <3>3. /\ d \in Codecs /\ d.cmd = c.cmd /\ d.rx = <<>> /\ d.len = c.len
          /\ d.st \in {"payload", "sync1"}
      BY <1>1, <1>2, <3>2 DEF Codecs
    <3>4. CodecOK(d)
      BY <1>1, <2>1, <2>3, <3>3 DEF CodecOK
    <3> QED BY <1>2, <3>1, <3>3, <3>4
  <2> QED BY <2>2, <2>3
<1>3. CASE c.st = "type"
  <2> DEFINE type == IF b.pkt.what = "header" /\ b.pos = HeaderLength THEN b.pkt.type ELSE "unknown"
  <2>1. /\ type \in {"unknown", kind} /\ type \in Kinds \cup {"none", "unknown"}
        /\ type = kind => b.pkt.what = "header" /\ b.pos = HeaderLength
    BY <1>1
  <2>2. Decoded(c, b) = <<>> /\ c.rx = <<>>
    BY <1>3 DEF Decoded, CodecOK
  <2>3. \/ c.len = 0 /\ d = [c EXCEPT !.st = "sync1", !.loop = FALSE, !.cmd = type]
        \/ c.len # 0 /\ d = [c EXCEPT !.st = "payload", !.cmd = type]
    BY <1>3 DEF DecodeByte
  <2> HIDE DEF type
  <2>4. /\ d \in Codecs /\ d.cmd = type /\ d.rx = c.rx /\ d.len = c.len
        /\ d.st \in {"payload", "sync1"} /\ (d.st = "payload" => c.len # 0)
    BY <1>1, <1>3, <2>1, <2>3 DEF Codecs
  <2>5. CodecOK(d)
    BY <1>1, <2>1, <2>2, <2>4 DEF CodecOK
  <2> QED BY <1>3, <2>1, <2>2, <2>4, <2>5
<1>4. CASE c.st \notin {"payload", "type"}
  <2>1. Decoded(c, b) = <<>>
    BY <1>4 DEF Decoded
  <2>2. d \in Codecs /\ d.cmd = c.cmd /\ d.st # "payload" /\ (d.st = "type" => d.rx = <<>>)
    <3>1. CASE c.st = "sync1"
      <4>1. d = [c EXCEPT !.st = "sync2"] \/ d = c
        BY <3>1 DEF DecodeByte
      <4> QED BY <1>1, <3>1, <4>1 DEF Codecs
    <3>2. CASE c.st = "sync2"
      <4>1. d = [c EXCEPT !.st = "size", !.rx = <<>>] \/ d = [c EXCEPT !.st = "sync1"]
        BY <3>2 DEF DecodeByte
      <4> QED BY <1>1, <3>2, <4>1 DEF Codecs
    <3>3. CASE c.st = "size"
      <4>1. CASE Len(rx) < 4
        <5>1. d = [c EXCEPT !.rx = rx]
          BY <3>3, <4>1 DEF DecodeByte
        <5> HIDE DEF rx
        <5> QED BY <1>1, <3>3, <5>1 DEF Codecs
      <4>2. CASE ~(Len(rx) < 4)
        <5> DEFINE f == SizeFlag(rx, g)
        <5>1. d = [c EXCEPT !.st = "type", !.rx = <<>>, !.len = f.len, !.loop = f.loop]
          BY <3>3, <4>2 DEF DecodeByte
        <5>2. f.len \in Nat /\ f.loop \in BOOLEAN
          <6>1. rx[1] \in Byte
            BY <1>1, <4>2
          <6>2. rx[1].pkt.what = "header" => rx[1].pkt.len = PacketSize
            BY <6>1 DEF Byte, Packets, Headers, Samples, NoPacket
          <6>3. g.len \in Nat /\ g.loop \in BOOLEAN
            BY SampleStreamAssumption
          <6>4. CASE rx[1].pkt.what = "header" /\ Whole(rx, 3)
            <7>1. f = [len |-> rx[1].pkt.len, loop |-> TRUE]
              BY <6>4 DEF SizeFlag
            <7> HIDE DEF f, rx
            <7> QED BY <6>2, <6>4, <7>1, Sizes
          <6>5. CASE ~(rx[1].pkt.what = "header" /\ Whole(rx, 3))
            <7>1. f = g
              BY <6>5 DEF SizeFlag
            <7> QED BY <6>3, <7>1
          <6> QED BY <6>4, <6>5
        <5> HIDE DEF f
        <5> QED BY <1>1, <5>1, <5>2 DEF Codecs
      <4> QED BY <4>1, <4>2
    <3> QED BY <1>1, <1>4, <3>1, <3>2, <3>3 DEF Codecs
  <2>3. CodecOK(d)
    BY <1>1, <2>2 DEF CodecOK
  <2> QED BY <1>4, <2>1, <2>2, <2>3
<1> QED BY <1>2, <1>3, <1>4

\* Gathering keeps a handler of any format a handler.
LEMMA ByteKeepsHandler ==
  ASSUME kind \in Kinds, NEW hd, IsHandler(hd), NEW b \in Byte, NEW r, r = OnByte(kind, hd, b, now)
  PROVE  IsHandler(r.h)
<1> DEFINE buf == Append(hd.buf, b)
<1>0. /\ <<>> \in Seq(Byte) /\ Len(<<>>) < PacketSize
      /\ hd.buf \in Seq(Byte) /\ buf \in Seq(Byte)
  BY Sizes DEF IsHandler
<1>1. CASE kind \in CapsuleKinds
  BY <1>1, OnByteCases DEF Dropped, Gathers, Completes
<1>2. ASSUME NEW e, e = [hd EXCEPT !.buf = <<>>] \/ (Len(buf) < PacketSize /\ e = [hd EXCEPT !.buf = buf])
      PROVE  IsHandler(e)
  <2> HIDE DEF buf
  <2>1. (e.buf = <<>> \/ (e.buf = buf /\ Len(buf) < PacketSize)) /\ e.ready = hd.ready
    BY <1>2 DEF IsHandler
  <2>2. IsRecord(e)
    BY <1>2 DEF IsHandler, IsRecord
  <2> QED BY <1>0, <2>1, <2>2 DEF IsHandler, IsRecord
<1>3. CASE kind = "hq"
  <2>1. \E o : \/ r = Result(hd, o)
               \/ Len(buf) < PacketSize /\ r = Result([hd EXCEPT !.buf = buf], o)
               \/ r = Result([hd EXCEPT !.buf = <<>>], o)
    <3>1. r = HQOnData(hd, b, now)
      BY <1>3 DEF OnByte
    <3> QED BY <3>1, Zenon DEF HQOnData
  <2> HIDE DEF buf
  <2>2. \/ r.h = hd
        \/ Len(buf) < PacketSize /\ r.h = [hd EXCEPT !.buf = buf]
        \/ r.h = [hd EXCEPT !.buf = <<>>]
    <3>1. \A a, o : r = Result(a, o) => r.h = a
      BY DEF Result
    <3> QED BY <2>1, <3>1, Zenon
  <2> QED BY <1>2, <2>2, Zenon
<1>4. CASE kind = "normal"
  <2>1. \E o : \/ r = Result(hd, o)
               \/ Len(buf) < PacketSize /\ r = Result([hd EXCEPT !.buf = buf], o)
               \/ r = Result([hd EXCEPT !.buf = <<>>], o)
    <3>1. r = NormalOnData(hd, b, now)
      BY <1>4 DEF OnByte
    <3> QED BY <3>1, Zenon DEF NormalOnData
  <2> HIDE DEF buf
  <2>2. \/ r.h = hd
        \/ Len(buf) < PacketSize /\ r.h = [hd EXCEPT !.buf = buf]
        \/ r.h = [hd EXCEPT !.buf = <<>>]
    <3>1. \A a, o : r = Result(a, o) => r.h = a
      BY DEF Result
    <3> QED BY <2>1, <3>1, Zenon
  <2> QED BY <1>2, <2>2, Zenon
<1> QED BY <1>1, <1>3, <1>4 DEF Kinds

\* So does a payload.
LEMMA PayloadKeepsHandler ==
  ASSUME kind \in Kinds, NEW from, IsHandler(from), NEW payload \in Seq(Byte)
  PROVE  IsHandler(TakeAll(from, payload).h)
<1> DEFINE n == Len(payload)
<1>1. n \in Nat
  OBVIOUS
<1>2. PICK f : Takes(f, n, from, payload) /\ TakeAll(from, payload) = f[n]
  BY <1>1, Taking, Zenon
<1> DEFINE bad == {m \in 0 .. n : ~IsHandler(f[m].h)}
<1>3. ASSUME bad # {} PROVE FALSE
  <2>1. bad \in SUBSET Nat
    BY <1>1
  <2>2. PICK m \in bad : \A k \in bad : m <= k
    <3> HIDE DEF bad
    <3> QED BY <1>3, <2>1, LeastExists
  <2>3. m \in 0 .. n /\ ~IsHandler(f[m].h)
    BY <2>2
  <2>4. CASE m = 0
    <3>1. f[0] = Result(from, <<>>)
      BY <1>1, <1>2 DEF Takes
    <3> QED BY <2>3, <2>4, <3>1, ResultFields
  <2>5. CASE m # 0
    <3>1. m - 1 \in 0 .. n /\ ~(m <= m - 1) /\ m \in 1 .. n
      BY <1>1, <2>3, <2>5
    <3>2. IsHandler(f[m - 1].h)
      BY <2>2, <3>1
    <3>3. f[m] = Take(f[m - 1], payload[m]) /\ payload[m] \in Byte
      <4>1. f[m] = Take(f[m - 1], payload[m])
        BY <1>1, <1>2, <2>3, <2>5 DEF Takes
      <4>2. payload[m] \in Byte
        BY <3>1
      <4> QED BY <4>1, <4>2
    <3>4. PICK p, q : p = f[m - 1] /\ q = OnByte(kind, p.h, payload[m], now)
      OBVIOUS
    <3>5. f[m].h = q.h
      <4>1. f[m] = Result(q.h, p.out \o q.out)
        BY <3>3, <3>4, Zenon DEF Take
      <4> QED BY <4>1, ResultFields
    <3>6. IsHandler(p.h)
      BY <3>2, <3>4
    <3>7. IsHandler(q.h)
      BY <3>3, <3>4, <3>6, ByteKeepsHandler, Zenon
    <3> QED BY <2>3, <3>5, <3>7
  <2> QED BY <2>4, <2>5
<1>4. IsHandler(f[n].h)
  <2>1. n \in 0 .. n
    BY <1>1
  <2> QED BY <1>3, <2>1
<1> QED BY <1>2, <1>4

\* The wire without its first byte.
LEMMA OnWireTail ==
  ASSUME NEW w, NEW L, L.n \in Nat, OnWire(w, L), w # <<>>
  PROVE  OnWire(Tail(w), L) /\ (HeaderIn(Tail(w)) => HeaderIn(w))
<1> DEFINE v == Tail(w)
<1>1. /\ w \in Seq(Byte) /\ Len(w) \in Nat \ {0} /\ v \in Seq(Byte) /\ Len(v) = Len(w) - 1
      /\ \A i \in 1 .. Len(w) - 1 : v[i] = w[i + 1]
  <2>1. w \in Seq(Byte)
    BY DEF OnWire
  <2> QED BY <2>1, HeadTail
<1> HIDE DEF v
<1>2. ASSUME NEW i \in 1 .. Len(v)
      PROVE  v[i] = w[i + 1] /\ i + 1 \in 1 .. Len(w)
  BY <1>1
<1>3. OnWire(v, L)
  <2>1. Len(v) <= IF L.n > 0 THEN PacketSize ELSE HeaderLength
    BY <1>1, Sizes DEF OnWire, HeaderLength
  <2>2. ASSUME NEW i \in 1 .. Len(v), Good(v[i])
        PROVE  /\ v[i].pkt.s = L.s /\ v[i].pkt.n = L.n /\ L.n > 0
               /\ v[i].pos = PacketSize - Len(v) + i
               /\ v[i].pkt.first = (v[i].pkt.n = 1)
    <3>1. /\ v[i].pkt.s = L.s /\ v[i].pkt.n = L.n /\ L.n > 0
          /\ v[i].pos = PacketSize - Len(w) + (i + 1)
          /\ v[i].pkt.first = (v[i].pkt.n = 1)
      BY <1>2, <2>2 DEF OnWire
    <3>2. PacketSize - Len(w) + (i + 1) = PacketSize - Len(v) + i
      BY <1>1, Sizes
    <3> QED BY <3>1, <3>2
  <2>3. ASSUME NEW i \in 1 .. Len(v), v[i].pkt.what = "header"
        PROVE  L.n = 0 /\ v[i].pos = HeaderLength - Len(v) + i /\ v[i].pkt.type = kind
    <3>1. L.n = 0 /\ v[i].pos = HeaderLength - Len(w) + (i + 1) /\ v[i].pkt.type = kind
      BY <1>2, <2>3 DEF OnWire
    <3>2. HeaderLength - Len(w) + (i + 1) = HeaderLength - Len(v) + i
      BY <1>1 DEF HeaderLength
    <3> QED BY <3>1, <3>2
  <2> QED BY <1>1, <2>1, <2>2, <2>3 DEF OnWire
<1>4. HeaderIn(v) => HeaderIn(w)
  BY <1>2 DEF HeaderIn
<1> QED BY <1>3, <1>4 DEF v

\* The bytes of two sequences, one after the other.
LEMMA Joined ==
  ASSUME NEW s \in Seq(Byte), NEW t \in Seq(Byte)
  PROVE  /\ s \o t \in Seq(Byte) /\ Len(s \o t) = Len(s) + Len(t)
         /\ \A i \in 1 .. Len(s) : (s \o t)[i] = s[i]
         /\ \A i \in 1 .. Len(t) : (s \o t)[Len(s) + i] = t[i]
OBVIOUS

\* A byte appended to the second of two sequences is appended to both.
LEMMA JoinAppended ==
  ASSUME NEW s \in Seq(Byte), NEW t \in Seq(Byte), NEW b \in Byte
  PROVE  s \o Append(t, b) = Append(s \o t, b)
OBVIOUS

\* Nothing is the only sequence of no bytes.
LEMMA EmptySequence == ASSUME NEW s \in Seq(Byte), Len(s) = 0 PROVE s = <<>>
OBVIOUS

\* What TypeInv says of the parts of the stream.
LEMMA StreamTypes ==
  ASSUME TypeInv
  PROVE  /\ lidar.s \in Nat /\ lidar.n \in Nat /\ faults.here \in Nat /\ faults.packets \in Nat
         /\ h.buf \in Seq(Byte) /\ codec.rx \in Seq(Byte) /\ h.buf \o codec.rx \in Seq(Byte)
         /\ wire \in Seq(Byte) /\ kind \in Kinds
<1>1. h.buf \in Seq(Byte) /\ codec.rx \in Seq(Byte)
  BY DEF TypeInv, IsHandler, CodecOK, Codecs
<1> QED BY <1>1, Joined, UsedAreKinds DEF TypeInv, OnWire

\* A fault leaves the driver alone and shortens the wire at most: what the three
\* faults have in common.
LEMMA FaultKeepsStream ==
  ASSUME StreamInv, NEW left, NEW p \in {0, 1}, Fault(left, p), OnWire(left, lidar),
         Len(left) <= Len(wire), p = 0 => Len(left) + 1 >= Len(wire),
         HeaderIn(left) => HeaderIn(wire)
  PROVE  StreamInv'
<1> USE DEF StreamInv
<1>1. /\ wire' = left /\ wire # <<>>
      /\ faults' \in [all : Nat, here : Nat, header : BOOLEAN, packets : Nat]
      /\ faults'.here = faults.here + 1 /\ faults'.packets = faults.packets + p
      /\ batch' = <<>>
      /\ UNCHANGED <<kind, lidar, codec, enabled, active, h, now, client>>
  <2>1. faults \in [all : Nat, here : Nat, header : BOOLEAN, packets : Nat]
    BY DEF TypeInv
  <2> QED BY <2>1 DEF Fault
<1>2. TypeInv'
  <2>1. OnWire(wire, lidar)'
    BY <1>1 DEF OnWire
  <2>2. CodecOK(codec)'
    BY <1>1 DEF TypeInv, CodecOK
  <2>3. IsHandler(h)'
    BY <1>1 DEF TypeInv
  <2> QED BY <1>1, <2>1, <2>2, <2>3 DEF TypeInv
<1>3. Published(batch, faults)'
  BY <1>1, NothingPublished DEF Published
<1>4. ASSUME kind \in CapsuleKinds PROVE HandlerInv'
  <2>1. HandlerInv
    BY <1>4
  <2>2. Flow' => Flow
    BY <1>1 DEF Flow
  <2>3. Flow' => Stream(h, h.buf \o codec.rx, left, lidar, faults')
    <3> SUFFICES ASSUME Flow PROVE Stream(h, h.buf \o codec.rx, left, lidar, faults')
      BY <2>2
    <3>1. /\ h.buf \o codec.rx \in Seq(Byte) /\ lidar.s \in Nat /\ lidar.n \in Nat
          /\ faults.here \in Nat /\ faults.packets \in Nat /\ faults'.here \in Nat
      BY <1>1, StreamTypes
    <3>2. Stream(h, h.buf \o codec.rx, wire, lidar, faults) /\ Prevs(h, lidar)
      BY <2>1 DEF HandlerInv
    <3>3. Len(wire) \in Nat /\ Len(left) \in Nat
      BY DEF TypeInv, OnWire
    <3>4. NoLoss(faults') => NoLoss(faults) /\ Len(left) + faults'.here >= Len(wire) + faults.here
      BY <1>1, <3>1, <3>3, Sizes DEF NoLoss
    <3>5. wire # <<>> /\ Len(left) <= Len(wire)
      BY <1>1
    <3>6. PICK Z, E : Z = h.buf \o codec.rx /\ E = faults'
      OBVIOUS
    <3>7. /\ Z \in Seq(Byte) /\ E.here \in Nat /\ Stream(h, Z, wire, lidar, faults)
          /\ NoLoss(E) => NoLoss(faults) /\ Len(left) + E.here >= Len(wire) + faults.here
      BY <3>1, <3>2, <3>4, <3>6, Zenon
    <3>8. Stream(h, Z, left, lidar, E)
      <4> HIDE DEF StreamInv
      <4> QED BY <3>1, <3>2, <3>3, <3>5, <3>7, LineFault
    <3> QED BY <3>6, <3>8
  <2>4. Flow' => Prevs(h, lidar)'
    BY <1>1, <2>1, <2>2 DEF HandlerInv, Prevs, Older
  <2>5. HeaderAhead' => HeaderAhead
    BY <1>1 DEF HeaderAhead, HeaderIn
  <2> QED BY <1>1, <2>1, <2>3, <2>4, <2>5 DEF HandlerInv, Older, Stream, Carry, Ahead
<1> QED BY <1>1, <1>2, <1>3, <1>4

\* A byte is lost.
LEMMA LoseByteStream == ASSUME StreamInv, LoseByte PROVE StreamInv'
<1>1. TypeInv /\ OnWire(wire, lidar) /\ lidar.n \in Nat /\ wire \in Seq(Byte)
  BY StreamTypes DEF StreamInv, TypeInv
<1>2. wire # <<>>
  BY DEF LoseByte, Fault
<1>3. OnWire(Tail(wire), lidar) /\ (HeaderIn(Tail(wire)) => HeaderIn(wire))
  BY <1>1, <1>2, OnWireTail
<1>4. Len(Tail(wire)) <= Len(wire) /\ Len(Tail(wire)) + 1 >= Len(wire)
  BY <1>1, <1>2, HeadTail
<1>5. Fault(Tail(wire), 0) /\ 0 \in {0, 1}
  BY DEF LoseByte
<1> QED BY <1>3, <1>4, <1>5, FaultKeepsStream, Zenon

\* A byte is changed: it belongs to no packet any more.
LEMMA DamageByteStream ==
  ASSUME StreamInv, NEW v \in {"A5", "5A", "00"}, DamageByte(v) PROVE StreamInv'
<1> DEFINE x == [val |-> v, pkt |-> NoPacket, pos |-> 0]
           left == <<x>> \o Tail(wire)
<1>1. TypeInv /\ OnWire(wire, lidar) /\ lidar.n \in Nat /\ wire \in Seq(Byte)
  BY StreamTypes DEF StreamInv, TypeInv
<1>2. wire # <<>> /\ Fault(left, 0)
  BY DEF DamageByte
<1>3. /\ Len(wire) \in Nat \ {0} /\ Tail(wire) \in Seq(Byte) /\ Len(Tail(wire)) = Len(wire) - 1
      /\ \A i \in 1 .. Len(wire) - 1 : Tail(wire)[i] = wire[i + 1]
  BY <1>1, <1>2, HeadTail
<1>4. x \in Byte /\ x.pkt.what = "none"
  BY DEF Byte, Packets, NoPacket
<1> HIDE DEF x
<1>5. /\ left \in Seq(Byte) /\ Len(left) = Len(wire)
      /\ left[1] = x /\ \A i \in 2 .. Len(wire) : left[i] = wire[i]
  <2>1. /\ <<x>> \in Seq(Byte) /\ Len(<<x>>) = 1 /\ <<x>>[1] = x
    BY <1>4
  <2>2. /\ left \in Seq(Byte) /\ Len(left) = 1 + (Len(wire) - 1) /\ left[1] = x
        /\ \A i \in 1 .. Len(wire) - 1 : left[1 + i] = Tail(wire)[i]
    BY <1>3, <2>1, Joined
  <2>3. ASSUME NEW i \in 2 .. Len(wire)
        PROVE  left[i] = wire[i]
    <3>1. PICK k : k = i - 1
      OBVIOUS
    <3>2. k \in 1 .. Len(wire) - 1 /\ 1 + k = i /\ k + 1 = i
      BY <1>3, <3>1
    <3>3. left[1 + k] = wire[k + 1]
      BY <1>3, <2>2, <3>2
    <3> QED BY <3>2, <3>3
  <2> QED BY <1>3, <2>2, <2>3
<1> HIDE DEF left
<1>6. ASSUME NEW i \in 1 .. Len(left)
      PROVE  left[i].pkt.what = "none" \/ left[i] = wire[i]
  BY <1>3, <1>4, <1>5
<1>7. OnWire(left, lidar)
  <2>1. Len(left) <= IF lidar.n > 0 THEN PacketSize ELSE HeaderLength
    BY <1>1, <1>5 DEF OnWire
  <2>2. ASSUME NEW i \in 1 .. Len(left)
        PROVE  /\ Good(left[i]) => /\ left[i].pkt.s = lidar.s /\ left[i].pkt.n = lidar.n /\ lidar.n > 0
                                   /\ left[i].pos = PacketSize - Len(left) + i
                                   /\ left[i].pkt.first = (left[i].pkt.n = 1)
               /\ left[i].pkt.what = "header" => /\ lidar.n = 0 /\ left[i].pos = HeaderLength - Len(left) + i
                                                 /\ left[i].pkt.type = kind
    <3>1. CASE left[i].pkt.what = "none"
      BY <3>1 DEF Good
    <3>2. CASE left[i] = wire[i]
      BY <1>1, <1>5, <3>2 DEF OnWire
    <3> QED BY <1>6, <3>1, <3>2
  <2> QED BY <1>5, <2>1, <2>2 DEF OnWire
<1>8. HeaderIn(left) => HeaderIn(wire)
  BY <1>5, <1>6 DEF HeaderIn
<1>9. Len(left) <= Len(wire) /\ Len(left) + 1 >= Len(wire) /\ 0 \in {0, 1}
  BY <1>3, <1>5
<1> QED BY <1>2, <1>7, <1>8, <1>9, FaultKeepsStream, Zenon

\* A packet is lost: nothing is promised of the distance any more.
LEMMA LosePacketStream == ASSUME StreamInv, LosePacket PROVE StreamInv'
<1>1. TypeInv /\ OnWire(wire, lidar) /\ lidar.n \in Nat /\ wire \in Seq(Byte)
  BY StreamTypes DEF StreamInv, TypeInv
<1>2. Fault(<<>>, 1) /\ 1 \in {0, 1} /\ 1 # 0
  BY DEF LosePacket
<1>3. OnWire(<<>>, lidar) /\ ~HeaderIn(<<>>)
  BY <1>1, Sizes DEF OnWire, HeaderLength, HeaderIn
<1>4. Len(<<>>) <= Len(wire)
  BY <1>1
<1> QED BY <1>2, <1>3, <1>4, FaultKeepsStream, Zenon

\* The lidar sends its next packet.
LEMMA SendPacketStream ==
  ASSUME StreamInv, NEW step \in Steps, NEW late \in {0, Lateness}, SendPacket(step, late)
  PROVE  StreamInv'
<1> USE DEF StreamInv
<1>0. TypeInv
  OBVIOUS
<1> DEFINE angle == (lidar.start + step) % Turn_q6
           sent == lidar.at + Period
           p  == [what |-> "samples", s |-> lidar.s, n |-> lidar.n + 1, at |-> sent,
                  start |-> angle, first |-> lidar.n = 0, wrap |-> angle < lidar.start]
           w  == [i \in 1 .. PacketSize |-> [val |-> PacketByte(p, i), pkt |-> p, pos |-> i]]
<1>1. /\ wire = <<>> /\ wire' = w /\ batch' = <<>> /\ now' \in {now, sent + late}
      /\ UNCHANGED <<kind, codec, enabled, active, h, client, faults>>
  BY DEF SendPacket, ClockAt
<1>2. /\ lidar' \in [on : BOOLEAN, s : Nat, n : Nat, wide : Nat, start : Nat, fill : Fills \cup {"00"}, at : Nat]
      /\ lidar'.s = lidar.s /\ lidar'.n = lidar.n + 1 /\ angle \in Nat /\ sent \in Nat
  <2>1. /\ lidar \in [on : BOOLEAN, s : Nat, n : Nat, wide : Nat, start : Nat, fill : Fills \cup {"00"}, at : Nat]
        /\ step \in Nat /\ Period \in Nat
    BY <1>0, StartsAngles, StreamTypes, Durations DEF TypeInv
  <2>2. angle \in Nat /\ sent \in Nat
    BY <2>1, StartsAngles
  <2>3. PICK k \in {0, 1} : lidar' = [lidar EXCEPT !.n = @ + 1, !.start = angle, !.at = sent, !.wide = @ + k]
    BY DEF SendPacket
  <2> HIDE DEF angle, sent
  <2>4. PICK m, k2 : m = lidar.n + 1 /\ k2 = lidar.wide + k
    OBVIOUS
  <2>5. lidar' = [lidar EXCEPT !.n = m, !.start = angle, !.at = sent, !.wide = k2]
    BY <2>3, <2>4
  <2>6. m \in Nat /\ k2 \in Nat
    BY <2>1, <2>3, <2>4
  <2>7. lidar' \in [on : BOOLEAN, s : Nat, n : Nat, wide : Nat, start : Nat, fill : Fills \cup {"00"}, at : Nat]
    BY <2>1, <2>2, <2>5, <2>6
  <2>8. lidar'.s = lidar.s /\ lidar'.n = m
    BY <2>1, <2>5
  <2> QED BY <2>2, <2>4, <2>7, <2>8
<1>3. p \in Samples /\ p.what = "samples" /\ p.s = lidar.s /\ p.n = lidar.n + 1 /\ p.first = (p.n = 1)
  <2>1. lidar.s \in Nat /\ lidar.n \in Nat
    BY <1>0, StreamTypes
  <2> HIDE DEF angle, sent
  <2> QED BY <1>2, <2>1 DEF Samples
<1> HIDE DEF p
<1>4. \A i \in 1 .. PacketSize : PacketByte(p, i) \in {"A5", "5A", "00"} \cup Fills
  BY DEF PacketByte, TypeInv
<1>5. w \in Seq(Byte) /\ Len(w) = PacketSize /\ \A i \in 1 .. PacketSize : w[i].pkt = p /\ w[i].pos = i
  <2>1. \A i \in 1 .. PacketSize : w[i] \in Byte /\ w[i].pkt = p /\ w[i].pos = i
    BY <1>3, <1>4, Sizes DEF Byte, Packets
  <2>2. w \in [1 .. PacketSize -> Byte] /\ PacketSize \in Nat
    BY <2>1, Sizes
  <2> HIDE DEF w
  <2>3. w \in Seq(Byte) /\ Len(w) = PacketSize
    BY <2>2
  <2> QED BY <2>1, <2>3
<1> HIDE DEF w
<1>6. OnWire(w, lidar')
  <2>1. lidar'.n > 0 /\ PacketSize - Len(w) = 0 /\ PacketSize \in Nat
    BY <1>0, <1>2, <1>5, StreamTypes, Sizes
  <2>2. \A i \in 1 .. Len(w) : w[i].pkt.what = "samples"
    BY <1>3, <1>5
  <2> QED BY <1>2, <1>3, <1>5, <2>1, <2>2 DEF OnWire
<1>7. ~HeaderIn(w)
  BY <1>3, <1>5 DEF HeaderIn
<1>8. now' \in Nat
  <2>1. kind \in Kinds /\ now \in Nat
    BY <1>0, StreamTypes DEF TypeInv
  <2>2. late \in Nat
    BY <2>1, Durations
  <2> HIDE DEF sent
  <2> QED BY <1>1, <1>2, <2>1, <2>2
<1>9. TypeInv'
  <2>1. OnWire(wire, lidar)'
    BY <1>1, <1>6 DEF OnWire
  <2>2. CodecOK(codec)'
    BY <1>1 DEF TypeInv, CodecOK
  <2>3. IsHandler(h)'
    BY <1>1 DEF TypeInv
  <2> QED BY <1>1, <1>2, <1>8, <2>1, <2>2, <2>3 DEF TypeInv
<1>10. Published(batch, faults)'
  <2>1. Published(<<>>, faults)
    BY NothingPublished
  <2> QED BY <1>1, <2>1 DEF Published, Linked, Older, NoLoss
<1>11. ASSUME kind \in CapsuleKinds PROVE HandlerInv'
  <2>1. HandlerInv
    BY <1>11
  <2>2. Flow' <=> Flow
    BY <1>1 DEF Flow
  <2>3. ASSUME Flow PROVE Stream(h, h.buf \o codec.rx, w, lidar', faults) /\ Prevs(h, lidar)
    <3>1. /\ h.buf \o codec.rx \in Seq(Byte) /\ lidar.s \in Nat /\ lidar.n \in Nat /\ faults.here \in Nat
      BY <1>0, StreamTypes
    <3>2. Stream(h, h.buf \o codec.rx, wire, lidar, faults) /\ Prevs(h, lidar)
      BY <2>1, <2>3 DEF HandlerInv
    <3>3. lidar'.s = lidar.s /\ lidar'.n = lidar.n + 1 /\ wire = <<>> /\ Len(w) = PacketSize
      BY <1>1, <1>2, <1>5
    <3> HIDE DEF StreamInv
    <3> QED BY <3>1, <3>2, <3>3, PacketSent, Zenon
  <2>4. Flow => Prevs(h, lidar)'
    BY <1>1, <1>2, <2>3 DEF Prevs, Older
  <2>5. ~HeaderAhead'
    BY <1>1, <1>7 DEF HeaderAhead, HeaderIn
  <2> QED BY <1>1, <1>2, <2>1, <2>2, <2>3, <2>4, <2>5 DEF HandlerInv, Older, Stream, Carry, Ahead, Before
<1> QED BY <1>1, <1>9, <1>10, <1>11

\* A scan starts: the header is sent, and codec and unpacker are as new.
LEMMA StartScanStream ==
  ASSUME StreamInv, NEW start \in Starts, NEW fill \in Fills, StartScan(start, fill) PROVE StreamInv'
<1> USE DEF StreamInv
<1>0. TypeInv /\ kind \in Kinds /\ lidar.s \in Nat /\ IsHandler(h)
  BY StreamTypes DEF TypeInv
<1>1. /\ wire = <<>> /\ batch' = <<>> /\ now' \in {now, (lidar.s + 1) * ScanTime} /\ client' = "scanning" /\ enabled' = TRUE
      /\ active' = "none" /\ h' = ClearCache /\ codec' = DecodeReset /\ UNCHANGED kind
  BY DEF StartScan, UnpackerReset, ExitLoopMode, ClockAt
<1>2. /\ faults' \in [all : Nat, here : Nat, header : BOOLEAN, packets : Nat]
  <2>1. faults \in [all : Nat, here : Nat, header : BOOLEAN, packets : Nat]
    BY DEF TypeInv
  <2>2. faults' = [faults EXCEPT !.here = 0, !.header = FALSE]
    BY DEF StartScan
  <2> QED BY <2>1, <2>2
<1>7. now' \in Nat
  <2>1. PICK x, y : x = lidar.s + 1 /\ y = ScanTime
    OBVIOUS
  <2>2. x \in Nat /\ y \in Nat /\ now \in Nat
    BY <1>0, <2>1, Durations DEF TypeInv
  <2>3. x * y \in Nat
    BY ONLY <2>2
  <2> QED BY <1>1, <2>1, <2>2, <2>3
<1>3. \/ /\ lidar' \in [on : BOOLEAN, s : Nat, n : Nat, wide : Nat, start : Nat, fill : Fills \cup {"00"}, at : Nat]
         /\ lidar'.s = lidar.s + 1 /\ lidar'.n = 0 /\ wire' = HeaderBytes
      \/ lidar' = lidar /\ wire' = wire
  <2>1. CASE lidar' = [on |-> TRUE, s |-> lidar.s + 1, n |-> 0, wide |-> 0, start |-> start, fill |-> fill,
                        at |-> now']
             /\ wire' = HeaderBytes
    <3>1. now' \in Nat
      BY <1>7
    <3> QED BY <1>0, <2>1, <3>1, StartsAngles
  <2>2. CASE UNCHANGED <<lidar, wire>>
    BY <2>2
  <2> QED BY <2>1, <2>2 DEF StartScan
<1>4. /\ lidar' \in [on : BOOLEAN, s : Nat, n : Nat, wide : Nat, start : Nat, fill : Fills \cup {"00"}, at : Nat]
      /\ lidar.s <= lidar'.s /\ (HeaderIn(wire') => lidar.s < lidar'.s)
  <2>1. ~HeaderIn(wire)
    BY <1>1 DEF HeaderIn
  <2>2. lidar \in [on : BOOLEAN, s : Nat, n : Nat, wide : Nat, start : Nat, fill : Fills \cup {"00"}, at : Nat]
    BY DEF TypeInv
  <2>3. CASE lidar' = lidar /\ wire' = wire
    BY <1>0, <2>1, <2>2, <2>3
  <2> QED BY <1>0, <1>3, <2>3
<1>5. OnWire(wire', lidar')
  <2>1. CASE lidar'.n = 0 /\ wire' = HeaderBytes
    <3> DEFINE p == HeaderPacket
               w == [i \in 1 .. 7 |-> [val |-> CASE i = 1 -> "A5" [] i = 2 -> "5A" [] OTHER -> "00",
                                       pkt |-> p, pos |-> i]]
    <3>1. p \in Headers /\ p.what = "header" /\ p.type = kind
      BY <1>0 DEF HeaderPacket, Headers, TypeInv
    <3> HIDE DEF p
    <3>2. \A i \in 1 .. 7 : w[i] \in Byte /\ w[i].pkt = p /\ w[i].pos = i
      BY <3>1 DEF Byte, Packets
    <3>3. w = HeaderBytes
      BY DEF HeaderBytes, HeaderLength, p
    <3>4. w \in [1 .. 7 -> Byte]
      BY <3>2
    <3> HIDE DEF w
    <3>5. w \in Seq(Byte) /\ Len(w) = 7
      <4>1. PICK n \in Nat : n = 7
        OBVIOUS
      <4>2. w \in [1 .. n -> Byte]
        BY <3>4, <4>1
      <4>3. w \in Seq(Byte) /\ Len(w) = n
        BY <4>2
      <4> QED BY <4>1, <4>3
    <3>6. \A i \in 1 .. Len(w) : ~Good(w[i])
      BY <3>1, <3>2, <3>5 DEF Good
    <3>7. OnWire(w, lidar')
      BY <2>1, <3>1, <3>2, <3>5, <3>6 DEF OnWire, HeaderLength
    <3> QED BY <2>1, <3>3, <3>7
  <2>2. CASE lidar' = lidar /\ wire' = wire
    BY <2>2 DEF TypeInv
  <2> QED BY <1>3, <2>1, <2>2
<1>6. /\ IsHandler(h') /\ h'.prev = h.prev /\ (h'.ready => h.ready)
      /\ active = kind => h'.buf = <<>> /\ (Older => ~h'.ready)
      /\ active # kind => h' = h
  BY <1>0, <1>1, Clears
<1>8. TypeInv'
  <2>1. OnWire(wire, lidar)'
    BY <1>1, <1>5 DEF OnWire
  <2>2. CodecOK(codec)'
    BY <1>1 DEF CodecOK, DecodeReset, Codecs
  <2>3. IsHandler(h)'
    BY <1>6
  <2> QED BY <1>1, <1>2, <1>4, <1>7, <2>1, <2>2, <2>3 DEF TypeInv
<1>9. Published(batch, faults)'
  <2>1. Published(<<>>, faults')
    BY NothingPublished
  <2> QED BY <1>1, <2>1 DEF Published, Linked, Older, NoLoss
<1>10. ASSUME kind \in CapsuleKinds PROVE HandlerInv'
  <2>1. HandlerInv
    BY <1>10
  <2>2. ~Flow' /\ codec'.cmd = "none" /\ kind # "none"
    BY <1>1, <1>10 DEF Flow, DecodeReset, CapsuleKinds
  <2>3. h'.ready => h'.prev \in Samples /\ h'.prev.s <= lidar.s /\ h'.prev.s \in Nat
    BY <1>6, <2>1 DEF HandlerInv, Samples
  <2>4. lidar.s \in Nat /\ lidar'.s \in Nat
    BY <1>0, <1>4
  <2>5. h'.ready => h'.prev.s <= lidar'.s /\ (HeaderIn(wire') => h'.prev.s < lidar'.s)
    BY <1>4, <2>3, <2>4
  <2>6. h'.buf = <<>> /\ (Older' => ~h'.ready)
    BY <1>1, <1>6, <2>1 DEF HandlerInv, Older
  <2>7. HeaderAhead' => HeaderIn(wire')
    BY DEF HeaderAhead, HeaderIn
  <2> QED BY <1>1, <2>2, <2>3, <2>5, <2>6, <2>7 DEF HandlerInv
<1> QED BY <1>1, <1>8, <1>9, <1>10

\* A scan stops: nothing is selected, what still arrives is dropped.
LEMMA StopScanStream == ASSUME StreamInv, StopScan PROVE StreamInv'
<1> USE DEF StreamInv
<1>0. TypeInv /\ kind \in Kinds /\ lidar.s \in Nat /\ IsHandler(h)
  BY StreamTypes DEF TypeInv
<1>1. /\ batch' = <<>> /\ client' = "stopped" /\ enabled' = FALSE
      /\ active' = "none" /\ h' = ClearCache /\ codec' = DecodeReset /\ UNCHANGED <<kind, wire, now, faults>>
  BY DEF StopScan, UnpackerReset, ExitLoopMode
<1>2. /\ lidar' \in [on : BOOLEAN, s : Nat, n : Nat, wide : Nat, start : Nat, fill : Fills \cup {"00"}, at : Nat]
      /\ lidar'.s = lidar.s /\ lidar'.n = lidar.n
  <2>1. lidar \in [on : BOOLEAN, s : Nat, n : Nat, wide : Nat, start : Nat, fill : Fills \cup {"00"}, at : Nat]
    BY DEF TypeInv
  <2>2. lidar' = [lidar EXCEPT !.on = FALSE]
    BY DEF StopScan
  <2> QED BY <2>1, <2>2
<1>3. /\ IsHandler(h') /\ h'.prev = h.prev /\ (h'.ready => h.ready)
      /\ active = kind => h'.buf = <<>> /\ (Older => ~h'.ready)
      /\ active # kind => h' = h
  BY <1>0, <1>1, Clears
<1>4. TypeInv'
  <2>1. OnWire(wire, lidar)'
    BY <1>1, <1>2 DEF OnWire, TypeInv
  <2>2. CodecOK(codec)'
    BY <1>1 DEF CodecOK, DecodeReset, Codecs
  <2>3. IsHandler(h)'
    BY <1>3
  <2> QED BY <1>1, <1>2, <2>1, <2>2, <2>3 DEF TypeInv
<1>5. Published(batch, faults)'
  <2>1. Published(<<>>, faults)
    BY NothingPublished
  <2> QED BY <1>1, <2>1 DEF Published, Linked, Older, NoLoss
<1>6. ASSUME kind \in CapsuleKinds PROVE HandlerInv'
  <2>1. HandlerInv
    BY <1>6
  <2>2. ~Flow' /\ ~enabled'
    BY <1>1 DEF Flow
  <2>3. h'.ready => h'.prev \in Samples /\ h'.prev.s <= lidar'.s
    BY <1>2, <1>3, <2>1 DEF HandlerInv
  <2>4. h'.buf = <<>> /\ (Older' => ~h'.ready)
    BY <1>1, <1>3, <2>1 DEF HandlerInv, Older
  <2> QED BY <2>2, <2>3, <2>4 DEF HandlerInv
<1> QED BY <1>1, <1>4, <1>5, <1>6

\* A step that changes nothing.
LEMMA StutterStream == ASSUME StreamInv, UNCHANGED vars PROVE StreamInv'
<1>1. UNCHANGED <<kind, lidar, wire, codec, enabled, active, h, now, client, faults, batch>>
  BY DEF vars
<1>2. TypeInv'
  BY <1>1 DEF StreamInv, TypeInv, CodecOK, OnWire
<1>3. Published(batch, faults) => Published(batch, faults)'
  BY <1>1 DEF Published, Linked, Older, NoLoss
<1>4. HandlerInv => HandlerInv'
  BY <1>1 DEF HandlerInv, HeaderAhead, HeaderIn, Flow, Older, Prevs, Stream, Carry, Ahead
<1> QED BY <1>1, <1>2, <1>3, <1>4 DEF StreamInv

-----------------------------------------------------------------------------
(* A byte is decoded *)

\* With a byte the codec keeps it, and the handler rests; ..
HandlerRests == h' = h /\ batch' = <<>> /\ active' = active
CodecKeeps(n) ==
  /\ codec.st = "payload" /\ codec'.st = "payload" /\ codec'.cmd = codec.cmd /\ codec'.rx = n
  /\ HandlerRests

\* .. or it delivers a message, of another type or to a disabled unpacker ..
OtherMessage ==
  /\ codec.st = "payload" /\ codec'.rx = <<>> /\ codec'.cmd = codec.cmd
  /\ ~(enabled /\ codec.cmd = kind)
  /\ batch' = <<>> /\ h'.prev = h.prev /\ (h'.ready => h.ready) /\ h'.ts \in {h.ts, 0}
  /\ ~enabled => h' = h /\ active' = active
  /\ enabled => /\ active' = codec.cmd
                /\ active = kind => h'.buf = <<>> /\ (Older => ~h'.ready)
                /\ active # kind => h' = h

\* .. or a payload of samples, which the handler takes; ..
SampleMessage(n) ==
  /\ codec.st = "payload" /\ codec'.rx = <<>> /\ codec'.cmd = codec.cmd
  /\ enabled /\ codec.cmd = kind /\ active' = kind
  /\ h' = TakeAll(h, n).h /\ batch' = TakeAll(h, n).out

\* .. or it has read the type of the messages to come, the end of a header; ..
TypeRead(b) ==
  /\ codec.st = "type" /\ codec'.rx = <<>>
  /\ codec'.cmd = kind => b.pkt.what = "header" /\ b.pos = HeaderLength
  /\ HandlerRests

\* .. or it looks for the beginning of a header, or has read less of it.
HeaderSought ==
  /\ codec.st \notin {"payload", "type"} /\ codec'.st # "payload" /\ codec'.cmd = codec.cmd
  /\ HandlerRests

\* A byte on the line goes to the codec, with one of these effects (onDecodeData,
\* onProtocolMessageDecoded and onSampleData).
LEMMA DecodeStep ==
  ASSUME TypeInv, NEW g \in Garbage, DecodeNext(g), NEW b, b = Head(wire), NEW n, n = Append(codec.rx, b)
  PROVE  /\ wire # <<>> /\ wire' = Tail(wire) /\ b \in Byte /\ b = wire[1] /\ n \in Seq(Byte)
         /\ Len(wire) \in Nat \ {0} /\ Len(Tail(wire)) = Len(wire) - 1
         /\ OnWire(Tail(wire), lidar) /\ (HeaderIn(Tail(wire)) => HeaderIn(wire))
         /\ b.pkt.what = "header" => b.pkt.type = kind /\ lidar.n = 0 /\ b.pos = HeaderLength - Len(wire) + 1
         /\ CodecOK(codec') /\ UNCHANGED <<kind, lidar, enabled, now, client, faults>>
         /\ IsHandler(h') /\ active' \in {"none", "unknown", kind}
         /\ CodecKeeps(n) \/ OtherMessage \/ SampleMessage(n) \/ TypeRead(b) \/ HeaderSought
<1> DEFINE msgs == Decoded(codec, b)
           r == IF msgs = <<>> THEN Result(h, <<>>) ELSE OnSampleData(codec.cmd, msgs[1])
<1>0. /\ TypeInv /\ kind \in Kinds /\ lidar.s \in Nat /\ lidar.n \in Nat /\ IsHandler(h) /\ CodecOK(codec)
      /\ wire \in Seq(Byte) /\ OnWire(wire, lidar) /\ codec.rx \in Seq(Byte)
      /\ active \in {"none", "unknown", kind} /\ codec.cmd \in {"none", "unknown", kind}
      /\ kind # "none" /\ kind # "unknown"
  BY StreamTypes DEF TypeInv, CodecOK, Kinds, CapsuleKinds
<1>1. /\ wire # <<>> /\ wire' = Tail(wire) /\ codec' = DecodeByte(codec, b, g)
      /\ h' = r.h /\ batch' = r.out
      /\ active' = IF msgs # <<>> /\ enabled THEN codec.cmd ELSE active
      /\ UNCHANGED <<kind, lidar, enabled, now, client, faults>>
  BY Zenon DEF DecodeNext
<1>2. b \in Byte /\ b = wire[1] /\ Len(wire) \in Nat \ {0} /\ Len(Tail(wire)) = Len(wire) - 1
  BY <1>0, <1>1, HeadTail
<1>3. b.pkt.what = "header" => b.pkt.type = kind /\ lidar.n = 0 /\ b.pos = HeaderLength - Len(wire) + 1
  <2>1. 1 \in 1 .. Len(wire)
    BY <1>2
  <2> QED BY <1>0, <1>2, <2>1 DEF OnWire
<1>4. /\ CodecOK(codec')
      /\ \/ /\ codec.st = "payload" /\ msgs = <<>>
            /\ codec'.st = "payload" /\ codec'.cmd = codec.cmd /\ codec'.rx = Append(codec.rx, b)
         \/ /\ codec.st = "payload" /\ msgs = <<Append(codec.rx, b)>>
            /\ codec'.rx = <<>> /\ codec'.cmd = codec.cmd
         \/ /\ codec.st = "type" /\ msgs = <<>>
            /\ codec'.rx = <<>>
            /\ codec'.cmd = kind => b.pkt.what = "header" /\ b.pos = HeaderLength
         \/ /\ codec.st \notin {"payload", "type"} /\ msgs = <<>>
            /\ codec'.st # "payload" /\ codec'.cmd = codec.cmd
  <2>1. codec' = DecodeByte(codec, b, g) /\ (b.pkt.what = "header" => b.pkt.type = kind)
    BY <1>1, <1>3
  <2>2. msgs = Decoded(codec, b)
    OBVIOUS
  <2> HIDE DEF msgs
  <2>3. PICK d : d = codec'
    OBVIOUS
  <2>4. d = DecodeByte(codec, b, g)
    BY <2>1, <2>3
  <2>5. /\ CodecOK(d)
        /\ \/ /\ codec.st = "payload" /\ Decoded(codec, b) = <<>>
              /\ d.st = "payload" /\ d.cmd = codec.cmd /\ d.rx = Append(codec.rx, b)
           \/ /\ codec.st = "payload" /\ Decoded(codec, b) = <<Append(codec.rx, b)>>
              /\ d.rx = <<>> /\ d.cmd = codec.cmd
           \/ /\ codec.st = "type" /\ Decoded(codec, b) = <<>>
              /\ d.rx = <<>>
              /\ d.cmd = kind => b.pkt.what = "header" /\ b.pos = HeaderLength
           \/ /\ codec.st \notin {"payload", "type"} /\ Decoded(codec, b) = <<>>
              /\ d.st # "payload" /\ d.cmd = codec.cmd
    <3> QED BY <1>0, <1>2, <2>1, <2>4, DecodeCases
  <2> QED BY <2>2, <2>3, <2>5, Zenon
<1>5. OnWire(Tail(wire), lidar) /\ (HeaderIn(Tail(wire)) => HeaderIn(wire))
  BY <1>0, <1>1, OnWireTail
<1> HIDE DEF msgs
<1>6. msgs = <<>> => h' = h /\ batch' = <<>> /\ active' = active
  BY <1>1 DEF Result
\* With a message that is no sample of the lidar's format, or while disabled.
<1>7. ASSUME msgs = <<n>>, ~(enabled /\ codec.cmd = kind)
      PROVE  /\ batch' = <<>> /\ IsHandler(h') /\ h'.prev = h.prev /\ (h'.ready => h.ready) /\ h'.ts \in {h.ts, 0}
             /\ ~enabled => h' = h /\ active' = active
             /\ enabled => /\ active' = codec.cmd
                           /\ active = kind => h'.buf = <<>> /\ (Older => ~h'.ready)
                           /\ active # kind => h' = h
  <2>1. msgs # <<>>
    BY <1>7
  <2>2. r = OnSampleData(codec.cmd, msgs[1])
    BY <2>1
  <2>3. r = Result(IF enabled THEN (IF codec.cmd = active THEN h ELSE ClearCache) ELSE h, <<>>)
    BY <1>7, <2>2 DEF OnSampleData
  <2>4. batch' = <<>> /\ h' = IF enabled THEN (IF codec.cmd = active THEN h ELSE ClearCache) ELSE h
    BY <1>1, <2>3, ResultFields
  <2>5. PICK c : c = ClearCache
    OBVIOUS
  <2>6. /\ IsHandler(c) /\ c.prev = h.prev /\ (c.ready => h.ready) /\ c.ts \in {h.ts, 0}
        /\ active = kind => c.buf = <<>> /\ (Older => ~c.ready)
        /\ active # kind => c = h
    BY <1>0, <2>5, Clears
  <2>7. CASE ~enabled
    BY <1>0, <1>1, <2>4, <2>7
  <2>8. CASE enabled /\ codec.cmd = active
    <3>1. active # kind /\ h' = h /\ active' = codec.cmd
      BY <1>1, <1>7, <2>1, <2>4, <2>8
    <3> QED BY <1>0, <2>4, <2>8, <3>1
  <2>9. CASE enabled /\ codec.cmd # active
    <3>1. h' = c /\ active' = codec.cmd
      BY <1>1, <2>1, <2>4, <2>5, <2>9
    <3> QED BY <2>4, <2>6, <2>9, <3>1
  <2> QED BY <2>7, <2>8, <2>9
\* With a message for the lidar's handler.
<1>8. ASSUME msgs = <<Append(codec.rx, b)>>, enabled, codec.cmd = kind
      PROVE  /\ h' = TakeAll(h, Append(codec.rx, b)).h /\ batch' = TakeAll(h, Append(codec.rx, b)).out
             /\ active' = kind
  <2>1. msgs # <<>> /\ msgs[1] = Append(codec.rx, b)
    BY <1>8
  <2>2. r = OnSampleData(codec.cmd, msgs[1])
    BY <2>1
  <2>3. codec.cmd # active => ClearCache = h
    BY <1>8 DEF ClearCache
  <2>4. r = TakeAll(h, msgs[1])
    BY <1>8, <2>2, <2>3, Zenon DEF OnSampleData
  <2> QED BY <1>1, <1>8, <2>1, <2>4
<1>9. n \in Seq(Byte)
  BY <1>0, <1>2
<1>10. CASE /\ codec.st = "payload" /\ msgs = <<>>
            /\ codec'.st = "payload" /\ codec'.cmd = codec.cmd /\ codec'.rx = n
  BY <1>0, <1>1, <1>2, <1>3, <1>4, <1>5, <1>6, <1>9, <1>10 DEF CodecKeeps, HandlerRests
<1>11. CASE /\ codec.st = "payload" /\ msgs = <<n>>
            /\ codec'.rx = <<>> /\ codec'.cmd = codec.cmd
  <2>1. CASE ~(enabled /\ codec.cmd = kind)
    <3>1. OtherMessage /\ IsHandler(h') /\ active' \in {"none", "unknown", kind}
      BY <1>0, <1>7, <1>11, <2>1 DEF OtherMessage
    <3> QED BY <1>1, <1>2, <1>3, <1>4, <1>5, <1>9, <3>1
  <2>2. CASE enabled /\ codec.cmd = kind
    <3>1. SampleMessage(n) /\ active' \in {"none", "unknown", kind}
      BY <1>8, <1>11, <2>2 DEF SampleMessage
    <3>2. IsHandler(h')
      BY <1>0, <1>8, <1>9, <1>11, <2>2, PayloadKeepsHandler
    <3> QED BY <1>1, <1>2, <1>3, <1>4, <1>5, <1>9, <3>1, <3>2
  <2> QED BY <2>1, <2>2
<1>12. CASE /\ codec.st = "type" /\ msgs = <<>> /\ codec'.rx = <<>>
            /\ codec'.cmd = kind => b.pkt.what = "header" /\ b.pos = HeaderLength
  BY <1>0, <1>1, <1>2, <1>3, <1>4, <1>5, <1>6, <1>9, <1>12 DEF TypeRead, HandlerRests
<1>13. CASE /\ codec.st \notin {"payload", "type"} /\ msgs = <<>>
            /\ codec'.st # "payload" /\ codec'.cmd = codec.cmd
  BY <1>0, <1>1, <1>2, <1>3, <1>4, <1>5, <1>6, <1>9, <1>13 DEF HeaderSought, HandlerRests
<1> QED BY <1>4, <1>10, <1>11, <1>12, <1>13

\* Whatever it is, the stream stays what it was: a byte goes from the wire to the
\* codec, a payload from the codec to the handler.
LEMMA DecodeNextStream ==
  ASSUME StreamInv, NEW g \in Garbage, DecodeNext(g) PROVE StreamInv'
<1> USE DEF StreamInv
<1>0. /\ TypeInv /\ kind \in Kinds /\ lidar.s \in Nat /\ lidar.n \in Nat /\ IsHandler(h) /\ CodecOK(codec)
      /\ wire \in Seq(Byte) /\ OnWire(wire, lidar) /\ codec.rx \in Seq(Byte)
  BY StreamTypes DEF TypeInv, CodecOK
<1>1. PICK b, n : b = Head(wire) /\ n = Append(codec.rx, b)
  OBVIOUS
<1>2. /\ wire # <<>> /\ wire' = Tail(wire) /\ b \in Byte /\ b = wire[1] /\ n \in Seq(Byte)
      /\ Len(wire) \in Nat \ {0} /\ Len(Tail(wire)) = Len(wire) - 1
      /\ OnWire(Tail(wire), lidar) /\ (HeaderIn(Tail(wire)) => HeaderIn(wire))
      /\ b.pkt.what = "header" => b.pkt.type = kind /\ lidar.n = 0 /\ b.pos = HeaderLength - Len(wire) + 1
      /\ CodecOK(codec') /\ UNCHANGED <<kind, lidar, enabled, now, client, faults>>
      /\ IsHandler(h') /\ active' \in {"none", "unknown", kind}
      /\ CodecKeeps(n) \/ OtherMessage \/ SampleMessage(n) \/ TypeRead(b) \/ HeaderSought
  BY <1>0, <1>1, DecodeStep, Zenon
<1>3. TypeInv'
  <2>1. OnWire(wire, lidar)'
    BY <1>2 DEF OnWire
  <2>2. CodecOK(codec)'
    BY <1>2 DEF CodecOK
  <2>3. IsHandler(h)'
    BY <1>2
  <2> QED BY <1>2, <2>1, <2>2, <2>3 DEF TypeInv
<1>4. ASSUME kind \in CapsuleKinds PROVE HandlerInv' /\ Published(batch, faults)'
  <2>1. /\ HandlerInv /\ Published(<<>>, faults) /\ h.buf \in Seq(Byte)
        /\ h.buf \o codec.rx \in Seq(Byte)
    BY <1>0, <1>4, NothingPublished, StreamTypes
  <2>2. /\ h.ready => h.prev \in Samples /\ h.prev.s <= lidar.s /\ h.prev.s \in Nat
        /\ active # kind => h.buf = <<>> /\ (Older => ~h.ready)
        /\ HeaderIn(wire) /\ enabled => codec.cmd # kind /\ active # kind /\ (h.ready => h.prev.s < lidar.s)
        /\ Flow => Stream(h, h.buf \o codec.rx, wire, lidar, faults) /\ Prevs(h, lidar)
    BY <2>1 DEF HandlerInv, HeaderAhead, Samples
  <2>3. /\ HeaderIn(Tail(wire)) => HeaderIn(wire)
        /\ Flow' <=> enabled /\ codec'.st = "payload" /\ codec'.cmd = kind
        /\ kind' = kind /\ lidar' = lidar /\ faults' = faults /\ enabled' = enabled
    BY <1>2 DEF Flow
  <2> DEFINE Goal == /\ h'.ready => h'.prev \in Samples /\ h'.prev.s <= lidar.s
                     /\ active' # kind => h'.buf = <<>> /\ (Older => ~h'.ready)
                     /\ HeaderIn(Tail(wire)) /\ enabled => /\ codec'.cmd # kind /\ active' # kind
                                                           /\ h'.ready => h'.prev.s < lidar.s
                     /\ Flow' => Stream(h', h'.buf \o codec'.rx, Tail(wire), lidar, faults) /\ Prevs(h', lidar)
                     /\ Published(batch', faults)
  <2>4. Goal => HandlerInv' /\ Published(batch, faults)'
    <3>1. (HeaderAhead' => HeaderIn(Tail(wire))) /\ (Older' <=> Older)
      BY <1>2 DEF HeaderAhead, HeaderIn, Older
    <3>2. /\ Prevs(h', lidar) => Prevs(h, lidar)'
          /\ Published(batch', faults) => Published(batch, faults)'
      BY <1>2 DEF Prevs, Older, Published, Linked
    <3>3. Stream(h', h'.buf \o codec'.rx, Tail(wire), lidar, faults)
            => Stream(h, h.buf \o codec.rx, wire, lidar, faults)'
      BY <1>2 DEF Stream, Carry, Ahead
    <3> SUFFICES ASSUME Goal PROVE HandlerInv' /\ Published(batch, faults)'
      OBVIOUS
    <3> HIDE DEF StreamInv
    <3>4. HandlerInv'
      BY <2>3, <3>1, <3>2, <3>3 DEF HandlerInv
    <3> QED BY <3>2, <3>4
  \* The codec keeps the byte.
  <2>5. CASE CodecKeeps(n)
    <3>1. /\ h' = h /\ batch' = <<>> /\ active' = active
          /\ codec.st = "payload" /\ codec'.st = "payload" /\ codec'.cmd = codec.cmd /\ codec'.rx = n
      BY <2>5 DEF CodecKeeps, HandlerRests
    <3>2. ASSUME Flow' PROVE Stream(h, h.buf \o n, Tail(wire), lidar, faults) /\ Prevs(h, lidar)
      <4>1. Stream(h, h.buf \o codec.rx, wire, lidar, faults) /\ Prevs(h, lidar)
        BY <2>2, <2>3, <3>1, <3>2 DEF Flow
      <4>2. PICK Z, Y : Z = h.buf \o codec.rx /\ Y = Append(Z, Head(wire))
        OBVIOUS
      <4>3. h.buf \o n = Y
        <5>1. h.buf \o Append(codec.rx, b) = Append(h.buf \o codec.rx, b)
          BY <1>0, <1>2, <2>1, JoinAppended
        <5> QED BY <1>1, <4>2, <5>1
      <4>4. Z \in Seq(Byte) /\ faults.here \in Nat
        BY <1>0, <2>1, <4>2, StreamTypes
      <4>5. Stream(h, Z, wire, lidar, faults)
        BY <4>1, <4>2
      <4>6. Stream(h, Y, Tail(wire), lidar, faults)
        BY <1>0, <1>2, <4>1, <4>2, <4>4, <4>5, ByteArrives, Zenon
      <4> QED BY <4>1, <4>3, <4>6
    <3>3. Goal
      BY <2>1, <2>2, <2>3, <3>1, <3>2
    <3> QED BY <2>4, <3>3
  \* The codec delivers a message that is not for the handler.
  <2>6. CASE OtherMessage
    <3>0. /\ codec.st = "payload" /\ codec'.cmd = codec.cmd /\ ~(enabled /\ codec.cmd = kind)
          /\ batch' = <<>> /\ h'.prev = h.prev /\ (h'.ready => h.ready)
          /\ ~enabled => h' = h /\ active' = active
          /\ enabled => /\ active' = codec.cmd
                        /\ active = kind => h'.buf = <<>> /\ (Older => ~h'.ready)
                        /\ active # kind => h' = h
      BY <2>6 DEF OtherMessage
    <3>1. ~Flow'
      BY <2>3, <3>0
    <3>2. Goal
      <4>1. CASE ~enabled
        BY <2>1, <2>2, <2>3, <3>0, <3>1, <4>1
      <4>2. CASE enabled
        <5>1. /\ active' = codec.cmd /\ codec.cmd # kind /\ batch' = <<>>
              /\ h'.prev = h.prev /\ (h'.ready => h.ready)
              /\ h'.buf = <<>> /\ (Older => ~h'.ready)
          BY <2>2, <3>0, <4>2
        <5> QED BY <2>1, <2>2, <2>3, <3>0, <3>1, <5>1
      <4> QED BY <4>1, <4>2
    <3> QED BY <2>4, <3>2
  \* The codec delivers a payload of samples.
  <2>7. CASE SampleMessage(n)
    <3>0. /\ codec.st = "payload" /\ codec'.rx = <<>> /\ codec'.cmd = codec.cmd /\ enabled
          /\ codec.cmd = kind /\ h' = TakeAll(h, n).h /\ batch' = TakeAll(h, n).out /\ active' = kind
      BY <2>7 DEF SampleMessage
    <3>1. PICK Z, Y, q : Z = h.buf \o codec.rx /\ Y = h.buf \o n /\ q = TakeAll(h, n)
      OBVIOUS
    <3>2. h' = q.h /\ batch' = q.out /\ active' = kind
      BY <3>0, <3>1
    <3>3. Stream(h, Z, wire, lidar, faults) /\ Prevs(h, lidar) /\ ~HeaderIn(wire)
      BY <2>2, <3>0, <3>1 DEF Flow
    <3>4. n \in Seq(Byte) /\ Z \in Seq(Byte) /\ faults.here \in Nat /\ Y = Append(Z, Head(wire))
      <4>1. n \in Seq(Byte) /\ Z \in Seq(Byte) /\ faults.here \in Nat
        BY <1>0, <1>2, <2>1, <3>1, StreamTypes
      <4>2. h.buf \o Append(codec.rx, b) = Append(h.buf \o codec.rx, b)
        BY <1>0, <1>2, <2>1, JoinAppended
      <4> QED BY <1>1, <3>1, <4>1, <4>2
    <3>5. Stream(h, Y, Tail(wire), lidar, faults)
      BY <1>0, <1>2, <3>3, <3>4, ByteArrives, Zenon
    <3>6. /\ Y \in Seq(Byte) /\ Len(Y) = Len(h.buf) + Len(n) /\ Len(h.buf) \in Nat
          /\ \A i \in 1 .. Len(h.buf) : Y[i] = h.buf[i]
          /\ \A i \in 1 .. Len(n) : Y[Len(h.buf) + i] = n[i]
      <4>1. Y = h.buf \o n /\ h.buf \in Seq(Byte) /\ n \in Seq(Byte)
        BY <2>1, <3>1, <3>4
      <4>2. Len(h.buf) \in Nat
        BY <4>1
      <4> QED BY <4>1, <4>2, Joined, Zenon
    <3>7. Holding(h, 0, Len(h.buf), Y)
      <4>1. Len(h.buf) <= Len(Y) /\ 0 \in 0 .. Len(h.buf) /\ Len(h.buf) = Len(h.buf) - 0
        BY <3>4, <3>6
      <4>2. \A i \in 1 .. Len(h.buf) - 0 : h.buf[i] = Y[0 + i]
        BY <3>6
      <4> QED BY <4>1, <4>2 DEF Holding
    <3>8. Fine(q, Len(Y), Y, Tail(wire), lidar, faults)
      <4>1. Carry(Y, Tail(wire), lidar, faults) /\ Ahead(h, 0, Y, Tail(wire), lidar, faults)
        BY <3>5 DEF Stream
      <4>2. \A i \in 1 .. Len(n) : n[i] = Y[Len(h.buf) + i]
        BY <3>6
      <4>3. PICK l \in Nat : l = Len(h.buf)
        BY <3>6
      <4>4. Holding(h, 0, l, Y) /\ Len(Y) = l + Len(n) /\ \A i \in 1 .. Len(n) : n[i] = Y[l + i]
        BY <3>6, <3>7, <4>2, <4>3, Zenon
      <4>5. Fine(TakeAll(h, n), Len(Y), Y, Tail(wire), lidar, faults)
        BY <1>0, <1>4, <3>3, <3>4, <3>6, <4>1, <4>4, PayloadKeepsStream, Zenon
      <4> QED BY <3>1, <4>5, Zenon
    <3>9. Stream(q.h, q.h.buf, Tail(wire), lidar, faults)
      <4>1. Carry(Y, Tail(wire), lidar, faults)
        BY <3>5 DEF Stream
      <4> QED BY <3>6, <3>8, <4>1, StreamRests, Zenon
    <3>10. /\ q.h.buf \in Seq(Byte) /\ Prevs(q.h, lidar) /\ Published(q.out, faults)
      BY <3>8 DEF Fine, IsHandler
    <3>11. q.h.buf \o <<>> = q.h.buf
      BY <3>10
    <3>12. Goal
      BY <2>3, <3>0, <3>2, <3>3, <3>9, <3>10, <3>11 DEF Prevs
    <3> QED BY <2>4, <3>12
  \* The codec has the type of the messages: the end of a header.
  <2>8. CASE TypeRead(b)
    <3>1. /\ h' = h /\ batch' = <<>> /\ active' = active /\ codec'.rx = <<>>
          /\ codec'.cmd = kind => b.pkt.what = "header" /\ b.pos = HeaderLength
      BY <2>8 DEF TypeRead, HandlerRests
    <3>2. ASSUME codec'.cmd = kind
          PROVE  lidar.n = 0 /\ Tail(wire) = <<>> /\ HeaderIn(wire) /\ ~HeaderIn(Tail(wire))
      <4>1. lidar.n = 0 /\ Len(wire) = 1
        BY <1>2, <3>1, <3>2 DEF HeaderLength
      <4>2. Tail(wire) = <<>>
        <5>1. Tail(wire) \in Seq(Byte) /\ Len(Tail(wire)) = 0
          <6>1. Tail(wire) \in Seq(Byte)
            BY <1>0, <1>2, HeadTail
          <6> QED BY <1>2, <4>1, <6>1
        <5> HIDE DEF StreamInv
        <5> QED BY <5>1, EmptySequence, Zenon
      <4>3. HeaderIn(wire)
        BY <1>2, <3>1, <3>2, <4>1 DEF HeaderIn
      <4>4. ~HeaderIn(Tail(wire))
        <5>1. ~HeaderIn(<<>>)
          BY DEF HeaderIn
        <5> QED BY <4>2, <5>1
      <4> QED BY <4>1, <4>2, <4>3, <4>4
    <3>3. ASSUME Flow' PROVE Stream(h, h.buf \o codec'.rx, Tail(wire), lidar, faults) /\ Prevs(h, lidar)
      <4>1. enabled /\ codec'.cmd = kind
        BY <2>3, <3>3
      <4>2. lidar.n = 0 /\ Tail(wire) = <<>> /\ HeaderIn(wire)
        BY <3>2, <4>1
      <4>3. h.buf = <<>> /\ (Older => ~h.ready) /\ (h.ready => h.prev \in Samples /\ h.prev.s < lidar.s)
        BY <2>2, <4>1, <4>2
      <4>4. h.ready => Before(h, lidar) = 0 /\ h.prev.s <= lidar.s
        BY <1>0, <2>2, <4>3 DEF Before
      <4>5. h.ready => EndLink(Before(h, lidar), Tail(wire), lidar, faults)
        BY <4>2, <4>4 DEF EndLink
      <4>6. h.buf \o codec'.rx = <<>> /\ Len(<<>>) = 0
        BY <3>1, <4>3
      <4>7. Stream(h, <<>>, Tail(wire), lidar, faults)
        BY <4>5 DEF Stream, Carry, Ahead
      <4>8. Prevs(h, lidar)
        BY <4>3, <4>4 DEF Prevs
      <4> QED BY <4>6, <4>7, <4>8
    <3>4. HeaderIn(Tail(wire)) => codec'.cmd # kind
      BY <3>2
    <3>5. Goal
      BY <2>1, <2>2, <2>3, <3>1, <3>3, <3>4
    <3> QED BY <2>4, <3>5
  <2>9. CASE HeaderSought
    <3>1. /\ h' = h /\ batch' = <<>> /\ active' = active
          /\ codec.st # "payload" /\ codec'.st # "payload" /\ codec'.cmd = codec.cmd
      BY <2>9 DEF HeaderSought, HandlerRests
    <3>2. Goal
      BY <2>1, <2>2, <2>3, <3>1
    <3> QED BY <2>4, <3>2
  <2> QED BY <1>2, <2>5, <2>6, <2>7, <2>8, <2>9
<1> QED BY <1>2, <1>3, <1>4

\* Every step keeps the invariant.
LEMMA NextStream == StreamInv /\ [Next]_vars => StreamInv'
<1> SUFFICES ASSUME StreamInv, [Next]_vars PROVE StreamInv'
  OBVIOUS
<1>1. ASSUME NEW start \in Starts, NEW fill \in Fills, StartScan(start, fill) PROVE StreamInv'
  BY <1>1, StartScanStream
<1>2. CASE StopScan
  BY <1>2, StopScanStream
<1>3. ASSUME NEW step \in Steps, NEW late \in {0, Lateness}, SendPacket(step, late) PROVE StreamInv'
  BY <1>3, SendPacketStream
<1>4. ASSUME NEW g \in Garbage, DecodeNext(g) PROVE StreamInv'
  BY <1>4, DecodeNextStream
<1>5. CASE LoseByte
  BY <1>5, LoseByteStream
<1>6. ASSUME NEW v \in {"A5", "5A", "00"}, DamageByte(v) PROVE StreamInv'
  BY <1>6, DamageByteStream
<1>7. CASE LosePacket
  BY <1>7, LosePacketStream
<1>8. CASE UNCHANGED vars
  BY <1>8, StutterStream
<1> QED BY <1>1, <1>2, <1>3, <1>4, <1>5, <1>6, <1>7, <1>8 DEF Next

\* The invariant implies both properties.
LEMMA StreamInvImplies == StreamInv => TypeOK /\ NeighboursOnly
<1> SUFFICES ASSUME StreamInv PROVE TypeOK /\ NeighboursOnly
  OBVIOUS
<1>1. TypeOK
  BY DEF StreamInv, TypeInv, TypeOK, CodecOK, Codecs, IsHandler
<1>2. ASSUME kind \in CapsuleKinds, NEW b \in Batches
      PROVE  /\ faults.packets = 0 /\ faults.here < PacketSize =>
                  b.prev.s = b.cur.s /\ b.cur.n = b.prev.n + 1
             /\ kind \in {"capsule", "ultra"} => b.prev.s = b.cur.s /\ b.cur.n > b.prev.n
  <2>1. PICK S : batch \in Seq(S) /\ \A x \in S : Linked(x, faults)
    BY <1>2 DEF StreamInv, Published
  <2>2. PICK i \in DOMAIN batch : b = batch[i]
    BY DEF Batches
  <2>3. b \in S
    BY <2>1, <2>2
  <2> QED BY <2>1, <2>3 DEF Linked, NoLoss, Older
<1> QED BY <1>1, <1>2 DEF NeighboursOnly

-----------------------------------------------------------------------------
(* The theorems *)

\* What the unpacker keeps of a scan stays what the code can have there: the
\* decoder in one of its five states, less than a packet gathered, the handler of
\* the format or none selected, and enabled exactly while the driver scans.
THEOREM TypeCorrect == Spec => []TypeOK
<1>1. Init => StreamInv
  BY InitStream
<1>2. StreamInv /\ [Next]_vars => StreamInv'
  BY NextStream
<1>3. StreamInv => TypeOK
  BY StreamInvImplies
<1> QED BY <1>1, <1>2, <1>3, PTL DEF Spec

\* Samples are computed from two packets the lidar sent one after the other: a
\* damaged packet never becomes an end of the arc its neighbour's samples are
\* spread over, and with the older formats no arc begins in the scan before
\* (handler_capsules.cpp, _onScanNodeCapsuleData and its three sisters).
THEOREM SamplesJoinNeighbours == Spec => []NeighboursOnly
<1>1. Init => StreamInv
  BY InitStream
<1>2. StreamInv /\ [Next]_vars => StreamInv'
  BY NextStream
<1>3. StreamInv => NeighboursOnly
  BY StreamInvImplies
<1> QED BY <1>1, <1>2, <1>3, PTL DEF Spec

-----------------------------------------------------------------------------
(* Times *)

\* The packets of the bytes `Z` were sent by time `t`.
Sent(Z, t) == \A i \in 1 .. Len(Z) : Good(Z[i]) => Z[i].pkt.at <= t

\* A handler of the older formats remembers a time at which the packet it remembers
\* had been sent.
Remembers(hd) ==
  /\ hd.ts \in Nat
  /\ Older /\ hd.ready => hd.prev \in Samples /\ hd.prev.at <= hd.ts

\* What StampedNotEarly says of one batch, and of a sequence of them.
NotEarly(b) == Dated(b) # NoPacket => \A i \in DOMAIN b.time : b.time[i] >= TakenAt(b, i)
NoneEarly(out) == \E S : out \in Seq(S) /\ \A b \in S : NotEarly(b)

\* A handler and what it has published, when it has read no byte that was not sent.
InTime(r) == IsHandler(r.h) /\ Remembers(r.h) /\ Sent(r.h.buf, now) /\ NoneEarly(r.out)

\* Counting up from 0 reaches every number.
LEMMA CountingUp ==
  ASSUME NEW n \in Nat, NEW S, 0 \in S, \A m \in 0 .. n - 1 : m \in S => m + 1 \in S
  PROVE  n \in S
<1> DEFINE bad == {m \in 0 .. n : m \notin S}
<1> SUFFICES ASSUME bad # {} PROVE FALSE
  OBVIOUS
<1>1. bad \in SUBSET Nat
  OBVIOUS
<1>2. PICK m \in bad : \A k \in bad : m <= k
  <2> HIDE DEF bad
  <2> QED BY <1>1, LeastExists
<1>3. m \in 0 .. n /\ m # 0 /\ m \notin S
  BY <1>2
<1>4. m - 1 \in 0 .. n - 1 /\ ~(m <= m - 1) /\ (m - 1) + 1 = m
  BY <1>3
<1>5. m - 1 \in S
  BY <1>2, <1>4
<1> QED BY <1>3, <1>4, <1>5

\* A batch is not early when it is stamped from a time at which the packet it is
\* dated by had been sent.
LEMMA StampedFrom ==
  ASSUME kind \in Kinds, NEW b, NEW base \in Int, b.time = Stamped(kind, base),
         Dated(b).at \in Int, Dated(b).at <= base
  PROVE  NotEarly(b)
<1>1. Points[kind] \in Nat /\ SampleDuration \in Nat /\ FixedDelay \in Nat
  BY PointsAssumption, Durations
<1> SUFFICES ASSUME NEW i \in DOMAIN b.time PROVE b.time[i] >= TakenAt(b, i)
  BY DEF NotEarly
<1>2. i \in 0 .. Points[kind] - 1
  BY DEF Stamped
<1>3. PICK d : d = FixedDelay + (Points[kind] - 1 - i) * SampleDuration
  OBVIOUS
<1>4. d \in Int
  <2>1. PICK m \in Int : m = Points[kind] - 1 - i
    BY <1>1, <1>2
  <2>2. m * SampleDuration \in Int
    BY <1>1
  <2> QED BY <1>1, <1>3, <2>1, <2>2
<1>5. b.time[i] = base - d /\ TakenAt(b, i) = Dated(b).at - d
  BY <1>2, <1>3 DEF Stamped, TakenAt
<1> QED BY <1>4, <1>5

\* One byte more.
LEMMA SentAppended ==
  ASSUME NEW t, NEW Z \in Seq(Byte), Sent(Z, t), NEW b \in Byte, Good(b) => b.pkt.at <= t,
         NEW Y, Y = Append(Z, b)
  PROVE  Sent(Y, t)
<1>1. Len(Y) = Len(Z) + 1 /\ Y[Len(Z) + 1] = b /\ Len(Z) \in Nat /\ \A i \in 1 .. Len(Z) : Y[i] = Z[i]
  BY Appended
<1>2. ASSUME NEW i \in 1 .. Len(Y), Good(Y[i]) PROVE Y[i].pkt.at <= t
  <2>1. CASE i = Len(Z) + 1
    BY <1>1, <1>2, <2>1
  <2>2. CASE i # Len(Z) + 1
    <3>1. i \in 1 .. Len(Z) /\ Y[i] = Z[i]
      BY <1>1, <2>2
    <3> QED BY <1>2, <3>1 DEF Sent
  <2> QED BY <2>1, <2>2
<1> QED BY <1>2 DEF Sent

\* No byte is no byte too early.
LEMMA SentNothing == \A t : Sent(<<>>, t)
BY DEF Sent

\* What was sent stays sent.
LEMMA SentLater ==
  ASSUME NEW t \in Nat, NEW u \in Nat, t <= u, NEW Z \in Seq(Byte), Sent(Z, t)
  PROVE  Sent(Z, u)
<1>1. ASSUME NEW i \in 1 .. Len(Z), Good(Z[i]) PROVE Z[i].pkt.at <= u
  <2>1. Z[i].pkt.at <= t
    BY <1>1 DEF Sent
  <2>2. Z[i] \in Byte
    OBVIOUS
  <2>3. Z[i].pkt.at \in Nat
    BY <1>1, <2>2, GoodByte
  <2> QED BY <2>1, <2>3
<1> QED BY <1>1 DEF Sent

\* The first byte of a packet that is intact is one of a packet of samples.
LEMMA IntactFirst ==
  ASSUME NEW buf \in Seq(Byte), buf # <<>>, Intact(buf), now \in Nat, Sent(buf, now)
  PROVE  buf[1].pkt \in Samples /\ buf[1].pkt.at \in Nat /\ buf[1].pkt.at <= now
<1>1. 1 \in 1 .. Len(buf) /\ buf[1] \in Byte /\ Good(buf[1])
  BY DEF Intact, Good
<1>2. buf[1].pkt \in Samples
  BY <1>1, GoodByte
<1> QED BY <1>1, <1>2 DEF Sent, Samples

\* The handlers of the formats without capsules publish a packet that is intact, or
\* (normal nodes, which have no checksum) one that nothing is known of.
Single(hd, buf, r) ==
  /\ r.h = hd \/ r.h = [hd EXCEPT !.buf = buf] \/ r.h = [hd EXCEPT !.buf = <<>>]
  /\ \/ r.out = <<>>
     \/ \E p : /\ p = NoPacket \/ (Intact(buf) /\ p = buf[1].pkt)
               /\ Publishes(r.out, p, p, Stamped(kind, now))

LEMMA SingleCases ==
  ASSUME kind \in Kinds \ CapsuleKinds, NEW hd, IsHandler(hd), NEW b \in Byte, now \in Nat,
         NEW r, r = OnByte(kind, hd, b, now), NEW buf, buf = Append(hd.buf, b)
  PROVE  Single(hd, buf, r)
<1> DEFINE time == [i \in {0} |-> now - FixedDelay]
<1>1. kind \in {"hq", "normal"} /\ Points[kind] = 1 /\ FixedDelay \in Nat /\ SampleDuration \in Nat
  BY PointsAssumption, Durations DEF Kinds
<1>2. time = Stamped(kind, now)
  <2>1. Stamped(kind, now) = [i \in 0 .. 1 - 1 |-> now - (FixedDelay + (1 - 1 - i) * SampleDuration)]
    BY <1>1 DEF Stamped
  <2>2. 0 .. 1 - 1 = {0}
    OBVIOUS
  <2>3. \A i \in {0} : now - (FixedDelay + (1 - 1 - i) * SampleDuration) = now - FixedDelay
    BY <1>1
  <2> QED BY <2>1, <2>2, <2>3
<1> HIDE DEF time
<1>3. \E o : /\ \/ r = Result(hd, o)
                \/ r = Result([hd EXCEPT !.buf = buf], o)
                \/ r = Result([hd EXCEPT !.buf = <<>>], o)
             /\ \/ o = <<>>
                \/ \E p, a, s : /\ p = NoPacket \/ (Intact(buf) /\ p = buf[1].pkt)
                                /\ o = Batch(p, p, a, s, time)
  <2>1. CASE kind = "hq"
    <3>1. r = HQOnData(hd, b, now)
      BY <2>1 DEF OnByte
    <3> QED BY <3>1, Zenon DEF HQOnData, DelayHQ, time
  <2>2. CASE kind = "normal"
    <3>1. r = NormalOnData(hd, b, now)
      BY <2>2 DEF OnByte
    <3>2. PICK cap : cap = IF Intact(buf) THEN buf[1].pkt ELSE NoPacket
      OBVIOUS
    <3>3. cap = NoPacket \/ (Intact(buf) /\ cap = buf[1].pkt)
      BY <3>2
    <3>4. \/ r = Result(hd, <<>>)
          \/ r = Result([hd EXCEPT !.buf = <<>>], <<>>)
          \/ r = Result([hd EXCEPT !.buf = buf], <<>>)
          \/ \E a, s : r = Result([hd EXCEPT !.buf = <<>>], Batch(cap, cap, a, s, time))
      BY <3>1, <3>2, Zenon DEF NormalOnData, DelayNormal, time
    <3> QED BY <3>3, <3>4, Zenon
  <2> QED BY <1>1, <2>1, <2>2
<1>4. \A a, o : r = Result(a, o) => r.h = a /\ r.out = o
  BY DEF Result
<1>5. r.h = hd \/ r.h = [hd EXCEPT !.buf = buf] \/ r.h = [hd EXCEPT !.buf = <<>>]
  BY <1>3, <1>4, Zenon
<1>6. \/ r.out = <<>>
      \/ \E p, a, s : /\ p = NoPacket \/ (Intact(buf) /\ p = buf[1].pkt)
                      /\ r.out = Batch(p, p, a, s, time)
  BY <1>3, <1>4, Zenon
<1>7. CASE r.out = <<>>
  BY <1>5, <1>7 DEF Single
<1>8. CASE r.out # <<>>
  <2>1. PICK p, a, s : /\ p = NoPacket \/ (Intact(buf) /\ p = buf[1].pkt)
                       /\ r.out = Batch(p, p, a, s, time)
    BY <1>6, <1>8
  <2>2. Publishes(r.out, p, p, time)
    BY <2>1, BatchPublishes
  <2> QED BY <1>2, <1>5, <2>1, <2>2 DEF Single
<1> QED BY <1>7, <1>8

\* One byte further, a handler remembers and publishes no time that is too early.
LEMMA ByteInTime ==
  ASSUME kind \in Kinds, now \in Nat, NEW hd, IsHandler(hd), Remembers(hd), Sent(hd.buf, now),
         NEW b \in Byte, Good(b) => b.pkt.at <= now, NEW r, r = OnByte(kind, hd, b, now)
  PROVE  /\ IsHandler(r.h) /\ Remembers(r.h) /\ Sent(r.h.buf, now)
         /\ r.out = <<>> \/ (r.out = <<r.out[1]>> /\ NotEarly(r.out[1]))
<1>1. PICK buf : buf = Append(hd.buf, b)
  OBVIOUS
<1>2. hd.buf \in Seq(Byte) /\ buf \in Seq(Byte) /\ buf # <<>> /\ Sent(buf, now)
  <2>1. hd.buf \in Seq(Byte)
    BY DEF IsHandler
  <2> QED BY <1>1, <2>1, SentAppended, Appended
<1>3. Sent(<<>>, now)
  BY SentNothing
<1>4. IsHandler(r.h)
  BY ByteKeepsHandler
<1>5. Intact(buf) => buf[1].pkt \in Samples /\ buf[1].pkt.at \in Nat /\ buf[1].pkt.at <= now
  BY <1>2, IntactFirst
<1>6. CASE kind \in CapsuleKinds
  <2>1. CASE Dropped(hd, r)
    BY <1>3, <1>4, <2>1 DEF Dropped, Remembers
  <2>2. CASE Gathers(hd, b, r)
    BY <1>1, <1>2, <1>4, <2>2 DEF Gathers, Remembers
  <2>3. ASSUME Intact(buf), NEW cap, cap = buf[1].pkt, Completes(hd, cap, kind, r)
        PROVE  /\ IsHandler(r.h) /\ Remembers(r.h) /\ Sent(r.h.buf, now)
               /\ r.out = <<>> \/ (r.out = <<r.out[1]>> /\ NotEarly(r.out[1]))
    <3>1. cap \in Samples /\ cap.at \in Nat /\ cap.at <= now
      BY <1>5, <2>3
    <3>2. /\ r.h.buf = <<>> /\ r.h.prev = cap /\ r.h.ts = IF Older THEN now ELSE hd.ts
          /\ r.out = <<>> \/ ( /\ hd.ready
                               /\ Publishes(r.out, hd.prev, cap, Stamped(kind, IF Older THEN hd.ts ELSE now)))
      BY <2>3 DEF Completes, Older
    <3>3. Remembers(r.h)
      BY <3>1, <3>2 DEF Remembers
    <3>4. ASSUME r.out # <<>> PROVE r.out = <<r.out[1]>> /\ NotEarly(r.out[1])
      <4>1. PICK o, base : o = r.out[1] /\ base = IF Older THEN hd.ts ELSE now
        OBVIOUS
      <4>2. /\ r.out = <<o>> /\ hd.ready
            /\ o.prev = hd.prev /\ o.cur = cap /\ o.time = Stamped(kind, base)
        BY <3>2, <3>4, <4>1 DEF Publishes
      <4>3. base \in Int /\ Dated(o).at \in Int /\ Dated(o).at <= base
        <5>1. CASE Older
          <6>1. Dated(o) = hd.prev /\ base = hd.ts
            BY <4>1, <4>2, <5>1 DEF Dated, Older
          <6>2. hd.prev \in Samples /\ hd.prev.at <= hd.ts /\ hd.ts \in Nat
            BY <4>2, <5>1 DEF Remembers
          <6> QED BY <6>1, <6>2 DEF Samples
        <5>2. CASE ~Older
          <6>1. Dated(o) = cap /\ base = now
            BY <4>1, <4>2, <5>2 DEF Dated, Older
          <6> QED BY <3>1, <6>1
        <5> QED BY <5>1, <5>2
      <4>4. NotEarly(o)
        BY <4>2, <4>3, StampedFrom
      <4> QED BY <4>1, <4>2, <4>4
    <3> QED BY <1>3, <1>4, <3>2, <3>3, <3>4
  <2>4. \/ Dropped(hd, r)
        \/ Gathers(hd, b, r)
        \/ Intact(buf) /\ Completes(hd, buf[1].pkt, kind, r)
    BY <1>1, <1>6, OnByteCases, Zenon
  <2> QED BY <2>1, <2>2, <2>3, <2>4
<1>7. CASE kind \notin CapsuleKinds
  <2>0. ~Older
    BY <1>7 DEF Older, CapsuleKinds
  <2>1. Single(hd, buf, r)
    <3>1. kind \in Kinds \ CapsuleKinds
      BY <1>7
    <3> QED BY <1>1, <3>1, SingleCases
  <2>2. r.h.buf \in {hd.buf, buf, <<>>} /\ r.h.ts = hd.ts
    BY <2>1 DEF Single, IsHandler
  <2>3. Remembers(r.h) /\ Sent(r.h.buf, now)
    BY <1>2, <1>3, <2>0, <2>2 DEF Remembers
  <2>4. ASSUME r.out # <<>> PROVE r.out = <<r.out[1]>> /\ NotEarly(r.out[1])
    <3>1. PICK p : /\ p = NoPacket \/ (Intact(buf) /\ p = buf[1].pkt)
                   /\ Publishes(r.out, p, p, Stamped(kind, now))
      BY <2>1, <2>4 DEF Single
    <3>2. PICK o : o = r.out[1]
      OBVIOUS
    <3>3. r.out = <<o>> /\ o.cur = p /\ o.time = Stamped(kind, now)
      BY <3>1, <3>2 DEF Publishes
    <3>4. Dated(o) = p
      BY <2>0, <3>3 DEF Dated, Older
    <3>5. CASE p = NoPacket
      BY <3>2, <3>3, <3>4, <3>5 DEF NotEarly
    <3>6. CASE p # NoPacket
      <4>1. p.at \in Int /\ p.at <= now /\ now \in Int
        BY <1>5, <3>1, <3>6
      <4>2. NotEarly(o)
        BY <3>3, <3>4, <4>1, StampedFrom
      <4> QED BY <3>2, <3>3, <4>2
    <3> QED BY <3>5, <3>6
  <2> QED BY <1>4, <2>3, <2>4
<1> QED BY <1>6, <1>7

\* One batch more.
LEMMA PublishedNext ==
  ASSUME NEW out, NoneEarly(out), NEW one, one = <<>> \/ (one = <<one[1]>> /\ NotEarly(one[1])),
         NEW all, all = out \o one
  PROVE  NoneEarly(all)
<1>1. PICK S : out \in Seq(S) /\ \A b \in S : NotEarly(b)
  BY DEF NoneEarly
<1>2. CASE one = <<>>
  <2>1. all = out
    BY <1>1, <1>2
  <2> QED BY <2>1
<1>3. CASE one = <<one[1]>> /\ NotEarly(one[1])
  <2>1. PICK o, T : o = one[1] /\ T = S \cup {o}
    OBVIOUS
  <2>2. \A b \in T : NotEarly(b)
    BY <1>1, <1>3, <2>1
  <2>3. one = <<o>> /\ o \in T /\ S \subseteq T
    BY <1>3, <2>1
  <2>4. out \in Seq(T) /\ <<o>> \in Seq(T)
    BY <1>1, <2>3
  <2>5. all \in Seq(T)
    BY <2>3, <2>4
  <2> QED BY <2>2, <2>5 DEF NoneEarly
<1> QED BY <1>2, <1>3

\* No batch is no early batch.
LEMMA NothingEarly == NoneEarly(<<>>)
<1>1. PICK S : S = {}
  OBVIOUS
<1>2. <<>> \in Seq(S) /\ \A b \in S : NotEarly(b)
  BY <1>1
<1> QED BY <1>2, Zenon DEF NoneEarly

\* So is a handler in time that has taken a whole payload.
LEMMA PayloadInTime ==
  ASSUME kind \in Kinds, now \in Nat, NEW from, IsHandler(from), Remembers(from), Sent(from.buf, now),
         NEW payload \in Seq(Byte), Sent(payload, now)
  PROVE  InTime(TakeAll(from, payload))
<1> DEFINE n == Len(payload)
<1>1. n \in Nat
  OBVIOUS
<1>2. PICK f : Takes(f, n, from, payload) /\ TakeAll(from, payload) = f[n]
  BY <1>1, Taking, Zenon
<1> DEFINE S == {m \in 0 .. n : InTime(f[m])}
<1>3. 0 \in S
  <2>1. PICK r : r = Result(from, <<>>)
    OBVIOUS
  <2>2. f[0] = r
    BY <1>1, <1>2, <2>1 DEF Takes
  <2>3. r.h = from /\ r.out = <<>>
    BY <2>1 DEF Result
  <2>4. InTime(r)
    BY <2>3, NothingEarly DEF InTime
  <2> QED BY <1>1, <2>2, <2>4
<1>4. ASSUME NEW m \in 0 .. n - 1, m \in S PROVE m + 1 \in S
  <2>1. m \in Nat /\ m + 1 \in 0 .. n /\ m + 1 # 0 /\ (m + 1) - 1 = m /\ m + 1 \in 1 .. n
    BY <1>1
  <2>2. PICK r, b, t : r = f[m] /\ b = payload[m + 1] /\ t = f[m + 1]
    OBVIOUS
  <2>3. t = Take(r, b)
    BY <1>2, <2>1, <2>2 DEF Takes
  <2>4. b \in Byte /\ (Good(b) => b.pkt.at <= now)
    BY <2>1, <2>2 DEF Sent
  <2>5. IsHandler(r.h) /\ Remembers(r.h) /\ Sent(r.h.buf, now) /\ NoneEarly(r.out)
    BY <1>4, <2>2 DEF InTime
  <2>6. PICK q : q = OnByte(kind, r.h, b, now)
    OBVIOUS
  <2>7. t.h = q.h /\ t.out = r.out \o q.out
    BY <2>3, <2>6 DEF Take, Result
  <2>8. /\ IsHandler(q.h) /\ Remembers(q.h) /\ Sent(q.h.buf, now)
        /\ q.out = <<>> \/ (q.out = <<q.out[1]>> /\ NotEarly(q.out[1]))
    BY <2>4, <2>5, <2>6, ByteInTime
  <2>9. NoneEarly(t.out)
    BY <2>5, <2>7, <2>8, PublishedNext
  <2> QED BY <2>1, <2>2, <2>7, <2>8, <2>9 DEF InTime
<1>5. n \in S
  <2> HIDE DEF S, n
  <2> QED BY <1>1, <1>3, <1>4, CountingUp
<1> QED BY <1>2, <1>5

-----------------------------------------------------------------------------
(* The invariant of the times *)

\* The decoder's clock is not before the lidar's; every byte that has come was sent.
TimeInv ==
  /\ lidar.at <= now
  /\ Sent(wire, now) /\ (codec.st = "payload" => Sent(codec.rx, now)) /\ Sent(h.buf, now)
  /\ Remembers(h) /\ NoneEarly(batch)

DateInv == StreamInv /\ TimeInv

\* The types that count.
LEMMA DateTypes ==
  ASSUME StreamInv
  PROVE  /\ TypeInv /\ kind \in Kinds /\ now \in Nat /\ lidar.at \in Nat /\ Period \in Nat /\ Lateness \in Nat
         /\ IsHandler(h) /\ h.buf \in Seq(Byte) /\ wire \in Seq(Byte) /\ codec.rx \in Seq(Byte)
<1>1. TypeInv
  BY DEF StreamInv
<1>2. kind \in Kinds
  BY <1>1, StreamTypes
<1>3. now \in Nat /\ lidar.at \in Nat /\ IsHandler(h) /\ h.buf \in Seq(Byte) /\ wire \in Seq(Byte)
      /\ codec.rx \in Seq(Byte)
  BY <1>1 DEF TypeInv, IsHandler, OnWire, CodecOK, Codecs
<1> QED BY <1>1, <1>2, <1>3, Durations

\* A reset of the handler makes nothing too early.
LEMMA ResetInTime ==
  ASSUME Remembers(h), NEW t, Sent(h.buf, t), NEW c,
         c = h \/ (c.buf = <<>> /\ (Older => ~c.ready) /\ c.ts \in {h.ts, 0})
  PROVE  Remembers(c) /\ Sent(c.buf, t)
BY SentNothing DEF Remembers

\* At the beginning no time has passed.
LEMMA InitInTime == Init => DateInv
<1> SUFFICES ASSUME Init PROVE DateInv
  OBVIOUS
<1>1. StreamInv
  BY InitStream
<1>2. Period \in Nat /\ Lateness \in Nat
  BY <1>1, DateTypes
<1>3. lidar.at = 0 /\ now = 0 /\ wire = <<>> /\ codec.st # "payload" /\ h.buf = <<>> /\ h.ts = 0 /\ ~h.ready
      /\ batch = <<>>
  BY DEF Init, DecodeReset, FreshHandler
<1> QED BY <1>1, <1>2, <1>3, NothingEarly, SentNothing DEF DateInv, TimeInv, Remembers

\* What a step that publishes nothing keeps: the clock goes on, bytes of packets
\* that were sent go on the wire.
LEMMA QuietInTime ==
  ASSUME DateInv, now' \in Nat, now <= now', lidar'.at <= now',
         kind' = kind, batch' = <<>>, Sent(wire', now'),
         codec'.st = "payload" => codec' = codec,
         h' = h \/ (h'.buf = <<>> /\ (Older => ~h'.ready) /\ h'.ts \in {h.ts, 0})
  PROVE  TimeInv'
<1>1. /\ now \in Nat /\ h.buf \in Seq(Byte) /\ codec.rx \in Seq(Byte)
  BY DateTypes DEF DateInv
<1>2. Sent(h.buf, now') /\ (codec.st = "payload" => Sent(codec.rx, now'))
  BY <1>1, SentLater DEF DateInv, TimeInv
<1>3. Remembers(h)
  BY DEF DateInv, TimeInv
<1>4. Remembers(h') /\ Sent(h'.buf, now')
  BY <1>2, <1>3, ResetInTime
<1>5. Remembers(h)'
  BY <1>4 DEF Remembers, Older
<1>6. NoneEarly(batch)'
  <2>1. NoneEarly(<<>>)'
    BY NothingEarly, PTL
  <2> QED BY <2>1 DEF NoneEarly
<1> QED BY <1>2, <1>4, <1>5, <1>6 DEF TimeInv, Sent

\* A fault takes bytes off the wire, or puts one there that is of no packet.
LEMMA FaultInTime ==
  ASSUME DateInv, NEW left, NEW p, Fault(left, p), Sent(left, now)
  PROVE  TimeInv'
<1>1. wire' = left /\ batch' = <<>> /\ UNCHANGED <<kind, lidar, codec, h, now>>
  BY DEF Fault
<1>2. now \in Nat
  BY DateTypes DEF DateInv
<1>3. now' \in Nat /\ now <= now' /\ lidar'.at <= now' /\ Sent(wire', now')
  BY <1>1, <1>2 DEF DateInv, TimeInv
<1> QED BY <1>1, <1>3, QuietInTime

\* Every step keeps the times.
LEMMA NextInTime == DateInv /\ [Next]_vars => DateInv'
<1> SUFFICES ASSUME DateInv, [Next]_vars PROVE TimeInv'
  BY NextStream DEF DateInv
<1>0. StreamInv /\ StreamInv' /\ TimeInv
  BY NextStream DEF DateInv
<1>1. /\ TypeInv /\ kind \in Kinds /\ now \in Nat /\ lidar.at \in Nat /\ Period \in Nat /\ Lateness \in Nat
      /\ IsHandler(h) /\ h.buf \in Seq(Byte) /\ wire \in Seq(Byte) /\ codec.rx \in Seq(Byte) /\ now' \in Nat
  <2>1. now' \in Nat
    BY <1>0 DEF StreamInv, TypeInv
  <2> QED BY <1>0, <2>1, DateTypes
<1>2. /\ lidar.at <= now
      /\ Sent(wire, now) /\ (codec.st = "payload" => Sent(codec.rx, now)) /\ Sent(h.buf, now)
      /\ Remembers(h) /\ NoneEarly(batch)
  BY <1>0 DEF TimeInv
<1>3. ASSUME h' = ClearCache
      PROVE  h' = h \/ (h'.buf = <<>> /\ (Older => ~h'.ready) /\ h'.ts \in {h.ts, 0})
  BY <1>1, <1>3, Clears DEF TypeInv
<1>4. ASSUME NEW start \in Starts, NEW fill \in Fills, StartScan(start, fill) PROVE TimeInv'
  <2>1. /\ wire = <<>> /\ batch' = <<>> /\ now' = ClockAt((lidar.s + 1) * ScanTime) /\ kind' = kind
        /\ h' = ClearCache /\ codec' = DecodeReset
    BY <1>4 DEF StartScan, UnpackerReset, ExitLoopMode
  <2>2. codec'.st # "payload"
    BY <2>1 DEF DecodeReset
  <2>3. \/ lidar'.at = now' /\ wire' = HeaderBytes
        \/ lidar' = lidar /\ wire' = wire
    BY <1>4 DEF StartScan
  <2>4. Sent(wire', now')
    <3>1. Sent(HeaderBytes, now')
      <4>1. HeaderPacket.what = "header"
        BY DEF HeaderPacket
      <4>2. \A i \in 1 .. Len(HeaderBytes) : i \in 1 .. HeaderLength => HeaderBytes[i].pkt = HeaderPacket
        BY DEF HeaderBytes
      <4>3. Len(HeaderBytes) = HeaderLength
        BY DEF HeaderBytes, HeaderLength
      <4> QED BY <4>1, <4>2, <4>3 DEF Sent, Good
    <3> QED BY <2>1, <2>3, <3>1, SentNothing
  <2>5. now <= now' /\ lidar'.at <= now'
    <3>1. PICK t : t = (lidar.s + 1) * ScanTime
      OBVIOUS
    <3>2. now' = IF now >= t THEN now ELSE t
      BY <2>1, <3>1 DEF ClockAt
    <3>3. t \in Nat
      <4>1. PICK x, y : x = lidar.s + 1 /\ y = ScanTime
        OBVIOUS
      <4>2. x \in Nat /\ y \in Nat
        BY <1>1, <4>1, Durations DEF TypeInv
      <4>3. x * y \in Nat
        BY ONLY <4>2
      <4> QED BY <3>1, <4>1, <4>3
    <3>4. now <= now'
      BY <1>1, <3>2, <3>3
    <3> QED BY <1>1, <1>2, <2>3, <3>4
  <2> QED BY <1>1, <1>3, <2>1, <2>2, <2>4, <2>5, QuietInTime
<1>5. CASE StopScan
  <2>1. /\ batch' = <<>> /\ UNCHANGED <<kind, wire, now>> /\ h' = ClearCache /\ codec' = DecodeReset
    BY <1>5 DEF StopScan, UnpackerReset, ExitLoopMode
  <2>2. codec'.st # "payload"
    BY <2>1 DEF DecodeReset
  <2>3. lidar'.at = lidar.at
    <3>1. lidar' = [lidar EXCEPT !.on = FALSE]
      BY <1>5 DEF StopScan
    <3> QED BY <1>1, <3>1 DEF TypeInv
  <2>4. now <= now' /\ lidar'.at <= now' /\ Sent(wire', now')
    BY <1>1, <1>2, <2>1, <2>3
  <2> QED BY <1>1, <1>3, <2>1, <2>2, <2>4, QuietInTime
<1>6. ASSUME NEW step \in Steps, NEW late \in {0, Lateness}, SendPacket(step, late) PROVE TimeInv'
  <2>1. PICK sent : sent = lidar.at + Period
    OBVIOUS
  <2>2. /\ batch' = <<>> /\ UNCHANGED <<kind, codec, h>>
        /\ now' = ClockAt(sent + late)
        /\ \E p : p.at = sent /\ wire' = [i \in 1 .. PacketSize |-> [val |-> PacketByte(p, i), pkt |-> p, pos |-> i]]
    BY <1>6, <2>1 DEF SendPacket
  <2>3. lidar'.at = sent
    <3>1. PICK m, a, k : lidar' = [lidar EXCEPT !.n = m, !.start = a, !.at = sent, !.wide = k]
      BY <1>6, <2>1 DEF SendPacket
    <3> QED BY <1>1, <3>1 DEF TypeInv
  <2>4. sent \in Nat /\ late \in Nat
    BY <1>1, <2>1
  <2>5. now <= now' /\ lidar'.at <= now'
    BY <1>1, <2>2, <2>3, <2>4 DEF ClockAt
  <2>6. Sent(wire', now')
    <3>1. PICK p : p.at = sent /\ wire' = [i \in 1 .. PacketSize |-> [val |-> PacketByte(p, i), pkt |-> p, pos |-> i]]
      BY <2>2
    <3>2. Len(wire') = PacketSize /\ \A i \in 1 .. PacketSize : wire'[i].pkt = p
      BY <3>1, Sizes
    <3> QED BY <2>3, <2>5, <3>1, <3>2 DEF Sent
  <2> QED BY <1>1, <2>2, <2>5, <2>6, QuietInTime
<1>7. ASSUME NEW g \in Garbage, DecodeNext(g) PROVE TimeInv'
  <2>1. PICK b, n : b = Head(wire) /\ n = Append(codec.rx, b)
    OBVIOUS
  <2>2. /\ wire # <<>> /\ wire' = Tail(wire) /\ b \in Byte /\ b = wire[1] /\ n \in Seq(Byte)
        /\ UNCHANGED <<kind, lidar, enabled, now, client, faults>>
        /\ CodecKeeps(n) \/ OtherMessage \/ SampleMessage(n) \/ TypeRead(b) \/ HeaderSought
    <3>1. UNCHANGED <<kind, lidar, enabled, now, client, faults>>
      BY <1>7 DEF DecodeNext
    <3> QED BY <1>1, <1>7, <2>1, <3>1, DecodeStep
  <2>3. Sent(wire', now)
    <3>1. /\ Len(Tail(wire)) = Len(wire) - 1 /\ Len(wire) \in Nat
          /\ \A i \in 1 .. Len(wire) - 1 : Tail(wire)[i] = wire[i + 1]
      BY <1>1, <2>2, HeadTail
    <3>2. \A i \in 1 .. Len(Tail(wire)) : i + 1 \in 1 .. Len(wire) /\ Tail(wire)[i] = wire[i + 1]
      BY <3>1
    <3> QED BY <1>2, <2>2, <3>2 DEF Sent
  <2>4. Good(b) => b.pkt.at <= now
    <3>1. 1 \in 1 .. Len(wire)
      BY <1>1, <2>2
    <3> QED BY <1>2, <2>2, <3>1 DEF Sent
  <2>5. lidar'.at <= now'
    BY <1>2, <2>2
  <2>6. SUFFICES /\ codec'.st = "payload" => Sent(codec'.rx, now)
                 /\ Sent(h'.buf, now) /\ Remembers(h') /\ NoneEarly(batch')
    <3>1. (Remembers(h') => Remembers(h)') /\ (NoneEarly(batch') => NoneEarly(batch)')
      BY <2>2 DEF Remembers, Older, NoneEarly, NotEarly, Dated, TakenAt
    <3> QED BY <2>2, <2>3, <2>5, <3>1 DEF TimeInv, Sent
  <2>7. batch' = <<>> => NoneEarly(batch')
    BY NothingEarly
  <2>8. CASE CodecKeeps(n)
    <3>1. Sent(n, now)
      BY <1>1, <1>2, <2>1, <2>2, <2>4, <2>8, SentAppended DEF CodecKeeps
    <3> QED BY <1>2, <2>7, <2>8, <3>1 DEF CodecKeeps, HandlerRests
  <2>9. CASE OtherMessage
    <3>1. h' = h \/ (h'.buf = <<>> /\ (Older => ~h'.ready) /\ h'.ts \in {h.ts, 0})
      BY <2>9 DEF OtherMessage
    <3>2. Remembers(h') /\ Sent(h'.buf, now)
      BY <1>2, <3>1, ResetInTime
    <3> QED BY <2>7, <2>9, <3>2, SentNothing DEF OtherMessage
  <2>10. CASE SampleMessage(n)
    <3>1. Sent(n, now)
      BY <1>1, <1>2, <2>1, <2>2, <2>4, <2>10, SentAppended DEF SampleMessage
    <3>2. PICK q : q = TakeAll(h, n)
      OBVIOUS
    <3>3. InTime(q)
      BY <1>1, <1>2, <2>2, <3>1, <3>2, PayloadInTime
    <3>4. h' = q.h /\ batch' = q.out /\ codec'.rx = <<>>
      BY <2>10, <3>2 DEF SampleMessage
    <3> QED BY <3>3, <3>4, SentNothing DEF InTime
  <2>11. CASE TypeRead(b)
    BY <1>2, <2>7, <2>11, SentNothing DEF TypeRead, HandlerRests
  <2>12. CASE HeaderSought
    BY <1>2, <2>7, <2>12 DEF HeaderSought, HandlerRests
  <2> QED BY <2>2, <2>8, <2>9, <2>10, <2>11, <2>12
<1>8. CASE LoseByte
  <2>1. Fault(Tail(wire), 0) /\ wire # <<>>
    BY <1>8 DEF LoseByte, Fault
  <2>2. /\ Len(Tail(wire)) = Len(wire) - 1 /\ Len(wire) \in Nat
        /\ \A i \in 1 .. Len(wire) - 1 : Tail(wire)[i] = wire[i + 1]
    BY <1>1, <2>1, HeadTail
  <2>3. \A i \in 1 .. Len(Tail(wire)) : i + 1 \in 1 .. Len(wire) /\ Tail(wire)[i] = wire[i + 1]
    BY <2>2
  <2>4. Sent(Tail(wire), now)
    BY <1>2, <2>3 DEF Sent
  <2> QED BY <2>1, <2>4, FaultInTime
<1>9. ASSUME NEW v \in {"A5", "5A", "00"}, DamageByte(v) PROVE TimeInv'
  <2>1. PICK bad, left : bad = [val |-> v, pkt |-> NoPacket, pos |-> 0] /\ left = <<bad>> \o Tail(wire)
    OBVIOUS
  <2>2. Fault(left, 0) /\ wire # <<>>
    BY <1>9, <2>1 DEF DamageByte
  <2>3. bad \in Byte /\ ~Good(bad)
    BY <2>1 DEF Byte, Packets, NoPacket, Good
  <2>4. /\ Len(left) = Len(wire) /\ left[1] = bad
        /\ \A i \in 2 .. Len(wire) : left[i] = wire[i] /\ i \in 1 .. Len(wire)
    BY <1>1, <2>1, <2>2, <2>3
  <2>5. \A i \in 1 .. Len(left) : i = 1 \/ i \in 2 .. Len(wire)
    BY <1>1, <2>4
  <2>6. Sent(left, now)
    BY <1>2, <2>3, <2>4, <2>5 DEF Sent
  <2> QED BY <2>2, <2>6, FaultInTime
<1>10. CASE LosePacket
  <2>1. Fault(<<>>, 1)
    BY <1>10 DEF LosePacket
  <2> QED BY <2>1, SentNothing, FaultInTime
<1>11. CASE UNCHANGED vars
  <2>1. UNCHANGED <<kind, lidar, wire, codec, h, now, batch>>
    BY <1>11 DEF vars
  <2> QED BY <1>0, <2>1 DEF TimeInv, Sent, Remembers, Older, NoneEarly, NotEarly, Dated, TakenAt, Lateness, Period
<1> QED BY <1>4, <1>5, <1>6, <1>7, <1>8, <1>9, <1>10, <1>11 DEF Next

-----------------------------------------------------------------------------
(* The theorem about times *)

\* No sample is stamped earlier than the lidar took it, however late the decoder is
\* and whatever the line loses or damages: the older formats, which remember when
\* the packet before was decoded, remember it together with that packet, over
\* restarts as well (handler_capsules.cpp 107-215, dataunpacker.cpp:177).
THEOREM SamplesStampedNotEarly == Spec => []StampedNotEarly
<1>1. Init => DateInv
  BY InitInTime
<1>2. DateInv /\ [Next]_vars => DateInv'
  BY NextInTime
<1>3. DateInv => StampedNotEarly
  <2> SUFFICES ASSUME DateInv, NEW b \in Batches PROVE NotEarly(b)
    BY DEF StampedNotEarly, NotEarly
  <2>1. PICK S : batch \in Seq(S) /\ \A x \in S : NotEarly(x)
    BY DEF DateInv, TimeInv, NoneEarly
  <2>2. PICK i \in DOMAIN batch : b = batch[i]
    BY DEF Batches
  <2> QED BY <2>1, <2>2
<1> QED BY <1>1, <1>2, <1>3, PTL DEF Spec
=============================================================================

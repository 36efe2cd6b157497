-------------------------- MODULE TransceiverProofs --------------------------
(***************************************************************************)
(* Proofs about Transceiver, for every number of connections and chunks,   *)
(* and about ChannelLink: the transceiver on a channel is a transceiver.   *)
(* Whatever the channel answers, every step of the composition is one that *)
(* Transceiver allows, so what is proved of Transceiver holds of it, and   *)
(* the bytes that reach it are those the device sent, for every number of  *)
(* bytes and every size of a read.                                         *)
(***************************************************************************)
EXTENDS ChannelLink, TLAPS, SequenceTheorems, WellFoundedInduction

-----------------------------------------------------------------------------
(* Type correctness *)

\* The types hold initially.
LEMMA InitTypeOK == Init => TypeOK
<1> SUFFICES ASSUME Init PROVE TypeOK
  OBVIOUS
<1>1. NoChunk \in Chunk /\ 0 \in 0 .. MaxConnections /\ 0 \in 0 .. MaxChunks
  BY TransceiverAssumption DEF NoChunk, Chunk
<1>2. <<>> \in Seq(Chunk)
  OBVIOUS
<1> QED BY <1>1, <1>2 DEF Init, TypeOK

\* connect, disconnect and its parts.
LEMMA ClientTypeOK ==
  ASSUME TypeOK,
         ConnectOk \/ ConnectOpenFails \/ DisconnectUnopened \/ Disconnect \/ Closing
  PROVE  TypeOK'
<1>0. <<>> \in Seq(Chunk)
  OBVIOUS
<1>1. CASE ConnectOk
  <2>1. connection' \in 0 .. MaxConnections /\ received' \in 0 .. MaxChunks
    BY <1>1, TransceiverAssumption DEF TypeOK, ConnectOk
  <2> QED BY <1>0, <1>1, <2>1 DEF TypeOK, ConnectOk
<1>2. CASE ConnectOpenFails
  BY <1>2 DEF TypeOK, ConnectOpenFails, threadVars, historyVars
<1>3. CASE DisconnectUnopened
  BY <1>3 DEF TypeOK, DisconnectUnopened, threadVars, historyVars
<1>4. CASE Disconnect
  BY <1>4 DEF TypeOK, Disconnect, threadVars, historyVars
<1>5. CASE WakeThreads
  BY <1>5 DEF TypeOK, WakeThreads, threadVars, historyVars
<1>6. CASE JoinDecoder
  BY <1>6 DEF TypeOK, JoinDecoder, threadVars, historyVars
<1>7. CASE JoinRx
  BY <1>7 DEF TypeOK, JoinRx, threadVars, historyVars
<1>8. CASE CloseChannel
  BY <1>0, <1>8 DEF TypeOK, CloseChannel, threadVars, historyVars
<1> QED BY <1>1, <1>2, <1>3, <1>4, <1>5, <1>6, <1>7, <1>8 DEF Closing

\* The two threads.
LEMMA ThreadTypeOK ==
  ASSUME TypeOK, Rx \/ Dec
  PROVE  TypeOK'
<1>1. CASE RxCheck
  BY <1>1 DEF TypeOK, RxCheck, RxGoes
<1>2. CASE RxNothing
  BY <1>2 DEF TypeOK, RxNothing, RxGoes
<1>3. CASE RxWaitFails
  BY <1>3 DEF TypeOK, RxWaitFails, RxGoes
<1>4. CASE RxRead
  <2>1. received' \in 0 .. MaxChunks /\ rxBuf' \in Chunk
    BY <1>4, TransceiverAssumption DEF TypeOK, RxRead, RxGoes, Chunk
  <2> QED BY <1>4, <2>1 DEF TypeOK, RxRead, RxGoes
<1>5. CASE RxReadsNothing
  BY <1>5 DEF TypeOK, RxReadsNothing, RxGoes
<1>6. CASE RxPush
  BY <1>6 DEF TypeOK, RxPush, RxGoes
<1>7. CASE DecCheck
  BY <1>7 DEF TypeOK, DecCheck, DecGoes
<1>8. CASE DecTake
  BY <1>8 DEF TypeOK, DecTake, DecGoes
<1>9. CASE DecFindsNone
  BY <1>9 DEF TypeOK, DecFindsNone, DecGoes
<1>10. CASE DecWoken
  BY <1>10 DEF TypeOK, DecWoken, DecGoes
<1>11. CASE DecTimeout
  BY <1>11 DEF TypeOK, DecTimeout, DecGoes
<1>12. CASE DecDecode
  BY <1>12 DEF TypeOK, DecDecode, DecGoes
<1> QED BY <1>1, <1>2, <1>3, <1>4, <1>5, <1>6, <1>7, <1>8, <1>9, <1>10, <1>11, <1>12
        DEF Rx, Dec

\* Every step keeps the types.
LEMMA TypeOKStep == TypeOK /\ [Next]_vars => TypeOK'
<1> SUFFICES ASSUME TypeOK, [Next]_vars PROVE TypeOK'
  OBVIOUS
<1>1. CASE Rx \/ Dec
  BY <1>1, ThreadTypeOK
<1>2. CASE ConnectOk \/ ConnectOpenFails \/ DisconnectUnopened \/ Disconnect \/ Closing
  BY <1>2, ClientTypeOK
<1>3. CASE UNCHANGED vars
  BY <1>3 DEF TypeOK, vars, threadVars, historyVars
<1> QED BY <1>1, <1>2, <1>3 DEF Next

\* Every variable keeps its type.
THEOREM TypeCorrect == Spec => []TypeOK
<1> QED BY InitTypeOK, TypeOKStep, PTL DEF Spec

-----------------------------------------------------------------------------
(* The life of the threads, and the wakeup of the decoder *)

\* Where the client and the threads can be together.  unbindAndClose joins
\* the decoder, then the receiver, and closes the channel after both; as
\* long as a thread is told to work the channel is open.
LifeInv ==
  /\ isWorking => channelOpen /\ client = "idle"
  /\ channelOpen => connected
  /\ channelOpen /\ client = "idle" => isWorking
  /\ client # "idle" => channelOpen
  /\ client \in {"joinRx", "closing"} => dec = "exited"
  /\ client = "closing" => rx = "exited"
  /\ ~channelOpen => rx = "exited" /\ dec = "exited" /\ rxQueue = <<>>
  /\ NoSleepOnData

\* Nothing runs initially.
LEMMA InitLife == Init => LifeInv
BY DEF Init, LifeInv, NoSleepOnData

\* Every step keeps the life of the threads.
LEMMA LifeStep == LifeInv /\ [Next]_vars => LifeInv'
<1> SUFFICES ASSUME LifeInv, [Next]_vars PROVE LifeInv'
  OBVIOUS
<1> USE DEF LifeInv, NoSleepOnData
<1>1. CASE ConnectOk
  BY <1>1 DEF ConnectOk
<1>2. CASE ConnectOpenFails
  BY <1>2 DEF ConnectOpenFails, threadVars
<1>3. CASE DisconnectUnopened
  BY <1>3 DEF DisconnectUnopened, threadVars
<1>4. CASE Disconnect
  BY <1>4 DEF Disconnect, threadVars
<1>5. CASE WakeThreads
  BY <1>5 DEF WakeThreads, threadVars
<1>6. CASE JoinDecoder
  BY <1>6 DEF JoinDecoder, threadVars
<1>7. CASE JoinRx
  BY <1>7 DEF JoinRx, threadVars
<1>8. CASE CloseChannel
  BY <1>8 DEF CloseChannel, threadVars
<1>9. CASE RxCheck \/ RxNothing \/ RxWaitFails \/ RxRead \/ RxReadsNothing
  BY <1>9 DEF RxCheck, RxNothing, RxWaitFails, RxRead, RxReadsNothing, RxGoes
<1>10. CASE RxPush
  BY <1>10 DEF RxPush, RxGoes
<1>11. CASE DecCheck \/ DecFindsNone \/ DecWoken \/ DecTimeout \/ DecDecode
  BY <1>11 DEF DecCheck, DecFindsNone, DecWoken, DecTimeout, DecDecode, DecGoes
<1>12. CASE DecTake
  BY <1>12 DEF DecTake, DecGoes
<1>13. CASE UNCHANGED vars
  BY <1>13 DEF vars, threadVars
<1> QED BY <1>1, <1>2, <1>3, <1>4, <1>5, <1>6, <1>7, <1>8, <1>9, <1>10, <1>11, <1>12, <1>13
        DEF Next, Closing, Rx, Dec

\* The life of the threads holds in every reachable state.
LEMMA LifeCorrect == Spec => []LifeInv
<1> QED BY InitLife, LifeStep, PTL DEF Spec

\* The channel is never closed under a running thread (unbindAndClose), for
\* any number of connections.
THEOREM ThreadsEndBeforeChannel == Spec => []NoThreadWithoutChannel
<1>1. LifeInv => NoThreadWithoutChannel
  BY DEF LifeInv, NoThreadWithoutChannel
<1> QED BY <1>1, LifeCorrect, PTL

\* The decoder never waits next to a queued chunk without a set event: the
\* auto-reset event loses no wakeup between its look at the queue and its
\* wait.
THEOREM NoLostWakeup == Spec => []NoSleepOnData
<1>1. LifeInv => NoSleepOnData
  BY DEF LifeInv
<1> QED BY <1>1, LifeCorrect, PTL

-----------------------------------------------------------------------------
(* The order of the chunks *)

\* The chunks read on a connection, oldest first, wherever they are now.
Line == decoded \o InHand(dec, "decoding", decBuf) \o rxQueue \o InHand(rx, "pushing", rxBuf)
Numbered(c, n) == [i \in 1 .. n |-> <<c, i>>]

\* What a thread has in its hand is a sequence of at most one chunk.
LEMMA HandType ==
  ASSUME TypeOK
  PROVE  /\ InHand(dec, "decoding", decBuf) \in Seq(Chunk)
         /\ InHand(rx, "pushing", rxBuf) \in Seq(Chunk)
BY DEF TypeOK, InHand

\* A step that moves no chunk leaves the line as it is.
LEMMA LineKept ==
  ASSUME UNCHANGED <<decoded, decBuf, rxQueue, rxBuf>>,
         dec = "decoding" <=> dec' = "decoding", rx = "pushing" <=> rx' = "pushing"
  PROVE  Line' = Line
BY DEF Line, InHand

\* A new chunk joins the end of the line.
LEMMA ReadingExtendsLine ==
  ASSUME TypeOK, RxRead
  PROVE  Line' = Append(Line, <<connection, received + 1>>)
<1> DEFINE d == decoded \o InHand(dec, "decoding", decBuf) \o rxQueue
           c == <<connection, received + 1>>
<1>1. d \in Seq(Chunk) /\ c \in Chunk
  <2>1. InHand(dec, "decoding", decBuf) \in Seq(Chunk)
    BY HandType
  <2>2. c \in Chunk
    BY TransceiverAssumption DEF TypeOK, RxRead, Chunk
  <2> QED BY <2>1, <2>2, ConcatProperties DEF TypeOK
<1>2. Line = d \o <<>>
  BY DEF Line, InHand, RxRead, RxGoes
<1>3. Line' = d \o <<c>>
  BY DEF Line, InHand, RxRead, RxGoes
<1> HIDE DEF d, c
<1>4. d \o <<>> = d /\ Append(d, c) = d \o <<c>>
  BY <1>1, ConcatEmptySeq, AppendIsConcat
<1> QED BY <1>2, <1>3, <1>4 DEF c

\* A chunk goes from the receiver's hand to the queue.
LEMMA PushingKeepsLine ==
  ASSUME TypeOK, RxPush
  PROVE  Line' = Line
<1> DEFINE d == decoded \o InHand(dec, "decoding", decBuf)
<1>1. d \in Seq(Chunk) /\ rxQueue \in Seq(Chunk) /\ rxBuf \in Chunk
  BY HandType, ConcatProperties DEF TypeOK
<1>2. Line = (d \o rxQueue) \o <<rxBuf>>
  BY DEF Line, InHand, RxPush, RxGoes
<1>3. Line' = (d \o Append(rxQueue, rxBuf)) \o <<>>
  BY DEF Line, InHand, RxPush, RxGoes
<1> HIDE DEF d
<1>4. <<rxBuf>> \in Seq(Chunk) /\ Append(rxQueue, rxBuf) = rxQueue \o <<rxBuf>>
  BY <1>1, AppendIsConcat
<1>5. (d \o rxQueue) \o <<rxBuf>> = d \o (rxQueue \o <<rxBuf>>)
  BY <1>1, <1>4, ConcatAssociative
<1>6. d \o (rxQueue \o <<rxBuf>>) \in Seq(Chunk)
  BY <1>1, <1>4, ConcatProperties
<1> QED BY <1>2, <1>3, <1>4, <1>5, <1>6, ConcatEmptySeq

\* A chunk goes from the queue to the decoder's hand.
LEMMA TakingKeepsLine ==
  ASSUME TypeOK, DecTake
  PROVE  Line' = Line
<1> DEFINE h == Head(rxQueue)
           t == Tail(rxQueue)
<1>1. decoded \in Seq(Chunk) /\ h \in Chunk /\ t \in Seq(Chunk) /\ rxQueue = <<h>> \o t
  BY DEF TypeOK, DecTake
<1>2. Line = ((decoded \o <<>>) \o rxQueue) \o InHand(rx, "pushing", rxBuf)
  BY DEF Line, InHand, DecTake, DecGoes
<1>3. Line' = ((decoded \o <<h>>) \o t) \o InHand(rx, "pushing", rxBuf)
  BY DEF Line, InHand, DecTake, DecGoes
<1> HIDE DEF h, t
<1>4. (decoded \o <<h>>) \o t = decoded \o (<<h>> \o t)
  BY <1>1, ConcatAssociative
<1>5. decoded \o <<>> = decoded
  BY <1>1, ConcatEmptySeq
<1> QED BY <1>1, <1>2, <1>3, <1>4, <1>5

\* A chunk goes from the decoder's hand to the codec.
LEMMA DecodingKeepsLine ==
  ASSUME TypeOK, DecDecode
  PROVE  Line' = Line
<1>1. decoded \in Seq(Chunk) /\ decBuf \in Chunk
  BY DEF TypeOK
<1>2. Line = ((decoded \o <<decBuf>>) \o rxQueue) \o InHand(rx, "pushing", rxBuf)
  BY DEF Line, InHand, DecDecode, DecGoes
<1>3. Line' = ((Append(decoded, decBuf) \o <<>>) \o rxQueue) \o InHand(rx, "pushing", rxBuf)
  BY DEF Line, InHand, DecDecode, DecGoes
<1>4. Append(decoded, decBuf) = decoded \o <<decBuf>> /\ Append(decoded, decBuf) \in Seq(Chunk)
  BY <1>1, AppendIsConcat, AppendProperties
<1>5. Append(decoded, decBuf) \o <<>> = Append(decoded, decBuf)
  BY <1>4, ConcatEmptySeq
<1> QED BY <1>2, <1>3, <1>4, <1>5

\* Every step keeps the chunks in order.
LEMMA OrderStep == TypeOK /\ LifeInv /\ ChunksInOrder /\ [Next]_vars => ChunksInOrder'
<1> SUFFICES ASSUME TypeOK, LifeInv, channelOpen => Line = Numbered(connection, received),
                    [Next]_vars, channelOpen'
             PROVE  Line' = Numbered(connection', received')
  BY DEF ChunksInOrder, Line, Numbered
<1>1. CASE ConnectOk
  <2>1. Line' = <<>> /\ received' = 0
    <3>1. rxQueue = <<>>
      BY <1>1 DEF ConnectOk, LifeInv
    <3> QED BY <1>1, <3>1 DEF ConnectOk, Line, InHand
  <2> QED BY <2>1 DEF Numbered
<1>2. CASE CloseChannel
  BY <1>2 DEF CloseChannel
<1>3. CASE \/ ConnectOpenFails \/ DisconnectUnopened \/ Disconnect
           \/ WakeThreads \/ JoinDecoder \/ JoinRx \/ UNCHANGED vars
  <2>1. UNCHANGED <<channelOpen, rxQueue, threadVars, historyVars>>
    BY <1>3 DEF ConnectOpenFails, DisconnectUnopened, Disconnect, WakeThreads, JoinDecoder, JoinRx, vars
  <2>2. Line' = Line
    BY <2>1 DEF threadVars, historyVars, Line, InHand
  <2> QED BY <2>1, <2>2 DEF historyVars
<1>4. CASE RxCheck \/ RxNothing \/ RxWaitFails \/ RxReadsNothing
  <2>1. /\ UNCHANGED <<decoded, decBuf, rxQueue, rxBuf, channelOpen, connection, received>>
        /\ dec' = dec /\ rx # "pushing" /\ rx' # "pushing"
    BY <1>4 DEF RxCheck, RxNothing, RxWaitFails, RxReadsNothing, RxGoes
  <2> QED BY <2>1, LineKept
<1>5. CASE RxRead
  <2>1. /\ connection' = connection /\ received' = received + 1 /\ channelOpen
        /\ received \in Nat
    BY <1>5 DEF RxRead, RxGoes, TypeOK
  <2>2. Append(Numbered(connection, received), <<connection, received + 1>>)
          = Numbered(connection, received + 1)
    BY <2>1 DEF Numbered
  <2> QED BY <1>5, <2>1, <2>2, ReadingExtendsLine
<1>6. CASE RxPush
  <2>1. UNCHANGED <<channelOpen, connection, received>>
    BY <1>6 DEF RxPush, RxGoes
  <2> QED BY <1>6, <2>1, PushingKeepsLine
<1>7. CASE DecCheck \/ DecFindsNone \/ DecWoken \/ DecTimeout
  <2>1. /\ UNCHANGED <<decoded, decBuf, rxQueue, rxBuf, channelOpen, connection, received>>
        /\ rx' = rx /\ dec # "decoding" /\ dec' # "decoding"
    BY <1>7 DEF DecCheck, DecFindsNone, DecWoken, DecTimeout, DecGoes
  <2> QED BY <2>1, LineKept
<1>8. CASE DecTake
  <2>1. UNCHANGED <<channelOpen, connection, received>>
    BY <1>8 DEF DecTake, DecGoes
  <2> QED BY <1>8, <2>1, TakingKeepsLine
<1>9. CASE DecDecode
  <2>1. UNCHANGED <<channelOpen, connection, received>>
    BY <1>9 DEF DecDecode, DecGoes
  <2> QED BY <1>9, <2>1, DecodingKeepsLine
<1> QED BY <1>1, <1>2, <1>3, <1>4, <1>5, <1>6, <1>7, <1>8, <1>9 DEF Next, Closing, Rx, Dec

\* Every chunk of a connection is decoded once and in its order
\* (_proc_rxThread, _proc_decoderThread), for any number of chunks and
\* connections: nothing of an earlier connection is left in the queue.
THEOREM ChunksStayInOrder == Spec => []ChunksInOrder
<1>1. Init => ChunksInOrder
  BY DEF Init, ChunksInOrder
<1> QED BY <1>1, OrderStep, TypeCorrect, LifeCorrect, PTL DEF Spec

-----------------------------------------------------------------------------
(* The transceiver on a channel *)

\* A step of the client, with the baud rate negotiation, is one of the
\* transceiver's client or leaves the transceiver alone.
LEMMA ClientSteps ==
  LinkConnect \/ LinkDisconnect \/ LinkClosing \/ Send \/ Negotiate \/ Negotiation => [Next]_vars
<1>1. LinkConnect => Next
  BY DEF LinkConnect, Next
<1>2. LinkDisconnect \/ Negotiate => Next
  BY DEF LinkDisconnect, Negotiate, Next
<1>3. LinkClosing => Next
  BY DEF LinkClosing, Next, Closing
<1>4. Send \/ Negotiation => UNCHANGED vars
  BY DEF Send, Negotiation, NegotiateOpen, NegotiateMagic, NegotiateWaits, NegotiateReads
<1> QED BY <1>1, <1>2, <1>3, <1>4

\* A step of the receiving thread on the channel is one the transceiver's has.
LEMMA ReceiverSteps == LinkRx => [Next]_vars
<1>1. LinkRxCheck \/ LinkRxNothing \/ LinkRxRead \/ LinkRxPush => Rx
  BY DEF LinkRxCheck, LinkRxNothing, LinkRxRead, LinkRxPush, Rx
<1>2. LinkRxWaitFails \/ LinkRxReadsNothing \/ LinkRxLosesPort => Rx
  BY DEF LinkRxWaitFails, LinkRxReadsNothing, LinkRxLosesPort, Rx
<1>3. LinkRxWaits => UNCHANGED vars
  BY DEF LinkRxWaits
<1> QED BY <1>1, <1>2, <1>3 DEF LinkRx, Next

\* The composition implements the transceiver: the channel decides which of
\* the outcomes Transceiver leaves open happens, and adds none.
THEOREM LinkIsTransceiver == LinkSpec => Spec
<1>1. LinkInit => Init
  BY DEF LinkInit
<1>2. [LinkNext]_linkVars => [Next]_vars
  <2>1. LinkDec => Next
    BY DEF LinkDec, Next
  <2>2. Device \/ UNCHANGED linkVars => UNCHANGED vars
    BY DEF Device, linkVars
  <2> QED BY <2>1, <2>2, ClientSteps, ReceiverSteps DEF LinkNext
<1> QED BY <1>1, <1>2, PTL DEF LinkSpec, Spec

\* On every channel, for any number of connections, chunks and bytes: the
\* channel outlives both threads, the chunks are decoded in the order they
\* were read, and the decoder never sleeps next to one.
THEOREM LinkKeepsOrder == LinkSpec => [](NoThreadWithoutChannel /\ ChunksInOrder /\ NoSleepOnData)
BY LinkIsTransceiver, ThreadsEndBeforeChannel, ChunksStayInOrder, NoLostWakeup, PTL

-----------------------------------------------------------------------------
(* The bytes *)

\* A set of numbers that is not empty has a least one.  What holds of every
\* number is proved from it: there is no least one of which it does not hold.
LEMMA LeastExists ==
  ASSUME NEW S \in SUBSET Nat, S # {}
  PROVE  \E x \in S : \A y \in S : x <= y
<1> DEFINE R == {ss \in Nat \X Nat : ss[1] < ss[2]}
<1>1. IsWellFoundedOn(R, Nat)
  BY NatLessThanWellFounded DEF OpToRel
<1>2. \A x, y \in Nat : <<y, x>> \in R <=> y < x
  OBVIOUS
<1> HIDE DEF R
<1>3. PICK x \in S : \A y \in S : ~(<<y, x>> \in R)
  BY <1>1, WFMin, Zenon
<1>4. ASSUME NEW y \in S PROVE x <= y
  <2>1. ~(y < x) /\ x \in Nat /\ y \in Nat
    BY <1>2, <1>3
  <2> QED BY <2>1
<1> QED BY <1>4

\* The bytes numbered from a + 1 to b, as one chunk, and as packets of one byte.
Run(a, b) == [i \in 1 .. b - a |-> a + i]
Bytes(a, b) == [i \in 1 .. b - a |-> <<a + i>>]

\* What single bytes are as a sequence.
LEMMA BytesType ==
  ASSUME NEW a \in Nat, NEW b \in Nat, a <= b
  PROVE  /\ Bytes(a, b) \in Seq(Seq(Nat)) /\ Len(Bytes(a, b)) = b - a
         /\ \A i \in 1 .. b - a : Bytes(a, b)[i] = <<a + i>>
<1>1. b - a \in Nat /\ \A i \in 1 .. b - a : <<a + i>> \in Seq(Nat)
  OBVIOUS
<1> QED BY <1>1 DEF Bytes

\* The join of chunks as FlattenSeq computes it, from the first chunk on.
Joins(f, s, n) == f = [i \in 1 .. n |-> IF i = 1 THEN s[i] ELSE f[i - 1] \o s[i]]

\* Chunks have a join: the recursion defines a function.
LEMMA JoinExists ==
  ASSUME NEW s, NEW n \in Nat
  PROVE  \E f : Joins(f, s, n)
<1> DEFINE Bad == {m \in Nat : \A f : ~Joins(f, s, m)}
<1> SUFFICES ASSUME Bad # {} PROVE FALSE
  OBVIOUS
<1>1. PICK m \in Bad : \A y \in Bad : m <= y
  BY LeastExists
<1>2. CASE m = 0
  <2>1. Joins([i \in 1 .. 0 |-> 0], s, 0)
    BY DEF Joins
  <2> QED BY <1>1, <1>2, <2>1
<1>3. CASE m # 0
  <2>1. m \in Nat /\ m - 1 \in Nat /\ ~(m <= m - 1)
    BY <1>3
  <2>2. m - 1 \notin Bad
    BY <1>1, <2>1
  <2>3. PICK f : Joins(f, s, m - 1)
    BY <2>1, <2>2
  <2> DEFINE g == [i \in 1 .. m |-> IF i = m /\ m # 1 THEN f[m - 1] \o s[m] ELSE
                                    IF i = m THEN s[m] ELSE f[i]]
  <2>4. ASSUME NEW i \in 1 .. m
        PROVE  g[i] = IF i = 1 THEN s[i] ELSE g[i - 1] \o s[i]
    <3>1. CASE i = m
      <4>1. CASE m = 1
        BY <3>1, <4>1
      <4>2. CASE m # 1
        <5>1. m - 1 \in 1 .. m /\ m - 1 # m
          BY <2>1, <4>2
        <5>2. g[m - 1] = f[m - 1]
          BY <5>1
        <5> QED BY <3>1, <4>2, <5>2
      <4> QED BY <4>1, <4>2
    <3>2. CASE i # m
      <4>1. i \in 1 .. m - 1 /\ g[i] = f[i]
        BY <2>1, <3>2
      <4>2. f[i] = IF i = 1 THEN s[i] ELSE f[i - 1] \o s[i]
        BY <2>3, <4>1 DEF Joins
      <4>3. i # 1 => g[i - 1] = f[i - 1]
        <5>1. i # 1 => i - 1 \in 1 .. m /\ i - 1 # m
          BY <2>1, <4>1
        <5> QED BY <5>1
      <4> QED BY <4>1, <4>2, <4>3
    <3> QED BY <3>1, <3>2
  <2>5. g = [i \in 1 .. m |-> g[i]]
    OBVIOUS
  <2> HIDE DEF g
  <2>6. Joins(g, s, m)
    BY <2>4, <2>5 DEF Joins
  <2> QED BY <1>1, <2>6
<1> QED BY <1>2, <1>3

\* FlattenSeq is the last of the joins.
LEMMA FlattenIsJoin ==
  ASSUME NEW s, Len(s) \in Nat \ {0}
  PROVE  \E f : Joins(f, s, Len(s)) /\ FlattenSeq(s) = f[Len(s)]
<1> DEFINE F == CHOOSE f : Joins(f, s, Len(s))
<1>1. Joins(F, s, Len(s))
  BY JoinExists
<1>2. FlattenSeq(s) = F[Len(s)]
  BY DEF FlattenSeq, Joins
<1> QED BY <1>1, <1>2

\* Runs of bytes that meet join to one.
LEMMA RunsAppend ==
  ASSUME NEW a \in Nat, NEW b \in Nat, NEW c \in Nat, a <= b, b <= c
  PROVE  Run(a, b) \o Run(b, c) = Run(a, c)
<1>1. Run(a, b) \in Seq(Nat) /\ Len(Run(a, b)) = b - a
  BY DEF Run
<1>2. Run(b, c) \in Seq(Nat) /\ Len(Run(b, c)) = c - b
  BY DEF Run
<1>3. Run(a, c) \in Seq(Nat) /\ Len(Run(a, c)) = c - a
  BY DEF Run
<1>4. /\ Run(a, b) \o Run(b, c) \in Seq(Nat)
      /\ Len(Run(a, b) \o Run(b, c)) = c - a
      /\ \A i \in 1 .. c - a : (Run(a, b) \o Run(b, c))[i] =
            IF i <= b - a THEN Run(a, b)[i] ELSE Run(b, c)[i - (b - a)]
  <2>1. (b - a) + (c - b) = c - a
    OBVIOUS
  <2>2. /\ Run(a, b) \o Run(b, c) \in Seq(Nat)
        /\ Len(Run(a, b) \o Run(b, c)) = Len(Run(a, b)) + Len(Run(b, c))
        /\ \A i \in 1 .. Len(Run(a, b)) + Len(Run(b, c)) : (Run(a, b) \o Run(b, c))[i] =
              IF i <= Len(Run(a, b)) THEN Run(a, b)[i] ELSE Run(b, c)[i - Len(Run(a, b))]
    BY <1>1, <1>2, ConcatProperties
  <2> QED BY <1>1, <1>2, <2>1, <2>2
<1>5. ASSUME NEW i \in 1 .. c - a
      PROVE  (Run(a, b) \o Run(b, c))[i] = Run(a, c)[i]
  <2>1. CASE i <= b - a
    BY <1>4, <2>1 DEF Run
  <2>2. CASE ~(i <= b - a)
    <3>1. i - (b - a) \in 1 .. c - b /\ b + (i - (b - a)) = a + i
      BY <2>2
    <3>2. Run(b, c)[i - (b - a)] = b + (i - (b - a))
      BY <3>1 DEF Run
    <3>3. Run(a, c)[i] = a + i
      BY DEF Run
    <3> QED BY <1>4, <2>2, <3>1, <3>2, <3>3
  <2> QED BY <2>1, <2>2
<1> DEFINE u == Run(a, b) \o Run(b, c)
           v == Run(a, c)
<1>6. /\ u \in Seq(Nat) /\ v \in Seq(Nat) /\ Len(u) = Len(v)
      /\ \A i \in 1 .. Len(u) : u[i] = v[i]
  BY <1>3, <1>4, <1>5
<1> HIDE DEF u, v
<1>7. u = v
  BY <1>6, SeqEqual
<1> QED BY <1>7 DEF u, v

\* Chunks that each begin where the one before ended: ends[i] is the end of
\* the i-th, ends[0] where the first begins.
Consecutive(s, ends) ==
  /\ \A i \in 0 .. Len(s) : ends[i] \in Nat
  /\ \A i \in 1 .. Len(s) : ends[i - 1] <= ends[i] /\ s[i] = Run(ends[i - 1], ends[i])

\* Ends that grow from each to the next are all behind the first.
LEMMA EndsGrow ==
  ASSUME NEW n \in Nat, NEW ends,
         \A i \in 0 .. n : ends[i] \in Nat, \A i \in 1 .. n : ends[i - 1] <= ends[i]
  PROVE  \A i \in 0 .. n : ends[0] <= ends[i]
<1> DEFINE Bad == {i \in Nat : i \in 0 .. n /\ ~(ends[0] <= ends[i])}
<1> SUFFICES ASSUME Bad # {} PROVE FALSE
  OBVIOUS
<1>1. PICK i \in Bad : \A j \in Bad : i <= j
  BY LeastExists
<1>2. i \in 0 .. n /\ 0 \in 0 .. n /\ ~(ends[0] <= ends[i])
  BY <1>1
<1>3. ends[0] \in Nat /\ ends[i] \in Nat /\ i # 0
  BY <1>2
<1>4. i - 1 \in 0 .. n /\ i \in 1 .. n /\ i - 1 \in Nat /\ ~(i <= i - 1)
  BY <1>2, <1>3
<1>5. ends[0] <= ends[i - 1] /\ ends[i - 1] <= ends[i] /\ ends[i - 1] \in Nat
  BY <1>1, <1>4
<1> QED BY <1>2, <1>3, <1>5

\* Consecutive chunks join to the run of bytes from the first to the last.
LEMMA ConsecutiveRuns ==
  ASSUME NEW s \in Seq(Seq(Nat)), NEW ends, Consecutive(s, ends)
  PROVE  FlattenSeq(s) = Run(ends[0], ends[Len(s)])
<1>1. CASE Len(s) = 0
  <2>1. s = <<>> /\ FlattenSeq(s) = s
    BY <1>1 DEF FlattenSeq
  <2>2. ends[0] - ends[0] = 0
    BY <1>1 DEF Consecutive
  <2>3. Run(ends[0], ends[0]) = <<>>
    BY <2>2 DEF Run
  <2> QED BY <1>1, <2>1, <2>3
<1>2. CASE Len(s) # 0
  <2>1. Len(s) \in Nat \ {0}
    BY <1>2
  <2>2. PICK f : Joins(f, s, Len(s)) /\ FlattenSeq(s) = f[Len(s)]
    BY <2>1, FlattenIsJoin
  <2> DEFINE Bad == {i \in Nat : i \in 1 .. Len(s) /\ f[i] # Run(ends[0], ends[i])}
  <2>3. Bad = {}
    <3> SUFFICES ASSUME Bad # {} PROVE FALSE
      OBVIOUS
    <3>1. PICK i \in Bad : \A j \in Bad : i <= j
      BY LeastExists
    <3>2. i \in 1 .. Len(s) /\ i - 1 \in 0 .. Len(s) /\ 0 \in 0 .. Len(s)
      BY <3>1
    <3>3. /\ ends[0] \in Nat /\ ends[i - 1] \in Nat /\ ends[i] \in Nat
          /\ ends[i - 1] <= ends[i] /\ s[i] = Run(ends[i - 1], ends[i])
      BY <3>2 DEF Consecutive
    <3>4. f[i] = IF i = 1 THEN s[i] ELSE f[i - 1] \o s[i]
      BY <2>2, <3>2 DEF Joins
    <3>5. CASE i = 1
      BY <3>1, <3>3, <3>4, <3>5
    <3>6. CASE i # 1
      <4>1. i - 1 \in 1 .. Len(s) /\ i - 1 \in Nat /\ ~(i <= i - 1)
        BY <3>2, <3>6
      <4>2. f[i - 1] = Run(ends[0], ends[i - 1])
        BY <3>1, <4>1
      <4>3. ends[0] <= ends[i - 1]
        <5>1. /\ \A j \in 0 .. Len(s) : ends[j] \in Nat
              /\ \A j \in 1 .. Len(s) : ends[j - 1] <= ends[j]
              /\ Len(s) \in Nat
          BY DEF Consecutive
        <5>2. \A j \in 0 .. Len(s) : ends[0] <= ends[j]
          BY <5>1, EndsGrow
        <5> QED BY <3>2, <5>2
      <4>4. f[i] = f[i - 1] \o s[i]
        BY <3>4, <3>6
      <4>5. Run(ends[0], ends[i - 1]) \o Run(ends[i - 1], ends[i]) = Run(ends[0], ends[i])
        BY <3>3, <4>3, RunsAppend
      <4>6. f[i] = Run(ends[0], ends[i])
        BY <3>3, <4>2, <4>4, <4>5
      <4> QED BY <3>1, <4>6
    <3> QED BY <3>5, <3>6
  <2>4. Len(s) \in 1 .. Len(s)
    BY <2>1
  <2> QED BY <2>1, <2>2, <2>3, <2>4
<1> QED BY <1>1, <1>2

\* A byte is a run of length one.
LEMMA OneByte ==
  ASSUME NEW a \in Nat
  PROVE  <<a + 1>> = Run(a, a + 1)
<1>1. (a + 1) - a = 1
  OBVIOUS
<1>2. Run(a, a + 1) = [i \in 1 .. 1 |-> a + i]
  BY <1>1 DEF Run
<1> QED BY <1>2

\* Chunks that end at k, and after them single bytes from k on.
LEMMA BytesFollow ==
  ASSUME NEW s \in Seq(Seq(Nat)), NEW ends, Consecutive(s, ends),
         NEW k \in Nat, NEW b \in Nat, k <= b, ends[Len(s)] = k
  PROVE  FlattenSeq(s \o Bytes(k, b)) = Run(ends[0], b)
<1> DEFINE t == s \o Bytes(k, b)
           l == Len(s)
           e == [i \in 0 .. l + (b - k) |-> IF i <= l THEN ends[i] ELSE k + (i - l)]
<1>1. l \in Nat /\ b - k \in Nat /\ \A i \in 0 .. l : ends[i] \in Nat
  BY DEF Consecutive
<1>2. Bytes(k, b) \in Seq(Seq(Nat)) /\ Len(Bytes(k, b)) = b - k
  BY BytesType
<1>3. /\ t \in Seq(Seq(Nat)) /\ Len(t) = l + (b - k)
      /\ \A i \in 1 .. l + (b - k) : t[i] = IF i <= l THEN s[i] ELSE Bytes(k, b)[i - l]
  <2>1. /\ s \o Bytes(k, b) \in Seq(Seq(Nat))
        /\ Len(s \o Bytes(k, b)) = Len(s) + Len(Bytes(k, b))
        /\ \A i \in 1 .. Len(s) + Len(Bytes(k, b)) : (s \o Bytes(k, b))[i] =
              IF i <= Len(s) THEN s[i] ELSE Bytes(k, b)[i - Len(s)]
    BY <1>2, ConcatProperties
  <2> QED BY <1>2, <2>1
<1>4. /\ e[0] = ends[0] /\ e[l + (b - k)] = b
      /\ \A i \in 0 .. l + (b - k) : e[i] = IF i <= l THEN ends[i] ELSE k + (i - l)
  <2>1. 0 \in 0 .. l + (b - k) /\ l + (b - k) \in 0 .. l + (b - k) /\ 0 <= l
    BY <1>1
  <2>2. CASE b = k
    BY <2>1, <2>2, <1>1
  <2>3. CASE b # k
    <3>1. ~(l + (b - k) <= l) /\ k + ((l + (b - k)) - l) = b
      BY <1>1, <2>3
    <3> QED BY <2>1, <3>1
  <2> QED BY <2>2, <2>3
<1> HIDE DEF e, t
<1> HIDE DEF l
<1>5. ASSUME NEW i \in 0 .. Len(t) PROVE e[i] \in Nat
  <2>1. i \in 0 .. l + (b - k) /\ e[i] = IF i <= l THEN ends[i] ELSE k + (i - l)
    BY <1>3, <1>4
  <2>2. CASE i <= l
    <3>1. i \in 0 .. l
      BY <1>1, <2>1, <2>2
    <3> QED BY <1>1, <2>1, <2>2, <3>1
  <2>3. CASE ~(i <= l)
    BY <1>1, <2>1, <2>3
  <2> QED BY <2>2, <2>3
<1>6. ASSUME NEW i \in 1 .. Len(t) PROVE e[i - 1] <= e[i] /\ t[i] = Run(e[i - 1], e[i])
  <2>1. i \in 0 .. l + (b - k) /\ i - 1 \in 0 .. l + (b - k) /\ i \in 1 .. l + (b - k)
    BY <1>1, <1>3
  <2>2. CASE i <= l
    <3>1. i \in 1 .. l /\ i - 1 <= l
      BY <2>1, <2>2, <1>1
    <3>2. e[i] = ends[i] /\ e[i - 1] = ends[i - 1] /\ t[i] = s[i]
      BY <1>3, <1>4, <2>1, <2>2, <3>1
    <3>3. ends[i - 1] <= ends[i] /\ s[i] = Run(ends[i - 1], ends[i])
      BY <3>1 DEF Consecutive, l
    <3> QED BY <3>2, <3>3
  <2>3. CASE ~(i <= l)
    <3>1. i - l \in 1 .. b - k /\ i - 1 >= l
      BY <2>1, <2>3, <1>1
    <3>2. e[i - 1] = k + ((i - 1) - l) /\ e[i] = k + (i - l)
      <4>1. CASE i - 1 = l
        <5>1. ends[l] = k /\ i - 1 <= l /\ k + ((i - 1) - l) = k
          BY <1>1, <4>1 DEF l
        <5>2. e[i - 1] = ends[i - 1] /\ e[i] = k + (i - l)
          BY <1>4, <2>1, <2>3, <5>1
        <5> QED BY <4>1, <5>1, <5>2
      <4>2. CASE i - 1 # l
        <5>1. ~(i - 1 <= l)
          BY <1>1, <2>1, <3>1, <4>2
        <5> QED BY <1>4, <2>1, <2>3, <5>1
      <4> QED BY <4>1, <4>2
    <3>3. t[i] = <<k + (i - l)>>
      BY <1>3, <2>1, <2>3, <3>1 DEF Bytes
    <3> DEFINE a == k + ((i - 1) - l)
    <3>4. a \in Nat /\ k + (i - l) = a + 1
      BY <1>1, <3>1
    <3> HIDE DEF a
    <3>5. t[i] = Run(a, a + 1) /\ e[i] = a + 1 /\ e[i - 1] = a
      BY <3>2, <3>3, <3>4, OneByte DEF a
    <3> QED BY <3>4, <3>5
  <2> QED BY <2>2, <2>3
<1>7. Consecutive(t, e)
  BY <1>5, <1>6 DEF Consecutive
<1>8. FlattenSeq(t) = Run(e[0], e[Len(t)])
  BY <1>3, <1>7, ConsecutiveRuns
<1> QED BY <1>3, <1>4, <1>8 DEF t

\* Single bytes join to their run.
LEMMA FlattenBytes ==
  ASSUME NEW k \in Nat, NEW b \in Nat, k <= b
  PROVE  FlattenSeq(Bytes(k, b)) = Run(k, b)
<1> DEFINE none == [i \in 0 .. 0 |-> k]
<1>1. <<>> \in Seq(Seq(Nat)) /\ Len(<<>>) = 0 /\ Consecutive(<<>>, none) /\ none[0] = k
  BY DEF Consecutive
<1>2. none[Len(<<>>)] = k
  BY <1>1
<1> HIDE DEF none
<1>3. FlattenSeq(<<>> \o Bytes(k, b)) = Run(none[0], b)
  BY <1>1, <1>2, BytesFollow
<1>4. Bytes(k, b) \in Seq(Seq(Nat))
  BY BytesType
<1>5. <<>> \o Bytes(k, b) = Bytes(k, b)
  BY <1>4, ConcatEmptySeq
<1> QED BY <1>1, <1>3, <1>5

\* A read of a stream takes the next bytes, up to as many as asked for, and
\* leaves the rest.
LEMMA StreamReads ==
  ASSUME NEW k \in Nat, k <= bytes, bytes \in Nat, inbox = Bytes(k, bytes), NEW n \in Nat
  PROVE  \E j \in k .. bytes : StreamRead(n) = [data |-> Run(k, j), left |-> Bytes(j, bytes)]
<1> DEFINE r == Run(k, bytes)
           m == IF bytes - k < n THEN bytes - k ELSE n
<1>1. m \in 0 .. bytes - k /\ k + m \in k .. bytes /\ k + m \in Nat /\ bytes - k \in Nat
  OBVIOUS
<1>2. r \in Seq(Nat) /\ Len(r) = bytes - k
  BY <1>1 DEF Run
<1>3. FlattenSeq(inbox) = r
  BY FlattenBytes
<1>4. Cut(r, n) = SubSeq(r, 1, m)
  BY <1>2 DEF Cut
<1>5. SubSeq(r, 1, m) = Run(k, k + m)
  <2>1. (k + m) - k = m
    BY <1>1
  <2> HIDE DEF m
  <2>2. Run(k, k + m) = [i \in 1 .. m |-> k + i]
    BY <2>1 DEF Run
  <2>3. r = [i \in 1 .. bytes - k |-> k + i]
    BY DEF Run
  <2> HIDE DEF r
  <2>4. SubSeq(r, 1, m) = [i \in 1 .. m |-> r[i]]
    BY <1>1, <1>2
  <2>5. \A i \in 1 .. m : r[i] = k + i
    BY <1>1, <2>3
  <2> QED BY <2>2, <2>4, <2>5
<1>6. inbox \in Seq(Seq(Nat)) /\ Len(inbox) = bytes - k
  BY BytesType
<1>7. SubSeq(inbox, m + 1, Len(inbox)) = Bytes(k + m, bytes)
  <2> HIDE DEF m, r
  <2>1. /\ SubSeq(inbox, m + 1, bytes - k) = [i \in 1 .. (bytes - k) - m |-> inbox[m + i]]
        /\ (bytes - k) - m = bytes - (k + m)
    BY <1>1, <1>6
  <2>2. ASSUME NEW i \in 1 .. bytes - (k + m) PROVE inbox[m + i] = <<(k + m) + i>>
    <3>1. m + i \in 1 .. bytes - k /\ k + (m + i) = (k + m) + i
      BY <1>1
    <3>2. inbox[m + i] = <<k + (m + i)>>
      BY <3>1 DEF Bytes
    <3> QED BY <3>1, <3>2
  <2> QED BY <1>6, <2>1, <2>2 DEF Bytes
<1> HIDE DEF m, r
<1>8. Len(Run(k, k + m)) = m
  BY <1>1 DEF Run
<1>9. StreamRead(n) = [data |-> Run(k, k + m), left |-> Bytes(k + m, bytes)]
  BY <1>3, <1>4, <1>5, <1>7, <1>8 DEF StreamRead
<1> QED BY <1>1, <1>9

\* A stream: what was read are the bytes up to the k-th, in consecutive
\* chunks; the others are in the inbox.
StreamInv(k, ends) ==
  /\ got \in Seq(Seq(Nat))
  /\ Consecutive(got, ends) /\ ends[0] = 0 /\ ends[Len(got)] = k
  /\ arrived = Bytes(0, bytes) /\ inbox = Bytes(k, bytes)

\* Datagrams: k were taken from the inbox, and the chunks are the beginnings
\* of those among them that are not empty, at[i] the place of the i-th.
DatagramInv(k, at) ==
  /\ got \in Seq(Seq(Nat)) /\ arrived \in Seq(Seq(Nat))
  /\ inbox = [i \in 1 .. Len(arrived) - k |-> arrived[k + i]]
  /\ at \in [1 .. Len(got) -> {i \in 1 .. k : arrived[i] # <<>>}]
  /\ \A i \in 1 .. Len(got) : got[i] = Cut(arrived[at[i]], Hint)
  /\ \A i \in 1 .. Len(got) : \A j \in 1 .. i - 1 : at[j] < at[i]
  /\ \A i \in 1 .. k : arrived[i] # <<>> => \E j \in 1 .. Len(got) : at[j] = i

ReceivedInv ==
  /\ bytes \in Nat
  /\ kind # "udp" => \E k \in 0 .. bytes :
                       \E ends \in [0 .. Len(got) -> 0 .. bytes] : StreamInv(k, ends)
  /\ kind = "udp" => \E k \in 0 .. Len(arrived) :
                       \E at \in [1 .. Len(got) -> 1 .. Len(arrived)] : DatagramInv(k, at)

\* While the client negotiates it drives the channel on its own, and the
\* transceiver has none.
LinkInv ==
  /\ kind \in {"serial", "tcp", "udp"}
  /\ nego \in {"no", "closing", "closed", "magic", "reply", "rebind"}
  /\ nego \notin {"no", "closing"} => ~channelOpen
  /\ channelOpen => ReceivedInv

\* The invariant of the link holds initially.
LEMMA InitLinkInv == LinkInit => LinkInv
BY DEF LinkInit, Init, ChannelInit, LinkInv

\* Nothing was read on a connection that begins.
LEMMA BeginReceived ==
  ASSUME kind' = kind, got' = <<>>, inbox' = <<>>, arrived' = <<>>, bytes' = 0
  PROVE  ReceivedInv'
<1>1. CASE kind # "udp"
  <2> DEFINE e == [i \in 0 .. 0 |-> 0]
  <2>1. e \in [0 .. Len(got') -> 0 .. bytes'] /\ 0 \in 0 .. bytes'
    OBVIOUS
  <2>2. e[0] = 0 /\ Len(got') = 0 /\ got' \in Seq(Seq(Nat))
    OBVIOUS
  <2> HIDE DEF e
  <2>3. Consecutive(got', e)
    BY <2>2 DEF Consecutive
  <2>4. Bytes(0, bytes') = <<>>
    BY DEF Bytes
  <2>5. StreamInv(0, e)'
    BY <2>2, <2>3, <2>4 DEF StreamInv
  <2> QED BY <1>1, <2>1, <2>5 DEF ReceivedInv
<1>2. CASE kind = "udp"
  <2> DEFINE at == [i \in 1 .. 0 |-> 0]
  <2>1. at \in [1 .. Len(got') -> 1 .. Len(arrived')] /\ 0 \in 0 .. Len(arrived')
    OBVIOUS
  <2>2. DatagramInv(0, at)'
    BY DEF DatagramInv
  <2> QED BY <1>2, <2>1, <2>2 DEF ReceivedInv
<1> QED BY <1>1, <1>2

\* The device sends bytes.
LEMMA BytesArrive ==
  ASSUME ReceivedInv, DeviceSends, kind # "udp", got' = got
  PROVE  ReceivedInv'
<1>1. PICK k \in 0 .. bytes : \E ends \in [0 .. Len(got) -> 0 .. bytes] : StreamInv(k, ends)
  BY DEF ReceivedInv
<1>2. PICK ends \in [0 .. Len(got) -> 0 .. bytes] : StreamInv(k, ends)
  BY <1>1
<1>3. PICK n \in 1 .. MaxBytes - bytes :
        /\ inbox' = inbox \o Packets(n) /\ arrived' = arrived \o Packets(n)
        /\ bytes' = bytes + n
  BY DEF DeviceSends
<1>4. kind' = kind
  BY DEF DeviceSends
<1>5. bytes \in Nat /\ n \in Nat /\ bytes' \in Nat /\ bytes <= bytes'
  BY <1>3, ChannelAssumption DEF ReceivedInv
<1>6. ASSUME NEW a \in 0 .. bytes PROVE Bytes(a, bytes) \o Packets(n) = Bytes(a, bytes')
  <2> DEFINE s == Bytes(a, bytes)
             t == Packets(n)
             u == Bytes(a, bytes')
  <2>1. Packets(n) = [i \in 1 .. n |-> <<bytes + i>>]
    BY DEF Packets
  <2>2. /\ s \in Seq(Seq(Nat)) /\ Len(s) = bytes - a
        /\ \A i \in 1 .. bytes - a : s[i] = <<a + i>>
    <3>1. a \in Nat /\ a <= bytes
      BY <1>5
    <3> QED BY <1>5, <3>1, BytesType
  <2>3. t \in Seq(Seq(Nat)) /\ Len(t) = n /\ \A i \in 1 .. n : t[i] = <<bytes + i>>
    <3>1. \A i \in 1 .. n : <<bytes + i>> \in Seq(Nat)
      BY <1>5
    <3> QED BY <1>5, <2>1, <3>1
  <2>4. /\ u \in Seq(Seq(Nat)) /\ Len(u) = (bytes - a) + n
        /\ \A i \in 1 .. (bytes - a) + n : u[i] = <<a + i>>
    <3>1. a \in Nat /\ a <= bytes' /\ bytes' - a = (bytes - a) + n
      BY <1>3, <1>5
    <3>2. /\ u \in Seq(Seq(Nat)) /\ Len(u) = bytes' - a
          /\ \A i \in 1 .. bytes' - a : u[i] = <<a + i>>
      BY <1>5, <3>1, BytesType
    <3> HIDE DEF u
    <3> QED BY <3>1, <3>2
  <2> HIDE DEF s, t, u
  <2>5. /\ s \o t \in Seq(Seq(Nat)) /\ Len(s \o t) = (bytes - a) + n
        /\ \A i \in 1 .. (bytes - a) + n :
             (s \o t)[i] = IF i <= bytes - a THEN s[i] ELSE t[i - (bytes - a)]
    <3>1. /\ s \o t \in Seq(Seq(Nat)) /\ Len(s \o t) = Len(s) + Len(t)
          /\ \A i \in 1 .. Len(s) + Len(t) :
               (s \o t)[i] = IF i <= Len(s) THEN s[i] ELSE t[i - Len(s)]
      BY <2>2, <2>3, ConcatProperties
    <3> QED BY <2>2, <2>3, <3>1
  <2>6. ASSUME NEW i \in 1 .. (bytes - a) + n PROVE (s \o t)[i] = u[i]
    <3>1. CASE i <= bytes - a
      <4>1. i \in 1 .. bytes - a
        BY <1>5, <3>1
      <4> QED BY <2>2, <2>4, <2>5, <3>1, <4>1
    <3>2. CASE ~(i <= bytes - a)
      <4>1. i - (bytes - a) \in 1 .. n /\ bytes + (i - (bytes - a)) = a + i
        BY <1>5, <3>2
      <4>2. t[i - (bytes - a)] = <<bytes + (i - (bytes - a))>>
        BY <2>3, <4>1
      <4> QED BY <2>4, <2>5, <3>2, <4>1, <4>2
    <3> QED BY <3>1, <3>2
  <2>7. s \o t = u
    BY <2>4, <2>5, <2>6, SeqEqual
  <2> QED BY <2>7 DEF s, t, u
<1>7. inbox' = Bytes(k, bytes') /\ arrived' = Bytes(0, bytes')
  <2>1. 0 \in 0 .. bytes
    BY <1>5
  <2> QED BY <1>2, <1>3, <1>6, <2>1 DEF StreamInv
<1>8. StreamInv(k, ends)'
  BY <1>2, <1>7 DEF StreamInv
<1>9. k \in 0 .. bytes' /\ ends \in [0 .. Len(got') -> 0 .. bytes']
  BY <1>2, <1>5
<1> QED BY <1>4, <1>5, <1>8, <1>9 DEF ReceivedInv

\* The device sends a datagram.
LEMMA DatagramArrives ==
  ASSUME ReceivedInv, DeviceSends, kind = "udp", got' = got
  PROVE  ReceivedInv'
<1>1. PICK k \in 0 .. Len(arrived) :
        \E at \in [1 .. Len(got) -> 1 .. Len(arrived)] : DatagramInv(k, at)
  BY DEF ReceivedInv
<1>2. PICK at \in [1 .. Len(got) -> 1 .. Len(arrived)] : DatagramInv(k, at)
  BY <1>1
<1>3. PICK n \in 0 .. MaxBytes - bytes :
        /\ inbox' = inbox \o Packets(n) /\ arrived' = arrived \o Packets(n)
        /\ bytes' = bytes + n
  BY DEF DeviceSends
<1>4. kind' = kind /\ bytes \in Nat /\ n \in Nat /\ bytes' \in Nat
  BY <1>3, ChannelAssumption DEF DeviceSends, ReceivedInv
<1> DEFINE p == Packet(n)
           l == Len(arrived)
<1>5. p \in Seq(Nat) /\ Packets(n) = <<p>>
  BY <1>4 DEF Packet, Packets
<1> HIDE DEF p
<1>6. arrived \in Seq(Seq(Nat)) /\ l \in Nat
  BY <1>2 DEF DatagramInv
<1>7. /\ arrived' \in Seq(Seq(Nat)) /\ Len(arrived') = l + 1
      /\ \A i \in 1 .. l : arrived'[i] = arrived[i]
      /\ arrived'[l + 1] = p
  BY <1>3, <1>5, <1>6
<1>8. inbox = [i \in 1 .. l - k |-> arrived[k + i]]
  BY <1>2 DEF DatagramInv
<1> HIDE DEF l
<1>9. l - k \in Nat
  BY <1>6 DEF l
<1>10. inbox \in Seq(Seq(Nat)) /\ Len(inbox) = l - k
  <2>1. \A i \in 1 .. l - k : arrived[k + i] \in Seq(Nat)
    <3>1. \A i \in 1 .. l - k : k + i \in 1 .. l
      BY <1>6, <1>9
    <3> QED BY <1>6, <3>1 DEF l
  <2> QED BY <1>8, <1>9, <2>1
<1>11. inbox' = [i \in 1 .. Len(arrived') - k |-> arrived'[k + i]]
  <2> DEFINE u == [i \in 1 .. (l - k) + 1 |-> arrived'[k + i]]
  <2>1. ASSUME NEW i \in 1 .. (l - k) + 1 PROVE (inbox \o <<p>>)[i] = arrived'[k + i]
    <3>1. CASE i <= l - k
      <4>1. i \in 1 .. l - k /\ k + i \in 1 .. l
        BY <1>6, <1>9, <3>1
      <4>2. (inbox \o <<p>>)[i] = inbox[i]
        BY <1>5, <1>10, <4>1
      <4> QED BY <1>7, <1>8, <4>1, <4>2
    <3>2. CASE ~(i <= l - k)
      <4>1. i = (l - k) + 1 /\ k + i = l + 1
        BY <1>6, <1>9, <3>2
      <4>2. (inbox \o <<p>>)[i] = p
        BY <1>5, <1>10, <4>1
      <4> QED BY <1>7, <4>1, <4>2
    <3> QED BY <3>1, <3>2
  <2>2. Len(inbox \o <<p>>) = (l - k) + 1 /\ inbox \o <<p>> \in Seq(Seq(Nat))
    BY <1>5, <1>10
  <2>3. u \in Seq(Seq(Nat)) /\ Len(u) = (l - k) + 1
    <3>1. \A i \in 1 .. (l - k) + 1 : arrived'[k + i] \in Seq(Nat)
      <4>1. \A i \in 1 .. (l - k) + 1 : k + i \in 1 .. l + 1
        BY <1>6, <1>9
      <4>2. \A j \in 1 .. l + 1 : arrived'[j] \in Seq(Nat)
        BY <1>6, <1>7
      <4> QED BY <4>1, <4>2
    <3>2. (l - k) + 1 \in Nat
      BY <1>9
    <3> HIDE DEF p
    <3> QED BY <3>1, <3>2
  <2>4. \A i \in 1 .. (l - k) + 1 : (inbox \o <<p>>)[i] = u[i]
    BY <2>1
  <2> HIDE DEF u
  <2>5. inbox \o <<p>> = u
    BY <2>2, <2>3, <2>4, SeqEqual
  <2>6. Len(arrived') - k = (l - k) + 1
    BY <1>6, <1>7
  <2> QED BY <1>3, <1>5, <2>5, <2>6 DEF u
<1>12. k \in 0 .. l /\ k \in 0 .. Len(arrived')
  BY <1>6, <1>7 DEF l
<1>13. /\ at \in [1 .. Len(got) -> {i \in 1 .. k : arrived'[i] # <<>>}]
       /\ \A i \in 1 .. Len(got) : arrived'[at[i]] = arrived[at[i]]
       /\ \A i \in 1 .. k : arrived'[i] = arrived[i]
  <2>1. at \in [1 .. Len(got) -> {i \in 1 .. k : arrived[i] # <<>>}]
    BY <1>2 DEF DatagramInv
  <2>2. \A i \in 1 .. k : arrived'[i] = arrived[i]
    BY <1>6, <1>7, <1>12
  <2> QED BY <2>1, <2>2
<1>14. DatagramInv(k, at)'
  <2>1. got' \in Seq(Seq(Nat)) /\ Len(got') = Len(got)
    BY <1>2 DEF DatagramInv
  <2>2. \A i \in 1 .. Len(got) : got[i] = Cut(arrived[at[i]], Hint)
    BY <1>2 DEF DatagramInv
  <2>3. \A i \in 1 .. Len(got) : got[i] = Cut(arrived'[at[i]], Hint)
    BY <1>13, <2>2
  <2>4. \A i \in 1 .. Len(got) : \A j \in 1 .. i - 1 : at[j] < at[i]
    BY <1>2 DEF DatagramInv
  <2>5. \A i \in 1 .. k : arrived'[i] # <<>> => \E j \in 1 .. Len(got) : at[j] = i
    BY <1>2, <1>13 DEF DatagramInv
  <2> QED BY <1>7, <1>11, <1>13, <2>1, <2>3, <2>4, <2>5 DEF DatagramInv
<1>15. at \in [1 .. Len(got') -> 1 .. Len(arrived')]
  <2>1. \A i \in 1 .. Len(got) : at[i] \in 1 .. k
    BY <1>13
  <2>2. 1 .. k \subseteq 1 .. Len(arrived')
    BY <1>6, <1>7, <1>12
  <2> QED BY <2>1, <2>2
<1> QED BY <1>4, <1>12, <1>14, <1>15 DEF ReceivedInv

\* What a read answers is added to the chunks, unless it is empty.
Taken == got' = IF Read.data = <<>> THEN got ELSE Append(got, Read.data)

\* A read of a stream puts a run of bytes behind the chunks.
LEMMA StreamTaken ==
  ASSUME ReceivedInv, TakeRead, Taken, kind \in {"serial", "tcp"}, WaitReady(1)
  PROVE  ReceivedInv'
<1>1. PICK k \in 0 .. bytes : \E ends \in [0 .. Len(got) -> 0 .. bytes] : StreamInv(k, ends)
  BY DEF ReceivedInv
<1>2. PICK ends \in [0 .. Len(got) -> 0 .. bytes] : StreamInv(k, ends)
  BY <1>1
<1>3. /\ k \in Nat /\ k <= bytes /\ bytes \in Nat /\ inbox = Bytes(k, bytes)
      /\ kind' = kind /\ bytes' = bytes /\ arrived' = arrived
  BY <1>2 DEF ReceivedInv, StreamInv, TakeRead, deviceVars
<1>4. HintedSize \in Nat
  <2>1. Len(Run(k, bytes)) = bytes - k
    BY <1>3 DEF Run
  <2>2. Available = bytes - k
    BY <1>3, <2>1, FlattenBytes DEF Available
  <2> QED BY <1>3, <2>2, ChannelAssumption DEF HintedSize
<1>5. Read = StreamRead(HintedSize)
  BY DEF Read, SerialRead, TcpRead, WaitReady, SerialReady
<1>6. PICK j \in k .. bytes : Read = [data |-> Run(k, j), left |-> Bytes(j, bytes)]
  BY <1>3, <1>4, <1>5, StreamReads
<1>7. j \in Nat /\ k <= j /\ j \in 0 .. bytes
  BY <1>3
<1>8. inbox' = Bytes(j, bytes) /\ Read.data = Run(k, j)
  BY <1>6 DEF TakeRead
<1>9. CASE Read.data = <<>>
  <2>1. j = k
    <3>1. Len(Run(k, j)) = j - k
      BY <1>7, <1>3 DEF Run
    <3>2. Len(Run(k, j)) = 0
      BY <1>8, <1>9
    <3> QED BY <1>3, <1>7, <3>1, <3>2
  <2>2. got' = got
    BY <1>9 DEF Taken
  <2>3. StreamInv(k, ends)'
    BY <1>2, <1>3, <1>8, <2>1, <2>2 DEF StreamInv
  <2> QED BY <1>2, <1>3, <2>2, <2>3 DEF ReceivedInv
<1>10. CASE Read.data # <<>>
  <2> DEFINE l == Len(got)
  <2>1. got \in Seq(Seq(Nat)) /\ l \in Nat
    BY <1>2 DEF StreamInv
  <2>2. Run(k, j) \in Seq(Nat)
    BY <1>3, <1>7 DEF Run
  <2>3. /\ got' \in Seq(Seq(Nat)) /\ Len(got') = l + 1
        /\ \A i \in 1 .. l : got'[i] = got[i]
        /\ got'[l + 1] = Run(k, j)
    BY <1>8, <1>10, <2>1, <2>2 DEF Taken
  <2>4. /\ \A i \in 0 .. l : ends[i] \in 0 .. bytes
        /\ ends[0] = 0 /\ ends[l] = k
        /\ \A i \in 1 .. l : ends[i - 1] <= ends[i] /\ got[i] = Run(ends[i - 1], ends[i])
    BY <1>2 DEF StreamInv, Consecutive
  <2> HIDE DEF l
  <2>5. PICK e \in [0 .. l + 1 -> 0 .. bytes] : (\A i \in 0 .. l : e[i] = ends[i]) /\ e[l + 1] = j
    <3> DEFINE new == [i \in 0 .. l + 1 |-> IF i <= l THEN ends[i] ELSE j]
    <3>1. \A i \in 0 .. l : i \in 0 .. l + 1 /\ i <= l
      BY <2>1
    <3>2. ~(l + 1 <= l) /\ l + 1 \in 0 .. l + 1
      BY <2>1
    <3>3. \A i \in 0 .. l + 1 : i <= l => i \in 0 .. l
      BY <2>1
    <3>4. /\ \A i \in 0 .. l : new[i] = ends[i]
          /\ new[l + 1] = j /\ new \in [0 .. l + 1 -> 0 .. bytes]
      BY <1>7, <2>4, <3>1, <3>2, <3>3
    <3> HIDE DEF new
    <3> QED BY <3>4
  <2>6. ASSUME NEW i \in 1 .. l + 1
        PROVE  e[i - 1] <= e[i] /\ got'[i] = Run(e[i - 1], e[i])
    <3>1. CASE i = l + 1
      <4>1. i - 1 = l /\ l \in 0 .. l
        BY <2>1, <3>1
      <4>2. e[i - 1] = k /\ e[i] = j
        BY <2>4, <2>5, <3>1, <4>1
      <4> QED BY <1>7, <2>3, <3>1, <4>2
    <3>2. CASE i # l + 1
      <4>1. i \in 1 .. l /\ i \in 0 .. l /\ i - 1 \in 0 .. l
        BY <2>1, <3>2
      <4>2. e[i - 1] = ends[i - 1] /\ e[i] = ends[i] /\ got'[i] = got[i]
        BY <2>3, <2>5, <4>1
      <4> QED BY <2>4, <4>1, <4>2
    <3> QED BY <3>1, <3>2
  <2>7. \A i \in 0 .. l + 1 : e[i] \in Nat
    BY <1>3, <2>5
  <2>8. 0 \in 0 .. l /\ e[0] = 0
    BY <2>1, <2>4, <2>5
  <2>9. Consecutive(got', e)
    BY <2>3, <2>6, <2>7 DEF Consecutive
  <2>10. StreamInv(j, e)'
    BY <1>2, <1>3, <1>8, <2>3, <2>5, <2>8, <2>9 DEF StreamInv
  <2> QED BY <1>3, <1>7, <2>3, <2>5, <2>10 DEF ReceivedInv
<1> QED BY <1>9, <1>10

\* The beginning of a datagram is empty only if the datagram is.
LEMMA CutProperties ==
  ASSUME NEW s \in Seq(Nat)
  PROVE  Cut(s, Hint) \in Seq(Nat) /\ (Cut(s, Hint) = <<>> <=> s = <<>>)
<1> DEFINE m == IF Len(s) < Hint THEN Len(s) ELSE Hint
<1>1. Hint \in Nat \ {0} /\ Len(s) \in Nat
  BY ChannelAssumption
<1>2. m \in 0 .. Len(s) /\ (m = 0 <=> Len(s) = 0)
  BY <1>1
<1> HIDE DEF m
<1>3. SubSeq(s, 1, m) \in Seq(Nat) /\ Len(SubSeq(s, 1, m)) = m
  BY <1>1, <1>2
<1>4. Cut(s, Hint) = SubSeq(s, 1, m)
  BY DEF Cut, m
<1>5. SubSeq(s, 1, m) = <<>> <=> m = 0
  <2> DEFINE u == SubSeq(s, 1, m)
  <2>1. u \in Seq(Nat) /\ Len(u) = m
    BY <1>3
  <2> HIDE DEF u
  <2>2. u = <<>> <=> m = 0
    BY <2>1, EmptySeq
  <2> QED BY <2>2 DEF u
<1> QED BY <1>2, <1>3, <1>4, <1>5

\* A read of a datagram socket puts the beginning of the next datagram behind
\* the chunks, unless it is empty.
LEMMA DatagramTaken ==
  ASSUME ReceivedInv, TakeRead, Taken, kind = "udp"
  PROVE  ReceivedInv'
<1>1. PICK k \in 0 .. Len(arrived) :
        \E at \in [1 .. Len(got) -> 1 .. Len(arrived)] : DatagramInv(k, at)
  BY DEF ReceivedInv
<1>2. PICK at \in [1 .. Len(got) -> 1 .. Len(arrived)] : DatagramInv(k, at)
  BY <1>1
<1>3. kind' = kind /\ bytes' = bytes /\ bytes \in Nat /\ arrived' = arrived /\ inbox' = Read.left
  BY DEF ReceivedInv, TakeRead, deviceVars
<1> DEFINE n == Len(arrived)
           l == Len(got)
<1>4. /\ got \in Seq(Seq(Nat)) /\ arrived \in Seq(Seq(Nat)) /\ l \in Nat /\ n \in Nat
      /\ inbox = [i \in 1 .. n - k |-> arrived[k + i]]
      /\ at \in [1 .. l -> {i \in 1 .. k : arrived[i] # <<>>}]
      /\ \A i \in 1 .. l : got[i] = Cut(arrived[at[i]], Hint)
      /\ \A i \in 1 .. l : \A j \in 1 .. i - 1 : at[j] < at[i]
      /\ \A i \in 1 .. k : arrived[i] # <<>> => \E j \in 1 .. l : at[j] = i
  BY <1>2 DEF DatagramInv
<1> HIDE DEF n, l
<1>5. k \in 0 .. n /\ k \in Nat /\ n - k \in Nat
  BY <1>4 DEF n
<1>6. \A i \in 1 .. n : arrived[i] \in Seq(Nat)
  BY <1>4 DEF n
<1>7. inbox \in Seq(Seq(Nat)) /\ Len(inbox) = n - k
  <2>1. \A i \in 1 .. n - k : k + i \in 1 .. n
    BY <1>4, <1>5
  <2>2. \A i \in 1 .. n - k : arrived[k + i] \in Seq(Nat)
    BY <1>6, <2>1
  <2> DEFINE u == [i \in 1 .. n - k |-> arrived[k + i]]
  <2>3. u \in Seq(Seq(Nat)) /\ Len(u) = n - k
    BY <1>5, <2>2
  <2> HIDE DEF u
  <2> QED BY <1>4, <2>3 DEF u
<1>8. CASE inbox = <<>>
  <2>1. Read = [data |-> <<>>, left |-> <<>>]
    BY <1>8 DEF Read, UdpRead
  <2>2. got' = got /\ inbox' = inbox
    BY <1>3, <1>8, <2>1 DEF Taken
  <2>3. DatagramInv(k, at)'
    BY <1>2, <1>3, <2>2 DEF DatagramInv
  <2> QED BY <1>2, <1>3, <2>2, <2>3 DEF ReceivedInv
<1>9. CASE inbox # <<>>
  <2> DEFINE p == arrived[k + 1]
  <2>1. n - k # 0 /\ k + 1 \in 1 .. n /\ 1 \in 1 .. n - k /\ k + 1 \in 0 .. n
    BY <1>4, <1>5, <1>7, <1>9
  <2>2. Head(inbox) = p /\ p \in Seq(Nat)
    BY <1>4, <1>6, <1>7, <1>9, <2>1
  <2>3. Read = [data |-> Cut(p, Hint), left |-> Tail(inbox)]
    BY <1>9, <2>2 DEF Read, UdpRead, HintedSize
  <2>4. Tail(inbox) = [i \in 1 .. n - (k + 1) |-> arrived[(k + 1) + i]]
    <3>1. Tail(inbox) = [i \in 1 .. (n - k) - 1 |-> inbox[i + 1]]
      <4>1. /\ Tail(inbox) \in Seq(Seq(Nat)) /\ Len(Tail(inbox)) = Len(inbox) - 1
            /\ \A i \in 1 .. Len(Tail(inbox)) : Tail(inbox)[i] = inbox[i + 1]
        BY <1>7, <1>9, HeadTailProperties
      <4> DEFINE t == Tail(inbox)
      <4>2. t \in Seq(Seq(Nat)) /\ Len(t) = (n - k) - 1 /\ \A i \in 1 .. (n - k) - 1 : t[i] = inbox[i + 1]
        BY <1>7, <4>1
      <4> HIDE DEF t
      <4>3. t = [i \in 1 .. (n - k) - 1 |-> t[i]]
        BY <4>2
      <4> QED BY <4>2, <4>3 DEF t
    <3>2. (n - k) - 1 = n - (k + 1)
      BY <1>4, <1>5
    <3>3. ASSUME NEW i \in 1 .. n - (k + 1) PROVE inbox[i + 1] = arrived[(k + 1) + i]
      <4>1. i + 1 \in 1 .. n - k /\ k + (i + 1) = (k + 1) + i
        BY <1>4, <1>5
      <4>2. inbox[i + 1] = arrived[k + (i + 1)]
        BY <1>4, <4>1
      <4> QED BY <4>1, <4>2
    <3> QED BY <3>1, <3>2, <3>3
  <2>5. inbox' = [i \in 1 .. Len(arrived') - (k + 1) |-> arrived'[(k + 1) + i]]
    BY <1>3, <2>3, <2>4 DEF n
  <2>6. Cut(p, Hint) \in Seq(Nat) /\ (Cut(p, Hint) = <<>> <=> p = <<>>)
    BY <2>2, CutProperties
  <2>7. \A i \in 1 .. k + 1 : i \in 1 .. k \/ i = k + 1
    BY <1>5
  <2>8. CASE p = <<>>
    <3>1. got' = got
      BY <2>3, <2>6, <2>8 DEF Taken
    <3>2. at \in [1 .. l -> {i \in 1 .. k + 1 : arrived[i] # <<>>}]
      <4>1. 1 .. k \subseteq 1 .. k + 1
        BY <1>5
      <4> QED BY <1>4, <4>1
    <3>3. \A i \in 1 .. k + 1 : arrived[i] # <<>> => \E j \in 1 .. l : at[j] = i
      BY <1>4, <2>7, <2>8
    <3>4. DatagramInv(k + 1, at)'
      BY <1>3, <1>4, <2>5, <3>1, <3>2, <3>3 DEF DatagramInv, l
    <3> QED BY <1>2, <1>3, <2>1, <3>1, <3>4 DEF ReceivedInv, n
  <2>9. CASE p # <<>>
    <3>1. /\ got' \in Seq(Seq(Nat)) /\ Len(got') = l + 1
          /\ \A i \in 1 .. l : got'[i] = got[i]
          /\ got'[l + 1] = Cut(p, Hint)
      <4>1. got' = Append(got, Cut(p, Hint))
        BY <2>3, <2>6, <2>9 DEF Taken
      <4> HIDE DEF p
      <4> QED BY <1>4, <2>6, <4>1 DEF l
    <3>2. /\ \A i \in 1 .. l + 1 : i \in 1 .. l \/ i = l + 1
          /\ \A i \in 1 .. l : i \in 1 .. l + 1 /\ i # l + 1
          /\ l + 1 \in 1 .. l + 1
      BY <1>4
    <3>3. \E new : /\ \A i \in 1 .. l : new[i] = at[i]
                   /\ new[l + 1] = k + 1 /\ new = [i \in 1 .. l + 1 |-> new[i]]
      <4> DEFINE new == [i \in 1 .. l + 1 |-> IF i = l + 1 THEN k + 1 ELSE at[i]]
      <4>1. (\A i \in 1 .. l : new[i] = at[i]) /\ new[l + 1] = k + 1
        BY <3>2
      <4>2. new = [i \in 1 .. l + 1 |-> new[i]]
        OBVIOUS
      <4> HIDE DEF new
      <4> QED BY <4>1, <4>2
    <3>4. PICK new : /\ \A i \in 1 .. l : new[i] = at[i]
                    /\ new[l + 1] = k + 1 /\ new = [i \in 1 .. l + 1 |-> new[i]]
      BY <3>3
    <3>5. \A i \in 1 .. l : at[i] \in 1 .. k /\ arrived[at[i]] # <<>>
      BY <1>4
    <3>6. k + 1 \in 1 .. k + 1 /\ \A i \in 1 .. k : i \in 1 .. k + 1 /\ i < k + 1
      BY <1>5
    <3>7. \A i \in 1 .. l + 1 : new[i] \in 1 .. k + 1 /\ arrived[new[i]] # <<>>
      BY <2>9, <3>2, <3>4, <3>5, <3>6
    <3>8. new \in [1 .. l + 1 -> {i \in 1 .. k + 1 : arrived[i] # <<>>}]
      BY <3>4, <3>7
    <3>9. \A i \in 1 .. l + 1 : got'[i] = Cut(arrived[new[i]], Hint)
      BY <1>4, <3>1, <3>2, <3>4
    <3>10. \A i \in 1 .. l + 1 : \A j \in 1 .. i - 1 : new[j] < new[i]
      <4> SUFFICES ASSUME NEW i \in 1 .. l + 1, NEW j \in 1 .. i - 1 PROVE new[j] < new[i]
        OBVIOUS
      <4>1. j \in 1 .. l
        BY <1>4
      <4>2. CASE i \in 1 .. l
        BY <1>4, <3>4, <4>1, <4>2
      <4>3. CASE i = l + 1
        BY <3>4, <3>5, <3>6, <4>1, <4>3
      <4> QED BY <3>2, <4>2, <4>3
    <3>11. \A i \in 1 .. k + 1 : arrived[i] # <<>> => \E j \in 1 .. l + 1 : new[j] = i
      <4> SUFFICES ASSUME NEW i \in 1 .. k + 1, arrived[i] # <<>>
                   PROVE  \E j \in 1 .. l + 1 : new[j] = i
        OBVIOUS
      <4>1. CASE i \in 1 .. k
        <5>1. PICK j \in 1 .. l : at[j] = i
          BY <1>4, <4>1
        <5>2. j \in 1 .. l + 1 /\ new[j] = i
          BY <3>2, <3>4, <5>1
        <5> QED BY <5>2
      <4>2. CASE i = k + 1
        <5>1. new[l + 1] = i
          BY <3>4, <4>2
        <5> QED BY <3>2, <5>1
      <4> QED BY <2>7, <4>1, <4>2
    <3>12. DatagramInv(k + 1, new)'
      BY <1>3, <1>4, <2>5, <3>1, <3>8, <3>9, <3>10, <3>11 DEF DatagramInv
    <3>13. new \in [1 .. Len(got') -> 1 .. Len(arrived')]
      <4>1. \A i \in 1 .. k + 1 : i \in 1 .. n
        BY <1>4, <1>5, <2>1
      <4> QED BY <1>3, <3>1, <3>8, <4>1 DEF n
    <3> QED BY <1>3, <2>1, <3>12, <3>13 DEF ReceivedInv, n
  <2> QED BY <2>8, <2>9
<1> QED BY <1>8, <1>9

\* Steps that neither bring nor take bytes.
LEMMA ReceivedKept ==
  ASSUME LinkInv, UNCHANGED <<kind, bytes, inbox, arrived, got, nego>>, channelOpen' => channelOpen
  PROVE  LinkInv'
<1>1. /\ kind' = kind /\ bytes' = bytes /\ inbox' = inbox /\ arrived' = arrived
      /\ got' = got /\ nego' = nego
  OBVIOUS
<1>2. ReceivedInv' <=> ReceivedInv
  <2>1. \A k, ends : StreamInv(k, ends)' <=> StreamInv(k, ends)
    BY <1>1 DEF StreamInv
  <2>2. \A k, at : DatagramInv(k, at)' <=> DatagramInv(k, at)
    BY <1>1 DEF DatagramInv
  <2> QED BY <1>1, <2>1, <2>2 DEF ReceivedInv
<1> QED BY <1>1, <1>2 DEF LinkInv

\* Every step keeps the invariant of the link.
LEMMA LinkInvStep == LinkInv /\ LifeInv /\ [LinkNext]_linkVars => LinkInv'
<1> SUFFICES ASSUME LinkInv, LifeInv, [LinkNext]_linkVars PROVE LinkInv'
  OBVIOUS
<1>1. CASE LinkConnect
  <2>1. nego' = "no" /\ got' = <<>>
    BY <1>1 DEF LinkConnect
  <2>2. CASE ConnectOk /\ OpenAndFlush
    <3>1. kind' = kind /\ inbox' = <<>> /\ arrived' = <<>> /\ bytes' = 0
      BY <2>2 DEF OpenAndFlush
    <3>2. ReceivedInv'
      BY <2>1, <3>1, BeginReceived
    <3> QED BY <2>1, <3>1, <3>2 DEF LinkInv
  <2>3. CASE ConnectOpenFails /\ OpenFails
    <3>1. ~channelOpen' /\ kind' = kind
      BY <2>3 DEF ConnectOpenFails, OpenFails, channelVars, LifeInv
    <3> QED BY <2>1, <3>1 DEF LinkInv
  <2> QED BY <1>1, <2>2, <2>3 DEF LinkConnect
<1>2. CASE LinkDisconnect
  <2>1. UNCHANGED <<channelOpen, kind, bytes, inbox, arrived, got, nego>>
    BY <1>2 DEF LinkDisconnect, Disconnect, DisconnectUnopened, channelVars
  <2> QED BY <2>1, ReceivedKept
<1>3. CASE LinkClosing
  <2>1. CASE (WakeThreads \/ JoinDecoder \/ JoinRx) /\ UNCHANGED <<channelVars, got, nego>>
    <3>1. UNCHANGED <<channelOpen, kind, bytes, inbox, arrived, got, nego>>
      BY <2>1 DEF WakeThreads, JoinDecoder, JoinRx, channelVars
    <3> QED BY <3>1, ReceivedKept
  <2>2. CASE CloseChannel /\ Close /\ nego' = IF nego = "closing" THEN "closed" ELSE nego
    <3>1. ~channelOpen' /\ kind' = kind
      BY <2>2 DEF CloseChannel, Close, deviceVars
    <3> QED BY <2>2, <3>1 DEF LinkInv
  <2> QED BY <1>3, <2>1, <2>2 DEF LinkClosing
<1>4. CASE Send
  <2>1. UNCHANGED <<channelOpen, kind, bytes, inbox, arrived, got, nego>>
    BY <1>4 DEF Send, vars, deviceVars
  <2> QED BY <2>1, ReceivedKept
<1>5. CASE Negotiate
  <2>1. UNCHANGED <<channelOpen, kind, bytes, inbox, arrived, got>> /\ nego' = "closing"
    BY <1>5 DEF Negotiate, Disconnect, channelVars
  <2>2. ReceivedInv => ReceivedInv'
    BY <2>1 DEF ReceivedInv, StreamInv, DatagramInv
  <2> QED BY <2>1, <2>2 DEF LinkInv
<1>6. CASE Negotiation
  <2>1. nego \notin {"no", "closing"} /\ channelOpen' = channelOpen /\ kind' = kind
    BY <1>6 DEF Negotiation, NegotiateOpen, NegotiateMagic, NegotiateWaits, NegotiateReads,
                vars, OpenAndFlush, OpenFails, WaitOn, channelVars, deviceVars
  <2>2. nego' \in {"magic", "reply", "rebind"}
    BY <1>6 DEF Negotiation, NegotiateOpen, NegotiateMagic, NegotiateWaits, NegotiateReads
  <2> QED BY <2>1, <2>2 DEF LinkInv
<1>7. CASE LinkRxRead \/ LinkRxReadsNothing
  <2>1. /\ WaitReady(1) /\ TakeRead /\ Taken
        /\ nego' = nego /\ channelOpen' = channelOpen /\ kind' = kind
    BY <1>7 DEF LinkRxRead, LinkRxReadsNothing, Taken, TakeRead, RxRead, RxReadsNothing, RxGoes,
                deviceVars
  <2>2. ReceivedInv => ReceivedInv'
    BY <2>1, StreamTaken, DatagramTaken DEF LinkInv
  <2> QED BY <2>1, <2>2 DEF LinkInv
<1>8. CASE LinkRxCheck \/ LinkRxWaits \/ LinkRxNothing \/ LinkRxWaitFails \/ LinkRxLosesPort
             \/ LinkRxPush \/ LinkDec
  <2>1. UNCHANGED <<kind, bytes, inbox, arrived, got, nego>>
    BY <1>8 DEF LinkRxCheck, LinkRxWaits, LinkRxNothing, LinkRxWaitFails, LinkRxLosesPort, LinkRxPush,
                LinkDec, WaitOn, channelVars, deviceVars
  <2>2. channelOpen' = channelOpen
    <3>1. CASE LinkRxWaits
      BY <3>1 DEF LinkRxWaits, vars
    <3>2. CASE LinkDec
      BY <3>2 DEF LinkDec, Dec, DecCheck, DecTake, DecFindsNone, DecWoken, DecTimeout, DecDecode, DecGoes
    <3>3. CASE LinkRxCheck \/ LinkRxNothing \/ LinkRxWaitFails \/ LinkRxLosesPort \/ LinkRxPush
      BY <3>3 DEF LinkRxCheck, LinkRxNothing, LinkRxWaitFails, LinkRxLosesPort, LinkRxPush,
                  RxCheck, RxNothing, RxWaitFails, RxReadsNothing, RxPush, RxGoes
    <3> QED BY <1>8, <3>1, <3>2, <3>3
  <2> QED BY <2>1, <2>2, ReceivedKept
<1>9. CASE Device
  <2>1. UNCHANGED <<channelOpen, got, nego, kind>>
    BY <1>9 DEF Device, vars, DeviceSends, DeviceGone, DeviceBack
  <2>2. CASE DeviceSends
    <3>1. ReceivedInv => ReceivedInv'
      BY <2>1, <2>2, BytesArrive, DatagramArrives
    <3> QED BY <2>1, <3>1 DEF LinkInv
  <2>3. CASE DeviceGone \/ DeviceBack
    <3>1. UNCHANGED <<bytes, inbox, arrived>>
      BY <2>3 DEF DeviceGone, DeviceBack
    <3> QED BY <2>1, <3>1, ReceivedKept
  <2> QED BY <1>9, <2>2, <2>3 DEF Device
<1>10. CASE UNCHANGED linkVars
  <2>1. UNCHANGED <<channelOpen, kind, bytes, inbox, arrived, got, nego>>
    BY <1>10 DEF linkVars, vars, channelVars
  <2> QED BY <2>1, ReceivedKept
<1> QED BY <1>1, <1>2, <1>3, <1>4, <1>5, <1>6, <1>7, <1>8, <1>9, <1>10 DEF LinkNext, LinkRx

\* The invariant of the link holds in every reachable state.
LEMMA LinkInvCorrect == LinkSpec => []LinkInv
<1>1. LinkSpec => []LifeInv
  BY LinkIsTransceiver, LifeCorrect, PTL
<1> QED BY <1>1, InitLinkInv, LinkInvStep, PTL DEF LinkSpec

\* Through waits, reads of what is announced or of a buffer's size, cut
\* datagrams, negotiations and reconnections: what the receiving thread hands
\* on are the device's bytes, in order and complete, and of datagrams the
\* beginnings, none left out.
THEOREM BytesArriveAsSent == LinkSpec => []BytesAsSent
<1>1. LinkInv => BytesAsSent
  <2> SUFFICES ASSUME LinkInv, channelOpen PROVE BytesAsSent
    BY DEF BytesAsSent
  <2>1. ReceivedInv
    BY DEF LinkInv
  <2>2. CASE kind # "udp"
    <3>1. PICK k \in 0 .. bytes : \E ends \in [0 .. Len(got) -> 0 .. bytes] : StreamInv(k, ends)
      BY <2>1, <2>2 DEF ReceivedInv
    <3>2. PICK ends \in [0 .. Len(got) -> 0 .. bytes] : StreamInv(k, ends)
      BY <3>1
    <3>3. bytes \in Nat /\ k \in Nat /\ k <= bytes
      BY <2>1 DEF ReceivedInv
    <3>4. FlattenSeq(got \o inbox) = Run(0, bytes)
      BY <3>2, <3>3, BytesFollow DEF StreamInv
    <3>5. FlattenSeq(arrived) = Run(0, bytes)
      BY <3>2, <3>3, FlattenBytes DEF StreamInv
    <3> QED BY <2>2, <3>4, <3>5 DEF BytesAsSent
  <2>3. CASE kind = "udp"
    <3>1. PICK k \in 0 .. Len(arrived) :
            \E at \in [1 .. Len(got) -> 1 .. Len(arrived)] : DatagramInv(k, at)
      BY <2>1, <2>3 DEF ReceivedInv
    <3>2. PICK at \in [1 .. Len(got) -> 1 .. Len(arrived)] : DatagramInv(k, at)
      BY <3>1
    <3> DEFINE l == Len(got)
               n == Len(arrived)
    <3>3. /\ l \in Nat /\ n \in Nat /\ DOMAIN arrived = 1 .. n
          /\ at \in [1 .. l -> {i \in 1 .. k : arrived[i] # <<>>}]
          /\ \A i \in 1 .. l : got[i] = Cut(arrived[at[i]], Hint)
          /\ \A i \in 1 .. l : \A j \in 1 .. i - 1 : at[j] < at[i]
          /\ \A i \in 1 .. k : arrived[i] # <<>> => \E j \in 1 .. l : at[j] = i
      BY <3>2 DEF DatagramInv
    <3> HIDE DEF l, n
    <3>4. k \in 0 .. n
      BY DEF n
    <3>5. at \in [1 .. l -> {i \in DOMAIN arrived : arrived[i] # <<>>}]
      <4>1. \A i \in 1 .. k : i \in DOMAIN arrived
        BY <3>3, <3>4
      <4> QED BY <3>3, <4>1
    <3>6. ASSUME NEW i \in 1 .. l, NEW m \in 1 .. at[i], arrived[m] # <<>>
          PROVE  m \in {at[j] : j \in 1 .. i}
      <4>1. at[i] \in 1 .. k
        BY <3>3
      <4>2. m \in 1 .. k /\ m <= at[i]
        BY <3>4, <4>1
      <4>3. PICK j \in 1 .. l : at[j] = m
        BY <3>3, <3>6, <4>2
      <4>4. j \in 1 .. i
        <5>1. CASE i < j
          <6>1. i \in 1 .. j - 1
            BY <3>3, <5>1
          <6>2. at[i] < at[j]
            BY <3>3, <6>1
          <6> QED BY <4>1, <4>2, <4>3, <6>2
        <5>2. CASE ~(i < j)
          BY <3>3, <5>2
        <5> QED BY <5>1, <5>2
      <4> QED BY <4>3, <4>4
    <3> QED BY <2>3, <3>3, <3>5, <3>6 DEF BytesAsSent, l
  <2> QED BY <2>2, <2>3
<1> QED BY <1>1, LinkInvCorrect, PTL
====

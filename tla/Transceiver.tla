----------------------------- MODULE Transceiver -----------------------------
(***************************************************************************)
(* The lidar driver's AsyncTransceiver over a channel (serial port, TCP or *)
(* UDP): a receiving thread that reads chunks of bytes into _rxQueue, a    *)
(* decoder thread that takes them out, the auto-reset event between them,  *)
(* and the connect and disconnect of the driver that start both threads    *)
(* and wait for their end.                                                 *)
(*                                                                         *)
(* Every call comes from the driver, which holds its own _op_locker, so    *)
(* connect, disconnect and send never overlap.  _isWorking is a plain bool *)
(* that the threads read at the head of their loops.  A chunk is the pair  *)
(* of the connection it was read on and its number in that connection.     *)
(***************************************************************************)
EXTENDS Naturals, Sequences

CONSTANTS
  MaxConnections, \* bound: successful connects
  MaxChunks       \* bound: chunks the device sends on one connection

ASSUME TransceiverAssumption == MaxConnections \in Nat /\ MaxChunks \in Nat

VARIABLES
  connected,   \* SlamtecLidarDriver::_isConnected
  isWorking,   \* _isWorking
  channelOpen, \* the channel is open and _bindedChannel points to it
  rxQueue,     \* _rxQueue, changed under _rxLocker
  dataEvt,     \* _dataEvt is signalled
  rx, rxBuf,   \* the receiving thread and the chunk it has read
  dec, decBuf, \* the decoder thread and the chunk it has taken
  client,      \* where the thread calling the driver is
  connection,  \* connections opened so far
  received,    \* chunks read from this connection's channel
  decoded      \* chunks the codec was given on this connection, in order

threadVars == <<rx, rxBuf, dec, decBuf>>
historyVars == <<connection, received, decoded>>
vars == <<connected, isWorking, channelOpen, rxQueue, dataEvt, threadVars, client, historyVars>>

NoChunk == <<0, 0>>

Init ==
  /\ connected = FALSE /\ isWorking = FALSE /\ channelOpen = FALSE
  /\ rxQueue = <<>> /\ dataEvt = FALSE
  /\ rx = "exited" /\ rxBuf = NoChunk
  /\ dec = "exited" /\ decBuf = NoChunk
  /\ client = "idle"
  /\ connection = 0 /\ received = 0 /\ decoded = <<>>

-----------------------------------------------------------------------------
(* connect and disconnect *)

ConnectOk ==
  /\ client = "idle" /\ ~connected
  /\ connection < MaxConnections
  /\ connected' = TRUE /\ isWorking' = TRUE /\ channelOpen' = TRUE
  /\ dataEvt' = FALSE
  /\ dec' = "check" /\ rx' = "check"
  /\ connection' = connection + 1 /\ received' = 0 /\ decoded' = <<>>
  /\ UNCHANGED <<rxQueue, rxBuf, decBuf, client>>

\* open() fails and the failure is stored in a second variable "ans" that
\* shadows the one returned: the driver is told RESULT_OK.
ConnectOpenFails ==
  /\ client = "idle" /\ ~connected
  /\ connected' = TRUE
  /\ UNCHANGED <<isWorking, channelOpen, rxQueue, dataEvt, threadVars, client, historyVars>>

\* unbindAndClose returns at once when no threads were started.
DisconnectUnopened ==
  /\ client = "idle" /\ connected /\ ~isWorking
  /\ connected' = FALSE
  /\ UNCHANGED <<isWorking, channelOpen, rxQueue, dataEvt, threadVars, client, historyVars>>

Disconnect ==
  /\ client = "idle" /\ connected /\ isWorking
  /\ isWorking' = FALSE
  /\ client' = "waking"
  /\ UNCHANGED <<connected, channelOpen, rxQueue, dataEvt, threadVars, historyVars>>

WakeThreads ==
  /\ client = "waking"
  /\ dataEvt' = TRUE
  /\ client' = "joinDecoder"
  /\ UNCHANGED <<connected, isWorking, channelOpen, rxQueue, threadVars, historyVars>>

JoinDecoder ==
  /\ client = "joinDecoder" /\ dec = "exited"
  /\ client' = "joinRx"
  /\ UNCHANGED <<connected, isWorking, channelOpen, rxQueue, dataEvt, threadVars, historyVars>>

\* Mutant: the receiving thread is not waited for.
JoinNobody ==
  /\ client = "joinRx"
  /\ client' = "closing"
  /\ UNCHANGED <<connected, isWorking, channelOpen, rxQueue, dataEvt, threadVars, historyVars>>

JoinRx ==
  /\ client = "joinRx" /\ rx = "exited"
  /\ client' = "closing"
  /\ UNCHANGED <<connected, isWorking, channelOpen, rxQueue, dataEvt, threadVars, historyVars>>

CloseChannel ==
  /\ client = "closing"
  /\ channelOpen' = FALSE /\ connected' = FALSE
  /\ rxQueue' = <<>>
  /\ client' = "idle"
  /\ UNCHANGED <<isWorking, dataEvt, threadVars, historyVars>>

-----------------------------------------------------------------------------
(* _proc_rxThread *)

RxGoes(from, to) ==
  /\ rx = from /\ rx' = to
  /\ UNCHANGED <<connected, isWorking, channelOpen, dec, decBuf, client, connection, decoded>>

\* Mutant: the receiving thread does not look whether it should end.
RxRunsOn == /\ RxGoes("check", "waiting")
            /\ UNCHANGED <<rxQueue, dataEvt, rxBuf, received>>

RxCheck == /\ RxGoes("check", IF isWorking THEN "waiting" ELSE "exited")
           /\ UNCHANGED <<rxQueue, dataEvt, rxBuf, received>>

\* A timeout, or no byte to be read.
RxNothing == /\ RxGoes("waiting", "check")
             /\ UNCHANGED <<rxQueue, dataEvt, rxBuf, received>>

\* A failed wait ends the thread, unless a disconnect is on the way.
RxWaitFails == /\ RxGoes("waiting", IF isWorking THEN "exited" ELSE "check")
               /\ UNCHANGED <<rxQueue, dataEvt, rxBuf, received>>

RxRead == /\ received < MaxChunks
          /\ RxGoes("waiting", "pushing")
          /\ rxBuf' = <<connection, received + 1>>
          /\ received' = received + 1
          /\ UNCHANGED <<rxQueue, dataEvt>>

\* Bytes were announced and read() returns none: the device is gone.
RxReadsNothing == /\ RxGoes("waiting", "exited")
                  /\ UNCHANGED <<rxQueue, dataEvt, rxBuf, received>>

\* Mutant: the chunk is queued without setting the event.
RxPushSilently == /\ RxGoes("pushing", "check")
                  /\ rxQueue' = Append(rxQueue, rxBuf)
                  /\ UNCHANGED <<dataEvt, rxBuf, received>>

RxPush == /\ RxGoes("pushing", "check")
          /\ rxQueue' = Append(rxQueue, rxBuf)
          /\ dataEvt' = TRUE
          /\ UNCHANGED <<rxBuf, received>>

Rx == RxCheck \/ RxNothing \/ RxWaitFails \/ RxRead \/ RxReadsNothing \/ RxPush

-----------------------------------------------------------------------------
(* _proc_decoderThread *)

DecGoes(from, to) ==
  /\ dec = from /\ dec' = to
  /\ UNCHANGED <<connected, isWorking, channelOpen, rx, rxBuf, client, connection, received>>

DecCheck == /\ DecGoes("check", IF isWorking THEN "taking" ELSE "exited")
            /\ UNCHANGED <<rxQueue, dataEvt, decBuf, decoded>>

\* Mutant: the newest chunk is taken first.
DecTakeNewest == /\ rxQueue # <<>>
                 /\ DecGoes("taking", "decoding")
                 /\ decBuf' = rxQueue[Len(rxQueue)]
                 /\ rxQueue' = SubSeq(rxQueue, 1, Len(rxQueue) - 1)
                 /\ UNCHANGED <<dataEvt, decoded>>

DecTake == /\ rxQueue # <<>>
           /\ DecGoes("taking", "decoding")
           /\ decBuf' = Head(rxQueue)
           /\ rxQueue' = Tail(rxQueue)
           /\ UNCHANGED <<dataEvt, decoded>>

DecFindsNone == /\ rxQueue = <<>>
                /\ DecGoes("taking", "waiting")
                /\ UNCHANGED <<rxQueue, dataEvt, decBuf, decoded>>

DecWoken == /\ dataEvt
            /\ DecGoes("waiting", "check")
            /\ dataEvt' = FALSE
            /\ UNCHANGED <<rxQueue, decBuf, decoded>>

DecTimeout == /\ DecGoes("waiting", "check")
              /\ UNCHANGED <<rxQueue, dataEvt, decBuf, decoded>>

DecDecode == /\ DecGoes("decoding", "check")
             /\ decoded' = Append(decoded, decBuf)
             /\ UNCHANGED <<rxQueue, dataEvt, decBuf>>

Dec == DecCheck \/ DecTake \/ DecFindsNone \/ DecWoken \/ DecTimeout \/ DecDecode

-----------------------------------------------------------------------------
Closing == WakeThreads \/ JoinDecoder \/ JoinRx \/ CloseChannel

Next == \/ ConnectOk \/ ConnectOpenFails \/ DisconnectUnopened \/ Disconnect \/ Closing
        \/ Rx \/ Dec

Spec == Init /\ [][Next]_vars

\* The threads run, their waits are bounded (1000 ms), and the client in
\* unbindAndClose goes on as soon as the thread it joins has ended.
FairSpec == Spec /\ WF_vars(Closing) /\ WF_vars(Rx) /\ WF_vars(Dec)

-----------------------------------------------------------------------------
(* What the transceiver promises *)

Chunk == (0 .. MaxConnections) \X (0 .. MaxChunks)

\* Every variable keeps its type.
TypeOK ==
  /\ {connected, isWorking, channelOpen, dataEvt} \subseteq BOOLEAN
  /\ rxQueue \in Seq(Chunk) /\ decoded \in Seq(Chunk)
  /\ rxBuf \in Chunk /\ decBuf \in Chunk
  /\ rx \in {"exited", "check", "waiting", "pushing"}
  /\ dec \in {"exited", "check", "taking", "waiting", "decoding"}
  /\ client \in {"idle", "waking", "joinDecoder", "joinRx", "closing"}
  /\ connection \in 0 .. MaxConnections /\ received \in 0 .. MaxChunks

\* The channel is never closed under a running thread, nor the queue
\* emptied: unbindAndClose joins both threads first.
NoThreadWithoutChannel == ~channelOpen => rx = "exited" /\ dec = "exited"

\* Every chunk read is decoded once and in the order it was read, whatever
\* the interleaving of the two threads: decoded, in the decoder's hand,
\* queued, in the receiver's hand, in this order.
InHand(thread, at, buf) == IF thread = at THEN <<buf>> ELSE <<>>
ChunksInOrder ==
  channelOpen =>
    decoded \o InHand(dec, "decoding", decBuf) \o rxQueue \o InHand(rx, "pushing", rxBuf)
      = [i \in 1 .. received |-> <<connection, i>>]

\* The decoder never sleeps out its second while a chunk is queued: the
\* event is set whenever it waits next to a chunk, also when the chunk came
\* between its look at the queue and its wait.
NoSleepOnData == dec = "waiting" /\ rxQueue # <<>> => dataEvt

\* disconnect returns: both threads end, also after a channel error.
DisconnectReturns == client # "idle" ~> client = "idle"

\* A queued chunk does not stay: the queue runs empty or the driver is told
\* to disconnect, even when the receiving thread has ended with an error.
QueueDrains == rxQueue # <<>> ~> (rxQueue = <<>> \/ ~isWorking)

\* A driver that reports a successful connect has an open channel.
ConnectedMeansOpen == connected => channelOpen
=============================================================================

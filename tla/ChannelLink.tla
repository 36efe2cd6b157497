----------------------------- MODULE ChannelLink -----------------------------
(***************************************************************************)
(* The transceiver on a channel: what Transceiver leaves open (whether a   *)
(* wait of the receiving thread ends with data, with nothing or with an    *)
(* error) is what the serial port or socket of Channel answers.  The       *)
(* client also sends messages and negotiates the baud rate, for which it   *)
(* takes the channel from the transceiver and drives it on its own.        *)
(***************************************************************************)
EXTENDS Transceiver, Channel

CONSTANT ReplySize \* bytes of the answer with the detected baud rate (4 in the code)

ASSUME ChannelLinkAssumption == ReplySize \in Nat \ {0}

VARIABLES
  got,  \* the chunks read from this connection's channel, as bytes
  nego  \* where negotiateSerialBaudRate is: "no", "closing", "closed", "magic",
        \* "reply", "rebind"

linkVars == <<vars, channelVars, got, nego>>

LinkInit == Init /\ ChannelInit /\ got = <<>> /\ nego = "no"

-----------------------------------------------------------------------------
(* The client *)

\* connect, and the rebind at the end of a negotiation.
LinkConnect ==
  /\ nego \in {"no", "rebind"} /\ nego' = "no"
  /\ got' = <<>>
  /\ \/ ConnectOk /\ OpenAndFlush
     \/ ConnectOpenFails /\ OpenFails

LinkDisconnect ==
  /\ nego = "no"
  /\ Disconnect \/ DisconnectUnopened
  /\ UNCHANGED <<channelVars, got, nego>>

\* unbindAndClose, for either.
LinkClosing ==
  \/ (WakeThreads \/ JoinDecoder \/ JoinRx) /\ UNCHANGED <<channelVars, got, nego>>
  \/ /\ CloseChannel /\ Close
     /\ nego' = IF nego = "closing" THEN "closed" ELSE nego
     /\ UNCHANGED got

\* sendMessage: it fails when write() answers a negative number.  A message to
\* a UDP device that is off comes back as an error of the next read.
Send ==
  /\ client = "idle" /\ connected /\ isWorking
  /\ refused' = (refused \/ (kind = "udp" /\ link = "gone"))
  /\ UNCHANGED <<vars, deviceVars, socket, inbox, arrived, waited, quiet, got, nego>>

Negotiate ==
  /\ nego = "no" /\ kind = "serial"
  /\ Disconnect
  /\ nego' = "closing"
  /\ UNCHANGED <<channelVars, got>>

NegotiateOpen ==
  /\ nego = "closed"
  /\ \/ OpenAndFlush /\ nego' = "magic"
     \/ OpenFails /\ nego' = "rebind"
  /\ UNCHANGED <<vars, got>>

\* The magic bytes go out for 1.5 s or until a byte comes; only a failed
\* write gives up.
NegotiateMagic ==
  /\ nego = "magic"
  /\ nego' = IF SerialWrite(0) < 0 THEN "rebind" ELSE "reply"
  /\ BeginWait
  /\ UNCHANGED <<vars, deviceVars, socket, refused, inbox, arrived, got>>

\* The wait for the reply, 500 ms long.
NegotiateWaits == nego = "reply" /\ WaitOn(ReplySize) /\ UNCHANGED <<vars, got, nego>>

NegotiateReads ==
  /\ nego = "reply" /\ (WaitReady(ReplySize) \/ WaitTimesOut(ReplySize) \/ WaitFails)
  /\ nego' = "rebind"
  /\ UNCHANGED <<vars, channelVars, got>>

Negotiation == NegotiateOpen \/ NegotiateMagic \/ NegotiateWaits \/ NegotiateReads

-----------------------------------------------------------------------------
(* The receiving thread *)

LinkRxCheck == RxCheck /\ BeginWait
               /\ UNCHANGED <<deviceVars, socket, refused, inbox, arrived, got, nego>>

LinkRxWaits == rx = "waiting" /\ WaitOn(1) /\ UNCHANGED <<vars, got, nego>>

LinkRxNothing == RxNothing /\ WaitTimesOut(1) /\ UNCHANGED <<channelVars, got, nego>>

LinkRxWaitFails == RxWaitFails /\ WaitFails /\ UNCHANGED <<channelVars, got, nego>>

LinkRxRead == /\ RxRead /\ WaitReady(1) /\ Read.data # <<>>
              /\ got' = Append(got, Read.data)
              /\ TakeRead
              /\ UNCHANGED nego

\* Mutant: after an empty read the thread waits again.
EmptyReadIgnored == /\ RxNothing /\ WaitReady(1) /\ Read.data = <<>>
                    /\ TakeRead
                    /\ UNCHANGED <<got, nego>>

LinkRxReadsNothing == /\ RxReadsNothing /\ WaitReady(1) /\ Read.data = <<>>
                      /\ TakeRead
                      /\ UNCHANGED <<got, nego>>

\* The port vanishes between the wait and the read.
LinkRxLosesPort == /\ RxReadsNothing /\ WaitFails /\ inbox # <<>>
                   /\ UNCHANGED <<channelVars, got, nego>>

LinkRxPush == RxPush /\ UNCHANGED <<channelVars, got, nego>>

LinkRx == LinkRxCheck \/ LinkRxWaits \/ LinkRxNothing \/ LinkRxWaitFails \/ LinkRxRead
            \/ LinkRxReadsNothing \/ LinkRxLosesPort \/ LinkRxPush

LinkDec == Dec /\ UNCHANGED <<channelVars, got, nego>>

Device == (DeviceSends \/ DeviceGone \/ DeviceBack) /\ UNCHANGED <<vars, got, nego>>

LinkNext == LinkConnect \/ LinkDisconnect \/ LinkClosing \/ Send \/ Negotiate \/ Negotiation
              \/ LinkRx \/ LinkDec \/ Device

\* The threads run, time passes in their waits, and the client goes on in
\* disconnect and in the negotiation.  The device owes nothing.
LinkSpec == LinkInit /\ [][LinkNext]_linkVars
              /\ WF_linkVars(LinkRx) /\ WF_linkVars(LinkDec)
              /\ WF_linkVars(LinkClosing) /\ WF_linkVars(Negotiation)

-----------------------------------------------------------------------------
(* What the composition promises *)

\* A stream reaches the receiver byte by byte, in the order sent and complete;
\* of the datagrams that are not empty comes, one by one and none left out, the
\* beginning, of at most the size hinted.
BytesAsSent ==
  channelOpen =>
    IF kind = "udp"
      THEN \E at \in [1 .. Len(got) -> {k \in DOMAIN arrived : arrived[k] # <<>>}] :
             \A i \in 1 .. Len(got) :
               /\ got[i] = Cut(arrived[at[i]], Hint)
               /\ \A j \in 1 .. i - 1 : at[j] < at[i]
               /\ \A k \in 1 .. at[i] : arrived[k] # <<>> => k \in {at[j] : j \in 1 .. i}
      ELSE FlattenSeq(got \o inbox) = FlattenSeq(arrived)

\* Silence never ends the receiving thread: while the driver is connected it
\* ends only if the device went away, or sent an empty datagram, since the
\* channel was opened.
EndsOnlyOnLoss ==
  [][rx # "exited" /\ rx' = "exited" /\ isWorking =>
       link = "gone" \/ refused \/ (inbox # <<>> /\ Head(inbox) = <<>>)]_linkVars

\* A serial port or TCP connection that is lost for good ends the receiving
\* thread, whatever was still to be read and whatever wait it was in.
LossIsNoticed ==
  channelOpen /\ kind # "udp" /\ link = "gone" ~> rx = "exited" \/ link = "up"

\* A wait does not outlast the time it was given.
WaitsInTime == (rx = "waiting" \/ nego = "reply") => waited <= WaitTime
=============================================================================

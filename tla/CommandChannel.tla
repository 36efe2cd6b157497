--------------------------- MODULE CommandChannel ---------------------------
(***************************************************************************)
(* Commands and answers of the lidar driver: the client thread in          *)
(* _sendCommandWithResponse, startScan and stop, the decoder thread in     *)
(* RPLidarProtocolCodec::onDecodeData and the driver's listener            *)
(* onProtocolMessageDecoded, and the two locks they share: the codec's     *)
(* _op_locker and the driver's _data_locker.                               *)
(*                                                                         *)
(* Every public operation holds the driver's own lock, so there is one     *)
(* client.  The bytes on the line are a sequence of frames: the descriptor *)
(* that opens a stream of samples, a sample, or an answer.  The device is  *)
(* modelled from what the driver expects of it: it takes the commands in   *)
(* their order, answers a query or stays silent, and streams samples from  *)
(* SCAN to STOP.  The payload of a sample is taken not to look like the    *)
(* start of an answer (the two sync bytes).                                *)
(***************************************************************************)
EXTENDS Naturals, Sequences, SequencesExt

CONSTANTS
  MaxOps,        \* bound: operations the client makes
  MaxWire,       \* bound: frames on the line before another sample is sent
  SpuriousWakeup \* TRUE: pthread_cond_timedwait may return without a signal

ASSUME CommandAssumption ==
  /\ MaxOps \in Nat /\ MaxWire \in Nat
  /\ SpuriousWakeup \in BOOLEAN

VARIABLES
  op,          \* "request", "start" or "stop": the operation in progress
  client,      \* where the client thread is in it
  query,       \* the query of the latest request
  result,      \* how the latest request ended
  reply,       \* ansPkt of the latest request that was answered
  ops,         \* operations made; the number of the latest one
  scanning,    \* the client has started a scan and not stopped it
  dataLock,    \* holder of _data_locker
  waitingType, \* _waiting_packet_type
  waiter,      \* _response_waiter is signalled
  lastAns,     \* _lastAnsPkt
  enabled,     \* the unpacker's _enabled
  codecLock,   \* holder of the codec's _op_locker
  looping,     \* STATUS_LOOP_MODE_FLAG
  frame,       \* the first frame on the line: unread, partly read, or broken
  decoder,     \* where the decoder thread is
  msg,         \* _decodingMessage
  copy,        \* the listener's own copy of it
  wire,        \* frames sent by the device and not yet decoded
  commands,    \* commands the device has not yet looked at
  streaming,   \* the device sends samples
  answered,    \* the device has answered the latest request
  late         \* once, an answer or a stream came later than the driver waited

clientVars == <<op, client, query, result, reply, ops, scanning>>
driverVars == <<dataLock, waitingType, waiter, lastAns, enabled>>
codecVars == <<codecLock, looping, frame, msg>>
deviceVars == <<wire, commands, streaming, answered, late>>
vars == <<clientVars, driverVars, codecVars, decoder, copy, deviceVars>>

-----------------------------------------------------------------------------
Queries == {[type |-> "devinfo", conf |-> "none"],
            [type |-> "conf", conf |-> "name"]}

Frame(type, conf, req) == [type |-> type, conf |-> conf, req |-> req, torn |-> FALSE]
Sample == Frame("sample", "none", 0)
Header == Frame("header", "none", 0)
NoMessage == Frame("none", "none", 0)

Init ==
  /\ op = "stop" /\ client = "idle" /\ result = "none" /\ reply = NoMessage
  /\ query = [type |-> "devinfo", conf |-> "none"] /\ ops = 0 /\ scanning = FALSE
  /\ dataLock = "free" /\ waitingType = "none" /\ waiter = FALSE /\ lastAns = NoMessage
  /\ enabled = FALSE
  /\ codecLock = "free" /\ looping = FALSE /\ frame = "unread" /\ msg = NoMessage
  /\ decoder = "idle" /\ copy = NoMessage
  /\ wire = <<>> /\ commands = <<>> /\ streaming = FALSE /\ answered = FALSE /\ late = FALSE

-----------------------------------------------------------------------------
(* The client thread *)

\* _sendCommandWithResponse takes the data lock and keeps it over
\* _disableDataGrabbing.
Ask(q) ==
  /\ client = "idle" /\ ops < MaxOps /\ dataLock = "free"
  /\ op' = "request" /\ query' = q /\ result' = "none" /\ answered' = FALSE
  /\ ops' = ops + 1
  /\ dataLock' = "client"
  /\ client' = "disable"
  /\ UNCHANGED <<reply, scanning, waitingType, waiter, lastAns, enabled, codecVars,
                 decoder, copy, wire, commands, streaming, late>>

Stop ==
  /\ client = "idle" /\ ops < MaxOps
  /\ op' = "stop" /\ ops' = ops + 1
  /\ client' = "disable"
  /\ UNCHANGED <<query, result, reply, scanning, driverVars, codecVars, decoder, copy, deviceVars>>

\* The last part of startScan, which is always preceded by stop().
Start ==
  /\ client = "idle" /\ ops < MaxOps /\ ~scanning
  /\ op' = "start" /\ ops' = ops + 1 /\ scanning' = TRUE
  /\ enabled' = TRUE
  /\ waiter' = FALSE
  /\ client' = "send"
  /\ UNCHANGED <<query, result, reply, dataLock, waitingType, lastAns, codecVars,
                 decoder, copy, deviceVars>>

\* _disableDataGrabbing: first the unpacker, then the codec.  stop() does
\* it before and after it sends the command.
DisableUnpacker ==
  /\ client \in {"disable", "disableAgain"}
  /\ enabled' = FALSE
  /\ client' = IF client = "disable" THEN "exitLoop" ELSE "exitLoopAgain"
  /\ UNCHANGED <<op, query, result, reply, ops, scanning, dataLock, waitingType, waiter, lastAns,
                 codecVars, decoder, copy, deviceVars>>

AfterExitLoop == IF client = "exitLoopAgain" THEN "idle"
                 ELSE IF op = "request" THEN "arm" ELSE "send"

\* Mutant: the state of the decoder is not reset.
ExitLoopKeepsMode ==
  /\ client \in {"exitLoop", "exitLoopAgain"} /\ codecLock = "free"
  /\ msg' = [msg EXCEPT !.torn = TRUE]
  /\ client' = AfterExitLoop
  /\ waiter' = IF AfterExitLoop = "send" THEN FALSE ELSE waiter
  /\ scanning' = IF client = "exitLoopAgain" THEN FALSE ELSE scanning
  /\ UNCHANGED <<op, query, result, reply, ops, dataLock, waitingType, lastAns, enabled,
                 codecLock, looping, frame, decoder, copy, deviceVars>>

\* onDecodeReset: the buffer of the message being decoded is freed and the
\* decoder looks for sync bytes again, which breaks a frame partly read.
ExitLoop ==
  /\ client \in {"exitLoop", "exitLoopAgain"} /\ codecLock = "free"
  /\ msg' = [msg EXCEPT !.torn = TRUE]
  /\ looping' = FALSE
  /\ frame' = IF frame = "partly" THEN "broken" ELSE frame
  /\ client' = AfterExitLoop
  /\ waiter' = IF AfterExitLoop = "send" THEN FALSE ELSE waiter
  /\ scanning' = IF client = "exitLoopAgain" THEN FALSE ELSE scanning
  /\ UNCHANGED <<op, query, result, reply, ops, dataLock, waitingType, lastAns, enabled,
                 codecLock, decoder, copy, deviceVars>>

Arm ==
  /\ client = "arm"
  /\ waitingType' = query.type /\ waiter' = FALSE
  /\ dataLock' = "free"
  /\ client' = "send"
  /\ UNCHANGED <<op, query, result, reply, ops, scanning, lastAns, enabled, codecVars,
                 decoder, copy, deviceVars>>

AfterSend == [request |-> "wait", start |-> "delay", stop |-> "disableAgain"][op]

Send ==
  /\ client = "send"
  /\ commands' = Append(commands, [op |-> op, query |-> query, req |-> ops])
  /\ client' = AfterSend
  /\ UNCHANGED <<op, query, result, reply, ops, scanning, driverVars, codecVars, decoder, copy,
                 wire, streaming, answered, late>>

\* sendMessage fails.  A scan that could not be started leaves the unpacker
\* enabled.
SendFails ==
  /\ client = "send"
  /\ client' = IF op = "stop" THEN "disableAgain" ELSE "idle"
  /\ result' = IF op = "request" THEN "failed" ELSE result
  /\ scanning' = IF op = "start" THEN FALSE ELSE scanning
  /\ UNCHANGED <<op, query, reply, ops, driverVars, codecVars, decoder, copy, deviceVars>>

\* startScan returns after delay(10), whether the stream has begun or not.
StartReturns ==
  /\ client = "delay"
  /\ late' = \/ late \/ Contains(wire, Header)
             \/ \E i \in 1 .. Len(commands) : commands[i].op = "start"
  /\ client' = "idle"
  /\ UNCHANGED <<op, query, result, reply, ops, scanning, driverVars, codecVars, decoder, copy,
                 wire, commands, streaming, answered>>

\* Event::wait waits once: a wakeup without a signal counts for one, and the
\* answer of a request before is taken for this one's.
WaitOk ==
  /\ client = "wait"
  /\ waiter \/ SpuriousWakeup
  /\ waiter' = FALSE
  /\ client' = "copy"
  /\ UNCHANGED <<op, query, result, reply, ops, scanning, dataLock, waitingType, lastAns, enabled,
                 codecVars, decoder, copy, deviceVars>>

\* The answer to the latest request is still on its way to the client.
OnItsWay ==
  \/ waiter
  \/ \E i \in 1 .. Len(commands) : commands[i].req = ops
  \/ \E i \in 1 .. Len(wire) : wire[i].req = ops
  \/ decoder = "callback" /\ msg.req = ops
  \/ decoder \in {"unpack", "match", "store"} /\ copy.req = ops

\* Mutant: a timeout starts the wait again.
WaitsAgain ==
  /\ client = "wait"
  /\ UNCHANGED vars

\* The waited-for type stays set after a timeout.
WaitTimeout ==
  /\ client = "wait"
  /\ result' = "timeout"
  /\ late' = (late \/ OnItsWay)
  /\ client' = "idle"
  /\ UNCHANGED <<op, query, reply, ops, scanning, driverVars, codecVars, decoder, copy,
                 wire, commands, streaming, answered>>

\* The answer is read under the data lock.  getLidarConf then compares the
\* configuration entry that was asked for with the one in the answer.
CopyAnswer ==
  /\ client = "copy" /\ dataLock = "free"
  /\ reply' = lastAns
  /\ result' = IF query.type = "conf" /\ lastAns.conf # query.conf THEN "invalid" ELSE "ok"
  /\ client' = "idle"
  /\ UNCHANGED <<op, query, ops, scanning, driverVars, codecVars, decoder, copy, deviceVars>>

-----------------------------------------------------------------------------
(* The decoder thread *)

\* onDecodeData is given a chunk of bytes.
DecBegin ==
  /\ decoder = "idle" /\ wire # <<>> /\ codecLock = "free"
  /\ codecLock' = "decoder"
  /\ decoder' = "decoding"
  /\ UNCHANGED <<clientVars, driverVars, looping, frame, msg, copy, deviceVars>>

\* The chunk ends, between two frames or within one.
DecEnd ==
  /\ decoder = "decoding"
  /\ \/ frame' = frame
     \/ wire # <<>> /\ frame = "unread" /\ frame' = "partly"
  /\ codecLock' = "free"
  /\ decoder' = "idle"
  /\ UNCHANGED <<clientVars, driverVars, looping, msg, copy, deviceVars>>

\* The decoder passes over the bytes of the first frame.
Reads == /\ decoder = "decoding" /\ wire # <<>>
         /\ wire' = Tail(wire) /\ frame' = "unread"
         /\ UNCHANGED <<clientVars, driverVars, copy, commands, streaming, answered, late>>

\* No descriptor at the start of these bytes: skipped in search of one.
DecSkip ==
  /\ Reads
  /\ frame = "broken" \/ (~looping /\ Head(wire) = Sample)
  /\ UNCHANGED <<codecLock, looping, msg, decoder>>

DecHeader ==
  /\ Reads
  /\ frame # "broken" /\ ~looping /\ Head(wire) = Header
  /\ looping' = TRUE
  /\ UNCHANGED <<codecLock, msg, decoder>>

\* In loop mode all bytes are taken for samples, also those of an answer.
Decodable == frame # "broken" /\ (looping \/ Head(wire) \notin {Sample, Header})
Decoded == IF looping THEN Sample ELSE Head(wire)

\* Mutant: the listener is called with the codec locked.
DecFrameLocked ==
  /\ Reads /\ Decodable
  /\ msg' = Decoded
  /\ decoder' = "callback"
  /\ UNCHANGED <<codecLock, looping>>

\* "unlock the oplock to prevent deadlock", then call the listener.
DecFrame ==
  /\ Reads /\ Decodable
  /\ msg' = Decoded
  /\ codecLock' = "free"
  /\ decoder' = "callback"
  /\ UNCHANGED looping

DecGoes(from, to) ==
  /\ decoder = from /\ decoder' = to
  /\ UNCHANGED <<clientVars, dataLock, waitingType, enabled, looping, frame, msg, deviceVars>>

\* onProtocolMessageDecoded copies the message, which ExitLoop may have
\* freed by now: the copy of a torn message has an undefined payload.
DecCopy == /\ DecGoes("callback", "unpack")
           /\ copy' = msg
           /\ UNCHANGED <<waiter, lastAns, codecLock>>

\* onSampleData takes samples when the unpacker is enabled.
DecUnpack == /\ DecGoes("unpack", IF enabled /\ copy.type = "sample" THEN "handling" ELSE "match")
             /\ UNCHANGED <<waiter, lastAns, copy, codecLock>>

\* The handler has made nodes of the sample (the ScanHolder module).
DecHandled == /\ DecGoes("handling", "relock")
              /\ UNCHANGED <<waiter, lastAns, copy, codecLock>>

\* Mutant: whatever is no sample of a running scan is taken for the answer.
DecMatchAny == /\ DecGoes("match", "store")
               /\ UNCHANGED <<waiter, lastAns, copy, codecLock>>

\* The type is compared without the data lock.
DecMatch == /\ DecGoes("match", IF copy.type = waitingType THEN "store" ELSE "relock")
            /\ UNCHANGED <<waiter, lastAns, copy, codecLock>>

DecStore == /\ dataLock = "free"
            /\ DecGoes("store", "relock")
            /\ lastAns' = copy
            /\ waiter' = TRUE
            /\ UNCHANGED <<copy, codecLock>>

\* The lock is recursive.
DecRelock == /\ codecLock \in {"free", "decoder"}
             /\ DecGoes("relock", "decoding")
             /\ codecLock' = "decoder"
             /\ UNCHANGED <<waiter, lastAns, copy>>

-----------------------------------------------------------------------------
(* The device *)

Takes(what) ==
  /\ commands # <<>> /\ Head(commands).op = what
  /\ commands' = Tail(commands)
  /\ UNCHANGED <<clientVars, driverVars, codecVars, decoder, copy, late>>

DeviceStarts == /\ Takes("start")
                /\ streaming' = TRUE
                /\ wire' = Append(wire, Header)
                /\ UNCHANGED answered

DeviceStops == /\ Takes("stop")
               /\ streaming' = FALSE
               /\ UNCHANGED <<wire, answered>>

DeviceAnswers ==
  /\ Takes("request")
  /\ LET asked == Head(commands) IN
     /\ wire' = Append(wire, Frame(asked.query.type, asked.query.conf, asked.req))
     /\ answered' = (answered \/ asked.req = ops)
  /\ UNCHANGED streaming

\* The command is lost on the line, or the device does not know it.
DeviceIgnores == /\ \E what \in {"start", "stop", "request"} : Takes(what)
                 /\ UNCHANGED <<wire, streaming, answered>>

DeviceSamples ==
  /\ streaming /\ Len(wire) < MaxWire
  /\ wire' = Append(wire, Sample)
  /\ UNCHANGED <<clientVars, driverVars, codecVars, decoder, copy, commands, streaming, answered, late>>

-----------------------------------------------------------------------------
ClientBegins == (\E q \in Queries : Ask(q)) \/ Start \/ Stop
ClientGoesOn == DisableUnpacker \/ Arm \/ Send \/ SendFails \/ StartReturns
                \/ WaitOk \/ WaitTimeout
Client == ClientBegins \/ ClientGoesOn \/ ExitLoop \/ CopyAnswer
DecoderGoesOn == DecEnd \/ DecSkip \/ DecHeader \/ DecFrame \/ DecCopy \/ DecUnpack
                 \/ DecHandled \/ DecMatch
Decoder == DecBegin \/ DecoderGoesOn \/ DecStore \/ DecRelock
DeviceReacts == DeviceStarts \/ DeviceStops \/ DeviceAnswers \/ DeviceIgnores
Device == DeviceReacts \/ DeviceSamples

Next == Client \/ Decoder \/ Device

Spec == Init /\ [][Next]_vars

\* The threads run, a chunk of bytes has an end, and a mutex that is free
\* again and again is taken at last.  The wait for an answer ends after its
\* timeout, and the device takes the commands from the line.
FairSpec ==
  /\ Spec
  /\ WF_vars(ClientGoesOn) /\ SF_vars(ExitLoop) /\ SF_vars(CopyAnswer)
  /\ WF_vars(DecBegin) /\ WF_vars(DecEnd) /\ WF_vars(DecoderGoesOn)
  /\ SF_vars(DecStore) /\ SF_vars(DecRelock)
  /\ WF_vars(DeviceReacts)

-----------------------------------------------------------------------------
(* What the exchange promises *)

Message == [type : {"none", "header", "sample", "devinfo", "conf"},
            conf : {"none", "name"}, req : 0 .. MaxOps, torn : BOOLEAN]
Command == [op : {"request", "start", "stop"}, query : Queries, req : 0 .. MaxOps]

\* Every variable keeps its type, and each lock is held exactly where the
\* code is between its lock and its unlock.
TypeOK ==
  /\ op \in {"request", "start", "stop"} /\ query \in Queries
  /\ client \in {"idle", "disable", "exitLoop", "arm", "send", "delay", "wait", "copy",
                 "disableAgain", "exitLoopAgain"}
  /\ result \in {"none", "ok", "invalid", "timeout", "failed"}
  /\ {reply, lastAns, msg, copy} \subseteq Message
  /\ ops \in 0 .. MaxOps
  /\ {scanning, waiter, enabled, looping, streaming, answered, late} \subseteq BOOLEAN
  /\ waitingType \in {"none", "devinfo", "conf"}
  /\ frame \in {"unread", "partly", "broken"}
  /\ decoder \in {"idle", "decoding", "callback", "unpack", "handling", "match", "store", "relock"}
  /\ wire \in Seq(Message) /\ commands \in Seq(Command)
  /\ codecLock = IF decoder = "decoding" THEN "decoder" ELSE "free"
  /\ dataLock = IF op = "request" /\ client \in {"disable", "exitLoop", "arm"}
                THEN "client" ELSE "free"

\* A request keeps the data lock while it waits for the codec's lock, and
\* the decoder waits for the data lock on behalf of the codec: never both at
\* once, because the codec unlocks before it calls the listener.
NoLockCycle ==
  ~ /\ client \in {"exitLoop", "exitLoopAgain"} /\ dataLock = "client"
    /\ decoder = "store" /\ codecLock = "decoder"

\* Every operation returns, whatever the device sends or fails to send.
OperationReturns == client # "idle" ~> client = "idle"

\* A message accepted as an answer is no left-over sample of a scan that
\* was stopped a moment before, also when answers come late (if no wait
\* returns without a signal).
NeverASample == client = "copy" \/ result = "ok" => lastAns.type \in {"devinfo", "conf"}

\* As long as no answer was late, and if no wait returns without a signal, a
\* request that succeeds returns the answer to exactly this request, and the
\* answer is whole: it was not freed by exitLoopMode while the listener copied
\* it.
AnswerMatchesQuery ==
  ~late /\ client = "idle" /\ op = "request" /\ result = "ok" => reply.req = ops /\ ~reply.torn

\* As long as no answer and no stream was late, a request the device
\* answers does not time out, also amid the samples of a running scan.
AnsweredRequestSucceeds == ~late /\ answered => result # "timeout"

\* A ProtocolMessage is "_single_thread": no other thread frees its buffer
\* while the listener reads it.
MessageStable == decoder = "callback" => ~msg.torn
=============================================================================

------------------------ MODULE CommandChannelProofs ------------------------
(***************************************************************************)
(* Proofs about CommandChannel, for every number of operations and every   *)
(* length of the line.  What is proved of the answers supposes that no     *)
(* wait returns without a signal (SpuriousWakeup).                         *)
(***************************************************************************)
EXTENDS CommandChannel, TLAPS

-----------------------------------------------------------------------------
(* The locks *)

\* Each lock is held exactly where the code is between its lock and its
\* unlock: the client's data lock up to the arming of the waiter, the
\* codec's lock while the decoder looks at bytes.
LockInv ==
  /\ codecLock = IF decoder = "decoding" THEN "decoder" ELSE "free"
  /\ dataLock = IF op = "request" /\ client \in {"disable", "exitLoop", "arm"}
                THEN "client" ELSE "free"
  /\ op \in {"request", "start", "stop"}

\* No lock is held initially.
LEMMA InitLocks == Init => LockInv
BY DEF Init, LockInv

\* The client takes and releases the locks as the invariant says.
LEMMA ClientLocks ==
  ASSUME LockInv, Client
  PROVE  LockInv'
<1> USE DEF LockInv, codecVars, driverVars, clientVars
<1>1. CASE \E q \in Queries : Ask(q)
  BY <1>1 DEF Ask
<1>2. CASE Start
  BY <1>2 DEF Start
<1>3. CASE Stop
  BY <1>3 DEF Stop
<1>4. CASE DisableUnpacker
  BY <1>4 DEF DisableUnpacker
<1>5. CASE Arm
  BY <1>5 DEF Arm
<1>6. CASE Send
  <2>1. op = "request" \/ op = "start" \/ op = "stop"
    OBVIOUS
  <2>2. client' \in {"wait", "delay", "disableAgain"}
    BY <1>6, <2>1 DEF Send, AfterSend
  <2> QED BY <1>6, <2>2 DEF Send
<1>7. CASE SendFails
  BY <1>7 DEF SendFails
<1>8. CASE StartReturns
  BY <1>8 DEF StartReturns
<1>9. CASE WaitOk
  BY <1>9 DEF WaitOk
<1>10. CASE WaitTimeout
  BY <1>10 DEF WaitTimeout
<1>11. CASE ExitLoop
  <2>1. CASE client = "exitLoopAgain"
    <3>1. client' = "idle"
      BY <1>11, <2>1 DEF ExitLoop, AfterExitLoop
    <3> QED BY <1>11, <2>1, <3>1 DEF ExitLoop
  <2>2. CASE client = "exitLoop" /\ op = "request"
    <3>1. client' = "arm"
      BY <1>11, <2>2 DEF ExitLoop, AfterExitLoop
    <3> QED BY <1>11, <2>2, <3>1 DEF ExitLoop
  <2>3. CASE client = "exitLoop" /\ op # "request"
    <3>1. client' = "send"
      BY <1>11, <2>3 DEF ExitLoop, AfterExitLoop
    <3> QED BY <1>11, <2>3, <3>1 DEF ExitLoop
  <2> QED BY <1>11, <2>1, <2>2, <2>3 DEF ExitLoop
<1>12. CASE CopyAnswer
  BY <1>12 DEF CopyAnswer
<1> QED BY <1>1, <1>2, <1>3, <1>4, <1>5, <1>6, <1>7, <1>8, <1>9, <1>10, <1>11, <1>12
        DEF Client, ClientBegins, ClientGoesOn

\* The decoder takes and releases the locks as the invariant says.
LEMMA DecoderLocks ==
  ASSUME LockInv, Decoder
  PROVE  LockInv'
<1> USE DEF LockInv, codecVars, driverVars, clientVars
<1>1. CASE DecBegin
  BY <1>1 DEF DecBegin
<1>2. CASE DecEnd
  BY <1>2 DEF DecEnd
<1>3. CASE DecSkip \/ DecHeader
  BY <1>3 DEF DecSkip, DecHeader, Reads
<1>4. CASE DecFrame
  BY <1>4 DEF DecFrame, Reads
<1>5. CASE DecCopy \/ DecUnpack \/ DecHandled \/ DecMatch \/ DecStore
  BY <1>5 DEF DecCopy, DecUnpack, DecHandled, DecMatch, DecStore, DecGoes
<1>6. CASE DecRelock
  BY <1>6 DEF DecRelock, DecGoes
<1> QED BY <1>1, <1>2, <1>3, <1>4, <1>5, <1>6 DEF Decoder, DecoderGoesOn

\* Every step keeps the lock invariant.
LEMMA LockStep == LockInv /\ [Next]_vars => LockInv'
<1> SUFFICES ASSUME LockInv, [Next]_vars PROVE LockInv'
  OBVIOUS
<1>1. CASE Client
  BY <1>1, ClientLocks
<1>2. CASE Decoder
  BY <1>2, DecoderLocks
<1>3. CASE Device
  BY <1>3 DEF LockInv, Device, DeviceReacts, DeviceSamples, DeviceStarts, DeviceStops,
              DeviceAnswers, DeviceIgnores, Takes, clientVars, driverVars, codecVars
<1>4. CASE UNCHANGED vars
  BY <1>4 DEF LockInv, vars, clientVars, driverVars, codecVars
<1> QED BY <1>1, <1>2, <1>3, <1>4 DEF Next

\* The data lock and the codec's lock are never waited for in a circle
\* (sl_lidarprotocol_codec.cpp: "unlock the oplock to prevent deadlock").
THEOREM LocksAcyclic == Spec => []NoLockCycle
<1>1. LockInv => NoLockCycle
  BY DEF LockInv, NoLockCycle
<1> QED BY <1>1, InitLocks, LockStep, PTL DEF Spec

-----------------------------------------------------------------------------
(* Types *)

\* What may be on the line or be decoded.
OnWire == {m \in Message : m.type # "none"}

\* TypeOK without the locks, and sharper about the line.
TypeInv ==
  /\ op \in {"request", "start", "stop"} /\ query \in Queries
  /\ client \in {"idle", "disable", "exitLoop", "arm", "send", "delay", "wait", "copy",
                 "disableAgain", "exitLoopAgain"}
  /\ result \in {"none", "ok", "invalid", "timeout", "failed"}
  /\ reply \in Message /\ lastAns \in Message /\ msg \in Message /\ copy \in Message
  /\ ops \in 0 .. MaxOps
  /\ {scanning, waiter, enabled, looping, streaming, answered, late} \subseteq BOOLEAN
  /\ waitingType \in {"none", "devinfo", "conf"}
  /\ frame \in {"unread", "partly", "broken"}
  /\ decoder \in {"idle", "decoding", "callback", "unpack", "handling", "match", "store", "relock"}
  /\ wire \in Seq(OnWire) /\ commands \in Seq(Command)

\* Every frame a device may send is a message of the wire.
LEMMA FrameTypes ==
  /\ Sample \in OnWire /\ Header \in OnWire /\ NoMessage \in Message
  /\ \A q \in Queries, n \in 0 .. MaxOps : Frame(q.type, q.conf, n) \in OnWire
BY CommandAssumption DEF Sample, Header, NoMessage, Frame, OnWire, Message, Queries

\* A torn message is a message of the same type.
LEMMA TornMessage ==
  ASSUME NEW m \in Message
  PROVE  [m EXCEPT !.torn = TRUE] \in Message /\ [m EXCEPT !.torn = TRUE].type = m.type
BY DEF Message

\* The types hold initially.
LEMMA InitTypes == Init => TypeInv
<1>1. <<>> \in Seq(OnWire) /\ <<>> \in Seq(Command)
  OBVIOUS
<1>2. 0 \in 0 .. MaxOps
  BY CommandAssumption
<1>3. [type |-> "devinfo", conf |-> "none"] \in Queries
  BY DEF Queries
<1> QED BY <1>1, <1>2, <1>3, FrameTypes DEF Init, TypeInv

\* The client keeps the types.
LEMMA ClientTypes ==
  ASSUME TypeInv, Client
  PROVE  TypeInv'
<1> USE DEF TypeInv, codecVars, driverVars, clientVars, deviceVars
<1>0. ops < MaxOps => ops + 1 \in 0 .. MaxOps
  BY CommandAssumption
<1>1. ASSUME NEW q \in Queries, Ask(q) PROVE TypeInv'
  BY <1>0, <1>1 DEF Ask
<1>2. CASE Start
  BY <1>0, <1>2 DEF Start
<1>3. CASE Stop
  BY <1>0, <1>3 DEF Stop
<1>4. CASE DisableUnpacker
  <2>1. enabled' \in BOOLEAN /\ client' \in {"exitLoop", "exitLoopAgain"}
    BY <1>4 DEF DisableUnpacker
  <2> QED BY <1>4, <2>1 DEF DisableUnpacker
<1>5. CASE Arm
  <2>1. query.type \in {"devinfo", "conf"}
    BY DEF Queries
  <2> QED BY <1>5, <2>1 DEF Arm
<1>6. CASE Send
  <2>1. client' \in {"wait", "delay", "disableAgain"}
    <3>1. op = "request" \/ op = "start" \/ op = "stop"
      OBVIOUS
    <3> QED BY <1>6, <3>1 DEF Send, AfterSend
  <2>2. [op |-> op, query |-> query, req |-> ops] \in Command
    BY DEF Command
  <2>3. commands' \in Seq(Command)
    BY <1>6, <2>2 DEF Send
  <2> QED BY <1>6, <2>1, <2>3 DEF Send
<1>7. CASE SendFails
  BY <1>7 DEF SendFails
<1>8. CASE StartReturns
  BY <1>8 DEF StartReturns
<1>9. CASE WaitOk
  BY <1>9 DEF WaitOk
<1>10. CASE WaitTimeout
  <2>1. OnItsWay \in BOOLEAN
    BY DEF OnItsWay
  <2> QED BY <1>10, <2>1 DEF WaitTimeout
<1>11. CASE ExitLoop
  BY <1>11, TornMessage DEF ExitLoop, AfterExitLoop
<1>12. CASE CopyAnswer
  BY <1>12 DEF CopyAnswer
<1> QED BY <1>1, <1>2, <1>3, <1>4, <1>5, <1>6, <1>7, <1>8, <1>9, <1>10, <1>11, <1>12
        DEF Client, ClientBegins, ClientGoesOn

\* The decoder takes the first frame, which is a message.
LEMMA ReadsTypes ==
  ASSUME TypeInv, Reads
  PROVE  /\ wire' \in Seq(OnWire)
         /\ Head(wire) \in OnWire /\ Decoded \in OnWire
<1>1. wire \in Seq(OnWire) /\ wire # <<>>
  BY DEF TypeInv, Reads
<1>2. Head(wire) \in OnWire /\ Tail(wire) \in Seq(OnWire)
  BY <1>1
<1> QED BY <1>2, FrameTypes DEF Reads, Decoded

\* The decoder keeps the types.
LEMMA DecoderTypes ==
  ASSUME TypeInv, Decoder
  PROVE  TypeInv'
<1> USE DEF TypeInv, codecVars, driverVars, clientVars, deviceVars
<1>1. CASE DecBegin
  BY <1>1 DEF DecBegin
<1>2. CASE DecEnd
  BY <1>2 DEF DecEnd
<1>3. CASE DecSkip \/ DecHeader
  <2>1. wire' \in Seq(OnWire)
    BY <1>3, ReadsTypes DEF DecSkip, DecHeader
  <2> QED BY <1>3, <2>1 DEF DecSkip, DecHeader, Reads
<1>4. CASE DecFrame
  <2>1. wire' \in Seq(OnWire) /\ msg' \in Message
    BY <1>4, ReadsTypes DEF DecFrame, OnWire
  <2> QED BY <1>4, <2>1 DEF DecFrame, Reads
<1>5. CASE DecCopy \/ DecUnpack \/ DecHandled \/ DecMatch \/ DecStore
  BY <1>5 DEF DecCopy, DecUnpack, DecHandled, DecMatch, DecStore, DecGoes
<1>6. CASE DecRelock
  BY <1>6 DEF DecRelock, DecGoes
<1> QED BY <1>1, <1>2, <1>3, <1>4, <1>5, <1>6 DEF Decoder, DecoderGoesOn

\* The device keeps the types.
LEMMA DeviceTypes ==
  ASSUME TypeInv, Device
  PROVE  TypeInv'
<1> USE DEF TypeInv, codecVars, driverVars, clientVars, deviceVars
<1>1. ASSUME NEW what, Takes(what)
      PROVE  commands' \in Seq(Command) /\ Head(commands) \in Command
  BY <1>1 DEF Takes
<1>2. ASSUME NEW m \in OnWire, wire' = Append(wire, m) PROVE wire' \in Seq(OnWire)
  BY <1>2
<1>3. CASE DeviceStarts
  <2>1. wire' \in Seq(OnWire)
    BY <1>2, <1>3, FrameTypes DEF DeviceStarts
  <2> QED BY <1>1, <1>3, <2>1 DEF DeviceStarts, Takes
<1>4. CASE DeviceStops
  <2>1. commands' \in Seq(Command) /\ wire' \in Seq(OnWire)
    BY <1>1, <1>4 DEF DeviceStops
  <2>2. {scanning, waiter, enabled, looping, streaming, answered, late}' \subseteq BOOLEAN
    BY <1>4 DEF DeviceStops, Takes
  <2> QED BY <1>4, <2>1, <2>2 DEF DeviceStops, Takes
<1>5. CASE DeviceAnswers
  <2>1. Head(commands).query \in Queries /\ Head(commands).req \in 0 .. MaxOps
    BY <1>1, <1>5 DEF DeviceAnswers, Command
  <2>2. wire' \in Seq(OnWire) /\ answered' \in BOOLEAN
    BY <1>2, <1>5, <2>1, FrameTypes DEF DeviceAnswers
  <2> QED BY <1>1, <1>5, <2>2 DEF DeviceAnswers, Takes
<1>6. CASE DeviceIgnores
  BY <1>1, <1>6 DEF DeviceIgnores, Takes
<1>7. CASE DeviceSamples
  <2>1. wire' \in Seq(OnWire)
    BY <1>2, <1>7, FrameTypes DEF DeviceSamples
  <2> QED BY <1>7, <2>1 DEF DeviceSamples
<1> QED BY <1>3, <1>4, <1>5, <1>6, <1>7 DEF Device, DeviceReacts

\* Every step keeps the types.
LEMMA TypeStep == TypeInv /\ [Next]_vars => TypeInv'
<1> SUFFICES ASSUME TypeInv, [Next]_vars PROVE TypeInv'
  OBVIOUS
<1>1. CASE UNCHANGED vars
  BY <1>1 DEF TypeInv, vars, clientVars, driverVars, codecVars, deviceVars
<1> QED BY <1>1, ClientTypes, DecoderTypes, DeviceTypes DEF Next

\* The wire carries messages only.
LEMMA WireOfMessages == TypeInv => wire \in Seq(Message)
BY DEF TypeInv, OnWire

\* Every variable keeps its type, and each lock is held exactly where the
\* code is between its lock and its unlock.
THEOREM TypeCorrect == Spec => []TypeOK
<1>1. TypeInv /\ LockInv => TypeOK
  BY WireOfMessages DEF TypeInv, LockInv, TypeOK
<1> QED BY <1>1, InitTypes, TypeStep, InitLocks, LockStep, PTL DEF Spec

-----------------------------------------------------------------------------
(* Answers *)

\* The listener only ever works on a message that came from the line, and it
\* stores what had the type of some request at the moment of its test.
AnswerInv ==
  /\ decoder = "callback" => msg.type # "none"
  /\ decoder \in {"unpack", "handling", "match"} => copy.type # "none"
  /\ decoder = "store" => copy.type \in {"devinfo", "conf"}
  /\ waiter \/ client = "copy" \/ result = "ok" => lastAns.type \in {"devinfo", "conf"}

\* Nothing was answered and no message is handled initially.
LEMMA InitAnswers == Init => AnswerInv
BY DEF Init, AnswerInv

\* The client keeps AnswerInv: only a signal ends its wait.
LEMMA ClientAnswers ==
  ASSUME ~SpuriousWakeup, TypeInv, AnswerInv, Client
  PROVE  AnswerInv'
<1> USE DEF AnswerInv, codecVars, driverVars, clientVars, deviceVars
<1>1. CASE \E q \in Queries : Ask(q)
  BY <1>1 DEF Ask
<1>2. CASE Start \/ Stop \/ DisableUnpacker \/ Arm \/ SendFails \/ StartReturns
  <2>1. client' # "copy" /\ (result' = "ok" => result = "ok")
    BY <1>2 DEF Start, Stop, DisableUnpacker, Arm, SendFails, StartReturns
  <2>2. waiter' = waiter \/ waiter' = FALSE
    BY <1>2 DEF Start, Stop, DisableUnpacker, Arm, SendFails, StartReturns
  <2>3. UNCHANGED <<decoder, msg, copy, lastAns>>
    BY <1>2 DEF Start, Stop, DisableUnpacker, Arm, SendFails, StartReturns
  <2> QED BY <2>1, <2>2, <2>3
<1>3. CASE Send
  <2>1. op = "request" \/ op = "start" \/ op = "stop"
    BY DEF TypeInv
  <2>2. client' # "copy"
    BY <1>3, <2>1 DEF Send, AfterSend
  <2> QED BY <1>3, <2>2 DEF Send
<1>4. CASE WaitOk \/ WaitTimeout
  BY <1>4 DEF WaitOk, WaitTimeout
<1>5. CASE ExitLoop
  <2>1. msg'.type = msg.type
    BY <1>5, TornMessage DEF ExitLoop, TypeInv
  <2>2. client' # "copy" /\ (waiter' => waiter)
    BY <1>5 DEF ExitLoop, AfterExitLoop
  <2> QED BY <1>5, <2>1, <2>2 DEF ExitLoop
<1>6. CASE CopyAnswer
  BY <1>6 DEF CopyAnswer
<1> QED BY <1>1, <1>2, <1>3, <1>4, <1>5, <1>6 DEF Client, ClientBegins, ClientGoesOn

\* The decoder and its listener keep AnswerInv.
LEMMA DecoderAnswers ==
  ASSUME TypeInv, AnswerInv, Decoder
  PROVE  AnswerInv'
<1> USE DEF AnswerInv, codecVars, driverVars, clientVars, deviceVars
<1>1. CASE DecBegin \/ DecEnd
  BY <1>1 DEF DecBegin, DecEnd
<1>2. CASE DecSkip \/ DecHeader
  BY <1>2 DEF DecSkip, DecHeader, Reads
<1>3. CASE DecFrame
  <2>1. msg'.type # "none"
    BY <1>3, ReadsTypes DEF DecFrame, OnWire
  <2> QED BY <1>3, <2>1 DEF DecFrame, Reads
<1>4. CASE DecCopy \/ DecUnpack \/ DecHandled \/ DecRelock
  BY <1>4 DEF DecCopy, DecUnpack, DecHandled, DecRelock, DecGoes
<1>5. CASE DecMatch
  <2>1. copy.type = waitingType => copy.type \in {"devinfo", "conf"}
    BY <1>5 DEF DecMatch, DecGoes, TypeInv
  <2> QED BY <1>5, <2>1 DEF DecMatch, DecGoes
<1>6. CASE DecStore
  BY <1>6 DEF DecStore, DecGoes
<1> QED BY <1>1, <1>2, <1>3, <1>4, <1>5, <1>6 DEF Decoder, DecoderGoesOn

\* Every step keeps AnswerInv: those of the device touch nothing it speaks of.
LEMMA AnswerStep == ~SpuriousWakeup /\ TypeInv /\ AnswerInv /\ [Next]_vars => AnswerInv'
<1> SUFFICES ASSUME ~SpuriousWakeup, TypeInv, AnswerInv, [Next]_vars PROVE AnswerInv'
  OBVIOUS
<1>1. CASE Device
  BY <1>1 DEF AnswerInv, Device, DeviceReacts, DeviceSamples, DeviceStarts, DeviceStops,
              DeviceAnswers, DeviceIgnores, Takes, clientVars, driverVars, codecVars
<1>2. CASE UNCHANGED vars
  BY <1>2 DEF AnswerInv, vars, clientVars, driverVars, codecVars
<1> QED BY <1>1, <1>2, ClientAnswers, DecoderAnswers DEF Next

\* A message accepted as an answer is no left-over sample of a scan, also
\* when the type is compared while the client sets it, as long as no wait
\* returns without a signal (onProtocolMessageDecoded).
THEOREM SamplesAreNoAnswers ==
  ASSUME ~SpuriousWakeup
  PROVE  Spec => []NeverASample
<1>1. AnswerInv => NeverASample
  BY DEF AnswerInv, NeverASample
<1> QED BY <1>1, InitTypes, TypeStep, InitAnswers, AnswerStep, PTL DEF Spec

-----------------------------------------------------------------------------
(* Whose answer it is *)

\* A sequence has an element of T; it has no more than one.
Has(s, T) == \E i \in 1 .. Len(s) : s[i] \in T
Sole(s, T) == \A i, j \in 1 .. Len(s) : s[i] \in T /\ s[j] \in T => i = j

RequestCommands == {c \in Command : c.op = "request"}
StartCommands == {c \in Command : c.op = "start"}
AnswerFrames == {m \in Message : m.type \in {"devinfo", "conf"}}

\* The command of the latest request, and what the device answers it.
TheRequest == [op |-> "request", query |-> query, req |-> ops]
TheAnswer == Frame(query.type, query.conf, ops)

\* The four places between the client's send and its signal.
InCommands == Has(commands, RequestCommands)
OnLine == Has(wire, AnswerFrames)
InCallback == decoder = "callback" /\ msg \in AnswerFrames
InListener == decoder \in {"unpack", "match", "store"} /\ copy \in AnswerFrames

\* Where the client may be in which operation; a frame partly read is still on
\* the line.
ControlInv ==
  /\ client \in {"arm", "wait", "copy"} => op = "request"
  /\ client = "delay" => op = "start"
  /\ frame # "unread" => wire # <<>>

\* No stream begins behind the back of a request: nothing after its exitLoopMode
\* makes the decoder take an answer for samples.
StreamInv ==
  /\ client # "delay" => ~Has(commands, StartCommands) /\ ~Has(wire, {Header})
  /\ op = "request" /\ client \in {"arm", "send", "wait"} => ~looping

\* While the client waits, its request or the answer to it is in at most one
\* place, once, and there is no other request or answer; an answer the device
\* gave is in one of them.  While the client does not wait there is neither.
PathInv ==
  IF client = "wait"
  THEN /\ waitingType = query.type
       /\ ~Has(commands, RequestCommands \ {TheRequest}) /\ Sole(commands, RequestCommands)
       /\ ~Has(wire, AnswerFrames \ {TheAnswer}) /\ Sole(wire, AnswerFrames)
       /\ frame = "broken" => Head(wire) # TheAnswer
       /\ InCallback => msg = TheAnswer
       /\ InListener => copy = TheAnswer
       /\ waiter => lastAns = TheAnswer
       /\ InCommands => ~OnLine /\ ~InCallback /\ ~InListener /\ ~waiter
       /\ OnLine => ~InCallback /\ ~InListener /\ ~waiter
       /\ InCallback \/ InListener => ~waiter
       /\ answered => OnLine \/ InCallback \/ InListener \/ waiter
  ELSE ~InCommands /\ ~OnLine /\ ~InCallback /\ ~InListener

\* How the latest request has gone on.
OutcomeInv ==
  /\ op = "request" /\ client = "send" => waitingType = query.type /\ ~waiter
  /\ op = "request" /\ client \in {"disable", "exitLoop", "arm", "send"} => ~answered
  /\ op = "request" /\ client # "idle" => result = "none"
  /\ client = "copy" => lastAns = TheAnswer
  /\ client = "idle" /\ op = "request" /\ result = "ok" => reply.req = ops /\ ~reply.torn
  /\ answered => result # "timeout"

\* As long as nothing was late this is inductive, with the types and AnswerInv.
ExchangeInv == ~late => StreamInv /\ PathInv /\ OutcomeInv

\* What a sequence holds after a message was sent.
LEMMA AppendHas ==
  ASSUME NEW S, NEW s \in Seq(S), NEW x \in S, NEW T
  PROVE  /\ Has(Append(s, x), T) <=> Has(s, T) \/ x \in T
         /\ Sole(s, T) /\ (x \in T => ~Has(s, T)) => Sole(Append(s, x), T)
         /\ Append(s, x) # <<>>
         /\ s # <<>> => Head(Append(s, x)) = Head(s)
<1>1. /\ Append(s, x) \in Seq(S) /\ Len(s) \in Nat /\ Len(Append(s, x)) = Len(s) + 1
      /\ Append(s, x)[Len(s) + 1] = x
      /\ \A i \in 1 .. Len(s) : Append(s, x)[i] = s[i]
  OBVIOUS
<1>2. \A i : i \in 1 .. Len(s) + 1 <=> i \in 1 .. Len(s) \/ i = Len(s) + 1
  BY <1>1
<1>3. Has(Append(s, x), T) <=> Has(s, T) \/ x \in T
  BY <1>1, <1>2 DEF Has
<1>4. Sole(s, T) /\ (x \in T => ~Has(s, T)) => Sole(Append(s, x), T)
  BY <1>1, <1>2 DEF Has, Sole
<1>5. Append(s, x) # <<>>
  BY <1>1
<1>6. s # <<>> => Head(Append(s, x)) = Head(s)
  <2> DEFINE t == Append(s, x)
  <2>1. s # <<>> => 1 \in 1 .. Len(s)
    OBVIOUS
  <2>2. t # <<>> => Head(t) = t[1]
    BY <1>1
  <2>3. s # <<>> => t[1] = s[1]
    BY <1>1, <2>1
  <2> HIDE DEF t
  <2> QED BY <1>5, <2>2, <2>3 DEF t
<1> QED BY <1>3, <1>4, <1>5, <1>6

\* What a sequence holds after its first message was received.
LEMMA TailHas ==
  ASSUME NEW S, NEW s \in Seq(S), s # <<>>, NEW T
  PROVE  /\ Has(Tail(s), T) => Has(s, T)
         /\ Head(s) \in T => Has(s, T)
         /\ Has(s, T) => Head(s) \in T \/ Has(Tail(s), T)
         /\ Sole(s, T) => Sole(Tail(s), T)
         /\ Sole(s, T) /\ Head(s) \in T => ~Has(Tail(s), T)
<1>1. /\ Len(s) \in Nat \ {0} /\ Len(Tail(s)) = Len(s) - 1 /\ Head(s) = s[1]
      /\ \A i \in 1 .. Len(Tail(s)) : Tail(s)[i] = s[i + 1]
  OBVIOUS
<1>2. \A i : i \in 1 .. Len(Tail(s)) => i \in Int /\ i + 1 \in 1 .. Len(s) /\ i + 1 # 1
  BY <1>1
<1>3. \A i \in 1 .. Len(s) : i = 1 \/ (i - 1 \in 1 .. Len(Tail(s)) /\ Tail(s)[i - 1] = s[i])
  BY <1>1
<1>4. 1 \in 1 .. Len(s)
  BY <1>1
<1>5. Has(Tail(s), T) => Has(s, T)
  BY <1>1, <1>2 DEF Has
<1>6. Head(s) \in T => Has(s, T)
  BY <1>1, <1>4 DEF Has
<1>7. Has(s, T) => Head(s) \in T \/ Has(Tail(s), T)
  BY <1>1, <1>3 DEF Has
<1>8. Sole(s, T) => Sole(Tail(s), T)
  <2> SUFFICES ASSUME Sole(s, T), NEW i \in 1 .. Len(Tail(s)), NEW j \in 1 .. Len(Tail(s)),
                      Tail(s)[i] \in T, Tail(s)[j] \in T
               PROVE  i = j
    BY DEF Sole
  <2>1. i + 1 = j + 1
    BY <1>1, <1>2 DEF Sole
  <2> QED BY <1>2, <2>1
<1>9. Sole(s, T) /\ Head(s) \in T => ~Has(Tail(s), T)
  BY <1>1, <1>2, <1>4 DEF Has, Sole
<1> QED BY <1>5, <1>6, <1>7, <1>8, <1>9

\* An empty sequence holds no message.
LEMMA EmptyHas == \A T : ~Has(<<>>, T)
BY DEF Has

\* The answer is one; the other frames and messages are none.
LEMMA AnswerFacts ==
  ASSUME TypeInv
  PROVE  /\ TheAnswer \in AnswerFrames /\ TheAnswer \in OnWire
         /\ TheAnswer.req = ops /\ ~TheAnswer.torn /\ TheAnswer.type = query.type
         /\ Sample \notin AnswerFrames /\ Header \notin AnswerFrames /\ Sample # Header
         /\ \A m \in Message : m \in AnswerFrames <=> m.type \in {"devinfo", "conf"}
<1>1. query \in Queries /\ ops \in 0 .. MaxOps
  BY DEF TypeInv
<1>2. TheAnswer \in OnWire
  BY <1>1, FrameTypes DEF TheAnswer
<1>3. query.type \in {"devinfo", "conf"}
  BY <1>1 DEF Queries
<1>4. TheAnswer.type = query.type /\ TheAnswer.req = ops /\ ~TheAnswer.torn
  BY DEF TheAnswer, Frame
<1> QED BY <1>2, <1>3, <1>4 DEF AnswerFrames, OnWire, Sample, Header, Frame

\* Nothing is exchanged initially.
LEMMA InitExchange == Init => ControlInv /\ ExchangeInv
BY EmptyHas DEF Init, ControlInv, ExchangeInv, StreamInv, PathInv, OutcomeInv, InCommands, OnLine,
                InCallback, InListener

\* Every step keeps the places of the client in its operation.
LEMMA ControlStep == TypeInv /\ ControlInv /\ [Next]_vars => ControlInv'
<1> SUFFICES ASSUME TypeInv, ControlInv, [Next]_vars PROVE ControlInv'
  OBVIOUS
<1> USE DEF ControlInv, codecVars, driverVars, clientVars, deviceVars
<1>0. wire \in Seq(OnWire) /\ op \in {"request", "start", "stop"}
  BY DEF TypeInv
<1>1. CASE (\E q \in Queries : Ask(q)) \/ Start \/ Stop \/ DisableUnpacker \/ Arm
  BY <1>1 DEF Ask, Start, Stop, DisableUnpacker, Arm
<1>2. CASE Send
  <2>1. op = "request" \/ op = "start" \/ op = "stop"
    BY <1>0
  <2> QED BY <1>2, <2>1 DEF Send, AfterSend
<1>3. CASE SendFails \/ StartReturns \/ WaitOk \/ WaitTimeout \/ CopyAnswer
  BY <1>3 DEF SendFails, StartReturns, WaitOk, WaitTimeout, CopyAnswer
<1>4. CASE ExitLoop
  BY <1>4 DEF ExitLoop, AfterExitLoop
<1>5. CASE DecBegin \/ DecEnd
  BY <1>5 DEF DecBegin, DecEnd
<1>6. CASE DecSkip \/ DecHeader \/ DecFrame
  BY <1>6 DEF DecSkip, DecHeader, DecFrame, Reads
<1>7. CASE DecCopy \/ DecUnpack \/ DecHandled \/ DecMatch \/ DecStore \/ DecRelock
  BY <1>7 DEF DecCopy, DecUnpack, DecHandled, DecMatch, DecStore, DecRelock, DecGoes
<1>8. CASE Device
  <2>1. UNCHANGED <<clientVars, codecVars>>
    BY <1>8 DEF Device, DeviceReacts, DeviceSamples, DeviceStarts, DeviceStops, DeviceAnswers,
                DeviceIgnores, Takes
  <2>2. wire' = wire \/ \E m : wire' = Append(wire, m)
    BY <1>8 DEF Device, DeviceReacts, DeviceSamples, DeviceStarts, DeviceStops, DeviceAnswers,
                DeviceIgnores
  <2>3. wire # <<>> => wire' # <<>>
    BY <1>0, <2>2
  <2> QED BY <2>1, <2>3
<1>9. CASE UNCHANGED vars
  BY <1>9 DEF vars
<1> QED BY <1>1, <1>2, <1>3, <1>4, <1>5, <1>6, <1>7, <1>8, <1>9
        DEF Next, Client, ClientBegins, ClientGoesOn, Decoder, DecoderGoesOn

Exchanging == TypeInv /\ AnswerInv /\ ControlInv /\ ExchangeInv

\* The client, from one operation to the next and up to its command.
LEMMA ClientPrepares ==
  ASSUME Exchanging, ~late',
         (\E q \in Queries : Ask(q)) \/ Start \/ Stop \/ DisableUnpacker \/ ExitLoop \/ Arm
           \/ SendFails
  PROVE  ExchangeInv'
<1> USE DEF Exchanging, ControlInv, ExchangeInv, StreamInv, PathInv, OutcomeInv, InCommands,
            OnLine, InCallback, InListener, codecVars, driverVars, clientVars, deviceVars
<1>1. CASE \E q \in Queries : Ask(q)
  BY <1>1 DEF Ask
<1>2. CASE Start \/ Stop \/ DisableUnpacker
  BY <1>2 DEF Start, Stop, DisableUnpacker
<1>3. CASE ExitLoop
  <2>1. msg' \in AnswerFrames => msg \in AnswerFrames
    BY <1>3, TornMessage, AnswerFacts DEF ExitLoop, TypeInv
  <2>2. /\ client \in {"exitLoop", "exitLoopAgain"} /\ ~looping'
        /\ UNCHANGED <<op, query, result, ops, waitingType, lastAns, copy, decoder, deviceVars>>
        /\ \/ client' = "idle" /\ client = "exitLoopAgain"
           \/ client' = "arm" /\ op = "request" /\ client = "exitLoop"
           \/ client' = "send" /\ op # "request" /\ client = "exitLoop"
    BY <1>3 DEF ExitLoop, AfterExitLoop
  <2> QED BY <2>1, <2>2
<1>4. CASE Arm
  BY <1>4 DEF Arm
<1>5. CASE SendFails
  BY <1>5 DEF SendFails
<1> QED BY <1>1, <1>2, <1>3, <1>4, <1>5

\* The command goes out: the one request there is.
LEMMA ClientSends ==
  ASSUME Exchanging, ~late', Send
  PROVE  ExchangeInv'
<1> USE DEF Exchanging, ControlInv, ExchangeInv, StreamInv, PathInv, OutcomeInv, InCommands,
            OnLine, InCallback, InListener
<1> DEFINE sent == [op |-> op, query |-> query, req |-> ops]
<1>1. /\ client = "send" /\ ~late
      /\ commands' = Append(commands, sent) /\ client' = AfterSend
      /\ UNCHANGED <<op, query, result, reply, ops, waitingType, waiter, lastAns, looping, frame,
                     msg, decoder, copy, wire, answered>>
  BY DEF Send, driverVars, codecVars
<1>2. sent \in Command /\ commands \in Seq(Command) /\ op \in {"request", "start", "stop"}
  BY DEF TypeInv, Command
<1>3. \A T : /\ Has(commands', T) <=> Has(commands, T) \/ sent \in T
             /\ Sole(commands, T) /\ (sent \in T => ~Has(commands, T)) => Sole(commands', T)
  BY <1>1, <1>2, AppendHas
<1>4. ~Has(commands, RequestCommands) /\ ~Has(commands, StartCommands)
  BY <1>1
<1>5. CASE op = "request"
  <2>1. client' = "wait" /\ sent = TheRequest
    BY <1>1, <1>5 DEF AfterSend, TheRequest
  <2>2. sent \notin StartCommands
    BY <1>5 DEF StartCommands
  <2>3. ~Has(commands, RequestCommands \ {TheRequest}) /\ Sole(commands, RequestCommands)
    BY <1>4 DEF Has, Sole
  <2>4. /\ ~Has(commands', RequestCommands \ {TheRequest}) /\ Sole(commands', RequestCommands)
        /\ ~Has(commands', StartCommands)
    BY <1>3, <1>4, <2>1, <2>2, <2>3
  <2>5. /\ ~Has(wire, AnswerFrames \ {TheAnswer}) /\ Sole(wire, AnswerFrames)
        /\ ~Has(wire, AnswerFrames)
    BY <1>1 DEF Has, Sole
  <2>6. frame = "broken" => Head(wire) # TheAnswer
    <3>1. wire # <<>> => Head(wire) \notin AnswerFrames
      BY <2>5, TailHas DEF TypeInv
    <3> QED BY <3>1, AnswerFacts
  <2>7. TheRequest' = TheRequest /\ TheAnswer' = TheAnswer
    BY <1>1 DEF TheRequest, TheAnswer
  <2>8. StreamInv'
    BY <1>1, <1>5, <2>1, <2>4
  <2>9. OutcomeInv'
    BY <1>1, <1>5, <2>1
  <2>10. PathInv'
    BY <1>1, <1>5, <2>1, <2>4, <2>5, <2>6, <2>7
  <2> QED BY <2>8, <2>9, <2>10
<1>6. CASE op = "start"
  <2>1. client' = "delay" /\ sent \notin RequestCommands
    BY <1>1, <1>6 DEF AfterSend, RequestCommands
  <2> QED BY <1>1, <1>3, <1>4, <1>6, <2>1
<1>7. CASE op = "stop"
  <2>1. client' = "disableAgain" /\ sent \notin RequestCommands /\ sent \notin StartCommands
    BY <1>1, <1>7 DEF AfterSend, RequestCommands, StartCommands
  <2> QED BY <1>1, <1>3, <1>4, <1>7, <2>1
<1> QED BY <1>2, <1>5, <1>6, <1>7

\* The client gives up a start or a request that was not late, or takes the
\* answer.
LEMMA ClientEnds ==
  ASSUME ~SpuriousWakeup, Exchanging, ~late', StartReturns \/ WaitOk \/ WaitTimeout \/ CopyAnswer
  PROVE  ExchangeInv'
<1> USE DEF Exchanging, ControlInv, ExchangeInv, StreamInv, PathInv, OutcomeInv, InCommands,
            OnLine, InCallback, InListener
<1>1. CASE StartReturns
  <2>1. /\ client = "delay" /\ client' = "idle" /\ op = "start" /\ ~late
        /\ ~Contains(wire, Header) /\ ~\E i \in 1 .. Len(commands) : commands[i].op = "start"
        /\ UNCHANGED <<op, query, result, reply, ops, driverVars, codecVars, decoder, copy, wire,
                       commands, answered>>
    BY <1>1 DEF StartReturns
  <2>2. ~Has(commands, StartCommands) /\ ~Has(wire, {Header})
    BY <2>1 DEF Has, StartCommands, Contains
  <2> QED BY <2>1, <2>2 DEF driverVars, codecVars
<1>2. CASE WaitOk
  <2>1. TheAnswer' = TheAnswer
    BY <1>2 DEF WaitOk, TheAnswer
  <2> QED BY <1>2, <2>1 DEF WaitOk, codecVars, deviceVars
<1>3. CASE WaitTimeout
  <2>1. /\ client = "wait" /\ client' = "idle" /\ op = "request" /\ ~late /\ ~OnItsWay
        /\ result' = "timeout"
        /\ UNCHANGED <<op, query, reply, ops, driverVars, codecVars, decoder, copy, wire, commands,
                       answered>>
    BY <1>3 DEF WaitTimeout
  <2>2. ~InCommands
    <3> SUFFICES ASSUME InCommands PROVE FALSE
      OBVIOUS
    <3>1. PICK i \in 1 .. Len(commands) : commands[i] \in RequestCommands
      BY DEF Has
    <3>2. commands[i] = TheRequest
      BY <2>1, <3>1 DEF Has
    <3> QED BY <2>1, <3>2 DEF TheRequest, OnItsWay
  <2>3. ~OnLine
    <3> SUFFICES ASSUME OnLine PROVE FALSE
      OBVIOUS
    <3>1. PICK i \in 1 .. Len(wire) : wire[i] \in AnswerFrames
      BY DEF Has
    <3>2. wire[i] = TheAnswer
      BY <2>1, <3>1 DEF Has
    <3> QED BY <2>1, <3>2, AnswerFacts DEF OnItsWay
  <2>4. ~InCallback /\ ~InListener /\ ~waiter
    BY <2>1, AnswerFacts DEF OnItsWay
  <2>5. ~answered
    BY <2>1, <2>3, <2>4
  <2>6. UNCHANGED <<decoder, msg, copy, wire, commands, answered, ops, query>>
    BY <2>1 DEF codecVars
  <2>7. StreamInv
    BY <2>1
  <2>8. StreamInv'
    BY <2>1, <2>6, <2>7
  <2>9. PathInv'
    BY <2>1, <2>2, <2>3, <2>4, <2>6
  <2>10. OutcomeInv'
    BY <2>1, <2>5, <2>6
  <2> QED BY <2>8, <2>9, <2>10
<1>4. CASE CopyAnswer
  BY <1>4, AnswerFacts DEF CopyAnswer, driverVars, codecVars, deviceVars
<1> QED BY <1>1, <1>2, <1>3, <1>4

\* The decoder reads a frame: when it is the answer, it is not taken for
\* anything else.
LEMMA DecoderReads ==
  ASSUME Exchanging, ~late', DecBegin \/ DecEnd \/ DecSkip \/ DecHeader \/ DecFrame
  PROVE  ExchangeInv'
<1> USE DEF Exchanging, ControlInv, ExchangeInv, StreamInv, PathInv, OutcomeInv, InCommands,
            OnLine, InCallback, InListener, clientVars, driverVars, codecVars, deviceVars
<1>1. CASE DecBegin
  BY <1>1 DEF DecBegin, TheRequest, TheAnswer
<1>2. CASE DecEnd
  BY <1>2 DEF DecEnd, TheRequest, TheAnswer
<1>3. ASSUME Reads
      PROVE  /\ decoder = "decoding" /\ ~late /\ wire # <<>> /\ wire' = Tail(wire)
             /\ frame' = "unread" /\ UNCHANGED <<clientVars, driverVars, copy, commands, answered>>
             /\ TheRequest' = TheRequest /\ TheAnswer' = TheAnswer
             /\ wire \in Seq(OnWire)
             /\ client # "delay" => ~Has(wire', {Header}) /\ Head(wire) # Header
             /\ Head(wire) \in AnswerFrames => client = "wait" /\ Head(wire) = TheAnswer
  <2>1. wire # <<>> /\ wire' = Tail(wire) /\ wire \in Seq(OnWire) /\ ~late
    BY <1>3 DEF Reads, TypeInv
  <2>2. \A T : (Has(wire', T) => Has(wire, T)) /\ (Head(wire) \in T => Has(wire, T))
    BY <2>1, TailHas
  <2>3. client = "wait" => Head(wire) \notin AnswerFrames \ {TheAnswer}
    BY <2>1, <2>2
  <2>4. client # "wait" => Head(wire) \notin AnswerFrames
    BY <2>1, <2>2
  <2> QED BY <1>3, <2>1, <2>2, <2>3, <2>4 DEF Reads, TheRequest, TheAnswer
<1>4. ASSUME Reads, NEW T
      PROVE  /\ Has(wire', T) => Has(wire, T)
             /\ Has(wire, T) => Head(wire) \in T \/ Has(wire', T)
             /\ Sole(wire, T) => Sole(wire', T)
             /\ Sole(wire, T) /\ Head(wire) \in T => ~Has(wire', T)
  <2>1. wire \in Seq(OnWire) /\ wire # <<>> /\ wire' = Tail(wire)
    BY <1>4 DEF Reads, TypeInv
  <2> HIDE DEF Exchanging
  <2> QED BY <2>1, TailHas
<1>5. CASE DecSkip \/ DecHeader
  <2>1. Reads /\ UNCHANGED <<codecLock, msg, decoder>>
    BY <1>5 DEF DecSkip, DecHeader
  <2>2. Head(wire) \notin AnswerFrames
    BY <1>3, <1>5, <2>1, AnswerFacts DEF DecSkip, DecHeader
  <2>3. looping' => looping \/ client = "delay"
    BY <1>3, <1>5, <2>1 DEF DecSkip, DecHeader
  <2>4. Has(wire', AnswerFrames) <=> Has(wire, AnswerFrames)
    BY <1>4, <2>1, <2>2
  <2>5. StreamInv' /\ OutcomeInv'
    BY <1>3, <2>1, <2>3
  <2>6. PathInv'
    BY <1>3, <1>4, <2>1, <2>4
  <2> QED BY <2>5, <2>6
<1>6. CASE DecFrame
  <2>1. Reads /\ decoder' = "callback" /\ looping' = looping /\ msg' = Decoded
    BY <1>6 DEF DecFrame
  <2>2. client = "wait" => ~looping
    BY <1>3, <2>1
  <2>3. msg' \in AnswerFrames <=> Head(wire) \in AnswerFrames /\ ~looping
    BY <2>1, AnswerFacts DEF Decoded
  <2>4. Head(wire) \in AnswerFrames => msg' = TheAnswer /\ ~Has(wire', AnswerFrames)
    BY <1>3, <1>4, <2>1, <2>2 DEF Decoded
  <2>5. Head(wire) \notin AnswerFrames => (Has(wire', AnswerFrames) <=> Has(wire, AnswerFrames))
    BY <1>4, <2>1
  <2>6. Head(wire) \in AnswerFrames => Has(wire, AnswerFrames)
    BY <1>3, <2>1, TailHas
  <2>7. StreamInv' /\ OutcomeInv'
    BY <1>3, <2>1
  <2>8. PathInv'
    <3>1. CASE client = "wait" /\ Head(wire) \in AnswerFrames
      BY <1>3, <1>4, <2>1, <2>3, <2>4, <2>6, <3>1
    <3>2. CASE client = "wait" /\ Head(wire) \notin AnswerFrames
      BY <1>3, <1>4, <2>1, <2>3, <2>5, <3>2
    <3>3. CASE client # "wait"
      BY <1>3, <1>4, <2>1, <2>3, <3>3
    <3> QED BY <3>1, <3>2, <3>3
  <2> QED BY <2>7, <2>8
<1> QED BY <1>1, <1>2, <1>5, <1>6

\* The listener copies the message and stores it when it is the answer.
LEMMA ListenerStores ==
  ASSUME Exchanging, ~late',
         DecCopy \/ DecUnpack \/ DecHandled \/ DecMatch \/ DecStore \/ DecRelock
  PROVE  ExchangeInv'
<1> USE DEF Exchanging, ControlInv, ExchangeInv, StreamInv, PathInv, OutcomeInv, InCommands,
            OnLine, InCallback, InListener, clientVars, deviceVars
<1>0. /\ ~late /\ UNCHANGED <<clientVars, waitingType, looping, frame, msg, deviceVars>>
      /\ TheRequest' = TheRequest /\ TheAnswer' = TheAnswer
  BY DEF DecCopy, DecUnpack, DecHandled, DecMatch, DecStore, DecRelock, DecGoes, TheRequest,
         TheAnswer
<1>1. CASE DecCopy
  BY <1>0, <1>1 DEF DecCopy, DecGoes
<1>2. CASE DecUnpack
  <2>1. copy.type = "sample" => copy \notin AnswerFrames
    BY AnswerFacts DEF TypeInv
  <2> QED BY <1>0, <1>2, <2>1 DEF DecUnpack, DecGoes
<1>3. CASE DecHandled \/ DecRelock
  BY <1>0, <1>3 DEF DecHandled, DecRelock, DecGoes
<1>4. CASE DecMatch
  <2>1. InListener => copy.type = waitingType
    BY <1>0, AnswerFacts
  <2> QED BY <1>0, <1>4, <2>1 DEF DecMatch, DecGoes
<1>5. CASE DecStore
  <2>1. decoder = "store" /\ decoder' = "relock" /\ lastAns' = copy /\ waiter' = TRUE
    BY <1>5 DEF DecStore, DecGoes
  <2>2. InListener
    BY <2>1, AnswerFacts DEF AnswerInv, TypeInv
  <2>3. client = "wait" /\ copy = TheAnswer
    BY <1>0, <2>2
  <2> QED BY <1>0, <2>1, <2>2, <2>3
<1> QED BY <1>1, <1>2, <1>3, <1>4, <1>5

\* The device answers the one request there is.
LEMMA DeviceAnswersOnce ==
  ASSUME Exchanging, ~late', Device
  PROVE  ExchangeInv'
<1> USE DEF Exchanging, ControlInv, ExchangeInv, StreamInv, PathInv, OutcomeInv, InCommands,
            OnLine, InCallback, InListener
<1>0. /\ ~late /\ UNCHANGED <<clientVars, driverVars, codecVars, decoder, copy>>
      /\ TheRequest' = TheRequest /\ TheAnswer' = TheAnswer
  BY DEF Device, DeviceReacts, DeviceSamples, DeviceStarts, DeviceStops, DeviceAnswers,
         DeviceIgnores, Takes, TheRequest, TheAnswer, clientVars
<1>1. wire \in Seq(OnWire) /\ commands \in Seq(Command)
  BY DEF TypeInv
<1>2. ASSUME NEW what, Takes(what), NEW T
      PROVE  /\ Has(commands', T) => Has(commands, T)
             /\ Head(commands) \in T => Has(commands, T)
             /\ Sole(commands, T) => Sole(commands', T)
             /\ Sole(commands, T) /\ Head(commands) \in T => ~Has(commands', T)
  BY <1>1, <1>2, TailHas DEF Takes
<1>3. ASSUME NEW what, Takes(what)
      PROVE  Head(commands) \in Command /\ Head(commands).op = what
  BY <1>1, <1>3 DEF Takes
<1>4. ASSUME NEW x \in OnWire, wire' = Append(wire, x), NEW T
      PROVE  /\ Has(wire', T) <=> Has(wire, T) \/ x \in T
             /\ Sole(wire, T) /\ (x \in T => ~Has(wire, T)) => Sole(wire', T)
             /\ wire # <<>> => Head(wire') = Head(wire)
  BY <1>1, <1>4, AppendHas
<1>5. CASE DeviceStarts
  <2>1. Takes("start") /\ wire' = Append(wire, Header) /\ answered' = answered
    BY <1>5 DEF DeviceStarts
  <2>2. Head(commands) \in StartCommands
    BY <1>3, <2>1 DEF StartCommands
  <2>3. client = "delay" /\ op = "start"
    BY <1>0, <1>2, <2>1, <2>2
  <2>4. ~Has(wire', AnswerFrames) /\ ~Has(commands', RequestCommands)
    BY <1>0, <1>2, <1>4, <2>1, <2>3, FrameTypes, AnswerFacts
  <2> QED BY <1>0, <2>1, <2>3, <2>4 DEF clientVars, driverVars, codecVars
<1>6. CASE DeviceStops \/ DeviceIgnores
  <2>1. PICK what \in {"start", "stop", "request"} : Takes(what)
    BY <1>6 DEF DeviceStops, DeviceIgnores
  <2>2. UNCHANGED <<wire, answered>>
    BY <1>6 DEF DeviceStops, DeviceIgnores
  <2> QED BY <1>0, <1>2, <2>1, <2>2 DEF clientVars, driverVars, codecVars
<1>7. CASE DeviceAnswers
  <2> DEFINE asked == Head(commands)
  <2>1. /\ Takes("request")
        /\ wire' = Append(wire, Frame(asked.query.type, asked.query.conf, asked.req))
    BY <1>7 DEF DeviceAnswers
  <2>2. asked \in RequestCommands
    BY <1>3, <2>1 DEF RequestCommands
  <2>3. client = "wait" /\ InCommands
    BY <1>0, <1>2, <2>1, <2>2
  <2>4. asked = TheRequest
    BY <1>0, <1>2, <2>1, <2>2, <2>3
  <2>5. wire' = Append(wire, TheAnswer)
    BY <2>1, <2>4 DEF TheRequest, TheAnswer
  <2>6. op = "request" /\ result = "none"
    BY <1>0, <2>3
  <2>7. /\ ~Has(commands', RequestCommands)
        /\ ~Has(commands', StartCommands) /\ ~Has(commands', RequestCommands \ {TheRequest})
        /\ Sole(commands', RequestCommands)
    BY <1>0, <1>2, <2>1, <2>2, <2>3
  <2>8. /\ ~Has(wire', {Header}) /\ ~Has(wire', AnswerFrames \ {TheAnswer})
        /\ Has(wire', AnswerFrames) /\ Sole(wire', AnswerFrames)
        /\ wire # <<>> => Head(wire') = Head(wire)
    BY <1>0, <1>4, <2>3, <2>5, AnswerFacts
  <2>9. StreamInv' /\ OutcomeInv'
    BY <1>0, <2>3, <2>6, <2>7, <2>8 DEF clientVars, driverVars, codecVars
  <2>10. PathInv'
    BY <1>0, <2>3, <2>7, <2>8 DEF clientVars, driverVars, codecVars
  <2> QED BY <2>9, <2>10
<1>8. CASE DeviceSamples
  <2>1. wire' = Append(wire, Sample) /\ UNCHANGED <<commands, answered>>
    BY <1>8 DEF DeviceSamples
  <2>2. \A T : Has(wire', T) <=> Has(wire, T) \/ Sample \in T
    BY <1>4, <2>1, FrameTypes
  <2>3. Sole(wire, AnswerFrames) => Sole(wire', AnswerFrames)
    BY <1>4, <2>1, FrameTypes, AnswerFacts
  <2>4. wire # <<>> => Head(wire') = Head(wire)
    BY <1>4, <2>1, FrameTypes
  <2> QED BY <1>0, <2>1, <2>2, <2>3, <2>4, AnswerFacts DEF clientVars, driverVars, codecVars
<1> QED BY <1>5, <1>6, <1>7, <1>8 DEF Device, DeviceReacts

\* Every step keeps the exchange between client and device.
LEMMA ExchangeStep == ~SpuriousWakeup /\ Exchanging /\ [Next]_vars => ExchangeInv'
<1> SUFFICES ASSUME ~SpuriousWakeup, Exchanging, [Next]_vars, ~late' PROVE ExchangeInv'
  BY DEF ExchangeInv
<1>1. CASE Client
  BY <1>1, ClientPrepares, ClientSends, ClientEnds DEF Client, ClientBegins, ClientGoesOn
<1>2. CASE Decoder
  BY <1>2, DecoderReads, ListenerStores DEF Decoder, DecoderGoesOn
<1>3. CASE Device
  BY <1>3, DeviceAnswersOnce
<1>4. CASE UNCHANGED vars
  BY <1>4 DEF vars, clientVars, driverVars, codecVars, deviceVars, Exchanging, ExchangeInv,
              StreamInv, PathInv, OutcomeInv, InCommands, OnLine, InCallback, InListener,
              TheRequest, TheAnswer
<1> QED BY <1>1, <1>2, <1>3, <1>4 DEF Next

\* The exchange invariant holds in every reachable state.
LEMMA ExchangeCorrect ==
  ASSUME ~SpuriousWakeup
  PROVE  Spec => []Exchanging
<1>1. Init => Exchanging
  BY InitTypes, InitAnswers, InitExchange DEF Exchanging
<1>2. Exchanging /\ [Next]_vars => Exchanging'
  BY TypeStep, AnswerStep, ControlStep, ExchangeStep DEF Exchanging
<1> QED BY <1>1, <1>2, PTL DEF Spec

\* As long as nothing was late, and no wait returns without a signal, a request
\* that succeeds returns the whole answer to exactly this request, however many
\* requests, starts and stops came before it (_sendCommandWithResponse).
THEOREM AnswersMatchQueries ==
  ASSUME ~SpuriousWakeup
  PROVE  Spec => []AnswerMatchesQuery
<1>1. Exchanging => AnswerMatchesQuery
  BY DEF Exchanging, ExchangeInv, OutcomeInv, AnswerMatchesQuery
<1> QED BY <1>1, ExchangeCorrect, PTL

\* As long as nothing was late, and no wait returns without a signal, a request
\* the device answers does not time out: the decoder does not lose the answer amid the samples of a scan that was
\* running, nor the listener between its test and its store.
THEOREM AnsweredRequestsSucceed ==
  ASSUME ~SpuriousWakeup
  PROVE  Spec => []AnsweredRequestSucceeds
<1>1. Exchanging => AnsweredRequestSucceeds
  BY DEF Exchanging, ExchangeInv, OutcomeInv, AnsweredRequestSucceeds
<1> QED BY <1>1, ExchangeCorrect, PTL
=============================================================================

--------------------------- MODULE LidarNodeProofs ---------------------------
(***************************************************************************)
(* Proofs about the node, which is LidarNode around ScanConversion.        *)
(* Whatever lidar the node finds, whatever it is started with, and         *)
(* whichever of its requests fail, it agrees with the driver about whether *)
(* it is scanning, and leaves a quiet lidar behind.  What becomes of a     *)
(* scan on its way to the topic follows, for every number of samples,      *)
(* every resolution of the circle and every angle the lidar reports.       *)
(***************************************************************************)
EXTENDS LidarNode, ScanConversion, TLAPS, WellFoundedInduction, FunctionTheorems,
        FiniteSetTheorems, SequenceTheorems

-----------------------------------------------------------------------------
(* Where the node can be *)

\* Calls that may come before the last ones of an operation that starts a scan.
Preparing == Queries \cup {"macAddr", "stop", "motorDefault", "motor600"}

\* The last ones: a scan is started, or there is none.
Deciding == {<<"resetAndEnable", "scan">>, <<"noSuchMode">>}

\* The calls of an operation that will start a scan, or give up.
Starts(op) == \E before \in Seq(Preparing), last \in Deciding : op = before \o last
ToStart(todo) == \E before \in Seq(Preparing), last \in Deciding :
                   todo = before \o last \o <<"started">>

\* The driver found out how to control the motor, and every command was sent.
AllSent == ~sendFailed /\ Controllable

\* What the node knows before it asks for its first scan.
SettingUp ==
  /\ node = "setup" /\ ~enabled /\ ~scanning
  /\ calls \in {<<"motorSupport", "identity", "health", "model">>,
                <<"identity", "health", "model">>, <<"health", "model">>, <<"model">>}

\* Between operations the node and the driver agree; the motor's speed is nothing
\* to them.
Agreed ==
  /\ node \in {"setup", "loop", "grab", "published", "spin"}
  /\ calls \in {<<>>, <<"motor600">>, <<"motorTuned">>}
  /\ scanning = enabled /\ (scanning => streaming)

\* An operation starts a scan: what is decoded and sent last is what counts.
Starting ==
  /\ node \in {"setup", "grab", "spin"}
  /\ \/ ToStart(calls)
     \/ calls = <<"scan", "started">> /\ enabled
     \/ calls = <<"started">> /\ enabled /\ streaming

\* An operation stops the scan.
Stopping ==
  /\ node \in {"grab", "spin"}
  /\ \/ calls = <<"stop", "motorOff", "stopped">>
     \/ calls \in {<<"motorOff", "stopped">>, <<"stopped">>} /\ ~enabled

\* The first scan could not be started: the node stops the lidar and ends.
GivingUp ==
  /\ node = "setup"
  /\ \/ calls = <<"stop", "motorOff", "stopped", "delete">>
     \/ calls = <<"motorOff", "stopped", "delete">> /\ (AllSent => ~streaming)
     \/ /\ calls \in {<<"stopped", "delete">>, <<"delete">>}
        /\ AllSent => motor = "off" /\ ~streaming

\* The node was told to end.
Ending ==
  /\ node = "ending"
  /\ \/ calls = <<"motorOff", "stop", "delete">>
     \/ calls = <<"stop", "delete">> /\ (AllSent => motor = "off")
     \/ calls = <<"delete">> /\ (AllSent => motor = "off" /\ ~streaming)

Refusing == node = "refusing" /\ calls = <<"delete">>

Over ==
  /\ node \in {"gone", "refused"} /\ calls = <<>>
  /\ node = "gone" /\ AllSent => motor = "off" /\ ~streaming

\* Flags are Booleans.
Flags == scanning \in BOOLEAN /\ enabled \in BOOLEAN /\ streaming \in BOOLEAN

PhaseInv ==
  SettingUp \/ Agreed \/ Starting \/ Stopping \/ GivingUp \/ Ending \/ Refusing \/ Over

NodeInv == Flags /\ PhaseInv

-----------------------------------------------------------------------------
(* Operations as sequences of calls *)

Names == Preparing \cup {"resetAndEnable", "scan", "noSuchMode", "started"}

\* The pieces the lists of calls are built from are sequences of names.
LEMMA Sequences ==
  /\ \A before \in Seq(Preparing) : before \in Seq(Names)
  /\ \A last \in Deciding : last \in Seq(Names) /\ last # <<>>
  /\ <<"started">> \in Seq(Names)
<1>1. \A before \in Seq(Preparing) : before \in Seq(Names)
  BY DEF Names
<1>2. \A last \in Deciding : last \in Seq(Names) /\ last # <<>>
  <2>1. <<"resetAndEnable", "scan">> \in Seq(Names) /\ <<"resetAndEnable", "scan">> # <<>>
    BY DEF Names
  <2>2. <<"noSuchMode">> \in Seq(Names) /\ <<"noSuchMode">> # <<>>
    BY DEF Names
  <2> QED BY <2>1, <2>2 DEF Deciding
<1>3. <<"started">> \in Seq(Names)
  BY DEF Names
<1> QED BY <1>1, <1>2, <1>3

\* The head and the tail of two sequences put together.
LEMMA HeadTailConcat ==
  ASSUME NEW S, NEW s \in Seq(S), NEW t \in Seq(S), s # <<>>
  PROVE  Head(s \o t) = Head(s) /\ Tail(s \o t) = Tail(s) \o t /\ s \o t # <<>>
<1> DEFINE c == s \o t
           d == Tail(s) \o t
<1>1. /\ c \in Seq(S) /\ Len(c) = Len(s) + Len(t)
      /\ \A i \in 1 .. Len(s) + Len(t) : c[i] = IF i <= Len(s) THEN s[i] ELSE t[i - Len(s)]
  BY ConcatProperties
<1>2. /\ Len(s) \in Nat /\ Len(s) >= 1 /\ Len(t) \in Nat
      /\ Tail(s) \in Seq(S) /\ Len(Tail(s)) = Len(s) - 1
      /\ \A i \in 1 .. Len(Tail(s)) : Tail(s)[i] = s[i + 1]
  BY HeadTailProperties, EmptySeq, LenProperties
<1>3. /\ d \in Seq(S) /\ Len(d) = Len(s) - 1 + Len(t)
      /\ \A i \in 1 .. Len(s) - 1 + Len(t) :
           d[i] = IF i <= Len(s) - 1 THEN Tail(s)[i] ELSE t[i - (Len(s) - 1)]
  BY <1>2, ConcatProperties
<1> HIDE DEF c, d
<1>4. c # <<>>
  BY <1>1, <1>2
<1>5. /\ Tail(c) \in Seq(S) /\ Len(Tail(c)) = Len(c) - 1
      /\ \A i \in 1 .. Len(Tail(c)) : Tail(c)[i] = c[i + 1]
  BY <1>1, <1>4, HeadTailProperties
<1>6. \A i \in 1 .. Len(d) : Tail(c)[i] = d[i]
  <2> SUFFICES ASSUME NEW i \in 1 .. Len(d) PROVE Tail(c)[i] = d[i]
    OBVIOUS
  <2>1. i \in 1 .. Len(Tail(c)) /\ i + 1 \in 1 .. Len(s) + Len(t) /\ i \in 1 .. Len(s) - 1 + Len(t)
    BY <1>1, <1>2, <1>3, <1>5
  <2>2. Tail(c)[i] = IF i + 1 <= Len(s) THEN s[i + 1] ELSE t[i + 1 - Len(s)]
    BY <1>1, <1>5, <2>1
  <2>3. d[i] = IF i <= Len(s) - 1 THEN s[i + 1] ELSE t[i - (Len(s) - 1)]
    BY <1>2, <1>3, <2>1
  <2> DEFINE n == Len(s)
  <2> HIDE DEF n
  <2>4. n \in Nat /\ i \in Nat
    BY <1>2, <2>1 DEF n
  <2>5. i + 1 - n = i - (n - 1) /\ (i + 1 <= n <=> i <= n - 1)
    BY <2>4
  <2>6. CASE i <= n - 1
    BY <2>2, <2>3, <2>5, <2>6 DEF n
  <2>7. CASE ~(i <= n - 1)
    <3>1. Tail(c)[i] = t[i + 1 - n] /\ d[i] = t[i - (n - 1)]
      BY <2>2, <2>3, <2>5, <2>7 DEF n
    <3> QED BY <2>5, <3>1
  <2> QED BY <2>6, <2>7
<1>7. Tail(c) = d
  BY <1>1, <1>3, <1>5, <1>6, SeqEqual
<1>8. Head(c) = c[1] /\ Head(s) = s[1] /\ c[1] = s[1]
  BY <1>1, <1>2, <1>4
<1> QED BY <1>4, <1>7, <1>8 DEF c, d

\* Short sequences put together.
LEMMA Joined ==
  ASSUME NEW a, NEW b, NEW c
  PROVE  /\ <<a>> \o <<b>> = <<a, b>>
         /\ <<a>> \o <<b, c>> = <<a, b, c>>
         /\ <<a, b>> \o <<c>> = <<a, b, c>>
<1> DEFINE S == {a, b, c}
<1>1. /\ <<a>> \in Seq(S) /\ <<b>> \in Seq(S) /\ <<c>> \in Seq(S) /\ <<a, b>> \in Seq(S)
      /\ <<b, c>> \in Seq(S) /\ <<a, b, c>> \in Seq(S)
  OBVIOUS
<1>2. <<a>> \o <<b>> = <<a, b>>
  <2> DEFINE r == <<a>> \o <<b>>
  <2>1. r \in Seq(S) /\ Len(r) = 2 /\ r[1] = a /\ r[2] = b
    <3>1. /\ r \in Seq(S) /\ Len(r) = Len(<<a>>) + Len(<<b>>)
          /\ \A i \in 1 .. Len(<<a>>) + Len(<<b>>) :
               r[i] = IF i <= Len(<<a>>) THEN <<a>>[i] ELSE <<b>>[i - Len(<<a>>)]
      BY <1>1, ConcatProperties
    <3> HIDE DEF r
    <3> QED BY <3>1
  <2> HIDE DEF r
  <2>2. \A i \in 1 .. 2 : r[i] = <<a, b>>[i]
    BY <2>1
  <2>3. r = <<a, b>>
    BY <1>1, <2>1, <2>2, SeqEqual
  <2> QED BY <2>3 DEF r
<1>3. <<a>> \o <<b, c>> = <<a, b, c>>
  <2> DEFINE r == <<a>> \o <<b, c>>
  <2>1. r \in Seq(S) /\ Len(r) = 3 /\ r[1] = a /\ r[2] = b /\ r[3] = c
    <3>1. /\ r \in Seq(S) /\ Len(r) = Len(<<a>>) + Len(<<b, c>>)
          /\ \A i \in 1 .. Len(<<a>>) + Len(<<b, c>>) :
               r[i] = IF i <= Len(<<a>>) THEN <<a>>[i] ELSE <<b, c>>[i - Len(<<a>>)]
      BY <1>1, ConcatProperties
    <3> HIDE DEF r
    <3> QED BY <3>1
  <2> HIDE DEF r
  <2>2. \A i \in 1 .. 3 : r[i] = <<a, b, c>>[i]
    BY <2>1
  <2>3. r = <<a, b, c>>
    BY <1>1, <2>1, <2>2, SeqEqual
  <2> QED BY <2>3 DEF r
<1>4. <<a, b>> \o <<c>> = <<a, b, c>>
  <2> DEFINE r == <<a, b>> \o <<c>>
  <2>1. r \in Seq(S) /\ Len(r) = 3 /\ r[1] = a /\ r[2] = b /\ r[3] = c
    <3>1. /\ r \in Seq(S) /\ Len(r) = Len(<<a, b>>) + Len(<<c>>)
          /\ \A i \in 1 .. Len(<<a, b>>) + Len(<<c>>) :
               r[i] = IF i <= Len(<<a, b>>) THEN <<a, b>>[i] ELSE <<c>>[i - Len(<<a, b>>)]
      BY <1>1, ConcatProperties
    <3> HIDE DEF r
    <3> QED BY <3>1
  <2> HIDE DEF r
  <2>2. \A i \in 1 .. 3 : r[i] = <<a, b, c>>[i]
    BY <2>1
  <2>3. r = <<a, b, c>>
    BY <1>1, <2>1, <2>2, SeqEqual
  <2> QED BY <2>3 DEF r
<1> QED BY <1>2, <1>3, <1>4

\* RPlidarNode::stop, and the end after it.
LEMMA StopAndEnd == NodeStop \o <<"delete">> = <<"stop", "motorOff", "stopped", "delete">>
<1> DEFINE S == {"stop", "motorOff", "stopped", "delete"}
           d == <<"delete">>
           r == NodeStop \o d
<1>1. NodeStop \in Seq(S) /\ Len(NodeStop) = 3 /\ d \in Seq(S) /\ Len(d) = 1
  BY DEF NodeStop
<1>2. r \in Seq(S) /\ Len(r) = 4 /\ r[1] = "stop" /\ r[2] = "motorOff" /\ r[3] = "stopped" /\ r[4] = "delete"
  <2>1. /\ r \in Seq(S) /\ Len(r) = Len(NodeStop) + Len(d)
        /\ \A i \in 1 .. Len(NodeStop) + Len(d) :
             r[i] = IF i <= Len(NodeStop) THEN NodeStop[i] ELSE d[i - Len(NodeStop)]
    BY <1>1, ConcatProperties
  <2>2. NodeStop[1] = "stop" /\ NodeStop[2] = "motorOff" /\ NodeStop[3] = "stopped" /\ d[1] = "delete"
    BY DEF NodeStop
  <2> HIDE DEF r, d, S
  <2> QED BY <1>1, <2>1, <2>2
<1> DEFINE t == <<"stop", "motorOff", "stopped", "delete">>
<1>3. t \in Seq(S) /\ Len(t) = 4 /\ t[1] = "stop" /\ t[2] = "motorOff" /\ t[3] = "stopped" /\ t[4] = "delete"
  OBVIOUS
<1> HIDE DEF S, r, t
<1>4. \A i \in 1 .. 4 : r[i] = t[i]
  BY <1>2, <1>3
<1>5. r = t
  BY <1>2, <1>3, <1>4, SeqEqual
<1> QED BY <1>5 DEF r, t

\* An operation that starts a scan still does with other calls before.
LEMMA StartsAfter ==
  ASSUME NEW p \in Seq(Preparing), NEW op, Starts(op)
  PROVE  Starts(p \o op)
<1>1. PICK before \in Seq(Preparing), last \in Deciding : op = before \o last
  BY DEF Starts
<1>2. p \in Seq(Names) /\ before \in Seq(Names) /\ last \in Seq(Names)
  BY Sequences
<1>3. p \o (before \o last) = (p \o before) \o last
  BY <1>2, ConcatAssociative
<1>4. p \o before \in Seq(Preparing)
  BY ConcatProperties
<1> QED BY <1>1, <1>3, <1>4 DEF Starts

\* The calls of a launch prepare, then start a scan or find no such mode.
LEMMA LaunchStarts == Starts(Launch)
<1> DEFINE m == IF device.ctrl = "rpm" THEN <<"macAddr">> ELSE <<>>
           d == <<"motorDefault">>
           l == <<"resetAndEnable", "scan">>
<1>1. m \in Seq(Preparing) /\ d \in Seq(Preparing)
  <2>1. <<"macAddr">> \in Seq(Preparing) /\ <<>> \in Seq(Preparing) /\ d \in Seq(Preparing)
    BY DEF Preparing
  <2> QED BY <2>1
<1>2. Starts(d \o l)
  BY <1>1 DEF Starts, Deciding
<1>3. d \o l = <<"motorDefault", "resetAndEnable", "scan">>
  BY Joined
<1> QED BY <1>1, <1>2, <1>3, StartsAfter DEF Launch

\* So do the calls of every way to start a scan.
LEMMA StartScanStarts == Starts(StartScanNormal) /\ Starts(StartScanExpress) /\ Starts(StartScan)
<1>1. /\ <<"stop", "deviceInfo">> \in Seq(Preparing)
      /\ <<"stop", "deviceInfo", "deviceInfo">> \in Seq(Preparing)
      /\ (IF device.conf THEN ModeDetails ELSE LegacyRate) \in Seq(Preparing)
      /\ (IF device.conf THEN <<"typicalMode">> ELSE <<>>) \in Seq(Preparing)
  <2>1. <<"stop", "deviceInfo">> \in Seq(Preparing)
    BY DEF Preparing, Queries
  <2>2. <<"stop", "deviceInfo", "deviceInfo">> \in Seq(Preparing)
    BY DEF Preparing, Queries
  <2>3. ModeDetails \in Seq(Preparing) /\ LegacyRate \in Seq(Preparing)
    BY DEF Preparing, Queries, ModeDetails, LegacyRate
  <2>4. <<"typicalMode">> \in Seq(Preparing) /\ <<>> \in Seq(Preparing)
    BY DEF Preparing, Queries
  <2> QED BY <2>1, <2>2, <2>3, <2>4
<1>2. /\ <<"stop", "deviceInfo">> \o (IF device.conf THEN ModeDetails ELSE LegacyRate) \in Seq(Preparing)
      /\ <<"stop", "deviceInfo", "deviceInfo">> \o (IF device.conf THEN <<"typicalMode">> ELSE <<>>)
           \in Seq(Preparing)
  BY <1>1, ConcatProperties
<1>3. Starts(StartScanNormal)
  BY <1>2, LaunchStarts, StartsAfter DEF StartScanNormal
<1>4. Starts(StartScanExpress)
  BY <1>2, <1>3, LaunchStarts, StartsAfter DEF StartScanExpress
<1>5. Starts(StartScan)
  BY <1>2, <1>4, StartsAfter DEF StartScan
<1> QED BY <1>3, <1>4, <1>5

\* So do those of the start of a mode that is named.
LEMMA NamedModeStarts == Starts(StartNamedMode)
<1> DEFINE list == IF device.conf THEN <<"modeCount">> \o ModeDetails \o ModeDetails ELSE <<>>
           run == IF device.conf /\ device.named THEN StartScanExpress ELSE <<"noSuchMode">>
<1>1. <<"deviceInfo">> \in Seq(Preparing) /\ <<"modeCount">> \in Seq(Preparing)
      /\ ModeDetails \in Seq(Preparing) /\ <<>> \in Seq(Preparing)
  BY DEF Preparing, Queries, ModeDetails
<1>2. list \in Seq(Preparing)
  <2>1. <<"modeCount">> \o ModeDetails \in Seq(Preparing)
    BY <1>1, ConcatProperties
  <2> QED BY <1>1, <2>1, ConcatProperties
<1>3. Starts(<<"noSuchMode">>)
  <2>1. <<"noSuchMode">> \in Deciding /\ <<"noSuchMode">> \in Seq(Names)
    BY DEF Deciding, Names
  <2>2. <<>> \o <<"noSuchMode">> = <<"noSuchMode">>
    BY <2>1, ConcatEmptySeq
  <2> QED BY <1>1, <2>1, <2>2 DEF Starts
<1>4. Starts(run)
  BY <1>3, StartScanStarts
<1>5. <<"deviceInfo">> \o list \in Seq(Preparing)
  BY <1>1, <1>2, ConcatProperties
<1> QED BY <1>4, <1>5, StartsAfter DEF StartNamedMode

\* RPlidarNode::start ends with a scan that is started, or none found; so it does
\* after the motor was set.
LEMMA NodeStartStarts == ToStart(NodeStart) /\ ToStart(<<"motor600">> \o NodeStart)
<1> DEFINE op == IF config.named THEN StartNamedMode ELSE StartScan
           d == <<"motorDefault">>
           m == <<"motor600">>
<1>1. Starts(op)
  BY StartScanStarts, NamedModeStarts
<1>2. d \in Seq(Preparing) /\ m \in Seq(Preparing)
  BY DEF Preparing
<1>3. Starts(d \o op) /\ Starts(m \o (d \o op))
  BY <1>1, <1>2, StartsAfter
<1>4. ASSUME NEW o, Starts(o)
      PROVE  ToStart(o \o <<"started">>) /\ o \in Seq(Names)
  <2>1. PICK before \in Seq(Preparing), last \in Deciding : o = before \o last
    BY <1>4 DEF Starts
  <2>2. before \in Seq(Names) /\ last \in Seq(Names)
    BY Sequences
  <2>3. o \in Seq(Names)
    BY <2>1, <2>2, ConcatProperties
  <2> QED BY <2>1, <2>3 DEF ToStart
<1>5. NodeStart = (d \o op) \o <<"started">>
  BY DEF NodeStart
<1>6. m \o ((d \o op) \o <<"started">>) = (m \o (d \o op)) \o <<"started">>
  <2>1. m \in Seq(Names) /\ d \o op \in Seq(Names) /\ <<"started">> \in Seq(Names)
    <3>1. m \in Seq(Names)
      BY <1>2, Sequences
    <3> QED BY <1>3, <1>4, <3>1, Sequences
  <2> DEFINE do == d \o op
             s == <<"started">>
  <2>2. do \in Seq(Names) /\ s \in Seq(Names)
    BY <2>1
  <2> HIDE DEF do, s, m
  <2>3. (m \o do) \o s = m \o (do \o s)
    <3>1. m \in Seq(Names)
      BY <2>1
    <3> QED BY <2>2, <3>1, ConcatAssociative
  <2> QED BY <2>3 DEF do, s
<1> HIDE DEF op
<1> QED BY <1>3, <1>4, <1>5, <1>6

\* What comes next on the way to a scan.
LEMMA NextToStart ==
  ASSUME NEW todo, ToStart(todo)
  PROVE  /\ todo # <<>>
         /\ \/ Head(todo) \in Preparing /\ ToStart(Tail(todo))
            \/ todo = <<"resetAndEnable", "scan", "started">>
            \/ todo = <<"noSuchMode", "started">>
<1> DEFINE s == <<"started">>
<1>1. PICK before \in Seq(Preparing), last \in Deciding : todo = (before \o last) \o s
  BY DEF ToStart
<1>2. before \in Seq(Names) /\ last \in Seq(Names) /\ last # <<>> /\ s \in Seq(Names)
  BY Sequences
<1>3. CASE before = <<>>
  <2>1. before \o last = last
    BY <1>2, <1>3, ConcatEmptySeq
  <2>2. todo = last \o s
    BY <1>1, <2>1
  <2>3. last = <<"resetAndEnable", "scan">> \/ last = <<"noSuchMode">>
    BY DEF Deciding
  <2>4. /\ <<"resetAndEnable", "scan">> \o s = <<"resetAndEnable", "scan", "started">>
        /\ <<"noSuchMode">> \o s = <<"noSuchMode", "started">>
    BY Joined
  <2>5. todo = <<"resetAndEnable", "scan", "started">> \/ todo = <<"noSuchMode", "started">>
    BY <2>2, <2>3, <2>4
  <2>6. <<"resetAndEnable", "scan", "started">> # <<>> /\ <<"noSuchMode", "started">> # <<>>
    OBVIOUS
  <2> QED BY <2>5, <2>6
<1>4. CASE before # <<>>
  <2>1. /\ Head(before \o last) = Head(before) /\ Tail(before \o last) = Tail(before) \o last
        /\ before \o last # <<>> /\ before \o last \in Seq(Names)
    BY <1>2, <1>4, HeadTailConcat, ConcatProperties
  <2> DEFINE op == before \o last
  <2> HIDE DEF op
  <2>2. op \in Seq(Names) /\ op # <<>> /\ todo = op \o s
    BY <1>1, <2>1 DEF op
  <2>3. Head(todo) = Head(op) /\ Tail(todo) = Tail(op) \o s /\ todo # <<>>
    BY <1>2, <2>2, HeadTailConcat
  <2>4. Head(before) \in Preparing /\ Tail(before) \in Seq(Preparing)
    BY <1>4, HeadTailProperties
  <2> QED BY <2>1, <2>3, <2>4 DEF ToStart, op
<1> QED BY <1>3, <1>4

\* A list of calls on the way to a start is a sequence of names.
LEMMA ToStartIsNames ==
  ASSUME NEW todo, ToStart(todo)
  PROVE  todo \in Seq(Names)
<1>1. PICK before \in Seq(Preparing), last \in Deciding : todo = (before \o last) \o <<"started">>
  BY DEF ToStart
<1>2. before \in Seq(Names) /\ last \in Seq(Names) /\ <<"started">> \in Seq(Names)
  BY Sequences
<1>3. before \o last \in Seq(Names)
  BY <1>2, ConcatProperties
<1> QED BY <1>1, <1>2, <1>3, ConcatProperties

\* Head and tail of short sequences.
LEMMA Shorter ==
  ASSUME NEW a, NEW b, NEW c, NEW d
  PROVE  /\ Head(<<a>>) = a /\ Tail(<<a>>) = <<>>
         /\ Head(<<a, b>>) = a /\ Tail(<<a, b>>) = <<b>>
         /\ Head(<<a, b, c>>) = a /\ Tail(<<a, b, c>>) = <<b, c>>
         /\ Head(<<a, b, c, d>>) = a /\ Tail(<<a, b, c, d>>) = <<b, c, d>>
OBVIOUS

-----------------------------------------------------------------------------
(* What the calls do *)

\* Nothing the proof is about changes.
Untouched ==
  UNCHANGED <<node, calls, scanning, support, enabled, streaming, motor, sendFailed, device>>

\* With calls to make the node makes them, and without it runs its loop.
LEMMA BusyOrFree ==
  ASSUME [Next]_vars
  PROVE  \/ Untouched
         \/ calls # <<>> /\ Call
         \/ calls = <<>> /\ (Loop \/ Service)
<1>1. Call => calls # <<>>
  BY DEF Call, CheckMotorCtrlSupport, QueryAnswered, QueryFails, NoSuchMode, QueryIgnored, Identity,
         Unhealthy, Model, SetMotorSpeed, Stop, StopFails, ResetAndEnable, Scan, ScanFails, Delete,
         Noted, Calling
<1>2. Loop \/ Service => calls = <<>>
  BY DEF Loop, Service, EnterLoop, EndLoop, LoopHead, GrabTunes, GrabPublishes, GrabTimesOut, Spun, Goes
<1>3. ScanComplete \/ ExitHandler \/ SubscribersChange \/ UNCHANGED vars => Untouched
  BY DEF ScanComplete, ExitHandler, SubscribersChange, vars, fixedVars, nodeVars, envVars, driverVars,
         deviceVars, faultVars, Untouched
<1> QED BY <1>1, <1>2, <1>3 DEF Next

\* Which action a call is.
LEMMA WhichCall ==
  ASSUME Call
  PROVE  LET h == Head(calls) IN
         /\ h = "motorSupport" => CheckMotorCtrlSupport
         /\ h \in Queries => QueryAnswered \/ QueryFails
         /\ h = "noSuchMode" => NoSuchMode
         /\ h = "macAddr" => QueryIgnored
         /\ h = "identity" => Identity
         /\ h = "health" => Identity \/ Unhealthy
         /\ h = "model" => Model
         /\ h \in {"motorOff", "motor600", "motorDefault", "motorTuned"} => SetMotorSpeed
         /\ h = "stop" => Stop \/ StopFails
         /\ h = "resetAndEnable" => ResetAndEnable
         /\ h = "scan" => Scan \/ ScanFails
         /\ h = "delete" => Delete
         /\ h \in {"started", "stopped"} => Noted
<1>1. /\ CheckMotorCtrlSupport => Head(calls) = "motorSupport"
      /\ QueryAnswered \/ QueryFails => Head(calls) \in Queries
      /\ NoSuchMode => Head(calls) = "noSuchMode"
      /\ QueryIgnored => Head(calls) = "macAddr"
      /\ Identity => Head(calls) \in {"identity", "health"}
      /\ Unhealthy => Head(calls) = "health"
      /\ Model => Head(calls) = "model"
      /\ Stop \/ StopFails => Head(calls) = "stop"
      /\ ResetAndEnable => Head(calls) = "resetAndEnable"
      /\ Scan \/ ScanFails => Head(calls) = "scan"
      /\ Delete => Head(calls) = "delete"
      /\ Noted => Head(calls) \in {"started", "stopped"}
  BY DEF CheckMotorCtrlSupport, QueryAnswered, QueryFails, NoSuchMode, QueryIgnored, Identity,
         Unhealthy, Model, Stop, StopFails, ResetAndEnable, Scan, ScanFails, Delete, Noted, Calling
<1>2. SetMotorSpeed => Head(calls) \in {"motorOff", "motor600", "motorDefault", "motorTuned"}
  BY DEF SetMotorSpeed, Calling, Speed
<1> QED BY <1>1, <1>2 DEF Call, Queries

\* A command that has gone out, or has not, says nothing about those before.
LEMMA FaultsRemain ==
  ASSUME UNCHANGED <<support, device>>, sendFailed' = sendFailed \/ sendFailed' = TRUE, AllSent'
  PROVE  AllSent
BY DEF AllSent, Controllable

\* A request that is answered, and one whose answer nobody needs.
LEMMA Asked ==
  ASSUME QueryAnswered \/ QueryIgnored
  PROVE  /\ calls' = Tail(calls) /\ enabled' = FALSE
         /\ UNCHANGED <<node, scanning, support, streaming, motor, sendFailed, device>>
BY DEF QueryAnswered, QueryIgnored, Returns, fixedVars, nodeVars, envVars, deviceVars, faultVars

\* The motor is set; whoever wants it off gets it off, if all is well.
LEMMA MotorSet ==
  ASSUME SetMotorSpeed
  PROVE  /\ calls' = Tail(calls)
         /\ enabled' = IF Head(calls) = "motorDefault" THEN FALSE ELSE enabled
         /\ UNCHANGED <<node, scanning, support, streaming, device>>
         /\ sendFailed' = sendFailed \/ sendFailed' = TRUE
         /\ Head(calls) = "motorOff" /\ AllSent' => motor' = "off"
<1>1. /\ calls' = Tail(calls)
      /\ enabled' = IF Head(calls) = "motorDefault" THEN FALSE ELSE enabled
      /\ UNCHANGED <<node, scanning, support, streaming, device>>
      /\ TurnMotor(Speed[Head(calls)])
  BY DEF SetMotorSpeed, Returns, fixedVars, nodeVars
<1>2. sendFailed' = sendFailed \/ sendFailed' = TRUE
  BY <1>1 DEF TurnMotor, NotSent, faultVars
<1>3. ASSUME Head(calls) = "motorOff", AllSent' PROVE motor' = "off"
  <2>1. TurnMotor("off")
    BY <1>1, <1>3 DEF Speed
  <2>2. sendFailed' # TRUE /\ support = device.ctrl
    BY <1>1, <1>3 DEF AllSent, Controllable
  <2> QED BY <2>1, <2>2 DEF TurnMotor, NotSent
<1> QED BY <1>1, <1>2, <1>3

\* The scan is stopped, or the lidar is not told; the motor stays off.
LEMMA Stopped ==
  ASSUME Stop \/ StopFails
  PROVE  /\ calls' = Tail(calls) /\ enabled' = FALSE
         /\ UNCHANGED <<node, scanning, support, device>>
         /\ streaming' = streaming \/ streaming' = FALSE
         /\ AllSent' => AllSent /\ ~streaming' /\ (motor = "off" => motor' = "off")
<1>1. /\ calls' = Tail(calls) /\ enabled' = FALSE
      /\ UNCHANGED <<node, scanning, support, device>>
      /\ streaming' = streaming \/ streaming' = FALSE
  BY DEF Stop, StopFails, Returns, fixedVars, nodeVars, deviceVars
<1>2. sendFailed' = sendFailed \/ sendFailed' = TRUE
  BY DEF Stop, StopFails, TurnMotor, NotSent, faultVars
<1>3. ASSUME AllSent' PROVE AllSent /\ ~streaming' /\ (motor = "off" => motor' = "off")
  <2>1. AllSent
    BY <1>1, <1>2, <1>3, FaultsRemain
  <2>2. sendFailed' # TRUE
    BY <1>3 DEF AllSent
  <2>3. Stop
    BY <2>2 DEF StopFails, NotSent
  <2>4. ~streaming' /\ (motor = "off" => motor' = "off")
    BY <2>2, <2>3 DEF Stop, TurnMotor, NotSent
  <2> QED BY <2>1, <2>4
<1> QED BY <1>1, <1>2, <1>3

\* An operation that fails becomes a stop, before the loop the end too.
LEMMA GivenUp ==
  ASSUME QueryFails \/ NoSuchMode \/ ScanFails, Starting
  PROVE  (Stopping \/ GivingUp)'
<1>1. GiveUp /\ node' = node
  BY DEF QueryFails, NoSuchMode, ScanFails, fixedVars
<1>2. NodeStop \o <<"delete">> = <<"stop", "motorOff", "stopped", "delete">>
  BY StopAndEnd
<1> QED BY <1>1, <1>2 DEF GiveUp, NodeStop, Starting, Stopping, GivingUp

\* Every step keeps the types of the flags.
LEMMA FlagsStep ==
  ASSUME Flags, [Next]_vars
  PROVE  Flags'
<1>1. CASE Untouched
  BY <1>1 DEF Untouched, Flags
<1>2. CASE Call
  <2>1. CASE CheckMotorCtrlSupport \/ QueryAnswered \/ QueryFails \/ NoSuchMode \/ QueryIgnored
    BY <2>1 DEF CheckMotorCtrlSupport, QueryAnswered, QueryFails, NoSuchMode, QueryIgnored, Flags,
                nodeVars, deviceVars, driverVars
  <2>2. CASE Identity \/ Unhealthy \/ Model \/ Delete
    BY <2>2 DEF Identity, Unhealthy, Model, Delete, Flags, nodeVars, deviceVars
  <2>3. CASE SetMotorSpeed
    BY <2>3, MotorSet DEF Flags
  <2>4. CASE Stop \/ StopFails
    BY <2>4, Stopped DEF Flags
  <2>5. CASE ResetAndEnable \/ Scan \/ ScanFails
    BY <2>5 DEF ResetAndEnable, Scan, ScanFails, Flags, nodeVars, deviceVars, driverVars
  <2>6. CASE Noted
    <3>1. scanning' \in BOOLEAN
      BY <2>6 DEF Noted
    <3>2. UNCHANGED <<enabled, streaming>>
      BY <2>6 DEF Noted, driverVars, deviceVars
    <3> QED BY <3>1, <3>2 DEF Flags
  <2> QED BY <1>2, <2>1, <2>2, <2>3, <2>4, <2>5, <2>6 DEF Call
<1>3. CASE Loop \/ Service
  BY <1>3 DEF Loop, Service, EnterLoop, EndLoop, LoopHead, GrabTunes, GrabPublishes, GrabTimesOut, Spun,
              Goes, Flags, nodeVars, deviceVars
<1> QED BY <1>1, <1>2, <1>3, BusyOrFree

-----------------------------------------------------------------------------
(* What each phase becomes *)

\* The set-up ends with the first operation, with none, or with a refusal.
LEMMA SettingUpGoesOn ==
  ASSUME SettingUp, Flags, Call
  PROVE  PhaseInv'
<1>1. node = "setup" /\ enabled = FALSE /\ scanning = FALSE
  BY DEF SettingUp, Flags
<1>2. CASE calls = <<"motorSupport", "identity", "health", "model">>
  <2>1. CheckMotorCtrlSupport /\ Tail(calls) = <<"identity", "health", "model">>
    BY <1>2, Shorter, WhichCall
  <2> QED BY <1>1, <2>1 DEF CheckMotorCtrlSupport, Returns, nodeVars, PhaseInv, SettingUp
<1>3. CASE calls = <<"identity", "health", "model">>
  <2>1. Identity /\ Tail(calls) = <<"health", "model">>
    BY <1>3, Shorter, WhichCall
  <2> QED BY <1>1, <2>1 DEF Identity, Returns, nodeVars, PhaseInv, SettingUp, Refusing
<1>4. CASE calls = <<"health", "model">>
  <2>1. (Identity \/ Unhealthy) /\ Tail(calls) = <<"model">>
    BY <1>4, Shorter, WhichCall
  <2> QED BY <1>1, <2>1 DEF Identity, Unhealthy, Returns, nodeVars, PhaseInv, SettingUp, Refusing
<1>5. CASE calls = <<"model">>
  <2>1. Model
    BY <1>5, Shorter, WhichCall
  <2>2. /\ calls' = (IF tuneLater' THEN <<>> ELSE <<"motor600">>)
                      \o (IF config.standby THEN <<>> ELSE NodeStart)
        /\ node' = "setup" /\ enabled' = FALSE /\ scanning' = FALSE
    BY <1>1, <2>1 DEF Model
  <2>3. /\ <<>> \o <<>> = <<>> /\ <<"motor600">> \o <<>> = <<"motor600">>
        /\ <<>> \o NodeStart = NodeStart
    <3>1. NodeStart \in Seq(Names)
      BY NodeStartStarts, ToStartIsNames
    <3>2. <<"motor600">> \in Seq(Names) /\ <<>> \in Seq(Names)
      BY DEF Names, Preparing
    <3> QED BY <3>1, <3>2, ConcatEmptySeq
  <2>4. CASE config.standby
    <3>1. calls' \in {<<>>, <<"motor600">>}
      BY <2>2, <2>3, <2>4
    <3> QED BY <2>2, <3>1 DEF PhaseInv, Agreed
  <2>5. CASE ~config.standby
    <3>1. ToStart(calls')
      BY <2>2, <2>3, <2>5, NodeStartStarts
    <3> QED BY <2>2, <3>1 DEF PhaseInv, Starting
  <2> QED BY <2>4, <2>5
<1> QED BY <1>2, <1>3, <1>4, <1>5 DEF SettingUp

\* The motor gets another speed.
LEMMA AgreedGoesOn ==
  ASSUME Agreed, Flags, Call, calls # <<>>
  PROVE  PhaseInv'
<1>1. calls = <<"motor600">> \/ calls = <<"motorTuned">>
  BY DEF Agreed
<1>2. Head(calls) \in {"motor600", "motorTuned"} /\ Tail(calls) = <<>>
  BY <1>1, Shorter
<1>3. SetMotorSpeed
  BY <1>2, WhichCall
<1>4. calls' = <<>> /\ UNCHANGED <<node, scanning, enabled, streaming>>
  BY <1>2, <1>3, MotorSet
<1> QED BY <1>4 DEF PhaseInv, Agreed

\* One call after the other until the scan is started, unless one fails.
LEMMA StartingGoesOn ==
  ASSUME Starting, Flags, Call
  PROVE  PhaseInv'
<1>1. node \in {"setup", "grab", "spin"}
  BY DEF Starting
<1>2. CASE ToStart(calls)
  <2>1. CASE Head(calls) \in Preparing /\ ToStart(Tail(calls))
    <3>1. \/ QueryAnswered \/ QueryFails \/ QueryIgnored \/ Stop \/ StopFails \/ SetMotorSpeed
      BY <2>1, WhichCall DEF Preparing
    <3>2. CASE QueryFails
      BY <3>2, GivenUp DEF PhaseInv
    <3>3. CASE ~QueryFails
      <4>1. calls' = Tail(calls) /\ node' = node
        BY <3>1, <3>3, Asked, Stopped, MotorSet
      <4> QED BY <1>1, <2>1, <4>1 DEF PhaseInv, Starting
    <3> QED BY <3>2, <3>3
  <2>2. CASE calls = <<"resetAndEnable", "scan", "started">>
    <3>1. ResetAndEnable /\ Tail(calls) = <<"scan", "started">>
      BY <2>2, Shorter, WhichCall
    <3> QED BY <1>1, <3>1 DEF ResetAndEnable, Returns, PhaseInv, Starting
  <2>3. CASE calls = <<"noSuchMode", "started">>
    <3>1. NoSuchMode
      BY <2>3, Shorter, WhichCall
    <3> QED BY <3>1, GivenUp DEF PhaseInv
  <2> QED BY <1>2, <2>1, <2>2, <2>3, NextToStart
<1>3. CASE calls = <<"scan", "started">> /\ enabled
  <2>1. (Scan \/ ScanFails) /\ Tail(calls) = <<"started">>
    BY <1>3, Shorter, WhichCall
  <2>2. CASE Scan
    BY <1>1, <1>3, <2>1, <2>2 DEF Scan, Returns, driverVars, PhaseInv, Starting
  <2>3. CASE ScanFails
    BY <2>3, GivenUp DEF PhaseInv
  <2> QED BY <2>1, <2>2, <2>3
<1>4. CASE calls = <<"started">> /\ enabled /\ streaming
  <2>1. Noted /\ Head(calls) = "started" /\ Tail(calls) = <<>>
    BY <1>4, Shorter, WhichCall
  <2>2. /\ calls' = <<>> /\ node' = node /\ scanning' = TRUE
        /\ enabled' = enabled /\ streaming' = streaming
    BY <2>1 DEF Noted, Returns, driverVars, deviceVars
  <2>3. enabled = TRUE /\ streaming = TRUE
    BY <1>4 DEF Flags
  <2> QED BY <1>1, <2>2, <2>3 DEF PhaseInv, Agreed
<1> QED BY <1>2, <1>3, <1>4 DEF Starting

\* A call made while the node stops leaves it in a phase the invariant allows.
LEMMA StoppingGoesOn ==
  ASSUME Stopping, Flags, Call
  PROVE  PhaseInv'
<1>1. node \in {"grab", "spin"}
  BY DEF Stopping
<1>2. CASE calls = <<"stop", "motorOff", "stopped">>
  <2>1. (Stop \/ StopFails) /\ Tail(calls) = <<"motorOff", "stopped">>
    BY <1>2, Shorter, WhichCall
  <2>2. calls' = <<"motorOff", "stopped">> /\ node' = node /\ enabled' = FALSE
    BY <2>1, Stopped
  <2> QED BY <1>1, <2>2 DEF PhaseInv, Stopping
<1>3. CASE calls = <<"motorOff", "stopped">> /\ ~enabled
  <2>1. SetMotorSpeed /\ Head(calls) = "motorOff" /\ Tail(calls) = <<"stopped">>
    BY <1>3, Shorter, WhichCall
  <2>2. calls' = <<"stopped">> /\ node' = node /\ enabled' = enabled
    BY <2>1, MotorSet
  <2> QED BY <1>1, <1>3, <2>2 DEF PhaseInv, Stopping
<1>4. CASE calls = <<"stopped">> /\ ~enabled
  <2>1. Noted /\ Head(calls) = "stopped" /\ Tail(calls) = <<>>
    BY <1>4, Shorter, WhichCall
  <2>2. /\ calls' = <<>> /\ node' = node /\ scanning' = FALSE /\ enabled' = FALSE
    BY <1>4, <2>1 DEF Noted, Returns, driverVars, Flags
  <2> QED BY <1>1, <2>2 DEF PhaseInv, Agreed
<1> QED BY <1>2, <1>3, <1>4 DEF Stopping

\* So does a call made while the node gives up.
LEMMA GivingUpGoesOn ==
  ASSUME GivingUp, Call
  PROVE  PhaseInv'
<1>1. node = "setup"
  BY DEF GivingUp
<1>2. CASE calls = <<"stop", "motorOff", "stopped", "delete">>
  <2>1. (Stop \/ StopFails) /\ Tail(calls) = <<"motorOff", "stopped", "delete">>
    BY <1>2, Shorter, WhichCall
  <2>2. calls' = <<"motorOff", "stopped", "delete">> /\ node' = node /\ (AllSent' => ~streaming')
    BY <2>1, Stopped
  <2> QED BY <1>1, <2>2 DEF PhaseInv, GivingUp
<1>3. CASE calls = <<"motorOff", "stopped", "delete">> /\ (AllSent => ~streaming)
  <2>1. SetMotorSpeed /\ Head(calls) = "motorOff" /\ Tail(calls) = <<"stopped", "delete">>
    BY <1>3, Shorter, WhichCall
  <2>2. /\ calls' = <<"stopped", "delete">> /\ node' = node
        /\ AllSent' => motor' = "off" /\ AllSent
        /\ streaming' = streaming
    BY <2>1, MotorSet, FaultsRemain
  <2>3. AllSent' => motor' = "off" /\ ~streaming'
    BY <1>3, <2>2
  <2> QED BY <1>1, <2>2, <2>3 DEF PhaseInv, GivingUp
<1>4. CASE calls = <<"stopped", "delete">> /\ (AllSent => motor = "off" /\ ~streaming)
  <2>1. Noted /\ Tail(calls) = <<"delete">>
    BY <1>4, Shorter, WhichCall
  <2>2. calls' = <<"delete">> /\ UNCHANGED <<node, support, device, sendFailed, motor, streaming>>
    BY <2>1 DEF Noted, Returns, fixedVars, driverVars, deviceVars, faultVars
  <2>3. AllSent' => motor' = "off" /\ ~streaming'
    BY <1>4, <2>2 DEF AllSent, Controllable
  <2> QED BY <1>1, <2>2, <2>3 DEF PhaseInv, GivingUp
<1>5. CASE calls = <<"delete">> /\ (AllSent => motor = "off" /\ ~streaming)
  <2>1. Delete /\ Tail(calls) = <<>>
    BY <1>5, Shorter, WhichCall
  <2>2. calls' = <<>> /\ node' = "gone" /\ UNCHANGED <<support, device, sendFailed, motor, streaming>>
    BY <1>1, <2>1 DEF Delete, Returns, fixedVars, deviceVars, faultVars
  <2>3. AllSent' => motor' = "off" /\ ~streaming'
    BY <1>5, <2>2 DEF AllSent, Controllable
  <2> QED BY <2>2, <2>3 DEF PhaseInv, Over
<1> QED BY <1>2, <1>3, <1>4, <1>5 DEF GivingUp

\* So does a call made while the node ends.
LEMMA EndingGoesOn ==
  ASSUME Ending, Call
  PROVE  PhaseInv'
<1>1. node = "ending"
  BY DEF Ending
<1>2. CASE calls = <<"motorOff", "stop", "delete">>
  <2>1. SetMotorSpeed /\ Head(calls) = "motorOff" /\ Tail(calls) = <<"stop", "delete">>
    BY <1>2, Shorter, WhichCall
  <2>2. calls' = <<"stop", "delete">> /\ node' = node /\ (AllSent' => motor' = "off")
    BY <2>1, MotorSet
  <2> QED BY <1>1, <2>2 DEF PhaseInv, Ending
<1>3. CASE calls = <<"stop", "delete">> /\ (AllSent => motor = "off")
  <2>1. (Stop \/ StopFails) /\ Tail(calls) = <<"delete">>
    BY <1>3, Shorter, WhichCall
  <2>2. /\ calls' = <<"delete">> /\ node' = node
        /\ AllSent' => motor' = "off" /\ ~streaming'
    BY <1>3, <2>1, Stopped
  <2> QED BY <1>1, <2>2 DEF PhaseInv, Ending
<1>4. CASE calls = <<"delete">> /\ (AllSent => motor = "off" /\ ~streaming)
  <2>1. Delete /\ Tail(calls) = <<>>
    BY <1>4, Shorter, WhichCall
  <2>2. calls' = <<>> /\ node' = "gone" /\ UNCHANGED <<support, device, sendFailed, motor, streaming>>
    BY <1>1, <2>1 DEF Delete, Returns, fixedVars, deviceVars, faultVars
  <2>3. AllSent' => motor' = "off" /\ ~streaming'
    BY <1>4, <2>2 DEF AllSent, Controllable
  <2> QED BY <2>2, <2>3 DEF PhaseInv, Over
<1> QED BY <1>2, <1>3, <1>4 DEF Ending

\* So does a call made while the node refuses a request.
LEMMA RefusingGoesOn ==
  ASSUME Refusing, Call
  PROVE  PhaseInv'
<1>1. Delete /\ Tail(calls) = <<>>
  BY Shorter, WhichCall DEF Refusing
<1>2. calls' = <<>> /\ node' = "refused"
  BY <1>1 DEF Delete, Returns, Refusing
<1> QED BY <1>2 DEF PhaseInv, Over

\* The loop begins an operation, or ends, only when the node and the driver agree.
LEMMA LoopGoesOn ==
  ASSUME PhaseInv, calls = <<>>, Loop \/ Service
  PROVE  PhaseInv'
<1>1. UNCHANGED <<enabled, streaming>>
  BY DEF Loop, Service, EnterLoop, EndLoop, LoopHead, GrabTunes, GrabPublishes, GrabTimesOut, Spun, Goes,
         deviceVars
<1>2. node \in {"setup", "loop", "grab", "published", "spin"}
  BY DEF Loop, Service, EnterLoop, EndLoop, LoopHead, GrabTunes, GrabPublishes, GrabTimesOut, Spun, Goes
<1>3. Agreed
  <2>1. ~SettingUp /\ ~Stopping /\ ~GivingUp /\ ~Ending /\ ~Refusing
    BY DEF SettingUp, Stopping, GivingUp, Ending, Refusing
  <2>2. ~Starting
    BY NextToStart DEF Starting
  <2>3. ~Over
    BY <1>2 DEF Over
  <2> QED BY <2>1, <2>2, <2>3 DEF PhaseInv
<1>4. scanning = enabled /\ (scanning => streaming)
  BY <1>3 DEF Agreed
<1>5. CASE EnterLoop \/ GrabPublishes \/ GrabTimesOut \/ Spun
  <2>1. calls' = <<>> /\ scanning' = scanning /\ node' \in {"loop", "grab", "published", "spin"}
    BY <1>5 DEF EnterLoop, GrabPublishes, GrabTimesOut, Spun, Goes, nodeVars
  <2> QED BY <1>1, <1>4, <2>1 DEF PhaseInv, Agreed
<1>6. CASE EndLoop
  BY <1>6 DEF EndLoop, Goes, NodeEnd, PhaseInv, Ending
<1>7. CASE LoopHead \/ Service
  <2>1. calls' \in {<<>>, NodeStart, NodeStop} /\ scanning' = scanning /\ node' \in {"grab", "spin"}
    BY <1>7 DEF LoopHead, Service, Goes, nodeVars
  <2>2. CASE calls' = <<>>
    BY <1>1, <1>4, <2>1, <2>2 DEF PhaseInv, Agreed
  <2>3. CASE calls' = NodeStart
    BY <2>1, <2>3, NodeStartStarts DEF PhaseInv, Starting
  <2>4. CASE calls' = NodeStop
    BY <2>1, <2>4 DEF PhaseInv, Stopping, NodeStop
  <2> QED BY <2>1, <2>2, <2>3, <2>4
<1>8. CASE GrabTunes
  <2>1. calls' = <<"motorTuned">> /\ scanning' = scanning /\ node' = "loop"
    BY <1>8 DEF GrabTunes, Goes
  <2> QED BY <1>1, <1>4, <2>1 DEF PhaseInv, Agreed
<1> QED BY <1>5, <1>6, <1>7, <1>8 DEF Loop

-----------------------------------------------------------------------------
(* Scans after a stop *)

\* A scan published after a stop was the last complete one, and there will be no
\* other while the node and the driver agree.
StopInv ==
  /\ afterStop \in {0, 1}
  /\ node = "setup" => afterStop = 0
  /\ Agreed /\ afterStop = 1 => ~ready /\ ~enabled

\* The short sequences in which node and driver agree start nothing.
LEMMA ToStartIsLonger ==
  ~ToStart(<<>>) /\ ~ToStart(<<"motor600">>) /\ ~ToStart(<<"motorTuned">>)
<1>1. ~ToStart(<<>>)
  BY NextToStart
<1>2. ASSUME NEW a, ToStart(<<a>>) PROVE FALSE
  <2>1. Tail(<<a>>) = <<>> /\ <<a>> # <<"resetAndEnable", "scan", "started">>
        /\ <<a>> # <<"noSuchMode", "started">>
    OBVIOUS
  <2> QED BY <1>1, <1>2, <2>1, NextToStart
<1> QED BY <1>1, <1>2

\* Node and driver come to agree when the set-up is over or an operation is.
LEMMA AgreedFrom ==
  ASSUME PhaseInv, Flags, Call, calls # <<>>, ~Noted, Agreed'
  PROVE  node = "setup" \/ Agreed
<1> SUFFICES ASSUME node # "setup", ~Agreed PROVE FALSE
  OBVIOUS
<1>1. /\ calls' \in {<<>>, <<"motor600">>, <<"motorTuned">>}
      /\ node' \in {"setup", "loop", "grab", "published", "spin"}
  BY DEF Agreed
<1>2. ~SettingUp /\ ~GivingUp /\ ~Over
  BY DEF SettingUp, GivingUp, Over
<1>3. CASE Refusing
  <2>1. Delete
    BY <1>3, Shorter, WhichCall DEF Refusing
  <2> QED BY <1>1, <2>1 DEF Delete
<1>4. CASE Ending
  <2>1. Head(calls) \in {"motorOff", "stop", "delete"} /\ node = "ending"
    BY <1>4, Shorter DEF Ending
  <2>2. SetMotorSpeed \/ Stop \/ StopFails \/ Delete
    BY <2>1, WhichCall
  <2>3. node' = "ending" \/ Delete
    BY <2>1, <2>2, MotorSet, Stopped
  <2> QED BY <1>1, <2>3 DEF Delete
<1>5. CASE Stopping
  <2>1. CASE calls = <<"stopped">>
    BY <2>1, Shorter, WhichCall
  <2>2. CASE calls = <<"motorOff", "stopped">>
    <3>1. Head(calls) = "motorOff" /\ Tail(calls) = <<"stopped">>
      BY <2>2, Shorter
    <3>2. calls' = <<"stopped">>
      BY <3>1, WhichCall, MotorSet
    <3> QED BY <1>1, <3>2
  <2>3. CASE calls = <<"stop", "motorOff", "stopped">>
    <3>1. Head(calls) = "stop" /\ Tail(calls) = <<"motorOff", "stopped">>
      BY <2>3, Shorter
    <3>2. calls' = <<"motorOff", "stopped">>
      BY <3>1, WhichCall, Stopped
    <3> QED BY <1>1, <3>2
  <2> QED BY <1>5, <2>1, <2>2, <2>3 DEF Stopping
<1>6. CASE Starting
  <2>1. ~(QueryFails \/ NoSuchMode \/ ScanFails)
    <3>1. ~(Stopping \/ GivingUp)'
      BY <1>1 DEF Stopping, GivingUp
    <3> QED BY <1>6, <3>1, GivenUp
  <2>2. CASE ToStart(calls)
    <3>1. CASE Head(calls) \in Preparing /\ ToStart(Tail(calls))
      <4>1. QueryAnswered \/ QueryIgnored \/ Stop \/ StopFails \/ SetMotorSpeed
        BY <2>1, <3>1, WhichCall DEF Preparing
      <4>2. calls' = Tail(calls)
        BY <4>1, Asked, Stopped, MotorSet
      <4> QED BY <1>1, <3>1, <4>2, ToStartIsLonger
    <3>2. CASE calls = <<"resetAndEnable", "scan", "started">>
      <4>1. ResetAndEnable /\ Tail(calls) = <<"scan", "started">>
        BY <3>2, Shorter, WhichCall
      <4> QED BY <1>1, <4>1 DEF ResetAndEnable, Returns
    <3>3. CASE calls = <<"noSuchMode", "started">>
      BY <2>1, <3>3, Shorter, WhichCall
    <3> QED BY <2>2, <3>1, <3>2, <3>3, NextToStart
  <2>3. CASE calls = <<"scan", "started">>
    <3>1. Scan /\ Tail(calls) = <<"started">>
      BY <2>1, <2>3, Shorter, WhichCall
    <3> QED BY <1>1, <3>1 DEF Scan, Returns
  <2>4. CASE calls = <<"started">>
    BY <2>4, Shorter, WhichCall
  <2> QED BY <1>6, <2>2, <2>3, <2>4 DEF Starting
<1> QED BY <1>2, <1>3, <1>4, <1>5, <1>6 DEF PhaseInv

\* What the calls do to the count and to the scan that waits.
LEMMA CountsStay ==
  ASSUME Call, ~Noted
  PROVE  /\ afterStop' = afterStop
         /\ ready' = ready \/ ready' = FALSE
         /\ node' = "setup" => node = "setup"
<1>1. CASE Stop \/ StopFails \/ SetMotorSpeed
  BY <1>1 DEF Stop, StopFails, SetMotorSpeed, nodeVars, fixedVars
<1>2. CASE CheckMotorCtrlSupport \/ QueryAnswered \/ QueryFails \/ NoSuchMode \/ QueryIgnored
  BY <1>2 DEF CheckMotorCtrlSupport, QueryAnswered, QueryFails, NoSuchMode, QueryIgnored, nodeVars, driverVars
<1>3. CASE Identity \/ Unhealthy \/ Model \/ Delete
  BY <1>3 DEF Identity, Unhealthy, Model, Delete, nodeVars
<1>4. CASE ResetAndEnable \/ Scan \/ ScanFails
  BY <1>4 DEF ResetAndEnable, Scan, ScanFails, nodeVars, driverVars
<1> QED BY <1>1, <1>2, <1>3, <1>4 DEF Call

\* Every step keeps the invariant about stopping.
LEMMA StopInvStep ==
  ASSUME NodeInv, StopInv, [Next]_vars
  PROVE  StopInv'
<1>1. Flags /\ PhaseInv
  BY DEF NodeInv
<1>2. CASE Noted
  BY <1>2 DEF Noted, StopInv
<1>3. CASE Call /\ ~Noted
  <2>1. calls # <<>>
    BY <1>3 DEF Call, CheckMotorCtrlSupport, QueryAnswered, QueryFails, NoSuchMode, QueryIgnored, Identity,
            Unhealthy, Model, SetMotorSpeed, Stop, StopFails, ResetAndEnable, Scan, ScanFails, Delete, Calling
  <2>2. /\ afterStop' = afterStop /\ (ready' = ready \/ ready' = FALSE)
        /\ node' = "setup" => node = "setup"
    BY <1>3, CountsStay
  <2>3. ASSUME Agreed', afterStop' = 1 PROVE ~ready' /\ ~enabled'
    <3>1. Agreed
      BY <1>1, <1>3, <2>1, <2>2, <2>3, AgreedFrom DEF StopInv
    <3>2. ~ready /\ ~enabled
      BY <2>2, <2>3, <3>1 DEF StopInv
    <3>3. calls = <<"motor600">> \/ calls = <<"motorTuned">>
      BY <2>1, <3>1 DEF Agreed
    <3>4. Head(calls) \in {"motor600", "motorTuned"}
      BY <3>3, Shorter
    <3>5. enabled' = enabled
      BY <1>3, <3>4, WhichCall, MotorSet
    <3> QED BY <2>2, <3>2, <3>5
  <2> QED BY <2>2, <2>3 DEF StopInv
<1>4. CASE Loop \/ Service
  <2>2. calls = <<>> /\ enabled' = enabled /\ node' # "setup"
    BY <1>4 DEF Loop, Service, EnterLoop, EndLoop, LoopHead, GrabTunes, GrabPublishes, GrabTimesOut, Spun, Goes
  <2>3. Agreed
    <3>1. node \in {"setup", "loop", "grab", "published", "spin"}
      BY <1>4 DEF Loop, Service, EnterLoop, EndLoop, LoopHead, GrabTunes, GrabPublishes, GrabTimesOut, Spun, Goes
    <3>2. ~SettingUp /\ ~Stopping /\ ~GivingUp /\ ~Ending /\ ~Refusing /\ ~Over
      BY <2>2, <3>1 DEF SettingUp, Stopping, GivingUp, Ending, Refusing, Over
    <3>3. ~Starting
      BY <2>2, NextToStart DEF Starting
    <3> QED BY <1>1, <3>2, <3>3 DEF PhaseInv
  <2>4. CASE GrabPublishes
    <3>1. ready /\ ~ready'
          /\ afterStop' = IF scanning \/ afterStop = 2 THEN afterStop ELSE afterStop + 1
      BY <2>4 DEF GrabPublishes
    <3>2. afterStop = 0
      BY <2>3, <3>1 DEF StopInv
    <3>3. afterStop' \in {0, 1} /\ (afterStop' = 1 => ~scanning)
      BY <3>1, <3>2
    <3>4. afterStop' = 1 => ~enabled'
      BY <2>2, <2>3, <3>3 DEF Agreed
    <3> QED BY <2>2, <3>1, <3>3, <3>4 DEF StopInv
  <2>5. CASE ~GrabPublishes
    <3>1. afterStop' = afterStop /\ (ready' = ready \/ ready' = FALSE)
      BY <1>4, <2>5 DEF Loop, Service, EnterLoop, EndLoop, LoopHead, GrabTunes, GrabTimesOut, Spun, nodeVars
    <3> QED BY <2>2, <2>3, <3>1 DEF StopInv
  <2> QED BY <2>4, <2>5
<1>5. CASE ScanComplete
  <2>1. enabled /\ UNCHANGED <<node, calls, scanning, enabled, streaming, afterStop>>
    BY <1>5 DEF ScanComplete, nodeVars, deviceVars
  <2>2. Agreed' = Agreed
    BY <2>1 DEF Agreed
  <2> QED BY <2>1, <2>2 DEF StopInv
<1>6. CASE ExitHandler \/ SubscribersChange \/ UNCHANGED vars
  <2>1. UNCHANGED <<node, calls, scanning, enabled, streaming, afterStop, ready>>
    BY <1>6 DEF ExitHandler, SubscribersChange, vars, nodeVars, driverVars, deviceVars
  <2>2. Agreed' = Agreed
    BY <2>1 DEF Agreed
  <2> QED BY <2>1, <2>2 DEF StopInv
<1> QED BY <1>2, <1>3, <1>4, <1>5, <1>6 DEF Next

-----------------------------------------------------------------------------
(* Theorems *)

\* The invariant of the node holds initially.
LEMMA NodeInit == Init => NodeInv
<1> SUFFICES ASSUME Init PROVE NodeInv
  OBVIOUS
<1>1. Flags
  BY DEF Init, Flags
<1>2. SettingUp
  BY DEF Init, SettingUp
<1> QED BY <1>1, <1>2 DEF NodeInv, PhaseInv

\* Every step keeps the invariant of the node.
LEMMA NodeStep ==
  ASSUME NodeInv, [Next]_vars
  PROVE  NodeInv'
<1>1. Flags /\ PhaseInv /\ Flags'
  BY FlagsStep DEF NodeInv
<1>2. CASE Untouched
  <2>1. AllSent' = AllSent
    BY <1>2 DEF Untouched, AllSent, Controllable
  <2>2. ToStart(calls') <=> ToStart(calls)
    BY <1>2 DEF Untouched
  <2>3. PhaseInv'
    BY <1>1, <1>2, <2>1, <2>2 DEF Untouched, PhaseInv, SettingUp, Agreed, Starting, Stopping, GivingUp,
                                  Ending, Refusing, Over
  <2> QED BY <1>1, <2>3 DEF NodeInv
<1>3. CASE calls # <<>> /\ Call
  <2>1. ~Over
    BY <1>3 DEF Over
  <2>2. PhaseInv'
    BY <1>1, <1>3, <2>1, SettingUpGoesOn, AgreedGoesOn, StartingGoesOn, StoppingGoesOn, GivingUpGoesOn,
       EndingGoesOn, RefusingGoesOn DEF PhaseInv
  <2> QED BY <1>1, <2>2 DEF NodeInv
<1>4. CASE calls = <<>> /\ (Loop \/ Service)
  BY <1>1, <1>4, LoopGoesOn DEF NodeInv
<1> QED BY <1>2, <1>3, <1>4, BusyOrFree

\* Wherever the node is in its calls, it is in one of the phases above: for every
\* kind of lidar, all parameters, and any number of requests that fail.
THEOREM NodeCorrect == Spec => []NodeInv
BY NodeInit, NodeStep, PTL DEF Spec

\* Between its operations the node and the driver agree about whether a scan is
\* running (rplidar_node.cpp's is_scanning and the unpacker's _enabled).
THEOREM NodeAgreesWithDriver == Spec => []NodeAndDriverAgree
<1>1. NodeInv => NodeAndDriverAgree
  <2> SUFFICES ASSUME NodeInv, InLoop PROVE scanning = enabled /\ (scanning => streaming)
    BY DEF NodeAndDriverAgree
  <2>1. ~SettingUp /\ ~Stopping /\ ~GivingUp /\ ~Ending /\ ~Refusing /\ ~Over
    BY DEF InLoop, SettingUp, Stopping, GivingUp, Ending, Refusing, Over
  <2>2. ~Starting
    BY NextToStart DEF InLoop, Starting
  <2> QED BY <2>1, <2>2 DEF NodeInv, PhaseInv, Agreed
<1> QED BY <1>1, NodeCorrect, PTL

\* When the node has ended, the motor is off and the lidar silent, if every command
\* could be sent and the driver knows how the motor is controlled.
THEOREM NodeEndsQuietly == Spec => []EndsQuietly
<1>1. NodeInv => EndsQuietly
  <2> SUFFICES ASSUME NodeInv, node = "gone", AllSent PROVE motor = "off" /\ ~streaming
    BY DEF EndsQuietly, AllSent
  <2> QED BY DEF NodeInv, PhaseInv, SettingUp, Agreed, Starting, Stopping, GivingUp, Ending, Refusing, Over
<1> QED BY <1>1, NodeCorrect, PTL

\* After a stop at most the one scan that was complete is published: decoding is off
\* by the time the node is back in its loop (rplidar_node.cpp, stop and the main loop).
THEOREM StopSilencesNode == Spec => []StoppedGoesQuiet
<1>1. Init => NodeInv /\ StopInv
  <2>1. Init => StopInv
    BY DEF Init, StopInv, Agreed
  <2> QED BY <2>1, NodeInit
<1>2. NodeInv /\ StopInv /\ [Next]_vars => (NodeInv /\ StopInv)'
  BY NodeStep, StopInvStep
<1>3. StopInv => StoppedGoesQuiet
  BY DEF StopInv, StoppedGoesQuiet
<1> QED BY <1>1, <1>2, <1>3, PTL DEF Spec

-----------------------------------------------------------------------------
(* Least and greatest *)

\* A non-empty set of naturals has a least element.
LEMMA LeastExists ==
  ASSUME NEW S \in SUBSET Nat, S # {}
  PROVE  \E x \in S : \A y \in S : x <= y
<1> DEFINE R == {ss \in Nat \X Nat : ss[1] < ss[2]}
<1>1. IsWellFoundedOn(R, Nat)
  BY NatLessThanWellFounded DEF OpToRel
<1>2. \A x, y \in Nat : <<y, x>> \in R <=> y < x
  OBVIOUS
<1> HIDE DEF R
<1>3. PICK x \in S : \A y \in S : ~(<<y, x>> \in R)
  BY <1>1, WFMin, Zenon
<1>4. ASSUME NEW y \in S PROVE x <= y
  <2>1. ~(y < x) /\ x \in Nat /\ y \in Nat
    BY <1>2, <1>3
  <2> QED BY <2>1
<1> QED BY <1>4

\* What is least in a set of numbers.
LEMMA MinIsLeast ==
  ASSUME NEW S \in SUBSET Nat, S # {}
  PROVE  Min(S) \in S /\ \A y \in S : Min(S) <= y
BY LeastExists DEF Min

\* What is greatest in a bounded one.
LEMMA MaxIsGreatest ==
  ASSUME NEW n \in Nat, NEW S \in SUBSET (0 .. n), S # {}
  PROVE  Max(S) \in S /\ \A y \in S : y <= Max(S)
<1> DEFINE T == {k \in Nat : n - k \in S}
<1>1. T # {}
  <2>1. PICK y \in S : TRUE
    OBVIOUS
  <2>2. n - y \in Nat /\ n - (n - y) = y
    OBVIOUS
  <2> QED BY <2>1, <2>2
<1>2. PICK k \in T : \A j \in T : k <= j
  BY <1>1, LeastExists
<1>3. n - k \in S /\ \A y \in S : n - k >= y
  <2>1. ASSUME NEW y \in S PROVE n - k >= y
    <3>1. y \in 0 .. n /\ n - y \in Nat /\ n - (n - y) = y
      OBVIOUS
    <3>2. n - y \in T /\ k \in Nat
      BY <3>1
    <3>3. k <= n - y
      BY <1>2, <3>2
    <3> HIDE DEF T
    <3> QED BY <3>1, <3>2, <3>3
  <2> QED BY <1>2, <2>1
<1>4. Max(S) \in S /\ \A y \in S : Max(S) >= y
  BY <1>3 DEF Max
<1> QED BY <1>4

\* The minimum of two integers.
LEMMA MinOfTwo ==
  ASSUME NEW a \in Int, NEW b \in Int
  PROVE  Min({a, b}) = IF a <= b THEN a ELSE b
BY DEF Min

-----------------------------------------------------------------------------
(* Cells *)

\* The node's parameters and the cells they make.
LEMMA CellsExist ==
  ASSUME settings \in Settings
  PROVE  /\ settings.multiple \in Nat \ {0} /\ NumCells \in Nat \ {0}
         /\ settings.inverted \in BOOLEAN /\ settings.flip_x_axis \in BOOLEAN
         /\ settings.angle_compensate \in BOOLEAN
<1>1. /\ settings.multiple \in Multiples /\ settings.inverted \in BOOLEAN
      /\ settings.flip_x_axis \in BOOLEAN /\ settings.angle_compensate \in BOOLEAN
  BY DEF Settings
<1>2. Degrees \in Nat \ {0} /\ settings.multiple \in Nat \ {0}
  BY <1>1, UnitsAssumption
<1>3. \A d, m \in Nat \ {0} : d * m \in Nat \ {0}
  OBVIOUS
<1> QED BY <1>1, <1>2, <1>3 DEF NumCells

\* An angle below a whole turn falls into one of the cells.
LEMMA ScaledAngle ==
  ASSUME NEW c \in Nat \ {0}, NEW n \in Nat \ {0}, NEW a \in 0 .. c - 1
  PROVE  (a * n) \div c \in 0 .. n - 1
<1> DEFINE q == (a * n) \div c
           r == (a * n) % c
<1>1. a * n \in Nat /\ q \in Int /\ r \in 0 .. c - 1 /\ a * n = c * q + r
  OBVIOUS
<1>2. a * n <= (c - 1) * n /\ (c - 1) * n = c * n - n
  OBVIOUS
<1> HIDE DEF q, r
<1>3. c * q < c * n
  <2>1. c * q \in Int /\ c * n \in Int
    BY <1>1
  <2> QED BY <1>1, <1>2, <2>1
<1>4. q < n
  BY <1>1, <1>3
<1>5. q >= 0
  <2>1. ASSUME q <= -1 PROVE FALSE
    <3>1. c * q <= c * (-1)
      BY <1>1, <2>1
    <3>2. c * q \in Int /\ c * (-1) = -c
      BY <1>1
    <3> QED BY <1>1, <3>1, <3>2
  <2> QED BY <1>1, <2>1
<1> QED BY <1>1, <1>4, <1>5 DEF q

\* An angle of the circle falls in a cell of the message.
LEMMA CellOfAngle ==
  ASSUME settings \in Settings, NEW sample, sample.angle \in 0 .. Circle - 1
  PROVE  angle_value(sample) \in 0 .. NumCells - 1
<1>1. NumCells \in Nat \ {0} /\ Circle \in Nat \ {0}
  BY CellsExist, UnitsAssumption
<1> QED BY <1>1, ScaledAngle DEF angle_value

\* A sample is written to the cell of its angle and to at most multiple - 1 cells
\* after that.
LEMMA WrittenNearby ==
  ASSUME settings \in Settings, NEW sample, sample.angle \in 0 .. Circle - 1
  PROVE  /\ angle_value(sample) \in Written(sample)
         /\ \A c \in Written(sample) :
              c \in 0 .. NumCells - 1 /\ c - angle_value(sample) \in 0 .. settings.multiple - 1
<1> DEFINE v == angle_value(sample)
           n == NumCells
           m == settings.multiple
<1>1. v \in 0 .. n - 1 /\ n \in Nat \ {0} /\ m \in Nat \ {0}
  BY CellOfAngle, CellsExist
<1>2. \A j \in 0 .. m - 1 : Min({v + j, n - 1}) = IF v + j <= n - 1 THEN v + j ELSE n - 1
  BY <1>1, MinOfTwo
<1>3. Written(sample) = {Min({v + j, n - 1}) : j \in 0 .. m - 1}
  BY DEF Written
<1> HIDE DEF v, n, m
<1>4. Min({v + 0, n - 1}) = v /\ 0 \in 0 .. m - 1
  <2>1. 0 \in 0 .. m - 1 /\ v + 0 = v /\ v <= n - 1
    BY <1>1
  <2>2. Min({v + 0, n - 1}) = IF v + 0 <= n - 1 THEN v + 0 ELSE n - 1
    BY <1>2, <2>1
  <2> QED BY <2>1, <2>2
<1>5. v \in Written(sample)
  BY <1>3, <1>4
<1>6. ASSUME NEW c \in Written(sample) PROVE c \in 0 .. n - 1 /\ c - v \in 0 .. m - 1
  <2>1. PICK j \in 0 .. m - 1 : c = Min({v + j, n - 1})
    BY <1>3
  <2>2. c = IF v + j <= n - 1 THEN v + j ELSE n - 1
    BY <1>2, <2>1
  <2> QED BY <1>1, <2>2
<1> QED BY <1>5, <1>6 DEF v, n, m

-----------------------------------------------------------------------------
(* ascendScanData *)

Sample == [angle : Int, dist : Nat, quality : Nat]

\* A scan as the holder gives it: the i-th sample has quality i, and distance i if it
\* was measured.
FromHolder(s) ==
  /\ s \in Seq(Sample) /\ Len(s) \in Nat \ {0}
  /\ \A i \in 1 .. Len(s) :
       s[i].angle \in 0 .. Circle - 1 /\ s[i].quality = i /\ s[i].dist \in {0, i}

\* The maximum of two integers.
LEMMA MaxOfTwo ==
  ASSUME NEW a \in Int, NEW b \in Int
  PROVE  Max({a, b}) = IF a >= b THEN a ELSE b
BY DEF Max

\* Only the angle of a sample is set.
LEMMA SetAngleKeeps ==
  ASSUME NEW sample \in Sample, NEW a \in Int
  PROVE  /\ setAngle(sample, a) \in Sample
         /\ setAngle(sample, a).dist = sample.dist
         /\ setAngle(sample, a).quality = sample.quality
<1>1. a % Circle \in Int
  BY UnitsAssumption
<1> QED BY <1>1 DEF setAngle, Sample

\* What the passes over a scan keep: all but the angles of the missing samples.
SameReadings(s, t) ==
  /\ t \in Seq(Sample) /\ Len(t) = Len(s)
  /\ \A i \in 1 .. Len(s) :
       t[i].dist = s[i].dist /\ t[i].quality = s[i].quality /\ (s[i].dist # 0 => t[i] = s[i])

\* Giving the unmeasured samples at the head their angles changes no measured sample.
LEMMA TuneHeadKeeps ==
  ASSUME NEW s \in Seq(Sample), Len(s) \in Nat \ {0}, Measured(s) # {}
  PROVE  SameReadings(s, TuneHead(s))
<1> DEFINE first == Min(Measured(s))
           inc == Circle \div Len(s)
           before(i) == Max({0, s[first].angle - (first - i) * inc})
<1>1. Measured(s) \subseteq 1 .. Len(s) /\ Measured(s) \in SUBSET Nat
  BY DEF Measured
<1>2. first \in Measured(s) /\ \A i \in Measured(s) : first <= i
  BY <1>1, MinIsLeast
<1>3. inc \in Int /\ s[first] \in Sample /\ first \in 1 .. Len(s)
  BY <1>1, <1>2, UnitsAssumption
<1>4. TuneHead(s) = [i \in 1 .. Len(s) |->
                       IF i >= first THEN s[i] ELSE setAngle(s[i], before(i))]
  BY DEF TuneHead
<1> HIDE DEF first, inc
<1>5. ASSUME NEW i \in 1 .. Len(s), i < first PROVE s[i].dist = 0
  <2>1. i \notin Measured(s)
    BY <1>2, <1>3, <1>5
  <2> QED BY <2>1 DEF Measured
<1>6. ASSUME NEW i \in 1 .. Len(s) PROVE before(i) \in Int
  <2>1. s[first].angle \in Int
    BY <1>3 DEF Sample
  <2>2. first - i \in Int
    BY <1>3
  <2>3. (first - i) * inc \in Int
    BY <1>3, <2>2
  <2>4. s[first].angle - (first - i) * inc \in Int
    BY <2>1, <2>3
  <2> QED BY <2>4, MaxOfTwo
<1> HIDE DEF before
<1>7. ASSUME NEW i \in 1 .. Len(s)
      PROVE  /\ TuneHead(s)[i] \in Sample
             /\ TuneHead(s)[i].dist = s[i].dist /\ TuneHead(s)[i].quality = s[i].quality
             /\ s[i].dist # 0 => TuneHead(s)[i] = s[i]
  <2>1. TuneHead(s)[i] = IF i >= first THEN s[i] ELSE setAngle(s[i], before(i))
    BY <1>4
  <2>2. s[i] \in Sample
    OBVIOUS
  <2>3. CASE i >= first
    BY <2>1, <2>2, <2>3
  <2>4. CASE i < first
    <3>1. s[i].dist = 0 /\ before(i) \in Int /\ TuneHead(s)[i] = setAngle(s[i], before(i))
      BY <1>3, <1>5, <1>6, <2>1, <2>4
    <3> QED BY <2>2, <3>1, SetAngleKeeps
  <2> QED BY <1>3, <2>3, <2>4
<1>8. TuneHead(s) \in Seq(Sample) /\ Len(TuneHead(s)) = Len(s)
  BY <1>4, <1>7
<1> QED BY <1>7, <1>8 DEF SameReadings

\* Giving the other unmeasured samples their angles changes no measured sample.
LEMMA FillKeeps ==
  ASSUME NEW s \in Seq(Sample), Len(s) \in Nat \ {0}
  PROVE  SameReadings(s, Fill(s))
<1> DEFINE inc == Circle \div Len(s)
           place(i) == s[1].angle + (i - 1) * inc
<1>1. inc \in Int /\ s[1] \in Sample
  BY UnitsAssumption
<1> HIDE DEF inc
<1>2. ASSUME NEW i \in 1 .. Len(s) PROVE place(i) \in Int
  <2>1. s[1].angle \in Int /\ i - 1 \in Int
    BY <1>1 DEF Sample
  <2>2. (i - 1) * inc \in Int
    BY <1>1, <2>1
  <2> QED BY <2>1, <2>2
<1>3. Fill(s) = [i \in 1 .. Len(s) |->
                   IF i = 1 \/ s[i].dist # 0 THEN s[i] ELSE setAngle(s[i], place(i))]
  BY DEF Fill, inc
<1> HIDE DEF place
<1>4. ASSUME NEW i \in 1 .. Len(s)
      PROVE  /\ Fill(s)[i] \in Sample
             /\ Fill(s)[i].dist = s[i].dist /\ Fill(s)[i].quality = s[i].quality
             /\ s[i].dist # 0 => Fill(s)[i] = s[i]
  <2>1. Fill(s)[i] = IF i = 1 \/ s[i].dist # 0 THEN s[i] ELSE setAngle(s[i], place(i))
    BY <1>3
  <2>2. s[i] \in Sample
    OBVIOUS
  <2>3. CASE i = 1 \/ s[i].dist # 0
    BY <2>1, <2>2, <2>3
  <2>4. CASE ~(i = 1 \/ s[i].dist # 0)
    <3>1. s[i].dist = 0 /\ place(i) \in Int /\ Fill(s)[i] = setAngle(s[i], place(i))
      <4>1. s[i].dist \in Nat
        BY <2>2 DEF Sample
      <4> QED BY <1>2, <2>1, <2>4, <4>1
    <3>2. /\ setAngle(s[i], place(i)) \in Sample
          /\ setAngle(s[i], place(i)).dist = s[i].dist
          /\ setAngle(s[i], place(i)).quality = s[i].quality
      BY <2>2, <3>1, SetAngleKeeps
    <3> QED BY <3>1, <3>2
  <2> QED BY <2>3, <2>4
<1>5. Fill(s) \in Seq(Sample) /\ Len(Fill(s)) = Len(s)
  BY <1>3, <1>4
<1> QED BY <1>4, <1>5 DEF SameReadings

\* Giving the missing samples their angles touches no measured one.
LEMMA FilledKeeps ==
  ASSUME NEW s, FromHolder(s), Measured(s) # {}
  PROVE  SameReadings(s, Fill(TuneHead(s)))
<1>1. s \in Seq(Sample) /\ Len(s) \in Nat \ {0}
  BY DEF FromHolder
<1>2. SameReadings(s, TuneHead(s))
  BY <1>1, TuneHeadKeeps
<1>3. SameReadings(TuneHead(s), Fill(TuneHead(s)))
  BY <1>1, <1>2, FillKeeps DEF SameReadings
<1> QED BY <1>1, <1>2, <1>3 DEF SameReadings

\* A permutation of the places of n samples.
LEMMA Permutes ==
  ASSUME NEW n, NEW p \in Bijection(1 .. n, 1 .. n)
  PROVE  /\ p \in [1 .. n -> 1 .. n]
         /\ \A i, j \in 1 .. n : p[i] = p[j] => i = j
         /\ \A i \in 1 .. n : \E j \in 1 .. n : p[j] = i
<1> DEFINE S == 1 .. n
<1> HIDE DEF S
<1>1. p \in Bijection(S, S)
  BY DEF S
<1>2. p \in [S -> S] /\ (\A i, j \in S : p[i] = p[j] => i = j) /\ \A i \in S : \E j \in S : p[j] = i
  BY <1>1 DEF Bijection, Injection, Surjection, IsInjective
<1> QED BY <1>2 DEF S

\* The samples of scan s in the order p, as sorted scan t.
Reordered(s, t, p) ==
  /\ p \in Bijection(1 .. Len(s), 1 .. Len(s))
  /\ t \in Seq(Sample) /\ Len(t) = Len(s)
  /\ \A i \in 1 .. Len(s) :
       /\ t[i].quality = p[i] /\ t[i].dist = s[p[i]].dist
       /\ s[p[i]].dist # 0 => t[i] = s[p[i]]

\* What the last message was made of.
Shown ==
  /\ cells = IF settings.angle_compensate THEN Compensated(nodes) ELSE Trimmed(nodes)
  /\ \E reversed \in BOOLEAN :
       msg = Message(cells, reversed) /\ (settings.angle_compensate => reversed)

\* The scan at each place of the loop: inductive.
ScanInv ==
  /\ settings \in Settings /\ at \in {"grab", "ascend", "publish", "spin"}
  /\ at # "grab" => FromHolder(grabbed)
  /\ at = "ascend" => nodes = grabbed
  /\ at \in {"publish", "spin"} /\ Measured(grabbed) # {} =>
       Ascending(nodes) /\ \E p : Reordered(grabbed, nodes, p)
  /\ at = "spin" /\ Measured(grabbed) # {} => Shown

\* The invariant of the scan holds initially.
LEMMA InitScanInv == ConversionInit => ScanInv
BY DEF ConversionInit, ScanInv

\* Grabbing a scan keeps the invariant.
LEMMA GrabScanInv ==
  ASSUME ScanInv, Grab
  PROVE  ScanInv'
<1>0. PICK n \in Counts : \E angle \in [1 .. n -> RawAngles] : \E seen \in SUBSET (1 .. n) :
        grabbed' = [i \in 1 .. n |-> [angle |-> angle[i], quality |-> i,
                                      dist |-> IF i \in seen THEN i ELSE 0]]
  BY DEF Grab
<1>1. PICK angle \in [1 .. n -> RawAngles], seen \in SUBSET (1 .. n) :
        grabbed' = [i \in 1 .. n |-> [angle |-> angle[i], quality |-> i,
                                      dist |-> IF i \in seen THEN i ELSE 0]]
  BY <1>0
<1>2. n \in Nat \ {0} /\ \A i \in 1 .. n : angle[i] \in 0 .. Circle - 1
  BY UnitsAssumption
<1>3. \A i \in 1 .. n : grabbed'[i] \in Sample
  BY <1>1, <1>2 DEF Sample
<1>4. grabbed' \in Seq(Sample) /\ Len(grabbed') = n
  BY <1>1, <1>2, <1>3
<1>5. FromHolder(grabbed')
  BY <1>1, <1>2, <1>4 DEF FromHolder
<1> QED BY <1>5 DEF Grab, ScanInv

\* Ordering a scan by angle keeps the invariant.
LEMMA AscendScanInv ==
  ASSUME ScanInv, Ascend
  PROVE  ScanInv'
<1>1. at = "ascend" /\ at' = "publish" /\ UNCHANGED <<settings, grabbed, cells, msg>>
  BY DEF Ascend
<1>2. FromHolder(grabbed) /\ nodes = grabbed
  BY <1>1 DEF ScanInv
<1>3. CASE Measured(grabbed) = {}
  BY <1>1, <1>2, <1>3 DEF ScanInv
<1>4. CASE Measured(grabbed) # {}
  <2> DEFINE filled == Fill(TuneHead(grabbed))
             n == Len(grabbed)
  <2>1. n \in Nat /\ grabbed \in Seq(Sample) /\ DOMAIN grabbed = 1 .. n
    BY <1>2 DEF FromHolder
  <2>2. PICK p \in Bijection(1 .. n, 1 .. n) :
          nodes' = [i \in 1 .. n |-> filled[p[i]]] /\ Ascending(nodes')
    BY <1>2, <1>4, <2>1 DEF Ascend
  <2>3. SameReadings(grabbed, filled)
    BY <1>2, <1>4, FilledKeeps
  <2> HIDE DEF filled
  <2>4. p \in [1 .. n -> 1 .. n]
    BY Permutes
  <2>5. \A i \in 1 .. n : filled[p[i]] \in Sample
    BY <2>1, <2>3, <2>4 DEF SameReadings
  <2>6. nodes' \in Seq(Sample) /\ Len(nodes') = n
    BY <2>1, <2>2, <2>5
  <2>7. ASSUME NEW i \in 1 .. n
        PROVE  /\ nodes'[i].quality = p[i] /\ nodes'[i].dist = grabbed[p[i]].dist
               /\ grabbed[p[i]].dist # 0 => nodes'[i] = grabbed[p[i]]
    <3>1. nodes'[i] = filled[p[i]] /\ p[i] \in 1 .. n
      BY <2>2, <2>4
    <3>2. grabbed[p[i]].quality = p[i]
      BY <1>2, <3>1 DEF FromHolder
    <3> QED BY <2>3, <3>1, <3>2 DEF SameReadings
  <2>8. Reordered(grabbed, nodes', p)
    BY <2>6, <2>7 DEF Reordered
  <2> QED BY <1>1, <1>2, <2>2, <2>8 DEF ScanInv
<1> QED BY <1>3, <1>4

\* Publishing a scan keeps the invariant.
LEMMA PublishScanInv ==
  ASSUME ScanInv, Publish
  PROVE  ScanInv'
<1>1. /\ at = "publish" /\ at' = "spin" /\ UNCHANGED <<settings, grabbed, nodes>>
      /\ settings \in Settings
  BY DEF Publish, ScanInv
<1>2. FromHolder(grabbed)
  BY <1>1 DEF ScanInv
<1>3. ASSUME Measured(grabbed) # {}, NEW p, Reordered(grabbed, nodes, p)
      PROVE  Measured(nodes) # {}
  <2>1. PICK i \in Measured(grabbed) : i \in 1 .. Len(grabbed) /\ grabbed[i].dist # 0
    BY <1>2, <1>3 DEF Measured, FromHolder
  <2>2. PICK j \in 1 .. Len(grabbed) : p[j] = i
    <3>1. p \in Bijection(1 .. Len(grabbed), 1 .. Len(grabbed))
      BY <1>3 DEF Reordered
    <3>2. \A k \in 1 .. Len(grabbed) : \E j \in 1 .. Len(grabbed) : p[j] = k
      BY <3>1, Permutes
    <3> QED BY <2>1, <3>2
  <2>3. nodes[j].dist # 0 /\ j \in DOMAIN nodes
    BY <1>3, <2>1, <2>2 DEF Reordered
  <2> QED BY <2>3 DEF Measured
<1>4. ASSUME Measured(grabbed) # {} PROVE Shown'
  <2>1. Measured(nodes) # {}
    BY <1>1, <1>3, <1>4 DEF ScanInv
  <2> DEFINE reversed == \/ settings.angle_compensate
                         \/ Measured(nodes) = {}
                         \/ cells'[Len(cells')].angle > cells'[1].angle
  <2>2. msg' = Message(cells', reversed)
    BY DEF Publish
  <2>3. reversed \in BOOLEAN /\ (settings.angle_compensate => reversed)
    OBVIOUS
  <2>4. cells' = IF settings.angle_compensate THEN Compensated(nodes) ELSE Trimmed(nodes)
    BY <2>1 DEF Publish
  <2> HIDE DEF reversed
  <2>5. (cells = IF settings.angle_compensate THEN Compensated(nodes) ELSE Trimmed(nodes))'
    BY <1>1, <2>4 DEF Compensated, Trimmed, Measured, Written, NumCells, angle_value
  <2>6. \A r : Message(cells, r)' = Message(cells', r)
    BY <1>1 DEF Message, Place
  <2> QED BY <1>1, <2>2, <2>3, <2>5, <2>6 DEF Shown
<1> QED BY <1>1, <1>2, <1>4 DEF ScanInv

\* Wherever the node is, what it has of a scan is that scan, sorted: its measured
\* samples as they were, each in one place (sl_lidar_driver.cpp, ascendScanData_).
THEOREM ScanIsKept == ConversionSpec => []ScanInv
<1>1. ScanInv /\ [ConversionNext]_conversionVars => ScanInv'
  <2> SUFFICES ASSUME ScanInv, [ConversionNext]_conversionVars PROVE ScanInv'
    OBVIOUS
  <2>1. CASE Spin
    BY <2>1 DEF Spin, ScanInv
  <2>2. CASE UNCHANGED conversionVars
    <3>1. UNCHANGED <<settings, grabbed, nodes, cells, msg, at>>
      BY <2>2 DEF conversionVars
    <3>2. Shown => Shown'
      <4>1. (cells = IF settings.angle_compensate THEN Compensated(nodes) ELSE Trimmed(nodes))
              => (cells = IF settings.angle_compensate THEN Compensated(nodes) ELSE Trimmed(nodes))'
        BY <3>1 DEF Compensated, Trimmed, Measured, Written, NumCells, angle_value
      <4>2. \A r : Message(cells, r)' = Message(cells, r)
        BY <3>1 DEF Message, Place
      <4> QED BY <3>1, <4>1, <4>2 DEF Shown
    <3> QED BY <3>1, <3>2 DEF ScanInv
  <2> QED BY <2>1, <2>2, GrabScanInv, AscendScanInv, PublishScanInv DEF ConversionNext
<1> QED BY <1>1, InitScanInv, PTL DEF ConversionSpec

-----------------------------------------------------------------------------
(* The ascending scan *)

\* What a reordering does to the measured samples.
LEMMA MeasuredInOrder ==
  ASSUME NEW s, NEW t, NEW p, FromHolder(s), Reordered(s, t, p)
  PROVE  /\ \A j \in Measured(t) : /\ j \in 1 .. Len(s) /\ p[j] \in Measured(s)
                                   /\ t[j] = s[p[j]] /\ t[j].dist = p[j]
         /\ \A i \in Measured(s) : \E j \in Measured(t) : p[j] = i
         /\ Measured(t) \subseteq 1 .. Len(s) /\ Measured(s) \subseteq 1 .. Len(s)
<1>1. /\ DOMAIN s = 1 .. Len(s) /\ DOMAIN t = 1 .. Len(s)
      /\ p \in [1 .. Len(s) -> 1 .. Len(s)]
      /\ \A i \in 1 .. Len(s) : \E j \in 1 .. Len(s) : p[j] = i
  <2>1. p \in Bijection(1 .. Len(s), 1 .. Len(s))
    BY DEF Reordered
  <2>2. /\ p \in [1 .. Len(s) -> 1 .. Len(s)]
        /\ \A i \in 1 .. Len(s) : \E j \in 1 .. Len(s) : p[j] = i
    BY <2>1, Permutes
  <2> QED BY <2>2 DEF Reordered, FromHolder
<1>2. ASSUME NEW j \in Measured(t)
      PROVE  /\ j \in 1 .. Len(s) /\ p[j] \in Measured(s)
             /\ t[j] = s[p[j]] /\ t[j].dist = p[j]
  BY <1>1 DEF Measured, Reordered, FromHolder
<1>3. ASSUME NEW i \in Measured(s) PROVE \E j \in Measured(t) : p[j] = i
  <2>1. i \in 1 .. Len(s) /\ s[i].dist # 0
    BY <1>1 DEF Measured
  <2>2. PICK j \in 1 .. Len(s) : p[j] = i
    BY <1>1, <2>1
  <2>3. j \in Measured(t)
    BY <1>1, <2>1, <2>2 DEF Measured, Reordered
  <2> QED BY <2>2, <2>3
<1> QED BY <1>1, <1>2, <1>3 DEF Measured

\* Sorting keeps every measured sample, once and at its angle: for every length of
\* a scan and whichever samples are missing.
THEOREM SortingMovesNothing == ConversionSpec => []MeasurementsKeepTheirAngles
<1>1. ScanInv => MeasurementsKeepTheirAngles
  <2> SUFFICES ASSUME ScanInv, at = "publish", Measured(grabbed) # {}
               PROVE  /\ Ascending(nodes)
                      /\ Measured(nodes) # {}
                      /\ \A i \in Measured(grabbed) :
                           Cardinality({j \in DOMAIN nodes : nodes[j] = grabbed[i]}) = 1
                      /\ Cardinality(Measured(nodes)) = Cardinality(Measured(grabbed))
    BY DEF MeasurementsKeepTheirAngles
  <2>1. FromHolder(grabbed) /\ Ascending(nodes)
    BY DEF ScanInv
  <2>2. PICK p : Reordered(grabbed, nodes, p)
    BY DEF ScanInv
  <2> DEFINE n == Len(grabbed)
  <2>3. /\ \A j \in Measured(nodes) : j \in 1 .. n /\ p[j] \in Measured(grabbed)
        /\ \A i \in Measured(grabbed) : \E j \in Measured(nodes) : p[j] = i
        /\ \A j \in Measured(nodes) : nodes[j] = grabbed[p[j]]
        /\ Measured(nodes) \subseteq 1 .. n /\ Measured(grabbed) \subseteq 1 .. n
    BY <2>1, <2>2, MeasuredInOrder
  <2>4. /\ p \in [1 .. n -> 1 .. n] /\ n \in Nat
        /\ \A i, j \in 1 .. n : p[i] = p[j] => i = j
        /\ DOMAIN nodes = 1 .. n
    <3>1. p \in Bijection(1 .. n, 1 .. n)
      BY <2>2 DEF Reordered
    <3> HIDE DEF n
    <3>2. p \in [1 .. n -> 1 .. n] /\ \A i, j \in 1 .. n : p[i] = p[j] => i = j
      BY <3>1, Permutes
    <3> QED BY <2>1, <2>2, <3>2 DEF Reordered, FromHolder, n
  <2> HIDE DEF n
  <2>5. Measured(nodes) # {}
    BY <2>3
  <2>6. ASSUME NEW i \in Measured(grabbed)
        PROVE  Cardinality({j \in DOMAIN nodes : nodes[j] = grabbed[i]}) = 1
    <3>1. PICK j \in Measured(nodes) : p[j] = i
      BY <2>3
    <3>2. i \in 1 .. n /\ grabbed[i].quality = i /\ \A k \in 1 .. n : nodes[k].quality = p[k]
      BY <2>1, <2>2, <2>3 DEF FromHolder, Reordered, n
    <3>3. ASSUME NEW k \in 1 .. n, nodes[k] = grabbed[i] PROVE k = j
      <4>1. p[k] = p[j] /\ j \in 1 .. n
        BY <2>3, <3>1, <3>2, <3>3
      <4> QED BY <2>4, <4>1
    <3>4. j \in 1 .. n /\ nodes[j] = grabbed[i] /\ DOMAIN nodes = 1 .. n
      BY <2>3, <2>4, <3>1
    <3>5. {k \in DOMAIN nodes : nodes[k] = grabbed[i]} = {j}
      BY <3>3, <3>4
    <3> QED BY <3>5, FS_Singleton
  <2>7. Cardinality(Measured(nodes)) = Cardinality(Measured(grabbed))
    <3> DEFINE f == [j \in Measured(nodes) |-> p[j]]
    <3>1. f \in [Measured(nodes) -> Measured(grabbed)]
      BY <2>3
    <3>2. \A i, j \in Measured(nodes) : f[i] = f[j] => i = j
      BY <2>3, <2>4
    <3>3. \A i \in Measured(grabbed) : \E j \in Measured(nodes) : f[j] = i
      BY <2>3
    <3> HIDE DEF f
    <3>4. f \in Bijection(Measured(nodes), Measured(grabbed))
      BY <3>1, <3>2, <3>3, Fun_IsBij
    <3>5. ExistsBijection(Measured(nodes), Measured(grabbed))
      BY <3>4 DEF ExistsBijection
    <3>6. IsFiniteSet(Measured(nodes))
      BY <2>3, <2>4, FS_Interval, FS_Subset
    <3> QED BY <3>5, <3>6, FS_Bijection
  <2> QED BY <2>1, <2>5, <2>6, <2>7
<1> QED BY <1>1, ScanIsKept, PTL

-----------------------------------------------------------------------------
(* publish_scan *)

\* The place of a reading is a place of the message.
LEMMA PlaceInside ==
  ASSUME settings \in Settings, NEW n \in Nat \ {0}, NEW i \in 0 .. n - 1, NEW r \in BOOLEAN
  PROVE  Place(i, n, r) \in 0 .. n - 1
<1>1. n \div 2 \in Int /\ 2 * (n \div 2) <= n /\ n <= 2 * (n \div 2) + 1
  OBVIOUS
<1> QED BY <1>1 DEF Place

\* Two samples get the same ray only if an odd number of rays is flipped, and then
\* the first sample is one of the two.
LEMMA PlaceClashes ==
  ASSUME settings \in Settings, NEW n \in Nat \ {0}, NEW r \in BOOLEAN,
         NEW c \in 0 .. n - 1, NEW d \in 0 .. n - 1, c < d, Place(c, n, r) = Place(d, n, r)
  PROVE  settings.flip_x_axis /\ n % 2 = 1 /\ c = 0
<1>1. /\ n \div 2 \in Int /\ n % 2 \in {0, 1} /\ n = 2 * (n \div 2) + (n % 2)
  OBVIOUS
<1> QED BY <1>1 DEF Place

\* Otherwise every ray gets a sample.
LEMMA PlaceOnto ==
  ASSUME settings \in Settings, NEW n \in Nat \ {0}, NEW r \in BOOLEAN, NEW k \in 0 .. n - 1,
         ~(settings.flip_x_axis /\ n % 2 = 1)
  PROVE  \E i \in 0 .. n - 1 : Place(i, n, r) = k
<1> DEFINE half == n \div 2
           m == IF ~settings.flip_x_axis THEN k ELSE IF k < half THEN k + half ELSE k - half
           i == IF r THEN n - 1 - m ELSE m
<1>1. half \in Int /\ n % 2 \in {0, 1} /\ n = 2 * half + (n % 2)
  OBVIOUS
<1>2. i \in 0 .. n - 1
  BY <1>1
<1>3. Place(i, n, r) = k
  BY <1>1 DEF Place
<1> QED BY <1>2, <1>3

\* The ray k shows the last of the samples that get it, or was never written.
LastOfRay(s, r, k, range) ==
  \/ range = Unwritten /\ \A c \in 0 .. Len(s) - 1 : Place(c, Len(s), r) # k - 1
  \/ \E c \in 0 .. Len(s) - 1 :
       /\ range = IF s[c + 1].dist = 0 THEN Infinity ELSE s[c + 1].dist
       /\ Place(c, Len(s), r) = k - 1
       /\ \A d \in 0 .. Len(s) - 1 : Place(d, Len(s), r) = k - 1 => d <= c

\* A ray of the message shows the last reading that was put there.
LEMMA RangeOfRay ==
  ASSUME settings \in Settings, NEW s, Len(s) \in Nat \ {0}, NEW reversed \in BOOLEAN
  PROVE  /\ DOMAIN Message(s, reversed).ranges = 1 .. Len(s)
         /\ \A k \in 1 .. Len(s) :
              LastOfRay(s, settings.inverted # reversed, k, Message(s, reversed).ranges[k])
<1> DEFINE n == Len(s)
           r == settings.inverted # reversed
           ranges == Message(s, reversed).ranges
           From(k) == {i \in 0 .. n - 1 : Place(i, n, r) = k - 1}
           Reading(sample) == IF sample.dist = 0 THEN Infinity ELSE sample.dist
<1>1. ranges = [k \in 1 .. n |-> IF From(k) = {} THEN Unwritten ELSE Reading(s[Max(From(k)) + 1])]
  BY DEF Message
<1> HIDE DEF ranges, r
<1>2. ASSUME NEW k \in 1 .. n PROVE LastOfRay(s, r, k, ranges[k])
  <2>1. CASE From(k) = {}
    BY <1>1, <2>1 DEF LastOfRay
  <2>2. CASE From(k) # {}
    <3>1. n - 1 \in Nat /\ From(k) \in SUBSET (0 .. n - 1)
      OBVIOUS
    <3>2. Max(From(k)) \in From(k) /\ \A d \in From(k) : d <= Max(From(k))
      BY <2>2, <3>1, MaxIsGreatest
    <3>3. ranges[k] = Reading(s[Max(From(k)) + 1])
      BY <1>1, <2>2
    <3> QED BY <3>2, <3>3 DEF LastOfRay
  <2> QED BY <2>1, <2>2
<1> QED BY <1>1, <1>2 DEF ranges, r

\* A cell shows a sample that is written to it, if there is one.
LEMMA CellShows ==
  ASSUME settings \in Settings, NEW t, NEW m \in Nat, Measured(t) \in SUBSET (0 .. m),
         NEW c \in 0 .. NumCells - 1
  PROVE  \/ Compensated(t)[c + 1] = NoSample /\ \A i \in Measured(t) : c \notin Written(t[i])
         \/ \E i \in Measured(t) : c \in Written(t[i]) /\ Compensated(t)[c + 1] = t[i]
<1> DEFINE by == {i \in Measured(t) : c \in Written(t[i])}
<1>1. NumCells \in Nat \ {0} /\ c + 1 \in 1 .. NumCells /\ (c + 1) - 1 = c
  BY CellsExist
<1>2. Compensated(t)[c + 1] = IF by = {} THEN NoSample ELSE t[Max(by)]
  BY <1>1 DEF Compensated
<1>3. CASE by = {}
  BY <1>2, <1>3
<1>4. CASE by # {}
  <2>1. Max(by) \in by
    BY <1>4, MaxIsGreatest
  <2> QED BY <1>2, <1>4, <2>1
<1> QED BY <1>3, <1>4

\* A compensated scan has one cell for each ray of the circle.
LEMMA CellsOfCircle ==
  ASSUME settings \in Settings, NEW t
  PROVE  Len(Compensated(t)) = NumCells
BY CellsExist DEF Compensated

\* With compensation, the cell of a measured angle shows a sample measured there or up
\* to multiple - 1 cells before.
LEMMA CompensatedShows ==
  ASSUME settings \in Settings, NEW s, NEW t, NEW p, FromHolder(s), Reordered(s, t, p),
         NEW i \in Measured(s)
  PROVE  LET cell == Compensated(t)[angle_value(s[i]) + 1]
         IN  /\ cell.dist # 0
             /\ angle_value(s[i]) - angle_value(cell) \in 0 .. settings.multiple - 1
<1> DEFINE c == angle_value(s[i])
<1>1. PICK j \in Measured(t) : p[j] = i
  BY MeasuredInOrder
<1>2. /\ Measured(t) \subseteq 1 .. Len(s) /\ Len(s) \in Nat /\ t[j] = s[i]
      /\ \A k \in Measured(t) : k \in 1 .. Len(s) /\ t[k] = s[p[k]] /\ p[k] \in 1 .. Len(s)
                                /\ t[k].dist # 0
  <2>1. \A k \in Measured(t) : t[k].dist # 0
    BY DEF Measured
  <2> QED BY <1>1, <2>1, MeasuredInOrder DEF FromHolder
<1>3. \A k \in Measured(t) : t[k].angle \in 0 .. Circle - 1
  BY <1>2 DEF FromHolder
<1>4. c \in Written(t[j]) /\ c \in 0 .. NumCells - 1
  BY <1>1, <1>2, <1>3, WrittenNearby
<1>5. Measured(t) \in SUBSET (0 .. Len(s))
  BY <1>2
<1> HIDE DEF c
<1>6. PICK k \in Measured(t) : c \in Written(t[k]) /\ Compensated(t)[c + 1] = t[k]
  BY <1>1, <1>2, <1>4, <1>5, CellShows
<1>7. c - angle_value(t[k]) \in 0 .. settings.multiple - 1
  BY <1>3, <1>6, WrittenNearby
<1> QED BY <1>2, <1>6, <1>7 DEF c

\* Without compensation, the scan from the first measured sample to the last.
LEMMA TrimmedKeeps ==
  ASSUME NEW s, NEW t, NEW p, FromHolder(s), Reordered(s, t, p), Measured(s) # {}
  PROVE  /\ Len(Trimmed(t)) \in Nat \ {0}
         /\ \A c \in 0 .. Len(Trimmed(t)) - 1 :
              \E j \in 1 .. Len(s) : Trimmed(t)[c + 1] = t[j] /\ t[j].dist \in Nat /\ j = Min(Measured(t)) + c
         /\ \A i \in Measured(s) : \E c \in 0 .. Len(Trimmed(t)) - 1 :
              Trimmed(t)[c + 1].dist = i /\ p[Min(Measured(t)) + c] = i
<1> DEFINE from == Min(Measured(t))
           to == Max(Measured(t))
<1>1. /\ \A j \in Measured(t) : j \in 1 .. Len(s) /\ t[j].dist = p[j]
      /\ \A i \in Measured(s) : \E j \in Measured(t) : p[j] = i
      /\ Measured(t) \subseteq 1 .. Len(s) /\ Measured(t) # {}
  BY MeasuredInOrder
<1>2. Len(s) \in Nat /\ t \in Seq(Sample) /\ Len(t) = Len(s)
  BY DEF FromHolder, Reordered
<1>3. from \in Measured(t) /\ \A j \in Measured(t) : from <= j
  <2>1. Measured(t) \in SUBSET Nat
    BY <1>1, <1>2
  <2> QED BY <1>1, <2>1, MinIsLeast
<1>4. to \in Measured(t) /\ \A j \in Measured(t) : j <= to
  <2>1. Measured(t) \in SUBSET (0 .. Len(s))
    BY <1>1, <1>2
  <2> QED BY <1>1, <1>2, <2>1, MaxIsGreatest
<1>5. Trimmed(t) = SubSeq(t, from, to)
  BY DEF Trimmed
<1> HIDE DEF from, to
<1>6. from \in 1 .. Len(s) /\ to \in 1 .. Len(s) /\ from <= to
  BY <1>1, <1>3, <1>4
<1>7. /\ Len(Trimmed(t)) = to - from + 1
      /\ \A c \in 0 .. to - from : Trimmed(t)[c + 1] = t[from + c]
  <2>1. SubSeq(t, from, to) = [k \in 1 .. to - from + 1 |-> t[from + k - 1]]
    BY <1>2, <1>6
  <2>2. \A c \in 0 .. to - from : c + 1 \in 1 .. to - from + 1 /\ from + (c + 1) - 1 = from + c
    BY <1>6
  <2>3. to - from + 1 \in Nat
    BY <1>6
  <2> QED BY <1>5, <2>1, <2>2, <2>3
<1>8. ASSUME NEW c \in 0 .. to - from
      PROVE  \E j \in 1 .. Len(s) : Trimmed(t)[c + 1] = t[j] /\ t[j].dist \in Nat /\ j = from + c
  <2>1. from + c \in 1 .. Len(s)
    BY <1>2, <1>6
  <2>2. t[from + c] \in Sample
    BY <1>2, <2>1
  <2> QED BY <1>7, <2>1, <2>2 DEF Sample
<1>9. ASSUME NEW i \in Measured(s)
      PROVE  \E c \in 0 .. to - from : Trimmed(t)[c + 1].dist = i /\ p[from + c] = i
  <2>1. PICK j \in Measured(t) : p[j] = i
    BY <1>1
  <2>2. j - from \in 0 .. to - from /\ from + (j - from) = j
    BY <1>1, <1>3, <1>4, <1>6, <2>1
  <2>3. Trimmed(t)[(j - from) + 1] = t[j]
    BY <1>7, <2>2
  <2> QED BY <1>1, <2>1, <2>2, <2>3
<1>10. Len(Trimmed(t)) - 1 = to - from /\ Len(Trimmed(t)) \in Nat \ {0}
  BY <1>6, <1>7
<1> QED BY <1>8, <1>9, <1>10 DEF from

\* What MeasurementsAreShown says without compensation.
ShownWithoutCells(s, shown, ranges) ==
  LET readings == {k \in DOMAIN ranges : ranges[k] \notin {Infinity, Unwritten}}
      lost == {i \in Measured(s) : \A k \in readings : ranges[k] # i}
      oddFlip == settings.flip_x_axis /\ Len(shown) % 2 = 1
  IN  /\ lost # {} => oddFlip /\ Cardinality(lost) = 1
      /\ Unwritten \in {ranges[k] : k \in DOMAIN ranges} => oddFlip

\* Every measured sample is in a ray, but for one when an odd number of rays is flipped.
LEMMA UncompensatedShows ==
  ASSUME settings \in Settings, NEW s, NEW t, NEW p, FromHolder(s), Reordered(s, t, p),
         Measured(s) # {}, NEW reversed \in BOOLEAN
  PROVE  ShownWithoutCells(s, Trimmed(t), Message(Trimmed(t), reversed).ranges)
<1> DEFINE shown == Trimmed(t)
           n == Len(shown)
           r == settings.inverted # reversed
           ranges == Message(shown, reversed).ranges
           readings == {k \in DOMAIN ranges : ranges[k] \notin {Infinity, Unwritten}}
           lost == {i \in Measured(s) : \A k \in readings : ranges[k] # i}
           oddFlip == settings.flip_x_axis /\ n % 2 = 1
           from == Min(Measured(t))
<1>1. /\ n \in Nat \ {0}
      /\ \A c \in 0 .. n - 1 : shown[c + 1].dist \in Nat
      /\ \A i \in Measured(s) : \E c \in 0 .. n - 1 : shown[c + 1].dist = i /\ p[from + c] = i
  <2>1. /\ n \in Nat \ {0}
        /\ \A c \in 0 .. n - 1 :
             \E j \in 1 .. Len(s) : shown[c + 1] = t[j] /\ t[j].dist \in Nat /\ j = from + c
        /\ \A i \in Measured(s) : \E c \in 0 .. n - 1 : shown[c + 1].dist = i /\ p[from + c] = i
    <3>1. /\ Len(Trimmed(t)) \in Nat \ {0}
          /\ \A c \in 0 .. Len(Trimmed(t)) - 1 :
               \E j \in 1 .. Len(s) :
                 Trimmed(t)[c + 1] = t[j] /\ t[j].dist \in Nat /\ j = Min(Measured(t)) + c
          /\ \A i \in Measured(s) : \E c \in 0 .. Len(Trimmed(t)) - 1 :
               Trimmed(t)[c + 1].dist = i /\ p[Min(Measured(t)) + c] = i
      BY TrimmedKeeps
    <3> QED BY <3>1, Zenon
  <2> HIDE DEF shown, n, from
  <2>2. \A c \in 0 .. n - 1 : shown[c + 1].dist \in Nat
    BY <2>1
  <2> QED BY <2>1, <2>2
<1>2. DOMAIN ranges = 1 .. n /\ \A k \in 1 .. n : LastOfRay(shown, r, k, ranges[k])
  BY <1>1, RangeOfRay
<1>3. r \in BOOLEAN
  OBVIOUS
<1>4. Measured(s) \subseteq Nat \ {0}
  BY DEF Measured, FromHolder
<1> HIDE DEF ranges, r, shown, from
<1>5. ASSUME NEW i \in lost PROVE oddFlip /\ i = p[from + 0]
  <2>1. PICK c \in 0 .. n - 1 : shown[c + 1].dist = i /\ p[from + c] = i
    BY <1>1
  <2> DEFINE k == Place(c, n, r) + 1
  <2>2. k - 1 = Place(c, n, r) /\ k \in 1 .. n
    <3> DEFINE a == Place(c, n, r)
    <3>1. a \in 0 .. n - 1
      BY <1>1, <1>3, PlaceInside
    <3> HIDE DEF n, a
    <3>2. (a + 1) - 1 = a /\ a + 1 \in 1 .. n
      BY <1>1, <3>1
    <3> QED BY <3>2 DEF a
  <2> HIDE DEF k
  <2>3. PICK d \in 0 .. n - 1 :
          /\ ranges[k] = IF shown[d + 1].dist = 0 THEN Infinity ELSE shown[d + 1].dist
          /\ Place(d, n, r) = k - 1 /\ c <= d
    BY <1>2, <2>2 DEF LastOfRay
  <2>4. c # d
    <3>1. SUFFICES ASSUME c = d PROVE FALSE
      OBVIOUS
    <3>2. i \in Nat \ {0}
      BY <1>4
    <3>3. ranges[k] = i
      BY <2>1, <2>3, <3>1, <3>2
    <3>4. k \in readings
      BY <1>2, <2>2, <3>2, <3>3 DEF Infinity, Unwritten
    <3> QED BY <3>3, <3>4
  <2>5. c < d
    BY <1>1, <2>3, <2>4
  <2>6. oddFlip /\ c = 0
    BY <1>1, <1>3, <2>2, <2>3, <2>5, PlaceClashes
  <2> QED BY <2>1, <2>6
<1>6. ASSUME lost # {} PROVE oddFlip /\ Cardinality(lost) = 1
  <2>1. lost = {p[from + 0]}
    BY <1>5, <1>6
  <2>2. Cardinality({p[from + 0]}) = 1
    BY FS_Singleton
  <2> HIDE DEF lost
  <2> QED BY <1>5, <1>6, <2>1, <2>2
<1>7. ASSUME NEW k \in 1 .. n, ranges[k] = Unwritten PROVE oddFlip
  <2>1. \A c \in 0 .. n - 1 : Place(c, n, r) # k - 1
    <3>1. ASSUME NEW c \in 0 .. n - 1,
                 ranges[k] = IF shown[c + 1].dist = 0 THEN Infinity ELSE shown[c + 1].dist
          PROVE  FALSE
      BY <1>1, <1>7, <3>1 DEF Infinity, Unwritten
    <3> QED BY <1>2, <3>1 DEF LastOfRay
  <2>2. k - 1 \in 0 .. n - 1
    BY <1>1
  <2> SUFFICES ASSUME ~oddFlip PROVE FALSE
    OBVIOUS
  <2> HIDE DEF n
  <2>3. \E c \in 0 .. n - 1 : Place(c, n, r) = k - 1
    BY <1>1, <1>3, <2>2, PlaceOnto
  <2> QED BY <2>1, <2>3
<1>8. Unwritten \in {ranges[k] : k \in DOMAIN ranges} => oddFlip
  BY <1>2, <1>7
<1> HIDE DEF lost
<1> QED BY <1>6, <1>8 DEF lost, ranges, shown, ShownWithoutCells

\* Nothing that was measured is published as free (rplidar_node.cpp, the compensation
\* and publish_scan): for every length of a scan, every resolution, and all settings.
THEOREM NothingMeasuredIsHidden == ConversionSpec => []MeasurementsAreShown
<1>1. ScanInv => MeasurementsAreShown
  <2> SUFFICES ASSUME ScanInv, at = "spin", Measured(grabbed) # {}
               PROVE  MeasurementsAreShown
    BY DEF MeasurementsAreShown, Published
  <2>1. settings \in Settings /\ FromHolder(grabbed) /\ Shown
    BY DEF ScanInv
  <2>2. PICK p : Reordered(grabbed, nodes, p)
    BY DEF ScanInv
  <2>3. PICK reversed \in BOOLEAN : msg = Message(cells, reversed)
    BY <2>1 DEF Shown
  <2>4. CASE settings.angle_compensate
    BY <2>1, <2>2, <2>4, CompensatedShows DEF Shown, MeasurementsAreShown
  <2>5. CASE ~settings.angle_compensate
    <3>1. cells = Trimmed(nodes)
      BY <2>1, <2>5 DEF Shown
    <3>2. ShownWithoutCells(grabbed, cells, msg.ranges)
      BY <2>1, <2>2, <2>3, <3>1, UncompensatedShows
    <3> QED BY <2>5, <3>2 DEF MeasurementsAreShown, ShownWithoutCells, Readings
  <2> QED BY <2>4, <2>5
<1> QED BY <1>1, ScanIsKept, PTL

-----------------------------------------------------------------------------
(* The directions of the rays *)

\* A number within a circle of n, and a circle on or back.
LEMMA RoundTheCircle ==
  ASSUME NEW n \in Nat \ {0}, NEW d \in 0 .. n - 1
  PROVE  d % n = d /\ (d + n) % n = d /\ (d - n) % n = d
<1>1. ASSUME NEW x \in {d, d + n, d - n} PROVE x % n = d
  <2> DEFINE q == x \div n
             e == x % n
  <2>1. x \in Int /\ q \in Int /\ e \in 0 .. n - 1 /\ x = n * q + e
    OBVIOUS
  <2> HIDE DEF q, e
  <2>2. PICK z \in {0, 1, -1} : x = d + n * z
    BY <1>1
  <2>3. n * (q - z) = d - e
    <3>1. n * (q - z) = n * q - n * z /\ n * q \in Int /\ n * z \in Int
      BY <2>1, <2>2
    <3> QED BY <2>1, <2>2, <3>1
  <2>4. d - e < n /\ d - e > -n
    BY <2>1
  <2>5. q - z = 0
    <3>1. q - z >= 1 => n * (q - z) >= n
      BY <2>1
    <3>2. q - z <= -1 => n * (q - z) <= -n
      BY <2>1
    <3> QED BY <2>1, <2>3, <2>4, <3>1, <3>2
  <2>6. d - e = 0
    BY <2>1, <2>3, <2>5
  <2> QED BY <2>1, <2>6 DEF e
<1> QED BY <1>1

\* How far ray k of n is from the direction of cell v, against the lidar's turn.
OffBy(k, v, n) ==
  LET half == n \div 2
      direction == half + 1 + (k - 1) - (IF settings.flip_x_axis THEN half ELSE 0)
      expected == IF settings.inverted THEN v + half + 1 ELSE half - v
  IN  IF settings.inverted THEN direction - expected ELSE expected - direction

\* The arithmetic of publish_scan's directions: sample c of a compensated scan
\* gets ray Place(c) of the message.
LEMMA DirectionOfPlace ==
  ASSUME settings \in Settings, NEW n \in Nat \ {0}, settings.flip_x_axis => n % 2 = 0,
         NEW c \in 0 .. n - 1, NEW v \in 0 .. n - 1, c - v \in 0 .. n - 1
  PROVE  OffBy(Place(c, n, settings.inverted # TRUE) + 1, v, n) % n = c - v
<1> DEFINE half == n \div 2
           k == Place(c, n, settings.inverted # TRUE) + 1
           direction == half + 1 + (k - 1) - (IF settings.flip_x_axis THEN half ELSE 0)
           expected == IF settings.inverted THEN v + half + 1 ELSE half - v
           off == IF settings.inverted THEN direction - expected ELSE expected - direction
           d == c - v
           mirrored == IF settings.inverted # TRUE THEN n - 1 - c ELSE c
<1>1. half \in Int /\ (settings.flip_x_axis => n = 2 * half)
  OBVIOUS
<1>2. settings.inverted \in BOOLEAN /\ settings.flip_x_axis \in BOOLEAN
  BY CellsExist
<1>3. ASSUME settings.inverted PROVE off \in {d, d + n, d - n}
  <2>1. k = 1 + (IF ~settings.flip_x_axis THEN c
                 ELSE IF c >= half THEN c - half ELSE c + half)
    <3>1. mirrored = c
      BY <1>2, <1>3
    <3>2. k = (IF ~settings.flip_x_axis THEN mirrored
               ELSE IF mirrored >= half THEN mirrored - half ELSE mirrored + half) + 1
      BY DEF Place
    <3> HIDE DEF mirrored, k
    <3> QED BY <1>1, <3>1, <3>2
  <2>2. off = direction - (v + half + 1)
    BY <1>3
  <2> HIDE DEF half, k, off
  <2>3. CASE ~settings.flip_x_axis
    <3>1. k = 1 + (c) /\ direction = half + 1 + (k - 1) - 0
      BY <2>1, <2>3
    <3> QED BY <1>1, <2>2, <3>1
  <2>4. CASE settings.flip_x_axis
    <3>1. /\ k = 1 + (IF c >= half THEN c - half ELSE c + half)
          /\ direction = half + 1 + (k - 1) - half
      BY <2>1, <2>4
    <3> QED BY <1>1, <2>2, <2>4, <3>1
  <2> QED BY <2>3, <2>4
<1>4. ASSUME ~settings.inverted PROVE off \in {d, d + n, d - n}
  <2>1. k = 1 + (IF ~settings.flip_x_axis THEN n - 1 - c
                 ELSE IF n - 1 - c >= half THEN n - 1 - c - half ELSE n - 1 - c + half)
    <3>1. mirrored = n - 1 - c
      BY <1>2, <1>4
    <3>2. k = (IF ~settings.flip_x_axis THEN mirrored
               ELSE IF mirrored >= half THEN mirrored - half ELSE mirrored + half) + 1
      BY DEF Place
    <3> HIDE DEF mirrored, k
    <3> QED BY <1>1, <3>1, <3>2
  <2>2. off = (half - v) - direction
    BY <1>4
  <2> HIDE DEF half, k, off
  <2>3. CASE ~settings.flip_x_axis
    <3>1. k = 1 + (n - 1 - c) /\ direction = half + 1 + (k - 1) - 0
      BY <2>1, <2>3
    <3> QED BY <1>1, <2>2, <3>1
  <2>4. CASE settings.flip_x_axis
    <3>1. /\ k = 1 + (IF n - 1 - c >= half THEN n - 1 - c - half ELSE n - 1 - c + half)
          /\ direction = half + 1 + (k - 1) - half
      BY <2>1, <2>4
    <3> QED BY <1>1, <2>2, <2>4, <3>1
  <2> QED BY <2>3, <2>4
<1> QED BY <1>3, <1>4, RoundTheCircle DEF OffBy

\* With an even number of degrees there is an even number of cells.
LEMMA EvenCells ==
  ASSUME settings \in Settings, Degrees % 2 = 0
  PROVE  NumCells % 2 = 0
<1> DEFINE h == Degrees \div 2
           m == settings.multiple
<1>1. h \in Int /\ Degrees = 2 * h /\ m \in Int
  BY UnitsAssumption, CellsExist
<1> HIDE DEF h, m
<1>2. h * m \in Int /\ (2 * h) * m = 2 * (h * m)
  BY <1>1
<1>3. \A x \in Int : (2 * x) % 2 = 0
  OBVIOUS
<1>4. NumCells = 2 * (h * m)
  BY <1>1, <1>2 DEF NumCells, m
<1> QED BY <1>2, <1>3, <1>4

\* A ray points to where its range was measured, within the cells that one sample
\* covers (rplidar_node.cpp, publish_scan): for every length of a scan, every angle and
\* all settings, on a circle of an even number of degrees, as the code's 360.
THEOREM RaysPointRight ==
  ASSUME Degrees % 2 = 0
  PROVE  ConversionSpec => []RaysPointToMeasurements
<1>1. ScanInv => RaysPointToMeasurements
  <2> SUFFICES ASSUME ScanInv, at = "spin", settings.angle_compensate, Measured(grabbed) # {},
                      NEW k \in Readings
               PROVE  OffBy(k, angle_value(grabbed[msg.ranges[k]]), NumCells) % NumCells
                        \in 0 .. settings.multiple - 1
    BY DEF RaysPointToMeasurements, Published, OffBy
  <2> DEFINE n == NumCells
             r == settings.inverted # TRUE
  <2>1. settings \in Settings /\ FromHolder(grabbed) /\ Shown /\ n \in Nat \ {0}
    BY CellsExist DEF ScanInv
  <2>2. PICK p : Reordered(grabbed, nodes, p)
    BY DEF ScanInv
  <2>3. cells = Compensated(nodes) /\ msg = Message(cells, TRUE)
    <3>1. PICK reversed \in BOOLEAN : msg = Message(cells, reversed) /\ reversed
      BY <2>1 DEF Shown
    <3> QED BY <2>1, <3>1 DEF Shown
  <2>4. Len(cells) = n
    BY <2>1, <2>3, CellsOfCircle
  <2> HIDE DEF n
  <2>5. k \in 1 .. n /\ LastOfRay(cells, r, k, msg.ranges[k]) /\ msg.ranges[k] \notin {Infinity, Unwritten}
    <3>1. /\ DOMAIN Message(cells, TRUE).ranges = 1 .. Len(cells)
          /\ \A i \in 1 .. Len(cells) : LastOfRay(cells, r, i, Message(cells, TRUE).ranges[i])
      BY <2>1, <2>4, RangeOfRay
    <3> QED BY <2>3, <2>4, <3>1 DEF Readings
  <2>6. PICK c \in 0 .. n - 1 :
          /\ cells[c + 1].dist # 0 /\ msg.ranges[k] = cells[c + 1].dist
          /\ Place(c, n, r) = k - 1
    BY <2>4, <2>5 DEF LastOfRay
  <2>7. /\ Measured(nodes) \subseteq 1 .. Len(grabbed) /\ Len(grabbed) \in Nat
        /\ \A i \in Measured(nodes) :
             p[i] \in 1 .. Len(grabbed) /\ nodes[i] = grabbed[p[i]] /\ nodes[i].dist = p[i]
    BY <2>1, <2>2, MeasuredInOrder DEF FromHolder
  <2>8. PICK i \in Measured(nodes) : c \in Written(nodes[i]) /\ cells[c + 1] = nodes[i]
    <3>1. Measured(nodes) \in SUBSET (0 .. Len(grabbed))
      BY <2>7
    <3>2. cells[c + 1] # NoSample
      BY <2>6 DEF NoSample
    <3> QED BY <2>1, <2>3, <2>6, <2>7, <3>1, <3>2, CellShows DEF n
  <2> DEFINE v == angle_value(nodes[i])
  <2>9. grabbed[msg.ranges[k]] = nodes[i] /\ nodes[i].angle \in 0 .. Circle - 1
    BY <2>1, <2>6, <2>7, <2>8 DEF FromHolder
  <2>10. v \in 0 .. n - 1 /\ c - v \in 0 .. settings.multiple - 1
    BY <2>1, <2>8, <2>9, CellOfAngle, WrittenNearby DEF n
  <2>11. settings.flip_x_axis => n % 2 = 0
    BY <2>1, EvenCells DEF n
  <2> HIDE DEF v
  <2>12. c - v \in 0 .. n - 1
    BY <2>1, <2>10
  <2>13. OffBy(Place(c, n, settings.inverted # TRUE) + 1, v, n) % n = c - v
    BY <2>1, <2>10, <2>11, <2>12, DirectionOfPlace
  <2>14. Place(c, n, settings.inverted # TRUE) + 1 = k
    <3>1. Place(c, n, settings.inverted # TRUE) = k - 1
      BY <2>6
    <3>2. (k - 1) + 1 = k
      BY <2>1, <2>5
    <3> QED BY <3>1, <3>2
  <2> QED BY <2>9, <2>10, <2>13, <2>14 DEF n, v
<1> QED BY <1>1, ScanIsKept, PTL
=============================================================================

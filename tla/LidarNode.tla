------------------------------ MODULE LidarNode ------------------------------
(***************************************************************************)
(* The ROS node of the lidar and the operations of the driver it calls:    *)
(* connecting, starting and stopping a scan, motor control, the main loop  *)
(* with auto standby, the two services, and the end.                       *)
(*                                                                         *)
(* The node has one thread.  An operation is a sequence of calls to the    *)
(* driver, each of which sends a command: one that asks waits for an       *)
(* answer and switches the decoding of samples off (_disableDataGrabbing), *)
(* others are only sent.  "calls" are the ones the node has still to make. *)
(* What the answers say is a matter of the device; an answer may not come  *)
(* in time, and a command may not be sent.  A command that was sent        *)
(* arrives.  The hand-over of scans is the ScanHolder module's, here a     *)
(* signal that is set when a scan is complete.                             *)
(***************************************************************************)
EXTENDS Naturals, Sequences

CONSTANTS
  Devices,    \* the kinds of lidar the node may find
  Configs,    \* the parameters it may be started with
  MaxTimeouts \* bound: answers that do not come in time

\* ctrl: how the motor is controlled (by the DTR line of the serial port, or
\* by a command); conf: the firmware knows GET_LIDAR_CONF; std: its typical
\* mode uses the standard samples; named: it offers the mode asked for.
Device == [ctrl : {"none", "pwm", "rpm"}, conf : BOOLEAN, std : BOOLEAN, named : BOOLEAN]
\* standby: auto_standby; named: scan_mode is not empty.
Config == [standby : BOOLEAN, named : BOOLEAN]

ASSUME NodeAssumption ==
  /\ Devices \subseteq Device /\ Configs \subseteq Config
  /\ MaxTimeouts \in Nat

VARIABLES
  device,     \* the lidar
  config,     \* the node's parameters
  node,       \* where the node's thread is, besides its calls
  calls,      \* calls it has still to make before it goes on
  scanning,   \* RPlidarNode::is_scanning
  tuneLater,  \* scan_frequency_tunning_after_scan
  needExit,   \* need_exit
  subscribed, \* get_subscription_count() > 0
  support,    \* SlamtecLidarDriver::_isSupportingMotorCtrl
  enabled,    \* the unpacker's _enabled
  ready,      \* the holder's event is set: a complete scan waits
  streaming,  \* the device sends samples
  motor,      \* its motor: "off", "default" speed or "tuned"
  timeouts,   \* answers that did not come in time
  sendFailed, \* once, a command could not be sent
  afterStop   \* scans published since the last stop, counted up to 2

fixedVars == <<device, config>>
nodeVars == <<scanning, tuneLater, afterStop>>
envVars == <<needExit, subscribed>>
driverVars == <<support, enabled, ready>>
deviceVars == <<streaming, motor>>
faultVars == <<timeouts, sendFailed>>
vars == <<fixedVars, node, calls, nodeVars, envVars, driverVars, deviceVars, faultVars>>

-----------------------------------------------------------------------------
(* Operations as sequences of calls *)

ModeDetails == <<"sampleDuration", "maxDistance", "ansType", "modeName">>
LegacyRate == <<"deviceInfo", "sampleRate">>

\* Mutant: the motor is started last, by a call that disables decoding.
LaunchMotorLast ==
  (IF device.ctrl = "rpm" THEN <<"macAddr">> ELSE <<>>)
    \o <<"resetAndEnable", "motorDefault", "scan">>

\* The end of startScanNormal and startScanExpress.
Launch ==
  (IF device.ctrl = "rpm" THEN <<"macAddr">> ELSE <<>>)
    \o <<"motorDefault", "resetAndEnable", "scan">>

StartScanNormal ==
  <<"stop", "deviceInfo">> \o (IF device.conf THEN ModeDetails ELSE LegacyRate) \o Launch

\* A mode with standard samples is handed to startScanNormal.
StartScanExpress ==
  <<"stop", "deviceInfo">> \o (IF device.conf THEN ModeDetails ELSE LegacyRate)
    \o (IF device.conf /\ device.std THEN StartScanNormal ELSE Launch)

StartScan ==
  <<"stop", "deviceInfo", "deviceInfo">>
    \o (IF device.conf THEN <<"typicalMode">> ELSE <<>>) \o StartScanExpress

\* The mode is looked for among all modes of the device; the model's devices
\* have two.  Without GET_LIDAR_CONF the list is empty.
StartNamedMode ==
  <<"deviceInfo">>
    \o (IF device.conf THEN <<"modeCount">> \o ModeDetails \o ModeDetails ELSE <<>>)
    \o (IF device.conf /\ device.named THEN StartScanExpress ELSE <<"noSuchMode">>)

\* RPlidarNode::start and set_scan_mode
NodeStart ==
  <<"motorDefault">> \o (IF config.named THEN StartNamedMode ELSE StartScan) \o <<"started">>

\* Mutant: the node does not note that it has stopped.
NodeStopUnnoted == <<"stop", "motorOff">>

\* RPlidarNode::stop
NodeStop == <<"stop", "motorOff", "stopped">>

\* Mutant: nothing switches the motor off.
NodeEndOnlyStops == <<"stop", "delete">>

NodeEnd == <<"motorOff", "stop", "delete">>

Init ==
  /\ device \in Devices /\ config \in Configs
  /\ node = "setup" /\ calls = <<"motorSupport", "identity", "health", "model">>
  /\ scanning = FALSE /\ tuneLater = FALSE
  /\ needExit = FALSE /\ subscribed = FALSE
  /\ support = "none" /\ enabled = FALSE /\ ready = FALSE
  /\ streaming \in BOOLEAN
  /\ motor \in IF device.ctrl = "none" THEN {"default"} ELSE {"off", "default"}
  /\ timeouts = 0 /\ sendFailed = FALSE
  /\ afterStop = 0

-----------------------------------------------------------------------------
(* Calls to the driver *)

Calling(names) == calls # <<>> /\ Head(calls) \in names
Returns == calls' = Tail(calls)

\* A request that is not answered, or a command that is not sent.
AnswerMissing ==
  \/ timeouts < MaxTimeouts /\ timeouts' = timeouts + 1 /\ UNCHANGED sendFailed
  \/ sendFailed' = TRUE /\ UNCHANGED timeouts
NotSent == sendFailed' = TRUE /\ UNCHANGED timeouts

\* checkMotorCtrlSupport, called by connect, which ignores its result.
CheckMotorCtrlSupport ==
  /\ Calling({"motorSupport"}) /\ Returns
  /\ \/ support' = device.ctrl /\ UNCHANGED faultVars
     \/ support' = "none" /\ AnswerMissing
  /\ enabled' = FALSE
  /\ UNCHANGED <<fixedVars, node, nodeVars, envVars, ready, deviceVars>>

\* Requests whose answer decides whether the operation goes on.
Queries == {"deviceInfo", "sampleRate", "typicalMode", "modeCount",
            "sampleDuration", "maxDistance", "ansType", "modeName"}

QueryAnswered ==
  /\ Calling(Queries) /\ Returns
  /\ enabled' = FALSE
  /\ UNCHANGED <<fixedVars, node, nodeVars, envVars, support, ready, deviceVars, faultVars>>

\* set_scan_mode fails: start() stops, and an unsuccessful start before the
\* loop ends the node.
GiveUp == calls' = IF node = "setup" THEN NodeStop \o <<"delete">> ELSE NodeStop

QueryFails ==
  /\ Calling(Queries)
  /\ AnswerMissing
  /\ GiveUp
  /\ enabled' = FALSE
  /\ UNCHANGED <<fixedVars, node, nodeVars, envVars, support, ready, deviceVars>>

NoSuchMode ==
  /\ Calling({"noSuchMode"})
  /\ GiveUp
  /\ UNCHANGED <<fixedVars, node, nodeVars, envVars, driverVars, deviceVars, faultVars>>

\* Requests whose failure is of no consequence: getDeviceMacAddr.
QueryIgnored ==
  /\ Calling({"macAddr"}) /\ Returns
  /\ enabled' = FALSE
  /\ UNCHANGED <<fixedVars, node, nodeVars, envVars, support, ready, deviceVars, faultVars>>

\* getRPLIDARDeviceInfo and checkRPLIDARHealth
Identity ==
  /\ Calling({"identity", "health"})
  /\ \/ Returns /\ UNCHANGED <<node, faultVars>>
     \/ AnswerMissing /\ calls' = <<"delete">> /\ node' = "refusing"
  /\ enabled' = FALSE
  /\ UNCHANGED <<fixedVars, nodeVars, envVars, support, ready, deviceVars>>

\* The lidar's health is bad.
Unhealthy ==
  /\ Calling({"health"})
  /\ calls' = <<"delete">> /\ node' = "refusing"
  /\ enabled' = FALSE
  /\ UNCHANGED <<fixedVars, nodeVars, envVars, support, ready, deviceVars, faultVars>>

\* The model is asked for once more, this time without a look at the result:
\* without an answer the variable is uninitialized.  The motor of an older
\* lidar is switched on in any case.
Model ==
  /\ Calling({"model"})
  /\ \/ tuneLater' = (device.ctrl = "rpm") /\ UNCHANGED faultVars
     \/ tuneLater' \in BOOLEAN /\ AnswerMissing
  /\ calls' = (IF tuneLater' THEN <<>> ELSE <<"motor600">>)
                \o (IF config.standby THEN <<>> ELSE NodeStart)
  /\ enabled' = FALSE
  /\ UNCHANGED <<fixedVars, node, scanning, afterStop, envVars, support, ready, deviceVars>>

\* setMotorSpeed.  The DTR line moves the motor of a lidar that has no
\* command for it; nobody looks at the result.
TurnMotor(speed) ==
  \/ /\ support = "none"
     /\ motor' = IF device.ctrl = "none" THEN speed ELSE motor
     /\ UNCHANGED faultVars
  \/ /\ support # "none"
     /\ motor' = speed
     /\ UNCHANGED faultVars
  \/ /\ support # "none"
     /\ NotSent
     /\ UNCHANGED motor

Speed == [motorOff |-> "off", motor600 |-> "default", motorDefault |-> "default",
          motorTuned |-> "tuned"]

\* The default speed is one that the device is asked for.
SetMotorSpeed ==
  /\ Calling(DOMAIN Speed) /\ Returns
  /\ TurnMotor(Speed[Head(calls)])
  /\ enabled' = IF Head(calls) = "motorDefault" THEN FALSE ELSE enabled
  /\ UNCHANGED <<fixedVars, node, nodeVars, envVars, support, ready, streaming>>

\* SlamtecLidarDriver::stop
Stop ==
  /\ Calling({"stop"}) /\ Returns
  /\ enabled' = FALSE
  /\ streaming' = FALSE
  /\ IF support = "pwm" THEN TurnMotor("off") ELSE UNCHANGED <<motor, faultVars>>
  /\ UNCHANGED <<fixedVars, node, nodeVars, envVars, support, ready>>

StopFails ==
  /\ Calling({"stop"}) /\ Returns
  /\ enabled' = FALSE
  /\ NotSent
  /\ UNCHANGED <<fixedVars, node, nodeVars, envVars, support, ready, deviceVars>>

ResetAndEnable ==
  /\ Calling({"resetAndEnable"}) /\ Returns
  /\ ready' = FALSE /\ enabled' = TRUE
  /\ UNCHANGED <<fixedVars, node, nodeVars, envVars, support, deviceVars, faultVars>>

Scan ==
  /\ Calling({"scan"}) /\ Returns
  /\ streaming' = TRUE
  /\ UNCHANGED <<fixedVars, node, nodeVars, envVars, driverVars, motor, faultVars>>

ScanFails ==
  /\ Calling({"scan"})
  /\ NotSent
  /\ GiveUp
  /\ UNCHANGED <<fixedVars, node, nodeVars, envVars, driverVars, deviceVars>>

\* The driver disconnects.
Delete ==
  /\ Calling({"delete"}) /\ Returns
  /\ enabled' = FALSE
  /\ node' = IF node = "refusing" THEN "refused" ELSE "gone"
  /\ UNCHANGED <<fixedVars, nodeVars, envVars, support, ready, deviceVars, faultVars>>

\* is_scanning is set at the end of start and of stop.
Noted ==
  /\ Calling({"started", "stopped"}) /\ Returns
  /\ scanning' = (Head(calls) = "started")
  /\ afterStop' = 0
  /\ UNCHANGED <<fixedVars, node, tuneLater, envVars, driverVars, deviceVars, faultVars>>

Call == \/ CheckMotorCtrlSupport \/ QueryAnswered \/ QueryFails \/ NoSuchMode \/ QueryIgnored
        \/ Identity \/ Unhealthy \/ Model \/ SetMotorSpeed \/ Stop \/ StopFails
        \/ ResetAndEnable \/ Scan \/ ScanFails \/ Delete \/ Noted

-----------------------------------------------------------------------------
(* The main loop *)

Goes(from, to) ==
  /\ calls = <<>> /\ node = from /\ node' = to
  /\ UNCHANGED <<fixedVars, envVars, support, enabled, deviceVars, faultVars>>

EnterLoop == /\ Goes("setup", "loop")
             /\ UNCHANGED <<calls, nodeVars, ready>>

EndLoop == /\ Goes("loop", "ending") /\ needExit
           /\ calls' = NodeEnd
           /\ UNCHANGED <<nodeVars, ready>>

\* Auto standby starts and stops the scan with the subscribers.
LoopHead ==
  /\ Goes("loop", "grab") /\ ~needExit
  /\ calls' = IF config.standby /\ subscribed # scanning
              THEN IF subscribed THEN NodeStart ELSE NodeStop
              ELSE <<>>
  /\ UNCHANGED <<nodeVars, ready>>

\* The first scan of a lidar whose speed is set in revolutions per minute
\* is used to set it, and not published.
GrabTunes ==
  /\ Goes("grab", "loop") /\ ready /\ tuneLater
  /\ ready' = FALSE /\ tuneLater' = FALSE
  /\ calls' = <<"motorTuned">>
  /\ UNCHANGED <<scanning, afterStop>>

GrabPublishes ==
  /\ Goes("grab", "published") /\ ready /\ ~tuneLater
  /\ ready' = FALSE
  /\ afterStop' = IF scanning \/ afterStop = 2 THEN afterStop ELSE afterStop + 1
  /\ UNCHANGED <<calls, scanning, tuneLater>>

GrabTimesOut == /\ Goes("grab", "spin") /\ ~ready
                /\ UNCHANGED <<calls, nodeVars, ready>>

\* spin_some: services that were called.  In auto standby they are refused.
Service ==
  /\ Goes("spin", "spin") /\ ~config.standby
  /\ calls' \in {NodeStart, NodeStop}
  /\ UNCHANGED <<nodeVars, ready>>

Spun == /\ Goes("published", "spin") \/ Goes("spin", "loop")
        /\ UNCHANGED <<calls, nodeVars, ready>>

Loop == EnterLoop \/ EndLoop \/ LoopHead \/ GrabTunes \/ GrabPublishes \/ GrabTimesOut \/ Spun

-----------------------------------------------------------------------------
(* The rest of the world *)

ScanComplete ==
  /\ streaming /\ enabled /\ motor # "off"
  /\ ready' = TRUE
  /\ UNCHANGED <<fixedVars, node, calls, nodeVars, envVars, support, enabled, deviceVars, faultVars>>

ExitHandler ==
  /\ needExit' = TRUE
  /\ UNCHANGED <<fixedVars, node, calls, nodeVars, subscribed, driverVars, deviceVars, faultVars>>

SubscribersChange ==
  /\ subscribed' = ~subscribed
  /\ UNCHANGED <<fixedVars, node, calls, nodeVars, needExit, driverVars, deviceVars, faultVars>>

-----------------------------------------------------------------------------
Next == Call \/ Loop \/ Service \/ ScanComplete \/ ExitHandler \/ SubscribersChange

Spec == Init /\ [][Next]_vars

\* The node's thread runs: every request and every grab has a timeout.  A
\* turning lidar completes its scans, before a grab times out.  Services are
\* not called for ever in one spin_some.
FairSpec == /\ Spec
            /\ WF_vars(Call) /\ WF_vars(Loop) /\ SF_vars(Spun)
            /\ WF_vars(ScanComplete) /\ SF_vars(GrabTunes) /\ SF_vars(GrabPublishes)

-----------------------------------------------------------------------------
(* What the node promises *)

CallNames == Queries \cup DOMAIN Speed \cup
  {"motorSupport", "identity", "health", "model", "macAddr", "noSuchMode", "stop",
   "resetAndEnable", "scan", "delete", "started", "stopped"}

\* Every variable keeps its type, and the driver is not called any more once
\* it is deleted.
TypeOK ==
  /\ device \in Devices /\ config \in Configs
  /\ node \in {"setup", "loop", "grab", "published", "spin", "ending", "gone", "refusing",
               "refused"}
  /\ calls \in Seq(CallNames)
  /\ node \in {"gone", "refused"} => calls = <<>>
  /\ {scanning, tuneLater, needExit, subscribed, enabled, ready, streaming, sendFailed}
       \subseteq BOOLEAN
  /\ support \in {"none", device.ctrl}
  /\ motor \in {"off", "default", "tuned"}
  /\ timeouts \in 0 .. MaxTimeouts /\ afterStop \in 0 .. 2

\* Between its operations the node is of one mind with the driver and the
\* device: samples are decoded exactly while it takes itself to be scanning,
\* and then the device sends them, whatever failed on the way there.
InLoop == calls = <<>> /\ node \in {"loop", "grab", "published", "spin"}
NodeAndDriverAgree == InLoop => scanning = enabled /\ (scanning => streaming)

\* The driver found out how to control this lidar's motor.
Controllable == support = device.ctrl

\* "Stop motors and exit when set_scan_mode() call fails", and at any other
\* end of the loop: when all commands could be sent the lidar is left
\* standing and silent.
EndsQuietly == node = "gone" /\ ~sendFailed /\ Controllable => motor = "off" /\ ~streaming

\* After a stop at most the one scan that was complete is published.
StoppedGoesQuiet == afterStop <= 1

\* The device offers what the node is asked to start.
Startable == config.named => device.conf /\ device.named

\* A subscriber in auto standby gets a scan, however many answers came too
\* late, unless commands cannot even be sent.
ScansFlow ==
  config.standby /\ subscribed /\ node = "loop"
    ~> (node = "published" \/ ~subscribed \/ needExit \/ sendFailed \/ ~Startable \/ ~Controllable)

\* The node ends when it is told to, in every state of the lidar.
ExitReturns == needExit ~> node \in {"gone", "refused"}
=============================================================================

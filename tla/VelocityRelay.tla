---------------------------- MODULE VelocityRelay ----------------------------
(***************************************************************************)
(* velocity_relay.py: the node on the robot that turns velocity commands   *)
(* into packets for the motor controller, and its watchdog, a timer that   *)
(* stops the motors when no command was sent for a while.                  *)
(*                                                                         *)
(* rclpy.spin runs the callbacks one at a time.  Time passes in ticks; a   *)
(* timer that is due is served before the next tick.  The motors keep to   *)
(* the last packet they were sent.  Lengths and speeds are integers:       *)
(* commands in units of 1e-4, wheel speeds in units of 1e-8.               *)
(***************************************************************************)
EXTENDS Integers

CONSTANTS
  TimerInterval,   \* timer_interval, in ticks
  TimeoutDuration, \* timeout_duration, in ticks
  MinPwm, MaxPwm   \* min_pwm and max_pwm

ASSUME RelayAssumption ==
  /\ TimerInterval \in Nat \ {0}
  /\ TimeoutDuration \in Nat
  /\ MinPwm \in Nat /\ MaxPwm \in Nat /\ 0 < MinPwm /\ MinPwm <= MaxPwm

VARIABLES
  relayUp,    \* the node runs
  sentVelCmd, \* sent_vel_cmd
  sinceSent,  \* ticks since time_sent
  toTimer,    \* ticks until the timer is due
  motors,     \* the packet the motor controller got last
  cause,      \* the command it was made of
  motorAge    \* ticks since it got a packet

relayVars == <<relayUp, sentVelCmd, sinceSent, toTimer, motors, cause, motorAge>>

-----------------------------------------------------------------------------
(* From a command to a packet *)

Abs(x) == IF x < 0 THEN -x ELSE x

Unit == 100000000       \* a speed of 1.0
WheelSeparation == 1350 \* wheel_separation, 0.135
\* The box is empty: no person is behind this command.
Zero == [linear |-> 0, angular |-> 0, box |-> <<>>]

\* min_pwm .. max_pwm, in proportion to the speed.
Driven(val) ==
  LET scaled == MinPwm + (Abs(val) * (MaxPwm - MinPwm)) \div Unit
  IN  IF scaled > MaxPwm THEN MaxPwm ELSE scaled

\* map_to_pwm: nothing below a speed of 0.01.
MapToPwm(val) ==
  IF Abs(val) < Unit \div 100 THEN 0 ELSE IF val > 0 THEN Driven(val) ELSE -Driven(val)

\* The speeds of the two wheels of a differential drive.  The trims have
\* their default, 1.0.
Packet(cmd) ==
  LET turn == (cmd.angular * WheelSeparation) \div 2
  IN [left  |-> MapToPwm(cmd.linear * 10000 - turn),
      right |-> MapToPwm(cmd.linear * 10000 + turn)]

Stopped == [left |-> 0, right |-> 0]
Moving == motors # Stopped

-----------------------------------------------------------------------------
RelayInit ==
  /\ relayUp = TRUE
  /\ sentVelCmd = FALSE /\ sinceSent = 0
  /\ toTimer = TimerInterval
  /\ motors = Stopped /\ cause = Zero /\ motorAge = 0

Writes(packet, cmd) == motors' = packet /\ cause' = cmd /\ motorAge' = 0

\* listener_callback
Listener(cmd) ==
  /\ relayUp
  /\ Writes(Packet(cmd), cmd)
  /\ sentVelCmd' = TRUE /\ sinceSent' = 0
  /\ UNCHANGED <<relayUp, toTimer>>

\* Mutant: the time is taken before the write that fails.
ListenerFailsLate ==
  /\ relayUp
  /\ sentVelCmd' = TRUE /\ sinceSent' = 0
  /\ UNCHANGED <<relayUp, toTimer, motors, cause, motorAge>>

\* The write raises an exception, which is caught and logged.
ListenerFails ==
  /\ relayUp
  /\ UNCHANGED relayVars

TimedOut == sentVelCmd /\ sinceSent > TimeoutDuration

\* timer_callback
TimerCallback ==
  /\ relayUp /\ toTimer = 0
  /\ toTimer' = TimerInterval
  /\ IF TimedOut
     THEN Writes(Stopped, Zero) /\ sentVelCmd' = FALSE
     ELSE UNCHANGED <<motors, cause, motorAge, sentVelCmd>>
  /\ UNCHANGED <<relayUp, sinceSent>>

\* The write of the stop raises an exception that nobody catches: spin ends
\* and with it the node.
TimerCallbackFails ==
  /\ relayUp /\ toTimer = 0
  /\ TimedOut
  /\ relayUp' = FALSE
  /\ UNCHANGED <<sentVelCmd, sinceSent, toTimer, motors, cause, motorAge>>

\* How long the motors may run without a command.
Longest == TimeoutDuration + TimerInterval
Older(age) == IF age > Longest THEN age ELSE age + 1

\* Time passes; ages are counted up to just above Longest.
RelayTick ==
  /\ relayUp => toTimer > 0
  /\ toTimer' = IF relayUp THEN toTimer - 1 ELSE toTimer
  /\ sinceSent' = Older(sinceSent) /\ motorAge' = Older(motorAge)
  /\ UNCHANGED <<relayUp, sentVelCmd, motors, cause>>

-----------------------------------------------------------------------------
(* What the relay promises *)

RelayTypeOK ==
  /\ relayUp \in BOOLEAN /\ sentVelCmd \in BOOLEAN
  /\ sinceSent \in 0 .. Longest + 1 /\ motorAge \in 0 .. Longest + 1
  /\ toTimer \in 0 .. TimerInterval
  /\ motors \in [left : Int, right : Int]

\* As long as the relay (velocity_relay.py) runs, the motors never run longer than the timeout
\* and one interval of the timer on the command they got last, whatever
\* writes fail in between.
StopsAfterSilence == relayUp /\ Moving => motorAge <= Longest

\* Why: the watchdog is armed whenever the motors move, it counts from the
\* packet they obey, and it is served in time.
WatchdogInv ==
  /\ Moving /\ relayUp => sentVelCmd /\ sinceSent = motorAge
  /\ sentVelCmd /\ relayUp => sinceSent <= Longest - toTimer
=============================================================================

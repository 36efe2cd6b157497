----------------------------- MODULE FollowStack -----------------------------
(***************************************************************************)
(* Following a person: the follower on the fog computer, the velocity      *)
(* relay on the robot, and /cmd_vel between them.  Frames and commands     *)
(* travel over a wireless network: frames are lost or late, commands       *)
(* arrive in order or, from a full queue, not at all.                      *)
(***************************************************************************)
EXTENDS VelocityRelay, HumanFollower

vars == <<relayVars, followerVars>>

Init == RelayInit /\ FollowerInit

\* The relay's next command: written to the motors, or the write fails.
CommandReceived ==
  /\ cmdVel # <<>>
  /\ cmdVel' = Tail(cmdVel)
  /\ Listener(Head(cmdVel)) \/ ListenerFails
  /\ UNCHANGED <<following, isProcessing, sincePub, frameWaiting>>

Timer == (TimerCallback \/ TimerCallbackFails) /\ UNCHANGED followerVars

Tick == RelayTick /\ FollowerTick

Next == (FollowerActs /\ UNCHANGED relayVars) \/ CommandReceived \/ Timer \/ Tick

Spec == Init /\ [][Next]_vars

\* Time passes, the timer is served, and commands are delivered.  Nothing
\* says that frames arrive or that following is ever switched.
FairSpec == Spec /\ WF_vars(Tick) /\ WF_vars(Timer) /\ WF_vars(CommandReceived)

-----------------------------------------------------------------------------
(* What the two nodes promise together *)

\* Every variable keeps its type.
TypeOK ==
  /\ RelayTypeOK
  /\ following \in BOOLEAN /\ isProcessing \in BOOLEAN /\ frameWaiting \in BOOLEAN
  /\ sincePub \in 0 .. MinFrameGap
  /\ cmdVel \in Seq(Controls) /\ Len(cmdVel) <= QueueDepth

\* When the box that is followed fills more than 0.80 of the frame's height it
\* is not approached: in the packet sent to the motors the wheels do not go
\* forward in sum, though the relay lifts small speeds to min_pwm and drops
\* smaller ones.  Of two persons that is the one with the better score, who need
\* not be the nearer.
NeverApproaches ==
  Moving /\ cause.box # <<>> /\ cause.box[1].height > 800 =>
    motors.left + motors.right <= 0

\* Why: the packet the motors obey is the one made of the command it is
\* remembered with, and that command is one of the follower's.
PacketInv == cause \in Controls /\ motors = Packet(cause)

\* The inductive invariant.
FollowInv == TypeOK /\ WatchdogInv /\ PacketInv /\ LastWordIsStop

\* Disabling stops the robot: the stop arrives, or its write fails and the
\* watchdog stops the motors, as long as the relay runs.
DisablingStops == ~following ~> (~Moving \/ following \/ ~relayUp)
=============================================================================

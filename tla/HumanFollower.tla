---------------------------- MODULE HumanFollower ----------------------------
(***************************************************************************)
(* human_follower.py: the node that finds a person in the camera's frames  *)
(* and publishes velocity commands that keep the person centred and at a   *)
(* distance.                                                               *)
(*                                                                         *)
(* rclpy.spin runs the callbacks one at a time, so the toggle service      *)
(* waits while a frame is processed.  Of the frames that arrive meanwhile  *)
(* only the newest is kept (KEEP_LAST, depth 1).  What the detector sees   *)
(* in a frame is a sequence of boxes: centre and height of each in         *)
(* thousandths of the frame's width and height.  Commands are in units of  *)
(* 1e-4 and carry, for the properties only, the box they were made for.    *)
(***************************************************************************)
EXTENDS Integers, Sequences, SequencesExt

CONSTANTS
  MinFrameGap, \* 1 / target_fps, in ticks
  QueueDepth,  \* depth of the cmd_vel queue
  Centres,     \* where boxes can be: 0 is the left edge, 1000 the right one
  MaxBoxes,    \* bound: boxes the detector finds in a frame
  Heights      \* how high they can be: 1000 is the whole frame

ASSUME FollowerAssumption ==
  /\ MinFrameGap \in Nat
  /\ QueueDepth \in Nat \ {0} /\ MaxBoxes \in Nat
  /\ Centres \subseteq 0 .. 1000 /\ Heights \subseteq 0 .. 1000

VARIABLES
  following,    \* is_following
  isProcessing, \* is_processing: a frame is in the detector
  sincePub,     \* ticks since last_pub_time
  frameWaiting, \* a frame waits for image_callback
  cmdVel        \* commands published on /cmd_vel and not yet received

followerVars == <<following, isProcessing, sincePub, frameWaiting, cmdVel>>

-----------------------------------------------------------------------------
(* The control law *)

Box == [centre : Centres, height : Heights]
Frames == SeqOf(Box, MaxBoxes)

Magnitude(x) == IF x < 0 THEN -x ELSE x
Sign(x) == CASE x > 0 -> 1 [] x < 0 -> -1 [] OTHER -> 0
Clip(x, limit) == IF x > limit THEN limit ELSE IF x < -limit THEN -limit ELSE x

\* Positive when the box is to the left.
Error(box) == 500 - box.centre

Score(box) == (1000 - 2 * Magnitude(Error(box))) + (IF box.height < 900 THEN box.height ELSE 900)

\* Where the box to follow is: the first one of the highest score.
BestBox(boxes) ==
  {i \in 1 .. Len(boxes) :
     \A j \in 1 .. Len(boxes) :
       Score(boxes[j]) < Score(boxes[i]) \/ (Score(boxes[j]) = Score(boxes[i]) /\ i <= j)}

\* A deadband of 0.10, beyond it 0.15 is taken off.
AngularError(box) == IF Magnitude(Error(box)) < 100 THEN 0
                     ELSE Error(box) - Sign(Error(box)) * 150

\* Mutant: the error of a box that is too high has the wrong sign.
LinearErrorForward(box) == CASE box.height < 650 -> 650 - box.height
                             [] box.height > 800 -> box.height - 800
                             [] OTHER -> 0

LinearError(box) == CASE box.height < 650 -> 650 - box.height
                      [] box.height > 800 -> 800 - box.height
                      [] OTHER -> 0

\* kp_linear is 1.2, kp_angular 0.5; the speeds are clipped to 0.2 and 0.5.
Command(box) == [linear  |-> Clip(12 * LinearError(box), 2000),
                 angular |-> Clip(5 * AngularError(box), 5000),
                 box     |-> <<box>>]

StopCommand == [linear |-> 0, angular |-> 0, box |-> <<>>]

\* What comes of a frame: a command for the best box, or a stop when the
\* target is lost.
Controls == {StopCommand} \cup
            UNION {{Command(boxes[i]) : i \in BestBox(boxes)} : boxes \in Frames}

-----------------------------------------------------------------------------
FollowerInit ==
  /\ following = FALSE /\ isProcessing = FALSE
  /\ sincePub = 0
  /\ frameWaiting = FALSE
  /\ cmdVel = <<>>

\* A full queue loses its oldest command.
Publish(cmd) ==
  cmdVel' = IF Len(cmdVel) < QueueDepth THEN Append(cmdVel, cmd) ELSE Append(Tail(cmdVel), cmd)

FrameArrives ==
  /\ frameWaiting' = TRUE
  /\ UNCHANGED <<following, isProcessing, sincePub, cmdVel>>

\* The head of image_callback: a frame that comes too early is dropped.
FrameDropped ==
  /\ frameWaiting /\ ~isProcessing /\ sincePub < MinFrameGap
  /\ frameWaiting' = FALSE
  /\ UNCHANGED <<following, isProcessing, sincePub, cmdVel>>

FrameTaken ==
  /\ frameWaiting /\ ~isProcessing /\ sincePub >= MinFrameGap
  /\ frameWaiting' = FALSE
  /\ isProcessing' = TRUE /\ sincePub' = 0
  /\ UNCHANGED <<following, cmdVel>>

\* The rest of image_callback: the frame cannot be decoded, the detector
\* raises an exception, or nobody is to be followed.
NothingPublished ==
  /\ isProcessing
  /\ isProcessing' = FALSE
  /\ UNCHANGED <<following, sincePub, frameWaiting, cmdVel>>

ControlPublished ==
  /\ isProcessing /\ following
  /\ \E cmd \in Controls : Publish(cmd)
  /\ isProcessing' = FALSE
  /\ UNCHANGED <<following, sincePub, frameWaiting>>

\* Mutant: disabling does not stop the robot.
ToggleQuietly(enable) ==
  /\ ~isProcessing
  /\ following' = enable
  /\ UNCHANGED <<isProcessing, sincePub, frameWaiting, cmdVel>>

\* follower_toggle_cb
Toggle(enable) ==
  /\ ~isProcessing
  /\ following' = enable
  /\ IF enable THEN UNCHANGED cmdVel ELSE Publish(StopCommand)
  /\ UNCHANGED <<isProcessing, sincePub, frameWaiting>>

FollowerTick ==
  /\ sincePub' = IF sincePub < MinFrameGap THEN sincePub + 1 ELSE sincePub
  /\ UNCHANGED <<following, isProcessing, frameWaiting, cmdVel>>

FollowerActs ==
  \/ FrameArrives \/ FrameDropped \/ FrameTaken \/ NothingPublished
  \/ ControlPublished
  \/ \E enable \in BOOLEAN : Toggle(enable)

-----------------------------------------------------------------------------
(* What the follower promises *)

\* "Positive error means box is to the left -> turn left (+z)": no command
\* turns the robot away from the person it is made for.
TurnsTowardPerson ==
  \A i \in 1 .. Len(cmdVel) :
    cmdVel[i].box # <<>> => Sign(cmdVel[i].angular) \in {0, Sign(Error(cmdVel[i].box[1]))}

\* "Stop the robot immediately when disabling": once following is disabled
\* the last word on cmd_vel is a stop, whatever frames are still processed.
LastWordIsStop == ~following /\ cmdVel # <<>> => Last(cmdVel) = StopCommand
=============================================================================

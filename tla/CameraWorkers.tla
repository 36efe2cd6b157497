---------------------------- MODULE CameraWorkers ----------------------------
(***************************************************************************)
(* The camera node's requests: one worker thread for each request of       *)
(* libcamera (CameraNode::process), the camera thread that completes the   *)
(* requests in the order they were queued (CameraNode::requestComplete),   *)
(* the constructor, of which every stage may throw, the destructor that    *)
(* ends the workers, and the parameter callbacks of the ROS executor,      *)
(* whose values a worker passes to the camera with the request it queues   *)
(* again.                                                                  *)
(*                                                                         *)
(* An exception in the constructor destroys what was constructed, without  *)
(* the destructor: the vector of threads, too, which ends the process when *)
(* one of them runs.  That the camera then stays acquired and the buffers  *)
(* mapped is left out, and which camera, format and size are chosen.       *)
(*                                                                         *)
(* A worker holds the mutex of its request from the wakeup to the end of   *)
(* the loop's body; a wait gives it up.  A condition variable keeps no     *)
(* signal that nobody waits for, and its wait may return without one.      *)
(***************************************************************************)
EXTENDS Naturals, Sequences, SequencesExt, FiniteSets

CONSTANTS
  Requests,    \* the requests made by the constructor, one per buffer
  MaxSettings, \* bound: times the parameters are set
  Prompt,      \* TRUE: a worker waits again before its request completes
  SpuriousWakeup, \* TRUE: a wait may return without a notification
  MaxQueue     \* bound: requests queued when a worker wakes without one

ASSUME CameraAssumption ==
  /\ Requests # {} /\ IsFiniteSet(Requests)
  /\ {MaxSettings, MaxQueue} \subseteq Nat
  /\ {Prompt, SpuriousWakeup} \subseteq BOOLEAN

VARIABLES
  main,      \* where the constructor or destructor is
  todo,      \* requests main has still to make, start, queue or notify
  running,   \* CameraNode::running
  connected, \* requestComplete is connected to the camera's signal
  worker,    \* where each worker thread is
  status,    \* the status of each request
  queue,     \* requests queued to the camera, oldest first
  callback,  \* the requests requestComplete is being called for, at most one
  settings,  \* times the parameters were set: the number of the last values
  pending,   \* ParameterHandler::control_values: 0, or the number of a set
  controls,  \* the values a worker has moved into its request
  applied    \* the values given to the camera, in the order it got them

mainVars == <<main, todo, running, connected>>
cameraVars == <<status, queue, callback>>
settingVars == <<settings, pending, controls, applied>>
vars == <<mainVars, worker, cameraVars, settingVars>>

Init ==
  /\ main = "reading" /\ todo = Requests
  /\ running = FALSE /\ connected = FALSE
  /\ worker = [r \in Requests |-> "none"]
  /\ status = [r \in Requests |-> "idle"]
  /\ queue = <<>> /\ callback = {}
  /\ settings = 0 /\ pending = 0
  /\ controls = [r \in Requests |-> 0] /\ applied = <<>>

\* The requests whose mutex a worker holds.
Locked == {r \in Requests : worker[r] \in {"working", "moved", "queued"}}

\* Wakes the worker if it waits, and is lost if it does not.
Notify(r) == worker' = IF worker[r] = "waiting" THEN [worker EXCEPT ![r] = "woken"] ELSE worker

-----------------------------------------------------------------------------
(* Construction *)

\* A thread that can be joined must not be destroyed.
Throws ==
  /\ main' = IF \A r \in Requests : worker[r] = "none" THEN "failed" ELSE "terminated"
  /\ UNCHANGED <<todo, running, connected, settingVars>>

\* A stage before there are requests; from one to the next, or it throws.
Stage(from, to) ==
  /\ main = from
  /\ \/ main' = to /\ UNCHANGED <<todo, running, connected, settingVars>>
     \/ Throws
  /\ UNCHANGED <<worker, cameraVars>>

ReadParameters  == Stage("reading", "finding")
FindCamera      == Stage("finding", "configuring")
ConfigureCamera == Stage("configuring", "declaring")
Allocate        == Stage("allocating", "making")

\* Declares the controls, which sets their defaults and overrides if there are
\* any: the first values for the camera.
DeclareControls ==
  /\ main = "declaring" /\ main' = "allocating"
  /\ settings' \in 0 .. MaxSettings /\ settings' \in 0 .. 1
  /\ pending' = settings'
  /\ UNCHANGED <<todo, running, connected, worker, cameraVars, controls, applied>>

\* A request for a buffer, and the buffer mapped.
MakeRequest(r) ==
  /\ main = "making" /\ r \in todo
  /\ \/ /\ IF todo = {r} THEN main' = "threads" /\ todo' = Requests /\ running' = TRUE
                          ELSE todo' = todo \ {r} /\ UNCHANGED <<main, running>>
        /\ UNCHANGED <<connected, settingVars>>
     \/ Throws
  /\ UNCHANGED <<worker, cameraVars>>

StartThread(r) ==
  /\ main = "threads" /\ r \in todo
  /\ \/ /\ worker' = [worker EXCEPT ![r] = "locking"]
        /\ todo' = todo \ {r}
        /\ main' = IF todo' = {} THEN "connecting" ELSE main
        /\ UNCHANGED <<running, connected, settingVars>>
     \/ Throws /\ UNCHANGED worker
  /\ UNCHANGED cameraVars

\* The callback is connected and the camera started with the values there are,
\* which nevertheless stay pending.
StartCamera ==
  /\ main = "connecting"
  /\ \/ /\ main' = "queueing" /\ todo' = Requests /\ connected' = TRUE
        /\ applied' = IF pending = 0 THEN applied ELSE Append(applied, pending)
        /\ UNCHANGED <<running, settings, pending, controls>>
     \/ Throws
  /\ UNCHANGED <<worker, cameraVars>>

\* queueRequest succeeds, or fails and the request stays with nobody.
Queued(r) ==
  \/ /\ queue' = Append(queue, r)
     /\ status' = [status EXCEPT ![r] = "pending"]
  \/ /\ status' = [status EXCEPT ![r] = "idle"]
     /\ UNCHANGED queue

ConstructorQueues(r) ==
  /\ main = "queueing" /\ r \in todo
  /\ Queued(r)
  /\ todo' = todo \ {r}
  /\ main' = IF todo' = {} THEN "up" ELSE main
  /\ UNCHANGED <<running, connected, worker, callback, settingVars>>

-----------------------------------------------------------------------------
(* Destruction *)

Destruct ==
  /\ main = "up"
  /\ connected' = FALSE
  /\ main' = "stopping"
  /\ UNCHANGED <<todo, running, worker, cameraVars, settingVars>>

\* Mutant: the workers are notified before they are told to end.
NotifiesFirst ==
  /\ main = "stopping"
  /\ main' = "notifying" /\ todo' = Requests
  /\ UNCHANGED <<running, connected, worker, cameraVars, settingVars>>

StopRunning ==
  /\ main = "stopping"
  /\ running' = FALSE
  /\ main' = "notifying" /\ todo' = Requests
  /\ UNCHANGED <<connected, worker, cameraVars, settingVars>>

\* notify_all, without the mutex.
NotifyAll(r) ==
  /\ main = "notifying" /\ r \in todo
  /\ Notify(r)
  /\ todo' = todo \ {r}
  /\ main' = IF todo' = {} THEN "joining" ELSE main
  /\ UNCHANGED <<running, connected, cameraVars, settingVars>>

\* All threads are joined; stopping the camera ends its callback and its
\* queue.
StopCamera ==
  /\ main = "joining" /\ callback = {}
  /\ \A r \in Requests : worker[r] = "exited"
  /\ main' = "gone" /\ queue' = <<>>
  /\ UNCHANGED <<todo, running, connected, worker, status, callback, settingVars>>

-----------------------------------------------------------------------------
(* The camera *)

\* The oldest request is filled with a frame, or cancelled.
Complete(outcome) ==
  /\ queue # <<>> /\ callback = {} /\ main # "gone"
  /\ Prompt => worker[Head(queue)] = "waiting" \/ main \notin {"queueing", "up"}
  /\ queue' = Tail(queue)
  /\ status' = [status EXCEPT ![Head(queue)] = outcome]
  /\ callback' = IF connected THEN {Head(queue)} ELSE {}
  /\ UNCHANGED <<mainVars, worker, settingVars>>

\* requestComplete: locks the request's mutex and notifies.
RequestComplete(r) ==
  /\ r \in callback /\ r \notin Locked
  /\ Notify(r)
  /\ callback' = {}
  /\ UNCHANGED <<mainVars, status, queue, settingVars>>

-----------------------------------------------------------------------------
(* A worker thread: CameraNode::process *)

WorkerGoes(r, from, to) ==
  /\ main # "terminated"
  /\ worker[r] = from /\ worker' = [worker EXCEPT ![r] = to]
  /\ UNCHANGED <<mainVars, callback>>

\* lock, and wait without a predicate: whatever has happened before goes
\* unnoticed.
Wait(r) == /\ WorkerGoes(r, "locking", "waiting")
           /\ UNCHANGED <<status, queue, settingVars>>

\* wait(lk) has no predicate either: without a notification, too, it is taken
\* for one that the request is available.
Awake(r) == \/ worker[r] = "woken"
            \/ SpuriousWakeup /\ worker[r] = "waiting" /\ Len(queue) < MaxQueue

Woken(r) == /\ Awake(r)
            /\ WorkerGoes(r, worker[r], IF running THEN "working" ELSE "exited")
            /\ UNCHANGED <<status, queue, settingVars>>

\* Publishes a complete frame, reuses the request and moves the pending
\* values into it.
MoveControls(r) == /\ WorkerGoes(r, "working", "moved")
                   /\ controls' = [controls EXCEPT ![r] = pending]
                   /\ pending' = 0
                   /\ UNCHANGED <<status, queue, settings, applied>>

\* Mutant: the request is not queued again when it was cancelled.
RequeueOnlyFrames(r) ==
  /\ WorkerGoes(r, "moved", "queued")
  /\ IF status[r] = "complete" THEN Queued(r) ELSE UNCHANGED <<queue, status>>
  /\ applied' = IF controls[r] = 0 THEN applied ELSE Append(applied, controls[r])
  /\ controls' = [controls EXCEPT ![r] = 0]
  /\ UNCHANGED <<settings, pending>>

\* A request that cannot be queued is lost with the values in it.
Requeue(r) ==
  /\ WorkerGoes(r, "moved", "queued")
  /\ Queued(r)
  /\ applied' = IF controls[r] = 0 \/ queue' = queue THEN applied
                ELSE Append(applied, controls[r])
  /\ controls' = [controls EXCEPT ![r] = 0]
  /\ UNCHANGED <<settings, pending>>

\* The end of the loop's body unlocks the mutex.
EndOfLoop(r) == /\ WorkerGoes(r, "queued", "locking")
                /\ UNCHANGED <<status, queue, settingVars>>

-----------------------------------------------------------------------------
(* The ROS executor *)

\* Mutant: values that wait to be applied are kept.
KeepsFirst ==
  /\ main = "up" /\ settings < MaxSettings
  /\ settings' = settings + 1
  /\ pending' = IF pending = 0 THEN settings + 1 ELSE pending
  /\ UNCHANGED <<mainVars, worker, cameraVars, controls, applied>>

\* PostSetApply: values that were not applied yet are dropped.
PostSetApply ==
  /\ main = "up" /\ settings < MaxSettings
  /\ settings' = settings + 1
  /\ pending' = settings + 1
  /\ UNCHANGED <<mainVars, worker, cameraVars, controls, applied>>

-----------------------------------------------------------------------------
Prepare == ReadParameters \/ FindCamera \/ ConfigureCamera \/ DeclareControls \/ Allocate
Main == \/ Prepare \/ StartCamera \/ StopRunning \/ StopCamera
        \/ \E r \in Requests : \/ MakeRequest(r) \/ StartThread(r)
                               \/ ConstructorQueues(r) \/ NotifyAll(r)
Camera == \/ Complete("complete") \/ Complete("cancelled")
          \/ \E r \in Requests : RequestComplete(r)
Worker(r) == Wait(r) \/ Woken(r) \/ MoveControls(r) \/ Requeue(r) \/ EndOfLoop(r)

Next == \/ Main \/ Destruct \/ Camera \/ PostSetApply
        \/ \E r \in Requests : Worker(r)

Spec == Init /\ [][Next]_vars

\* All threads run, and the camera goes on completing its requests; nobody
\* has to destroy the node or to set a parameter, and no wait has to return
\* without a notification.
FairSpec == /\ Spec /\ WF_vars(Main) /\ WF_vars(Camera)
            /\ \A r \in Requests : WF_vars(worker[r] # "waiting" /\ Worker(r))

-----------------------------------------------------------------------------
(* What the camera node promises *)

\* Before the requests are queued; and when there is no node any more.
Early == {"reading", "finding", "configuring", "declaring", "allocating", "making", "threads",
          "connecting"}
Ended == {"gone", "failed", "terminated"}

\* Every variable keeps its type.
TypeOK ==
  /\ main \in Early \cup {"queueing", "up", "stopping", "notifying", "joining"} \cup Ended
  /\ todo \subseteq Requests /\ callback \subseteq Requests
  /\ {running, connected} \subseteq BOOLEAN
  /\ worker \in [Requests -> {"none", "locking", "waiting", "woken", "working", "moved", "queued", "exited"}]
  /\ status \in [Requests -> {"idle", "pending", "complete", "cancelled"}]
  /\ queue \in Seq(Requests)
  /\ {settings, pending} \subseteq 0 .. MaxSettings
  /\ controls \in [Requests -> 0 .. MaxSettings]
  /\ applied \in Seq(1 .. MaxSettings)

\* A request belongs to the camera or to its worker: a worker that reads,
\* reuses or queues a request has not got one that is still queued, not even
\* while the destructor wakes it.  Only if no wait returns without a
\* notification: the code does not look whether its request is available.
OneOwner == \A r \in Requests : worker[r] \in {"working", "moved"} => ~Contains(queue, r)

\* The constructor throws "failed to start camera": whoever made the node can
\* catch it.
FailureIsReported == main # "terminated"

\* Unless a request could not be queued, the values set last are on their
\* way to the camera or given to it: values set in quick succession never
\* leave it with older ones only.  As OneOwner, only if no wait returns
\* without a notification.
Refused(r) == main \notin Early \cup {"queueing"} /\ status[r] = "idle"
LastSettingKept ==
  \/ settings = 0 \/ pending = settings
  \/ \E r \in Requests : controls[r] = settings \/ Refused(r)
  \/ Contains(applied, settings)

\* A worker blocks only "until request is available": a request the camera
\* has completed or cancelled is taken up by its worker and given back (or
\* refused), as long as the node runs.
FramesFlow ==
  \A r \in Requests : status[r] \in {"complete", "cancelled"}
                        ~> (status[r] \in {"pending", "idle"} \/ main # "up")

\* The destructor does "unlock all threads" and "wait for all currently
\* running threads to finish": once begun, it ends.
DestructorReturns == main = "stopping" ~> main = "gone"

\* The camera is only ever given "the most recent parameter values": the
\* values it gets are never older than the ones it has.
SettingsInOrder == \A i, j \in 1 .. Len(applied) : i < j => applied[i] <= applied[j]
=============================================================================

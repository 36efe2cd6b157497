------------------------- MODULE CameraWorkersProofs -------------------------
(***************************************************************************)
(* Proofs about CameraWorkers: whose a request is at every moment, and     *)
(* where the values set last are, for every number of requests and of      *)
(* settings, whether or not the workers are back in their wait before the  *)
(* next frame (Prompt).  Whose a request is, and the values after it, as   *)
(* long as no wait returns without a notification (SpuriousWakeup): the    *)
(* worker does not look whether its request is available.                  *)
(***************************************************************************)
EXTENDS CameraWorkers, TLAPS

-----------------------------------------------------------------------------
(* The queue of the camera *)

Distinct(s) == \A i, j \in 1 .. Len(s) : s[i] = s[j] => i = j

\* The empty queue holds no request.
LEMMA EmptyQueue ==
  ASSUME NEW S
  PROVE  /\ <<>> \in Seq(S)
         /\ Distinct(<<>>)
         /\ \A x : ~Contains(<<>>, x)
BY DEF Distinct, Contains

\* Queueing a request adds it, and doubles nothing when it was not queued.
LEMMA AppendToQueue ==
  ASSUME NEW S, NEW s \in Seq(S), NEW x \in S
  PROVE  /\ Append(s, x) \in Seq(S)
         /\ \A y : Contains(Append(s, x), y) => Contains(s, y) \/ y = x
         /\ Distinct(s) /\ ~Contains(s, x) => Distinct(Append(s, x))
BY DEF Distinct, Contains

\* Taking the first request leaves the others, and it alone is gone.
LEMMA TailOfQueue ==
  ASSUME NEW S, NEW s \in Seq(S), s # <<>>
  PROVE  /\ Tail(s) \in Seq(S)
         /\ Head(s) \in S
         /\ Contains(s, Head(s))
         /\ \A y : Contains(Tail(s), y) => Contains(s, y)
         /\ Distinct(s) => Distinct(Tail(s)) /\ ~Contains(Tail(s), Head(s))
<1>1. /\ Tail(s) \in Seq(S)
      /\ Head(s) = s[1] /\ Head(s) \in S
      /\ Len(s) \in Nat \ {0}
      /\ Len(Tail(s)) = Len(s) - 1
      /\ \A i \in 1 .. Len(Tail(s)) : Tail(s)[i] = s[i + 1]
  OBVIOUS
<1>2. Contains(s, Head(s))
  BY <1>1 DEF Contains
<1>3. ASSUME NEW y, Contains(Tail(s), y) PROVE Contains(s, y)
  <2>1. PICK i \in 1 .. Len(Tail(s)) : Tail(s)[i] = y
    BY <1>3 DEF Contains
  <2>2. i + 1 \in 1 .. Len(s) /\ s[i + 1] = y
    BY <1>1, <2>1
  <2> QED BY <2>2 DEF Contains
<1>4. ASSUME Distinct(s) PROVE Distinct(Tail(s)) /\ ~Contains(Tail(s), Head(s))
  BY <1>1, <1>4 DEF Distinct, Contains
<1> QED BY <1>1, <1>2, <1>3, <1>4

-----------------------------------------------------------------------------
(* Types *)

\* The types hold initially.
LEMMA InitTypes == Init => TypeOK
<1> SUFFICES ASSUME Init PROVE TypeOK
  OBVIOUS
<1>1. <<>> \in Seq(Requests) /\ <<>> \in Seq(1 .. MaxSettings)
  OBVIOUS
<1>2. 0 \in 0 .. MaxSettings
  BY CameraAssumption
<1> QED BY <1>1, <1>2 DEF Init, TypeOK, Early

\* What a notification makes of the workers.
LEMMA Notified ==
  ASSUME TypeOK, NEW r \in Requests, Notify(r)
  PROVE  /\ worker' \in [Requests -> {"none", "locking", "waiting", "woken", "working", "moved",
                                      "queued", "exited"}]
         /\ \A q \in Requests : worker'[q] # worker[q]
              => q = r /\ worker[q] = "waiting" /\ worker'[q] = "woken"
BY DEF TypeOK, Notify

\* What queueRequest makes of the queue and of the status.
LEMMA QueuedTypes ==
  ASSUME TypeOK, NEW r \in Requests, Queued(r)
  PROVE  /\ status' \in [Requests -> {"idle", "pending", "complete", "cancelled"}]
         /\ queue' \in Seq(Requests)
         /\ queue' = queue \/ queue' = Append(queue, r)
<1>1. queue \in Seq(Requests)
  BY DEF TypeOK
<1>2. Append(queue, r) \in Seq(Requests)
  BY <1>1, AppendToQueue
<1>3. status' \in [Requests -> {"idle", "pending", "complete", "cancelled"}]
  BY DEF TypeOK, Queued
<1>4. queue' = queue \/ queue' = Append(queue, r)
  BY DEF Queued
<1> QED BY <1>1, <1>2, <1>3, <1>4

\* The stages of the constructor up to the start of the camera.
LEMMA ConstructorTypes ==
  ASSUME TypeOK, NEW r \in Requests, Prepare \/ MakeRequest(r) \/ StartThread(r) \/ StartCamera
  PROVE  TypeOK'
<1> USE DEF TypeOK, Early, Ended
<1>1. CASE ReadParameters \/ FindCamera \/ ConfigureCamera \/ Allocate
  BY <1>1 DEF ReadParameters, FindCamera, ConfigureCamera, Allocate, Stage, Throws, cameraVars,
              settingVars
<1>2. CASE DeclareControls
  BY <1>2 DEF DeclareControls, cameraVars
<1>3. CASE MakeRequest(r)
  BY <1>3 DEF MakeRequest, Throws, cameraVars, settingVars
<1>4. CASE StartThread(r)
  BY <1>4 DEF StartThread, Throws, cameraVars, settingVars
<1>5. CASE StartCamera
  <2>1. applied' \in Seq(1 .. MaxSettings)
    <3>1. CASE applied' = applied
      BY <3>1
    <3>2. CASE pending # 0 /\ applied' = Append(applied, pending)
      <4>1. pending \in 1 .. MaxSettings
        BY <3>2, CameraAssumption
      <4> QED BY <3>2, <4>1, AppendToQueue
    <3> QED BY <1>5, <3>1, <3>2 DEF StartCamera, Throws, settingVars
  <2> QED BY <1>5, <2>1 DEF StartCamera, Throws, cameraVars, settingVars
<1> QED BY <1>1, <1>2, <1>3, <1>4, <1>5 DEF Prepare

\* The main thread, the destructor included, keeps the types.
LEMMA MainTypes ==
  ASSUME TypeOK, Main \/ Destruct
  PROVE  TypeOK'
<1> USE DEF TypeOK, Early, Ended
<1>1. CASE StopRunning
  BY <1>1 DEF StopRunning, cameraVars, settingVars
<1>2. CASE StopCamera
  <2>1. <<>> \in Seq(Requests)
    OBVIOUS
  <2> QED BY <1>2, <2>1 DEF StopCamera, settingVars
<1>3. CASE Destruct
  BY <1>3 DEF Destruct, cameraVars, settingVars
<1>4. ASSUME NEW r \in Requests, ConstructorQueues(r) PROVE TypeOK'
  <2>1. Queued(r)
    BY <1>4 DEF ConstructorQueues
  <2>2. main' \in {"queueing", "up"} /\ todo' \subseteq Requests
    BY <1>4 DEF ConstructorQueues
  <2> QED BY <1>4, <2>1, <2>2, QueuedTypes DEF ConstructorQueues, settingVars
<1>5. ASSUME NEW r \in Requests, NotifyAll(r) PROVE TypeOK'
  <2>1. Notify(r)
    BY <1>5 DEF NotifyAll
  <2>2. main' \in {"notifying", "joining"} /\ todo' \subseteq Requests
    BY <1>5 DEF NotifyAll
  <2> QED BY <1>5, <2>1, <2>2, Notified DEF NotifyAll, cameraVars, settingVars
<1>6. CASE Prepare \/ StartCamera \/ \E r \in Requests : MakeRequest(r) \/ StartThread(r)
  BY <1>6, ConstructorTypes, CameraAssumption
<1> QED BY <1>1, <1>2, <1>3, <1>4, <1>5, <1>6 DEF Main

\* The camera keeps the types.
LEMMA CameraTypes ==
  ASSUME TypeOK, Camera
  PROVE  TypeOK'
<1> USE DEF TypeOK
<1>1. ASSUME NEW outcome \in {"complete", "cancelled"}, Complete(outcome) PROVE TypeOK'
  <2>1. queue \in Seq(Requests) /\ queue # <<>>
    BY <1>1 DEF Complete
  <2>2. Head(queue) \in Requests /\ queue' \in Seq(Requests)
    BY <1>1, <2>1, TailOfQueue DEF Complete
  <2>3. /\ status' \in [Requests -> {"idle", "pending", "complete", "cancelled"}]
        /\ callback' \subseteq Requests
    BY <1>1, <2>2 DEF Complete
  <2> QED BY <1>1, <2>2, <2>3 DEF Complete, mainVars, settingVars
<1>2. ASSUME NEW r \in Requests, RequestComplete(r) PROVE TypeOK'
  <2>1. Notify(r)
    BY <1>2 DEF RequestComplete
  <2> QED BY <1>2, <2>1, Notified DEF RequestComplete, mainVars, settingVars
<1> QED BY <1>1, <1>2 DEF Camera

\* A worker keeps the types.
LEMMA WorkerTypes ==
  ASSUME TypeOK, NEW r \in Requests, Worker(r)
  PROVE  TypeOK'
<1> USE DEF TypeOK
<1>1. CASE Wait(r)
  BY <1>1 DEF Wait, WorkerGoes, mainVars, settingVars
<1>2. CASE Woken(r)
  BY <1>2 DEF Woken, WorkerGoes, mainVars, settingVars
<1>3. CASE MoveControls(r)
  <2>1. 0 \in 0 .. MaxSettings
    BY CameraAssumption
  <2> QED BY <1>3, <2>1 DEF MoveControls, WorkerGoes, mainVars
<1>4. CASE Requeue(r)
  <2>1. Queued(r)
    BY <1>4 DEF Requeue
  <2>2. 0 \in 0 .. MaxSettings
    BY CameraAssumption
  <2>3. controls' \in [Requests -> 0 .. MaxSettings]
    BY <1>4, <2>2 DEF Requeue
  <2>4. applied' \in Seq(1 .. MaxSettings)
    <3>1. CASE controls[r] = 0 \/ queue' = queue
      BY <1>4, <3>1 DEF Requeue
    <3>2. CASE controls[r] # 0 /\ queue' # queue
      <4>1. controls[r] \in 1 .. MaxSettings
        BY <3>2, CameraAssumption
      <4> QED BY <1>4, <3>2, <4>1, AppendToQueue DEF Requeue
    <3> QED BY <3>1, <3>2
  <2> QED BY <1>4, <2>1, <2>3, <2>4, QueuedTypes DEF Requeue, WorkerGoes, mainVars
<1>5. CASE EndOfLoop(r)
  BY <1>5 DEF EndOfLoop, WorkerGoes, mainVars, settingVars
<1> QED BY <1>1, <1>2, <1>3, <1>4, <1>5 DEF Worker

\* Every step keeps the types.
LEMMA TypeStep == TypeOK /\ [Next]_vars => TypeOK'
<1> SUFFICES ASSUME TypeOK, [Next]_vars PROVE TypeOK'
  OBVIOUS
<1>1. CASE Main \/ Destruct
  BY <1>1, MainTypes
<1>2. CASE Camera
  BY <1>2, CameraTypes
<1>3. ASSUME NEW r \in Requests, Worker(r) PROVE TypeOK'
  BY <1>3, WorkerTypes
<1>4. CASE PostSetApply
  <2>1. settings + 1 \in 0 .. MaxSettings
    BY <1>4, CameraAssumption DEF TypeOK, PostSetApply
  <2> QED BY <1>4, <2>1 DEF TypeOK, PostSetApply, mainVars, cameraVars
<1>5. CASE UNCHANGED vars
  BY <1>5 DEF TypeOK, vars, mainVars, cameraVars, settingVars
<1> QED BY <1>1, <1>2, <1>3, <1>4, <1>5 DEF Next

\* Every variable of the camera node's model keeps its type.
THEOREM TypeCorrect == Spec => []TypeOK
BY InitTypes, TypeStep, PTL DEF Spec

-----------------------------------------------------------------------------
(* Whose a request is *)

\* The request is with the camera: queued, or being handed back.
AtCamera(r) == Contains(queue, r) \/ r \in callback

\* A worker that has been woken in a running node, or works on its request,
\* has a request the camera is done with.
InHand(r) == worker[r] \in {"working", "moved"} \/ (worker[r] = "woken" /\ running)

\* A request is in one place: queued once, or being handed back, or in the
\* hands of its worker; and one the constructor has not queued yet is
\* nowhere, its worker on the way to its wait.
OwnerInv ==
  /\ Distinct(queue)
  /\ \A r \in callback : callback = {r} /\ ~Contains(queue, r)
  /\ \A r \in Requests : InHand(r) => ~AtCamera(r)
  /\ main \in Early => \A r \in Requests : ~AtCamera(r)
  /\ main \in Early \ {"threads", "connecting"} => \A r \in Requests : worker[r] = "none"
  /\ main = "threads" =>
       \A r \in Requests : worker[r] \in IF r \in todo THEN {"none"} ELSE {"locking", "waiting"}
  /\ main = "connecting" => \A r \in Requests : worker[r] \in {"locking", "waiting"}
  /\ main = "queueing" =>
       \A r \in todo : ~AtCamera(r) /\ worker[r] \in {"locking", "waiting"}
  /\ main \in {"notifying", "joining", "gone"} => ~running

Inv == TypeOK /\ OwnerInv

\* The invariant of the owners holds initially.
LEMMA InitOwner == Init => OwnerInv
BY EmptyQueue DEF Init, OwnerInv, InHand, AtCamera, Early

\* A request that is queued away from the camera is not queued twice.
LEMMA QueuedOwner ==
  ASSUME Inv, NEW r \in Requests, Queued(r), ~AtCamera(r)
  PROVE  /\ Distinct(queue')
         /\ \A q : Contains(queue', q) => Contains(queue, q) \/ q = r
<1>1. queue \in Seq(Requests) /\ Distinct(queue) /\ ~Contains(queue, r)
  BY DEF Inv, TypeOK, OwnerInv, AtCamera
<1>2. /\ Distinct(Append(queue, r))
      /\ \A q : Contains(Append(queue, r), q) => Contains(queue, q) \/ q = r
  BY <1>1, AppendToQueue
<1>3. queue' = queue \/ queue' = Append(queue, r)
  BY DEF Queued
<1> QED BY <1>1, <1>2, <1>3

\* An exception before the requests are queued: when it ends no more than the
\* constructor, no worker was started.
LEMMA ThrowsOwner ==
  ASSUME Inv, main \in Early, Throws, UNCHANGED <<worker, cameraVars>>
  PROVE  OwnerInv'
BY DEF Inv, OwnerInv, InHand, AtCamera, Early, Throws, cameraVars

\* The steps of the constructor keep every request with one owner.
LEMMA ConstructorOwner ==
  ASSUME Inv, NEW r \in Requests, Prepare \/ MakeRequest(r) \/ StartThread(r) \/ StartCamera
  PROVE  OwnerInv'
<1>1. main \in Early /\ UNCHANGED cameraVars
  BY DEF Early, Prepare, ReadParameters, FindCamera, ConfigureCamera, DeclareControls, Allocate,
         Stage, MakeRequest, StartThread, StartCamera
<1>2. ASSUME Throws, UNCHANGED worker PROVE OwnerInv'
  BY <1>1, <1>2, ThrowsOwner
<1> USE DEF Inv, OwnerInv, InHand, AtCamera, Early, cameraVars
<1>3. CASE Prepare
  <2>1. \/ Throws /\ UNCHANGED worker
        \/ /\ main' \in {"finding", "configuring", "declaring", "allocating", "making"}
           /\ main \notin {"threads", "connecting"}
           /\ UNCHANGED <<running, worker>>
    BY <1>3 DEF Prepare, ReadParameters, FindCamera, ConfigureCamera, DeclareControls, Allocate,
                Stage
  <2> QED BY <1>1, <1>2, <2>1
<1>4. CASE MakeRequest(r)
  <2>1. \/ Throws /\ UNCHANGED worker
        \/ /\ main = "making" /\ UNCHANGED worker
           /\ \/ main' = "making"
              \/ main' = "threads" /\ todo' = Requests
    BY <1>4 DEF MakeRequest
  <2> QED BY <1>1, <1>2, <2>1
<1>5. CASE StartThread(r)
  <2>1. \/ Throws /\ UNCHANGED worker
        \/ /\ main = "threads" /\ r \in todo
           /\ worker' = [worker EXCEPT ![r] = "locking"]
           /\ todo' = todo \ {r} /\ main' = IF todo' = {} THEN "connecting" ELSE "threads"
    BY <1>5 DEF StartThread
  <2>2. DOMAIN worker = Requests
    BY DEF TypeOK
  <2> QED BY <1>1, <1>2, <2>1, <2>2
<1>6. CASE StartCamera
  <2>1. \/ Throws /\ UNCHANGED worker
        \/ main = "connecting" /\ main' = "queueing" /\ todo' = Requests /\ UNCHANGED worker
    BY <1>6 DEF StartCamera
  <2> QED BY <1>1, <1>2, <2>1
<1> QED BY <1>3, <1>4, <1>5, <1>6

\* The main thread keeps every request with one owner.
LEMMA MainOwner ==
  ASSUME Inv, Main \/ Destruct
  PROVE  OwnerInv'
<1> USE DEF Inv, OwnerInv, InHand, AtCamera, Early
<1>1. CASE StopRunning
  BY <1>1 DEF StopRunning, cameraVars, settingVars
<1>2. CASE StopCamera
  BY <1>2, EmptyQueue DEF StopCamera, settingVars
<1>3. CASE Destruct
  BY <1>3 DEF Destruct, cameraVars, settingVars
<1>4. ASSUME NEW r \in Requests, ConstructorQueues(r) PROVE OwnerInv'
  <2>1. /\ main = "queueing" /\ r \in todo /\ Queued(r)
        /\ todo' = todo \ {r} /\ main' \in {"queueing", "up"}
        /\ UNCHANGED <<running, worker, callback>>
    BY <1>4 DEF ConstructorQueues
  <2>2. ~AtCamera(r) /\ worker[r] \in {"locking", "waiting"}
    BY <2>1
  <2>3. /\ Distinct(queue')
        /\ \A q : Contains(queue', q) => Contains(queue, q) \/ q = r
    BY <2>1, <2>2, QueuedOwner
  <2>4. todo \subseteq Requests
    BY DEF TypeOK
  <2> QED BY <2>1, <2>2, <2>3, <2>4
<1>5. ASSUME NEW r \in Requests, NotifyAll(r) PROVE OwnerInv'
  <2>1. /\ main = "notifying" /\ Notify(r) /\ main' \in {"notifying", "joining"}
        /\ UNCHANGED <<running, queue, callback>>
    BY <1>5 DEF NotifyAll, cameraVars
  <2>2. ~running
    BY <2>1
  <2> QED BY <2>1, <2>2, Notified
<1>6. CASE Prepare \/ StartCamera \/ \E r \in Requests : MakeRequest(r) \/ StartThread(r)
  BY <1>6, ConstructorOwner, CameraAssumption
<1> QED BY <1>1, <1>2, <1>3, <1>4, <1>5, <1>6 DEF Main

\* The camera keeps every request with one owner.
LEMMA CameraOwner ==
  ASSUME Inv, Camera
  PROVE  OwnerInv'
<1> USE DEF Inv, OwnerInv, InHand, AtCamera, Early
<1>1. ASSUME NEW outcome \in {"complete", "cancelled"}, Complete(outcome) PROVE OwnerInv'
  <2>1. /\ queue \in Seq(Requests) /\ queue # <<>> /\ callback = {}
        /\ queue' = Tail(queue) /\ callback' \subseteq {Head(queue)}
        /\ UNCHANGED <<mainVars, worker>>
    BY <1>1 DEF Complete, TypeOK
  <2>2. /\ Contains(queue, Head(queue))
        /\ Distinct(queue') /\ ~Contains(queue', Head(queue))
        /\ \A q : Contains(queue', q) => Contains(queue, q)
    BY <2>1, TailOfQueue
  <2>3. \A q : AtCamera(q)' => AtCamera(q)
    BY <2>1, <2>2
  <2> QED BY <2>1, <2>2, <2>3 DEF mainVars
<1>2. ASSUME NEW r \in Requests, RequestComplete(r) PROVE OwnerInv'
  <2>1. /\ r \in callback /\ Notify(r) /\ callback' = {}
        /\ UNCHANGED <<mainVars, queue>>
    BY <1>2 DEF RequestComplete
  <2>2. callback = {r} /\ ~Contains(queue, r)
    BY <2>1
  <2>3. \A q \in Requests : worker'[q] # worker[q]
          => q = r /\ worker[q] = "waiting" /\ worker'[q] = "woken"
    BY <2>1, Notified
  <2>4. \A q \in Requests : InHand(q)' => ~AtCamera(q)'
    BY <2>1, <2>2, <2>3 DEF mainVars
  <2>5. main = "queueing" => \A q \in todo : q \in Requests /\ q # r
    BY <2>1 DEF TypeOK
  <2>6. main' = "queueing" => \A q \in todo' :
           ~AtCamera(q)' /\ worker'[q] \in {"locking", "waiting"}
    BY <2>1, <2>3, <2>5 DEF mainVars
  <2>7. main' \notin Early
    BY <2>1 DEF mainVars, TypeOK
  <2> QED BY <2>1, <2>4, <2>6, <2>7 DEF mainVars
<1> QED BY <1>1, <1>2 DEF Camera

\* A step of one worker moves that worker only, and without a notification none
\* comes out of its wait.
LEMMA WorkerOwner ==
  ASSUME ~SpuriousWakeup, Inv, NEW r \in Requests, Worker(r)
  PROVE  OwnerInv'
<1> USE DEF Inv, OwnerInv, InHand, AtCamera, Early
<1>0. worker \in [Requests -> {"none", "locking", "waiting", "woken", "working", "moved",
                               "queued", "exited"}] /\ todo \subseteq Requests
  BY DEF TypeOK
<1>1. CASE Wait(r)
  BY <1>0, <1>1 DEF Wait, WorkerGoes, mainVars
<1>2. CASE Woken(r)
  BY <1>0, <1>2 DEF Woken, Awake, WorkerGoes, mainVars
<1>3. CASE MoveControls(r)
  BY <1>0, <1>3 DEF MoveControls, WorkerGoes, mainVars
<1>4. CASE Requeue(r)
  <2>1. /\ worker[r] = "moved" /\ worker' = [worker EXCEPT ![r] = "queued"]
        /\ Queued(r) /\ UNCHANGED <<main, todo, running, callback>>
    BY <1>4 DEF Requeue, WorkerGoes, mainVars
  <2>2. ~AtCamera(r)
    BY <2>1
  <2>3. /\ Distinct(queue')
        /\ \A q : Contains(queue', q) => Contains(queue, q) \/ q = r
    BY <2>1, <2>2, QueuedOwner
  <2> QED BY <1>0, <2>1, <2>2, <2>3
<1>5. CASE EndOfLoop(r)
  BY <1>0, <1>5 DEF EndOfLoop, WorkerGoes, mainVars
<1> QED BY <1>1, <1>2, <1>3, <1>4, <1>5 DEF Worker

\* Every step keeps every request with one owner.
LEMMA OwnerStep == ~SpuriousWakeup /\ Inv /\ [Next]_vars => OwnerInv'
<1> SUFFICES ASSUME ~SpuriousWakeup, Inv, [Next]_vars PROVE OwnerInv'
  OBVIOUS
<1>1. CASE Main \/ Destruct
  BY <1>1, MainOwner
<1>2. CASE Camera
  BY <1>2, CameraOwner
<1>3. ASSUME NEW r \in Requests, Worker(r) PROVE OwnerInv'
  BY <1>3, WorkerOwner
<1>4. CASE PostSetApply
  BY <1>4 DEF Inv, OwnerInv, InHand, AtCamera, Early, PostSetApply, mainVars, cameraVars
<1>5. CASE UNCHANGED vars
  BY <1>5 DEF Inv, OwnerInv, InHand, AtCamera, Early, vars, mainVars, cameraVars
<1> QED BY <1>1, <1>2, <1>3, <1>4, <1>5 DEF Next

\* Types and owners hold in every reachable state.
LEMMA Invariant ==
  ASSUME ~SpuriousWakeup
  PROVE  Spec => []Inv
<1>1. Init => Inv
  BY InitTypes, InitOwner DEF Inv
<1>2. Inv /\ [Next]_vars => Inv'
  BY TypeStep, OwnerStep DEF Inv
<1> QED BY <1>1, <1>2, PTL DEF Spec

\* As long as no wait returns without a notification, a worker that reads,
\* reuses or queues a request has not got one that is still queued to the
\* camera (CameraNode::process).
THEOREM RequestsHaveOneOwner ==
  ASSUME ~SpuriousWakeup
  PROVE  Spec => []OneOwner
<1>1. Inv => OneOwner
  BY DEF Inv, OwnerInv, InHand, AtCamera, OneOwner
<1> QED BY <1>1, Invariant, PTL

-----------------------------------------------------------------------------
(* The values set last *)

\* Where the values set last are.  A worker carries values only between taking
\* them and queueing its request; nothing takes the pending ones while the
\* node is made, and the camera is started with them; and a request that was
\* refused comes back to nobody, so it stays refused.
SettingInv ==
  /\ LastSettingKept
  /\ \A r \in Requests : controls[r] # 0 => worker[r] = "moved"
  /\ main \in Early => pending = settings
  /\ main = "queueing" => settings = 0 \/ Contains(applied, settings)
  /\ \A r \in Requests : AtCamera(r) \/ InHand(r) => status[r] # "idle"

\* Nothing is set initially, and nothing waits.
LEMMA InitSetting == Init => SettingInv
BY EmptyQueue, CameraAssumption DEF Init, SettingInv, LastSettingKept, AtCamera, InHand, Early

\* What was given to the camera stays given, and what is given last is there.
LEMMA AppendedValues ==
  ASSUME NEW S, NEW s \in Seq(S), NEW x \in S
  PROVE  /\ Contains(Append(s, x), x)
         /\ \A y : Contains(s, y) => Contains(Append(s, x), y)
<1>1. /\ Len(Append(s, x)) = Len(s) + 1 /\ Len(s) \in Nat
      /\ Append(s, x)[Len(s) + 1] = x
      /\ \A i \in 1 .. Len(s) : Append(s, x)[i] = s[i]
  OBVIOUS
<1>2. \A i \in 1 .. Len(s) : i \in 1 .. Len(s) + 1
  BY <1>1
<1>3. Len(s) + 1 \in 1 .. Len(s) + 1
  BY <1>1
<1> QED BY <1>1, <1>2, <1>3 DEF Contains

\* A step that leaves the values alone, keeps requests refused, and moves no
\* worker that carries some.
LEMMA SettingsAlone ==
  ASSUME SettingInv, UNCHANGED settingVars,
         main' \in Early => main \in Early,
         main' = "queueing" => main = "queueing",
         \A r \in Requests : controls[r] # 0 => worker'[r] = worker[r],
         \A r \in Requests : status[r] = "idle" => status'[r] = "idle" \/ main = "queueing",
         \A r \in Requests : (AtCamera(r) \/ InHand(r))' => status'[r] # "idle"
  PROVE  SettingInv'
BY DEF SettingInv, LastSettingKept, Refused, settingVars

\* While the node is made nothing takes the values that are pending.
LEMMA ConstructorSetting ==
  ASSUME Inv, SettingInv, NEW r \in Requests,
         Prepare \/ MakeRequest(r) \/ StartThread(r) \/ StartCamera
  PROVE  SettingInv'
<1>1. main \in Early /\ UNCHANGED <<cameraVars, controls>> /\ pending = settings
  BY DEF Early, Prepare, ReadParameters, FindCamera, ConfigureCamera, DeclareControls, Allocate,
         Stage, MakeRequest, StartThread, StartCamera, Throws, settingVars, SettingInv
<1>2. \A q \in Requests : worker[q] \in {"none", "locking", "waiting"} /\ ~AtCamera(q)
  BY <1>1 DEF Inv, OwnerInv, Early
<1>3. \A q \in Requests : controls[q] = 0
  BY <1>2 DEF SettingInv
<1>4. \A q \in Requests : worker'[q] # worker[q] => worker'[q] = "locking"
  BY DEF Prepare, ReadParameters, FindCamera, ConfigureCamera, DeclareControls, Allocate, Stage,
         MakeRequest, StartThread, StartCamera, Inv, TypeOK
<1>5. \A q \in Requests : ~(AtCamera(q) \/ InHand(q))'
  BY <1>1, <1>2, <1>4 DEF AtCamera, InHand, cameraVars
<1>6. pending' = settings'
  BY <1>1 DEF Prepare, ReadParameters, FindCamera, ConfigureCamera, DeclareControls, Allocate,
              Stage, MakeRequest, StartThread, StartCamera, Throws, settingVars
<1>7. main' = "queueing" => settings' = 0 \/ Contains(applied', settings')
  <2> SUFFICES ASSUME main' = "queueing", settings' # 0 PROVE Contains(applied', settings')
    OBVIOUS
  <2>1. StartCamera /\ main' = "queueing"
    BY DEF Prepare, ReadParameters, FindCamera, ConfigureCamera, DeclareControls, Allocate, Stage,
           MakeRequest, StartThread, Throws
  <2>2. UNCHANGED <<settings, pending>> /\ applied' = IF pending = 0 THEN applied ELSE Append(applied, pending)
    BY <2>1 DEF StartCamera, Throws
  <2>3. applied' = Append(applied, settings) /\ settings \in 1 .. MaxSettings
    BY <1>1, <2>2, CameraAssumption DEF Inv, TypeOK
  <2>4. applied \in Seq(1 .. MaxSettings)
    BY DEF Inv, TypeOK
  <2>5. Contains(Append(applied, settings), settings)
    BY <2>3, <2>4, AppendedValues
  <2>6. settings' = settings
    BY <2>2
  <2> QED BY <2>3, <2>5, <2>6
<1> QED BY <1>1, <1>3, <1>5, <1>6, <1>7 DEF SettingInv, LastSettingKept

\* The main thread keeps the last setting waiting or on its way.
LEMMA MainSetting ==
  ASSUME Inv, SettingInv, Main \/ Destruct
  PROVE  SettingInv'
<1> USE DEF AtCamera, InHand, Early
<1>0. \A r \in Requests : AtCamera(r) \/ InHand(r) => status[r] # "idle"
  BY DEF SettingInv
<1>1. CASE StopRunning \/ Destruct
  BY <1>0, <1>1, SettingsAlone DEF StopRunning, Destruct, cameraVars, settingVars
<1>2. CASE StopCamera
  BY <1>0, <1>2, SettingsAlone, EmptyQueue DEF StopCamera
<1>4. ASSUME NEW r \in Requests, ConstructorQueues(r) PROVE SettingInv'
  <2>1. /\ main = "queueing" /\ r \in todo /\ Queued(r)
        /\ main' \in {"queueing", "up"}
        /\ UNCHANGED <<running, worker, callback, settingVars>>
    BY <1>4 DEF ConstructorQueues
  <2>2. ~AtCamera(r) /\ ~InHand(r)
    BY <2>1 DEF Inv, OwnerInv
  <2>3. \A q : Contains(queue', q) => Contains(queue, q) \/ q = r
    BY <2>1, <2>2, QueuedOwner
  <2>4. /\ \A q \in Requests : q # r => status'[q] = status[q]
        /\ \/ status'[r] = "pending"
           \/ status'[r] = "idle" /\ UNCHANGED queue
    <3>1. DOMAIN status = Requests
      BY DEF Inv, TypeOK
    <3> QED BY <2>1, <3>1 DEF Queued
  <2> QED BY <1>0, <2>1, <2>2, <2>3, <2>4, SettingsAlone
<1>5. ASSUME NEW r \in Requests, NotifyAll(r) PROVE SettingInv'
  <2>1. /\ main = "notifying" /\ Notify(r) /\ main' \in {"notifying", "joining"} /\ ~running
        /\ UNCHANGED <<running, cameraVars, settingVars>>
    BY <1>5 DEF NotifyAll, Inv, OwnerInv
  <2>2. \A q \in Requests : worker'[q] # worker[q] => worker[q] = "waiting" /\ worker'[q] = "woken"
    BY <2>1, Notified DEF Inv
  <2>3. \A q \in Requests : controls[q] # 0 => worker'[q] = worker[q]
    BY <2>2 DEF SettingInv
  <2> QED BY <1>0, <2>1, <2>2, <2>3, SettingsAlone DEF cameraVars
<1>6. CASE Prepare \/ StartCamera \/ \E r \in Requests : MakeRequest(r) \/ StartThread(r)
  BY <1>6, ConstructorSetting, CameraAssumption
<1> QED BY <1>1, <1>2, <1>4, <1>5, <1>6 DEF Main

\* The camera keeps the last setting waiting or on its way.
LEMMA CameraSetting ==
  ASSUME Inv, SettingInv, Camera
  PROVE  SettingInv'
<1> USE DEF AtCamera, InHand
<1>0. \A r \in Requests : AtCamera(r) \/ InHand(r) => status[r] # "idle"
  BY DEF SettingInv
<1>1. ASSUME NEW outcome \in {"complete", "cancelled"}, Complete(outcome) PROVE SettingInv'
  <2>1. /\ queue \in Seq(Requests) /\ queue # <<>> /\ callback = {}
        /\ queue' = Tail(queue) /\ callback' \subseteq {Head(queue)}
        /\ status' = [status EXCEPT ![Head(queue)] = outcome]
        /\ UNCHANGED <<mainVars, worker, settingVars>>
    BY <1>1 DEF Complete, Inv, TypeOK
  <2>2. /\ Head(queue) \in Requests /\ Contains(queue, Head(queue))
        /\ \A q : Contains(queue', q) => Contains(queue, q)
    BY <2>1, TailOfQueue
  <2>3. \A q \in Requests : /\ AtCamera(q)' => AtCamera(q)
                            /\ q # Head(queue) => status'[q] = status[q]
    BY <2>1, <2>2 DEF Inv, TypeOK
  <2>4. status'[Head(queue)] = outcome /\ status[Head(queue)] # "idle"
    BY <1>0, <2>1, <2>2 DEF Inv, TypeOK
  <2> QED BY <1>0, <2>1, <2>3, <2>4, SettingsAlone DEF mainVars
<1>2. ASSUME NEW r \in Requests, RequestComplete(r) PROVE SettingInv'
  <2>1. /\ r \in callback /\ Notify(r) /\ callback' = {}
        /\ UNCHANGED <<mainVars, queue, status, settingVars>>
    BY <1>2 DEF RequestComplete
  <2>2. \A q \in Requests : worker'[q] # worker[q]
          => q = r /\ worker[q] = "waiting" /\ worker'[q] = "woken"
    BY <2>1, Notified DEF Inv
  <2>3. \A q \in Requests : controls[q] # 0 => worker'[q] = worker[q]
    BY <2>2 DEF SettingInv
  <2> QED BY <1>0, <2>1, <2>2, <2>3, SettingsAlone DEF mainVars
<1> QED BY <1>1, <1>2 DEF Camera

\* A worker takes the pending values and gives them to the camera with its
\* request; when the camera refuses it, they are lost with it.
LEMMA WorkerSetting ==
  ASSUME ~SpuriousWakeup, Inv, SettingInv, NEW r \in Requests, Worker(r)
  PROVE  SettingInv'
<1> USE DEF AtCamera, InHand
<1>0. /\ \A q \in Requests : AtCamera(q) \/ InHand(q) => status[q] # "idle"
      /\ DOMAIN worker = Requests /\ DOMAIN controls = Requests /\ DOMAIN status = Requests
  BY DEF SettingInv, Inv, TypeOK
<1>1. CASE Wait(r)
  BY <1>0, <1>1, SettingsAlone DEF Wait, WorkerGoes, mainVars, SettingInv
<1>2. CASE Woken(r)
  BY <1>0, <1>2, SettingsAlone DEF Woken, Awake, WorkerGoes, mainVars, SettingInv
<1>3. CASE MoveControls(r)
  <2>1. /\ worker[r] = "working" /\ worker' = [worker EXCEPT ![r] = "moved"]
        /\ controls' = [controls EXCEPT ![r] = pending] /\ controls[r] = 0
        /\ UNCHANGED <<mainVars, cameraVars, settings, applied>>
    BY <1>3 DEF MoveControls, WorkerGoes, SettingInv, cameraVars
  <2>2. main \notin Early
    BY <2>1 DEF Inv, OwnerInv, Early
  <2>3. /\ controls'[r] = pending
        /\ \A q \in Requests : q # r => controls'[q] = controls[q]
    BY <1>0, <2>1
  <2>4. LastSettingKept'
    BY <2>1, <2>3 DEF SettingInv, LastSettingKept, Refused, mainVars, cameraVars
  <2> QED BY <1>0, <2>1, <2>2, <2>3, <2>4 DEF SettingInv, mainVars, cameraVars
<1>4. CASE Requeue(r)
  <2>1. /\ worker[r] = "moved" /\ worker' = [worker EXCEPT ![r] = "queued"]
        /\ Queued(r) /\ UNCHANGED <<mainVars, callback, settings, pending>>
        /\ controls' = [controls EXCEPT ![r] = 0]
        /\ applied' = IF controls[r] = 0 \/ queue' = queue THEN applied
                      ELSE Append(applied, controls[r])
    BY <1>4 DEF Requeue, WorkerGoes
  <2>2. ~AtCamera(r) /\ main \notin Early
    BY <2>1 DEF Inv, OwnerInv, Early
  <2>3. \A q : Contains(queue', q) => Contains(queue, q) \/ q = r
    BY <2>1, <2>2, QueuedOwner
  <2>4. /\ \A q \in Requests : q # r => status'[q] = status[q]
        /\ \/ status'[r] = "pending" /\ queue' = Append(queue, r)
           \/ status'[r] = "idle" /\ UNCHANGED queue
    BY <1>0, <2>1 DEF Queued
  <2>5. queue' = queue \/ status'[r] # "idle"
    BY <2>4
  <2>6. \A y : Contains(applied, y) => Contains(applied', y)
    <3>1. CASE applied' = applied
      BY <3>1
    <3>2. CASE controls[r] # 0 /\ applied' = Append(applied, controls[r])
      <4>1. controls[r] \in 1 .. MaxSettings /\ applied \in Seq(1 .. MaxSettings)
        BY <3>2, CameraAssumption DEF Inv, TypeOK
      <4> QED BY <3>2, <4>1, AppendedValues
    <3> QED BY <2>1, <3>1, <3>2
  <2>7. controls[r] # 0 /\ queue' # queue => Contains(applied', controls[r])
    <3> SUFFICES ASSUME controls[r] # 0, queue' # queue PROVE Contains(applied', controls[r])
      OBVIOUS
    <3>1. controls[r] \in 1 .. MaxSettings /\ applied \in Seq(1 .. MaxSettings)
      BY CameraAssumption DEF Inv, TypeOK
    <3> QED BY <2>1, <3>1, AppendedValues
  <2>8. queue' # queue \/ status'[r] = "idle"
    <3>1. Append(queue, r) # queue
      BY DEF Inv, TypeOK
    <3> QED BY <2>4, <3>1
  <2>9. \A q \in Requests : q # r => controls'[q] = controls[q] /\ worker'[q] = worker[q]
    BY <1>0, <2>1
  <2>10. controls'[r] = 0 /\ worker'[r] = "queued"
    BY <1>0, <2>1
  <2>11. LastSettingKept'
    <3>1. CASE settings = 0 \/ pending = settings
      BY <2>1, <3>1 DEF LastSettingKept
    <3>2. CASE main = "queueing"
      BY <2>1, <2>6, <3>2 DEF LastSettingKept, SettingInv, mainVars
    <3>3. CASE settings # 0 /\ main # "queueing"
      BY <2>1, <2>2, <2>4, <2>6, <2>7, <2>8, <2>9, <3>3
         DEF LastSettingKept, SettingInv, Refused, mainVars
    <3> QED BY <3>1, <3>2, <3>3
  <2>12. \A q \in Requests : (AtCamera(q) \/ InHand(q))' => status'[q] # "idle"
    <3>1. \A q \in Requests : q # r => ((AtCamera(q) \/ InHand(q))' => AtCamera(q) \/ InHand(q))
      BY <2>1, <2>3, <2>9 DEF mainVars
    <3>2. (AtCamera(r) \/ InHand(r))' => status'[r] = "pending"
      BY <2>1, <2>2, <2>4, <2>10
    <3> QED BY <1>0, <2>4, <3>1, <3>2
  <2> QED BY <2>1, <2>2, <2>6, <2>9, <2>10, <2>11, <2>12 DEF SettingInv, mainVars
<1>5. CASE EndOfLoop(r)
  BY <1>0, <1>5, SettingsAlone DEF EndOfLoop, WorkerGoes, mainVars, SettingInv
<1> QED BY <1>1, <1>2, <1>3, <1>4, <1>5 DEF Worker

\* Every step keeps the last setting waiting, on its way or applied.
LEMMA SettingStep == ~SpuriousWakeup /\ Inv /\ SettingInv /\ [Next]_vars => SettingInv'
<1> SUFFICES ASSUME ~SpuriousWakeup, Inv, SettingInv, [Next]_vars PROVE SettingInv'
  OBVIOUS
<1>1. CASE Main \/ Destruct
  BY <1>1, MainSetting
<1>2. CASE Camera
  BY <1>2, CameraSetting
<1>3. ASSUME NEW r \in Requests, Worker(r) PROVE SettingInv'
  BY <1>3, WorkerSetting
<1>4. CASE PostSetApply
  BY <1>4 DEF SettingInv, LastSettingKept, AtCamera, InHand, Early, PostSetApply, mainVars,
              cameraVars
<1>5. CASE UNCHANGED vars
  BY <1>5, SettingsAlone DEF SettingInv, AtCamera, InHand, vars, mainVars, cameraVars, settingVars
<1> QED BY <1>1, <1>2, <1>3, <1>4, <1>5 DEF Next

\* Unless the camera refused a request, and as long as no wait returns without a
\* notification, the values set last are on their way to the camera or given to
\* it, however many workers take values and requeue at once (ParameterHandler
\* and CameraNode::process).
THEOREM LastSettingReachesCamera ==
  ASSUME ~SpuriousWakeup
  PROVE  Spec => []LastSettingKept
<1>1. SettingInv => LastSettingKept
  BY DEF SettingInv
<1> QED BY <1>1, InitSetting, SettingStep, Invariant, PTL DEF Spec
=============================================================================

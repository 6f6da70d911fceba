----------------------------- MODULE CameraTest -----------------------------
(***************************************************************************)
(* cameratest.java: an activity whose command thread has a looper thread   *)
(* open, preview, shoot and release two cameras in turn until the surface  *)
(* is destroyed.  Threads wait for one another by Object.wait with no      *)
(* condition to test, so a notify that comes before the wait is lost.  One *)
(* action is one synchronized block, one message handled, one message sent *)
(* or one access to a camera.  Opening a camera does not fail.             *)
(***************************************************************************)
EXTENDS Naturals, Sequences, FiniteSets

CONSTANTS PicCount,   \* pictures taken each time a camera is opened: 3
          SwitchCount \* bound: rounds of switch_test, a million in the code

ASSUME CameraAssumption == PicCount \in Nat \ {0} /\ SwitchCount \in Nat \ {0}

VARIABLES at,       \* where the activity's thread "ui" and mTestCmdThread "cmd" are
          phase,    \* how far a step is that ends in a wait
          looper,   \* where mTestThread is
          camera, count, pictures, \* arguments and loop counters of "cmd"
          queue,    \* the message queue of mTestThread
          exit, mCamera,
          hw,       \* external: what each camera is doing
          missed    \* history: a notify found nobody waiting
camvars == <<at, phase, looper, camera, count, pictures, queue, exit, mCamera, hw, missed>>

Cameras == {0, 1}
null == 2

(* The steps that end in a wait, with the message they send first and the  *)
(* object they wait on.                                                    *)
Message == [open |-> "OPENCAMERA", preview |-> "STARTPREVIEW", take |-> "TAKEPICTURE",
            again |-> "STARTPREVIEW", release |-> "RELEASE",
            drop |-> "RELEASE", quit |-> "EXITTHREAD"]
Monitor(step) == IF step \in DOMAIN Message THEN "wait"
                 ELSE IF step = "picture" THEN "takePictureWait" ELSE "mTestThread"
(* A command thread that does not wait for the picture.                    *)
AfterUnawaited == [open |-> "setup", preview |-> "take", take |-> "reset", picture |-> "reset",
                   again |-> "next", release |-> "return",
                   start |-> "run", drop |-> "quit", quit |-> "joinlooper"]

After == [open |-> "setup", preview |-> "take", take |-> "picture", picture |-> "reset",
          again |-> "next", release |-> "return",
          start |-> "run", drop |-> "quit", quit |-> "joinlooper"]

CamTypeOK ==
    /\ at["ui"] \in {"start", "run", "shown", "join", "drop", "quit", "joinlooper", "gone"}
    /\ at["cmd"] \in {"none", "open", "setup", "preview", "take", "picture", "reset",
                            "again", "next", "release", "return", "gone"}
    /\ phase \in [{"ui", "cmd"} -> {"ready", "sent", "waiting"}]
    /\ looper \in {"none", "new", "loop", "handled", "quit", "gone"}
    /\ camera \in Cameras /\ count \in 0 .. SwitchCount /\ pictures \in 0 .. PicCount
    /\ queue \in Seq({Message[s] : s \in DOMAIN Message} \cup {"onPictureTaken"})
    /\ exit \in BOOLEAN /\ missed \in BOOLEAN
    /\ mCamera \in Cameras \cup {null}
    /\ hw \in [Cameras -> {"closed", "open", "preview", "shooting"}]

CamInit == /\ at = [ui |-> "start", cmd |-> "none"]
           /\ phase = [ui |-> "ready", cmd |-> "ready"]
           /\ looper = "none"
           /\ camera = 0 /\ count = 0 /\ pictures = 0
           /\ queue = <<>> /\ exit = FALSE /\ missed = FALSE
           /\ mCamera = null /\ hw = [c \in Cameras |-> "closed"]

Step(t, from, to) == at[t] = from /\ at' = [at EXCEPT ![t] = to]

(* The first half of sendMessageAndWait; mTestThread.start() before its    *)
(* wait, likewise.                                                         *)
sendMessage(t) ==
    /\ at[t] \in DOMAIN Message /\ phase[t] = "ready"
    /\ queue' = Append(queue, Message[at[t]])
    /\ phase' = [phase EXCEPT ![t] = "sent"]
    /\ UNCHANGED <<at, looper, camera, count, pictures, exit, mCamera, hw, missed>>

StartLooper == /\ at["ui"] = "start" /\ phase["ui"] = "ready"
               /\ looper' = "new"
               /\ phase' = [phase EXCEPT !["ui"] = "sent"]
               /\ UNCHANGED <<at, camera, count, pictures, queue, exit, mCamera, hw, missed>>

Wait(t) == /\ phase[t] = "sent"
           /\ phase' = [phase EXCEPT ![t] = "waiting"]
           /\ UNCHANGED <<at, looper, camera, count, pictures, queue, exit, mCamera, hw, missed>>

(* wait() returns once the notifier has left the monitor.  The command     *)
(* thread goes from its take to the wait for the picture.                  *)
Waiters(monitor) == {t \in {"ui", "cmd"} : phase[t] = "waiting" /\ Monitor(at[t]) = monitor}
Notify(monitor) ==
    IF Waiters(monitor) = {}
    THEN missed' = TRUE /\ UNCHANGED <<at, phase>>
    ELSE \E t \in Waiters(monitor) :
            /\ at' = [at EXCEPT ![t] = After[@]]
            /\ phase' = [phase EXCEPT ![t] = IF at[t] = "take" THEN "sent" ELSE "ready"]
            /\ UNCHANGED missed

----------------------------------------------------------------------------
(* mTestThread: run(), handleMessage in its two parts, and the callback.   *)
Prepare == /\ looper = "new"
           /\ looper' = "loop"
           /\ Notify("mTestThread")
           /\ UNCHANGED <<camera, count, pictures, queue, exit, mCamera, hw>>

(* What becomes of the cameras; the camera to open is the message's arg1,  *)
(* which its sender does not change before the answer.                     *)
relaseCamera == IF mCamera = null THEN UNCHANGED <<mCamera, hw>>
                ELSE mCamera' = null /\ hw' = [hw EXCEPT ![mCamera] = "closed"]
Use(msg) ==
    CASE msg = "OPENCAMERA"   -> mCamera' = camera /\ hw' = [hw EXCEPT ![camera] = "open"]
      [] msg = "STARTPREVIEW" -> hw' = [hw EXCEPT ![mCamera] = "preview"] /\ UNCHANGED mCamera
      [] msg = "TAKEPICTURE"  -> hw' = [hw EXCEPT ![mCamera] = "shooting"] /\ UNCHANGED mCamera
      [] msg = "RELEASE"      -> relaseCamera
      [] msg = "EXITTHREAD"   -> UNCHANGED <<mCamera, hw>>

(* EXITTHREAD answered without a quit of the looper.                       *)
NeverQuits ==
    /\ looper = "loop" /\ queue # <<>> /\ Head(queue) # "onPictureTaken"
    /\ Use(Head(queue))
    /\ looper' = "handled"
    /\ queue' = Tail(queue)
    /\ UNCHANGED <<at, phase, camera, count, pictures, exit, missed>>

handleMessage ==
    /\ looper = "loop" /\ queue # <<>> /\ Head(queue) # "onPictureTaken"
    /\ Use(Head(queue))
    /\ looper' = IF Head(queue) = "EXITTHREAD" THEN "quit" ELSE "handled"
    /\ queue' = Tail(queue)
    /\ UNCHANGED <<at, phase, camera, count, pictures, exit, missed>>

Answer == /\ looper \in {"handled", "quit"}
          /\ looper' = IF looper = "quit" THEN "gone" ELSE "loop"
          /\ Notify("wait")
          /\ UNCHANGED <<camera, count, pictures, queue, exit, mCamera, hw>>

onPictureTaken == /\ looper = "loop" /\ queue # <<>> /\ Head(queue) = "onPictureTaken"
                  /\ queue' = Tail(queue)
                  /\ Notify("takePictureWait")
                  /\ UNCHANGED <<looper, camera, count, pictures, exit, mCamera, hw>>

(* External: a picture is complete, the preview has stopped, and the       *)
(* callback is posted to the looper of the thread that opened the camera.  *)
Captured == \E c \in Cameras :
    /\ hw[c] = "shooting"
    /\ hw' = [hw EXCEPT ![c] = "open"]
    /\ queue' = Append(queue, "onPictureTaken")
    /\ UNCHANGED <<at, phase, looper, camera, count, pictures, exit, mCamera, missed>>

----------------------------------------------------------------------------
(* mTestCmdThread: switch_test and takePicture(cameraid, pic_count).       *)
setOtherParameters ==
    /\ Step("cmd", "setup", "preview") \/ Step("cmd", "reset", "again")
    /\ UNCHANGED <<phase, looper, camera, count, pictures, queue, exit, mCamera, hw, missed>>

TestExit ==
    /\ \/ exit /\ Step("cmd", "next", "return")
       \/ ~exit /\ Step("cmd", "next", IF pictures + 1 < PicCount THEN "take" ELSE "release")
    /\ pictures' = IF exit THEN pictures ELSE pictures + 1
    /\ UNCHANGED <<phase, looper, camera, count, queue, exit, mCamera, hw, missed>>

(* takePicture(0, ...) returns, whyever, and takePicture(1, ...) is called.*)
Switch ==
    /\ camera' = 1 - camera /\ pictures' = 0
    /\ count' = count + camera
    /\ Step("cmd", "return", IF camera = 1 /\ (exit \/ count' = SwitchCount)
                             THEN "gone" ELSE "open")
    /\ UNCHANGED <<phase, looper, queue, exit, mCamera, hw, missed>>

(* The activity's thread.                                                  *)
StartCommands == /\ at["ui"] = "run"
                 /\ at' = [ui |-> "shown", cmd |-> "open"]
                 /\ UNCHANGED <<phase, looper, camera, count, pictures, queue, exit, mCamera,
                                hw, missed>>

onSurfaceTextureDestroyed ==
    /\ Step("ui", "shown", "join")
    /\ exit' = TRUE
    /\ UNCHANGED <<phase, looper, camera, count, pictures, queue, mCamera, hw, missed>>

Join == /\ \/ Step("ui", "join", "drop") /\ at["cmd"] = "gone"
           \/ Step("ui", "joinlooper", "gone") /\ looper = "gone"
        /\ UNCHANGED <<phase, looper, camera, count, pictures, queue, exit, mCamera, hw, missed>>

CamStep == \/ \E t \in {"ui", "cmd"} : sendMessage(t) \/ Wait(t)
           \/ StartLooper \/ StartCommands \/ Join
           \/ Prepare \/ handleMessage \/ Answer \/ onPictureTaken \/ Captured
           \/ setOtherParameters \/ TestExit \/ Switch
CamNext == CamStep \/ onSurfaceTextureDestroyed

(* Threads run and pictures are completed; nobody has to close the surface.*)
CamSpec == CamInit /\ [][CamNext]_camvars /\ WF_camvars(CamStep)

----------------------------------------------------------------------------
Opened == {c \in Cameras : hw[c] # "closed"}

(* No camera is used while it is closed, shooting or not yet in preview,   *)
(* by the looper or, without a lock, by the command thread; both rely on   *)
(* sendMessageAndWait not returning before its message has been handled.   *)
(* The cameras are open in turn, but for the exit in mid-take, which       *)
(* leaves camera 0 open and opens camera 1.                                *)
CamerasAreReady ==
    /\ at["cmd"] \in {"setup", "reset"} =>
          mCamera = camera /\ hw[camera] = "open" /\ queue = <<>> /\ looper = "loop"
    /\ looper = "loop" /\ queue # <<>> =>
          LET msg == Head(queue) IN
             /\ msg = "OPENCAMERA" => hw[camera] = "closed"
             /\ msg = "STARTPREVIEW" => mCamera = camera /\ hw[camera] = "open"
             /\ msg = "TAKEPICTURE" => mCamera = camera /\ hw[camera] = "preview"
    /\ Opened \subseteq {mCamera} \/ (exit /\ Opened \subseteq {0, mCamera})

(* Once the surface is destroyed the activity stops its threads and        *)
(* returns, unless a notify came too early: the only way to hang.          *)
OnlyMissedNotifyHangs == [](~missed) => (at["ui"] = "join" ~> at["ui"] = "gone")
=============================================================================

--------------------------- MODULE CameraRegistry ---------------------------
(***************************************************************************)
(* Opening, closing, auto-closing and auto-reopening of cameras:           *)
(* state/camera.py (CameraRegistry) driven by the SocketIO handlers and    *)
(* bus subscriptions of app.py.                                            *)
(*                                                                         *)
(* Every handler, bus callback or background thread that touches the       *)
(* registry is a task run by one of Threads.  A task's pc names the next   *)
(* statement it will execute; between two statements any other task may    *)
(* run, since SocketIO runs with async_mode="threading".  Code under one   *)
(* `with self._lock` is one action.                                        *)
(***************************************************************************)
EXTENDS Naturals, FiniteSets

CONSTANTS
  Cams,       \* camera ids
  Viewers,    \* SocketIO sids
  Threads,    \* at most this many handlers run at once (bound)
  Drivers,    \* driver objects alive or referenced at once (bound)
  NoCam, NoDriver, NoThread,
  Holds,      \* Holds[c]: held_cam_ids() of the plugins bound to camera c
  Requests,   \* which events of the environment may happen
  Faults,     \* which failures may happen
  InitOpen    \* cameras opened before the behaviour starts

AllRequests == {"connect", "disconnect", "open", "close", "closeAll",
                "native", "scan", "record", "idle", "unplug"}
AllFaults   == {"openFail", "joinTimeout"}

ASSUME CameraAssumption ==
  /\ NoCam \notin Cams /\ NoDriver \notin Drivers /\ NoThread \notin Threads
  /\ Holds \in [Cams -> SUBSET Cams]
  /\ Requests \subseteq AllRequests /\ Faults \subseteq AllFaults
  /\ InitOpen \subseteq Cams
  /\ \E f \in [InitOpen -> Drivers] : \A c, e \in InitOpen : f[c] = f[e] => c = e

VARIABLES
  viewers,           \* SessionStore._viewers
  available,         \* available_cameras
  cameras,           \* _cameras: the driver of each open camera
  closing,           \* _closing_cams
  auto_reopen,       \* _auto_reopen_cams
  pending_modes,     \* keys of _pending_native_modes
  pipelines,         \* keys of _pipeline_threads
  told,              \* cameras whose plugins last heard on_camera_open
  streams,           \* keys of StreamManager._streams
  busy,              \* cameras with a plugin whose is_busy() is True
  op_lock,           \* app._cam_op_locks: the holder of each camera's lock
  driver,            \* thread state of each driver object
  task               \* what each thread is executing

registry == <<available, cameras, closing, auto_reopen, pending_modes, pipelines>>
plugins  == <<told, streams, busy>>
vars == <<viewers, registry, plugins, op_lock, driver, task>>

-----------------------------------------------------------------------------
(* Tasks and driver objects.                                               *)

OpenPCs  == {"check_open", "lookup", "open_device", "insert", "start_pipeline",
             "start_driver", "add_intent", "notify_open", "add_stream"}
ClosePCs == {"notify_close", "pre_close", "stop_driver", "join_driver",
             "stop_pipeline", "remove"}
OtherPCs == {"idle", "lock", "release", "discard_intent", "guard",
             "set_mode", "snapshot_open", "clear_intents", "next_close",
             "sweep", "list_open", "collect_busy", "check_idle", "check_busy",
             "recheck_viewers",
             "snapshot_intents", "next_open", "scan", "publish_scan"}
Ops == {"none", "open", "close", "closeAll", "native", "sweep", "auto",
        "unplug", "reopen", "scan"}

PCs == OpenPCs \cup ClosePCs \cup OtherPCs

\* cam is the camera in hand, drv the driver object in hand, todo the cameras
\* left in the list being walked, retried is TRUE on _do_auto_reopen's retry.
Task == [op : Ops, pc : PCs, cam : Cams \cup {NoCam}, drv : Drivers \cup {NoDriver},
         todo : SUBSET Cams, retried : BOOLEAN]

IdleTask == [op |-> "none", pc |-> "idle", cam |-> NoCam, drv |-> NoDriver,
             todo |-> {}, retried |-> FALSE]

Ended == [state |-> "dead", cam |-> NoCam]

\* A driver is a threading.Thread: opened is created but not started; started
\* has been started but has not yet executed `self._running = True`; running
\* is in its acquisition loop; stopping has seen stop(); dead has ended.
DriverStates == {"opened", "started", "running", "stopping", "dead"}

Open == {c \in Cams : cameras[c] # NoDriver}

\* The driver slots no table and no task refers to.
Unused == {d \in Drivers : /\ \A c \in Cams : cameras[c] # d
                           /\ \A t \in Threads : task[t].drv # d}

\* A new driver object takes a slot whose former thread has ended, if any.
NewDriver ==
  LET ended == {d \in Unused : driver[d].state = "dead"}
  IN  CHOOSE d \in Unused : ended # {} => d \in ended

\* Where the task has a camera in hand.
CamPCs == OpenPCs \cup ClosePCs \cup
          {"lock", "discard_intent", "guard", "set_mode", "check_idle",
           "check_busy"}

TypeOK ==
  /\ viewers \subseteq Viewers
  /\ available \subseteq Cams
  /\ cameras \in [Cams -> Drivers \cup {NoDriver}]
  /\ closing \subseteq Cams /\ auto_reopen \subseteq Cams
  /\ pending_modes \subseteq Cams /\ pipelines \subseteq Cams
  /\ told \subseteq Cams /\ streams \subseteq Cams /\ busy \subseteq Cams
  /\ op_lock \in [Cams -> Threads \cup {NoThread}]
  /\ driver \in [Drivers -> [state : DriverStates, cam : Cams \cup {NoCam}]]
  /\ \A d \in Drivers : driver[d].state # "dead" => driver[d].cam \in Cams
  /\ task \in [Threads -> Task]
  /\ \A t \in Threads : task[t].pc \in CamPCs => task[t].cam \in Cams

\* Either the process has just started, or an admin has opened InitOpen and
\* everyone is watching.
Init ==
  /\ viewers = IF InitOpen = {} THEN {} ELSE Viewers
  /\ available = Cams
  /\ \E f \in [InitOpen -> Drivers] :
       /\ \A c, e \in InitOpen : f[c] = f[e] => c = e
       /\ cameras = [c \in Cams |-> IF c \in InitOpen THEN f[c] ELSE NoDriver]
       /\ driver = [d \in Drivers |->
            IF \E c \in InitOpen : f[c] = d
            THEN [state |-> "running", cam |-> CHOOSE c \in InitOpen : f[c] = d]
            ELSE Ended]
  /\ auto_reopen = InitOpen /\ pipelines = InitOpen
  /\ told = InitOpen /\ streams = InitOpen
  /\ closing = {} /\ pending_modes = {} /\ busy = {}
  /\ op_lock = [c \in Cams |-> NoThread]
  /\ task = [t \in Threads |-> IdleTask]

-----------------------------------------------------------------------------
(* Control of one task.                                                    *)

At(t, l)    == task[t].pc = l
SetTask(t, r) == task' = [task EXCEPT ![t] = r]
Goto(t, l)   == SetTask(t, [task[t] EXCEPT !.pc = l])
Return(t, l) == SetTask(t, [task[t] EXCEPT !.pc = l, !.drv = NoDriver])
Finish(t)    == SetTask(t, IdleTask)
Begin(t, op, l, c) ==
  /\ At(t, "idle")
  /\ SetTask(t, [IdleTask EXCEPT !.op = op, !.pc = l, !.cam = c])

\* Where open_camera and _close_camera_internal return to in their callers.
AfterOpen(op) == IF op = "reopen" THEN "next_open" ELSE "release"
AfterClose(op) ==
  CASE op = "native" -> "set_mode"
    [] op \in {"closeAll", "sweep"} -> "next_close"
    [] op = "auto" -> "recheck_viewers"
    [] OTHER -> "release"

-----------------------------------------------------------------------------
(* Events of the environment: each starts a task.                          *)

\* on_connect: add_viewer, then a background thread runs _do_auto_reopen.
Connect(t, v) ==
  /\ "connect" \in Requests /\ v \notin viewers
  /\ viewers' = viewers \cup {v}
  /\ Begin(t, "reopen", "snapshot_intents", NoCam)
  /\ UNCHANGED <<registry, plugins, op_lock, driver>>

\* on_disconnect: remove_viewer, then viewer.zero if nobody is left.
Disconnect(t, v) ==
  /\ "disconnect" \in Requests /\ v \in viewers
  /\ viewers' = viewers \ {v}
  /\ Begin(t, "sweep", "sweep", NoCam)
  /\ UNCHANGED <<registry, plugins, op_lock, driver>>

\* An admin's open_camera, close_camera or apply_native_mode event; the last
\* needs the native_modes BasicParams reports for an open camera.
CamRequest(t, op, c) ==
  /\ op \in {"open", "close", "native"} \cap Requests
  /\ viewers # {}
  /\ op = "native" => c \in told
  /\ Begin(t, op, "lock", c)
  /\ UNCHANGED <<viewers, registry, plugins, op_lock, driver>>

CloseAllRequest(t) ==
  /\ "closeAll" \in Requests /\ viewers # {}
  /\ Begin(t, "closeAll", "snapshot_open", NoCam)
  /\ UNCHANGED <<viewers, registry, plugins, op_lock, driver>>

ScanRequest(t) ==
  /\ "scan" \in Requests /\ viewers # {}
  /\ Begin(t, "scan", "scan", NoCam)
  /\ UNCHANGED <<viewers, registry, plugins, op_lock, driver>>

\* An admin starts a recording or enables a detection; neither asks whether the
\* camera is open now.
Record(c) ==
  /\ "record" \in Requests /\ viewers # {} /\ c \notin busy
  /\ busy' = busy \cup {c}
  /\ UNCHANGED <<viewers, registry, told, streams, op_lock, driver, task>>

\* The work ends: is_busy() becomes False, then _mark_idle emits plugin.idle.
PluginIdle(t, c) ==
  /\ "idle" \in Requests /\ c \in busy
  /\ busy' = busy \ {c}
  /\ Begin(t, "auto", "check_idle", c)
  /\ UNCHANGED <<viewers, registry, told, streams, op_lock, driver>>

\* A driver loses its device: on_disconnect starts a thread, run() returns.
Unplug(t, d) ==
  /\ "unplug" \in Requests /\ driver[d].state = "running"
  /\ driver' = [driver EXCEPT ![d] = Ended]
  /\ Begin(t, "unplug", "discard_intent", driver[d].cam)
  /\ UNCHANGED <<viewers, registry, plugins, op_lock>>

\* run() sets _running, and leaves its loop once it has read it FALSE.
DriverRuns(d) ==
  /\ driver[d].state = "started"
  /\ driver' = [driver EXCEPT ![d].state = "running"]
  /\ UNCHANGED <<viewers, registry, plugins, op_lock, task>>

DriverEnds(d) ==
  /\ driver[d].state = "stopping"
  /\ driver' = [driver EXCEPT ![d] = Ended]
  /\ UNCHANGED <<viewers, registry, plugins, op_lock, task>>

-----------------------------------------------------------------------------
(* app._get_cam_op_lock: taken by the three per-camera handlers only.      *)

\* Mutant: the lock is looked up but its holder is not waited for.
AcquireHeldLock(t) ==
  /\ At(t, "lock")
  /\ op_lock' = [op_lock EXCEPT ![task[t].cam] = t]
  /\ Goto(t, IF task[t].op = "open" THEN "check_open" ELSE "discard_intent")
  /\ UNCHANGED <<viewers, registry, plugins, driver>>

AcquireLock(t) ==
  /\ At(t, "lock") /\ op_lock[task[t].cam] = NoThread
  /\ op_lock' = [op_lock EXCEPT ![task[t].cam] = t]
  /\ Goto(t, IF task[t].op = "open" THEN "check_open" ELSE "discard_intent")
  /\ UNCHANGED <<viewers, registry, plugins, driver>>

\* lock.acquire(timeout=5) gives up: "Camera operation in progress".
LockTimeout(t) ==
  /\ At(t, "lock") /\ op_lock[task[t].cam] # NoThread
  /\ Finish(t)
  /\ UNCHANGED <<viewers, registry, plugins, op_lock, driver>>

\* The `finally` of the handlers; a disconnect task holds no lock.
Release(t) ==
  /\ At(t, "release")
  /\ op_lock' = [c \in Cams |-> IF op_lock[c] = t THEN NoThread ELSE op_lock[c]]
  /\ Finish(t)
  /\ UNCHANGED <<viewers, registry, plugins, driver>>

-----------------------------------------------------------------------------
(* open_camera                                                             *)

CheckOpen(t) ==
  /\ At(t, "check_open")
  /\ Goto(t, IF task[t].cam \in Open THEN AfterOpen(task[t].op) ELSE "lookup")
  /\ UNCHANGED <<viewers, registry, plugins, op_lock, driver>>

\* A camera missing from available_cameras loses its intent (BUG-006); a
\* found one consumes its pending native mode.
Lookup(t) ==
  LET c == task[t].cam IN
  /\ At(t, "lookup")
  /\ \/ /\ c \notin available
        /\ auto_reopen' = auto_reopen \ {c}
        /\ Goto(t, AfterOpen(task[t].op))
        /\ UNCHANGED pending_modes
     \/ /\ c \in available
        /\ pending_modes' = pending_modes \ {c}
        /\ Goto(t, "open_device")
        /\ UNCHANGED auto_reopen
  /\ UNCHANGED <<viewers, available, cameras, closing, pipelines, plugins,
                 op_lock, driver>>

OpenDevice(t) ==
  LET d == NewDriver IN
  /\ At(t, "open_device") /\ Unused # {}
  /\ driver' = [driver EXCEPT ![d] = [state |-> "opened", cam |-> task[t].cam]]
  /\ SetTask(t, [task[t] EXCEPT !.pc = "insert", !.drv = d])
  /\ UNCHANGED <<viewers, registry, plugins, op_lock>>

\* drv.open() raises.  _do_auto_reopen retries once if the message says BUSY.
OpenDeviceFails(t) ==
  /\ At(t, "open_device") /\ "openFail" \in Faults
  /\ \/ Goto(t, AfterOpen(task[t].op))
     \/ /\ task[t].op = "reopen" /\ ~task[t].retried
        /\ SetTask(t, [task[t] EXCEPT !.pc = "check_open", !.retried = TRUE])
  /\ UNCHANGED <<viewers, registry, plugins, op_lock, driver>>

Insert(t) ==
  /\ At(t, "insert")
  /\ cameras' = [cameras EXCEPT ![task[t].cam] = task[t].drv]
  /\ Goto(t, "start_pipeline")
  /\ UNCHANGED <<viewers, available, closing, auto_reopen, pending_modes,
                 pipelines, plugins, op_lock, driver>>

StartPipeline(t) ==
  /\ At(t, "start_pipeline")
  /\ pipelines' = pipelines \cup {task[t].cam}
  /\ Goto(t, "start_driver")
  /\ UNCHANGED <<viewers, available, cameras, closing, auto_reopen,
                 pending_modes, plugins, op_lock, driver>>

StartDriver(t) ==
  /\ At(t, "start_driver")
  /\ driver' = [driver EXCEPT ![task[t].drv].state = "started"]
  /\ Return(t, "add_intent")
  /\ UNCHANGED <<viewers, registry, plugins, op_lock>>

AddIntent(t) ==
  /\ At(t, "add_intent")
  /\ auto_reopen' = auto_reopen \cup {task[t].cam}
  /\ Goto(t, "notify_open")
  /\ UNCHANGED <<viewers, available, cameras, closing, pending_modes, pipelines,
                 plugins, op_lock, driver>>

\* bus camera.opened: _on_camera_opened tells the plugins, then add_stream.  A
\* detection that is still enabled starts again.
NotifyOpen(t) ==
  /\ At(t, "notify_open")
  /\ told' = told \cup {task[t].cam}
  /\ \/ UNCHANGED busy
     \/ "record" \in Requests /\ busy' = busy \cup {task[t].cam}
  /\ Goto(t, "add_stream")
  /\ UNCHANGED <<viewers, registry, streams, op_lock, driver>>

AddStream(t) ==
  /\ At(t, "add_stream")
  /\ streams' = streams \cup {task[t].cam}
  /\ Goto(t, AfterOpen(task[t].op))
  /\ UNCHANGED <<viewers, registry, told, busy, op_lock, driver>>

-----------------------------------------------------------------------------
(* close_camera, _handle_disconnect and _close_camera_internal             *)

\* Mutant: close_camera does not discard the intent.
DiscardNothing(t) ==
  /\ At(t, "discard_intent")
  /\ Goto(t, "guard")
  /\ UNCHANGED <<viewers, registry, plugins, op_lock, driver>>

DiscardIntent(t) ==
  /\ At(t, "discard_intent")
  /\ auto_reopen' = auto_reopen \ {task[t].cam}
  /\ Goto(t, "guard")
  /\ UNCHANGED <<viewers, available, cameras, closing, pending_modes, pipelines,
                 plugins, op_lock, driver>>

\* Mutant: the guard does not mark the camera.
GuardForgetsMark(t) ==
  LET c == task[t].cam IN
  /\ At(t, "guard") /\ c \notin closing /\ c \in Open
  /\ SetTask(t, [task[t] EXCEPT !.pc = "notify_close", !.drv = cameras[c]])
  /\ UNCHANGED <<viewers, registry, plugins, op_lock, driver>>

\* Bail out if the camera is already closing or already gone.
Guard(t) ==
  LET c == task[t].cam IN
  /\ At(t, "guard")
  /\ \/ /\ c \in closing \/ c \notin Open
        /\ Goto(t, AfterClose(task[t].op))
        /\ UNCHANGED closing
     \/ /\ c \notin closing /\ c \in Open
        /\ closing' = closing \cup {c}
        /\ SetTask(t, [task[t] EXCEPT !.pc = "notify_close", !.drv = cameras[c]])
  /\ UNCHANGED <<viewers, available, cameras, auto_reopen, pending_modes,
                 pipelines, plugins, op_lock, driver>>

\* on_camera_close: recordings and detections on the camera stop.  Their own
\* plugin.idle re-enters the guard above on this thread and returns; if a viewer has
\* connected by then it runs _do_auto_reopen, which skips this camera and opens what
\* that viewer's own reopen thread opens.
NotifyClose(t) ==
  /\ At(t, "notify_close")
  /\ told' = told \ {task[t].cam}
  /\ busy' = busy \ {task[t].cam}
  /\ Goto(t, "pre_close")
  /\ UNCHANGED <<viewers, registry, streams, op_lock, driver>>

\* Mutant: nothing subscribes to camera.pre_close.
PreCloseUnheard(t) ==
  /\ At(t, "pre_close")
  /\ Goto(t, "stop_driver")
  /\ UNCHANGED <<viewers, registry, plugins, op_lock, driver>>

PreClose(t) ==
  /\ At(t, "pre_close")
  /\ streams' = streams \ {task[t].cam}
  /\ Goto(t, "stop_driver")
  /\ UNCHANGED <<viewers, registry, told, busy, op_lock, driver>>

\* drv.stop() clears _running; run() sets it again if it has not begun.
StopDriver(t) ==
  LET d == task[t].drv IN
  /\ At(t, "stop_driver")
  /\ driver' = IF driver[d].state = "running"
               THEN [driver EXCEPT ![d].state = "stopping"] ELSE driver
  /\ Goto(t, "join_driver")
  /\ UNCHANGED <<viewers, registry, plugins, op_lock>>

\* drv.join(timeout): returns when the thread has ended or after the timeout,
\* which a thread that missed the stop always reaches.
JoinDriver(t) ==
  /\ At(t, "join_driver")
  /\ \/ driver[task[t].drv].state \in {"dead", "started", "running"}
     \/ driver[task[t].drv].state = "stopping" /\ "joinTimeout" \in Faults
  /\ Goto(t, "stop_pipeline")
  /\ UNCHANGED <<viewers, registry, plugins, op_lock, driver>>

\* Joining a thread that was never started raises RuntimeError: the close is
\* abandoned, and so is the handler or the loop that asked for it.
JoinRaises(t) ==
  /\ At(t, "join_driver") /\ driver[task[t].drv].state = "opened"
  /\ Return(t, "release")
  /\ UNCHANGED <<viewers, registry, plugins, op_lock, driver>>

StopPipeline(t) ==
  /\ At(t, "stop_pipeline")
  /\ pipelines' = pipelines \ {task[t].cam}
  /\ Goto(t, "remove")
  /\ UNCHANGED <<viewers, available, cameras, closing, auto_reopen,
                 pending_modes, plugins, op_lock, driver>>

Remove(t) ==
  LET c == task[t].cam IN
  /\ At(t, "remove")
  /\ cameras' = [cameras EXCEPT ![c] = NoDriver]
  /\ closing' = closing \ {c}
  /\ Return(t, AfterClose(task[t].op))
  /\ UNCHANGED <<viewers, available, auto_reopen, pending_modes, pipelines,
                 plugins, op_lock, driver>>

-----------------------------------------------------------------------------
(* Handlers that open or close several cameras                             *)

\* apply_native_mode between its close and its open.
SetMode(t) ==
  /\ At(t, "set_mode")
  /\ pending_modes' = pending_modes \cup {task[t].cam}
  /\ Goto(t, "check_open")
  /\ UNCHANGED <<viewers, available, cameras, closing, auto_reopen, pipelines,
                 plugins, op_lock, driver>>

\* close_all_cameras: the open cameras are listed before the intents go.
SnapshotOpen(t) ==
  /\ At(t, "snapshot_open")
  /\ SetTask(t, [task[t] EXCEPT !.pc = "clear_intents", !.todo = Open])
  /\ UNCHANGED <<viewers, registry, plugins, op_lock, driver>>

ClearIntents(t) ==
  /\ At(t, "clear_intents")
  /\ auto_reopen' = {}
  /\ Goto(t, "next_close")
  /\ UNCHANGED <<viewers, available, cameras, closing, pending_modes, pipelines,
                 plugins, op_lock, driver>>

\* try_auto_close_all: return if someone watches, or if no camera is open.
Sweep(t) ==
  /\ At(t, "sweep")
  /\ IF viewers = {} THEN Goto(t, "list_open") ELSE Finish(t)
  /\ UNCHANGED <<viewers, registry, plugins, op_lock, driver>>

ListOpen(t) ==
  /\ At(t, "list_open")
  /\ IF Open = {} THEN Finish(t)
     ELSE SetTask(t, [task[t] EXCEPT !.pc = "collect_busy", !.todo = Open])
  /\ UNCHANGED <<viewers, registry, plugins, op_lock, driver>>

\* Mutant: the busy plugins are not asked.
CollectNothing(t) ==
  /\ At(t, "collect_busy")
  /\ Goto(t, "next_close")
  /\ UNCHANGED <<viewers, registry, plugins, op_lock, driver>>

\* Busy cameras, and those they hold, are kept.
CollectBusy(t) ==
  LET busyCams == task[t].todo \cap busy
      keep     == busyCams \cup UNION {Holds[c] : c \in busyCams}
  IN
  /\ At(t, "collect_busy")
  /\ SetTask(t, [task[t] EXCEPT !.pc = "next_close", !.todo = @ \ keep])
  /\ UNCHANGED <<viewers, registry, plugins, op_lock, driver>>

NextClose(t) ==
  /\ At(t, "next_close")
  /\ \/ \E c \in task[t].todo :
          SetTask(t, [task[t] EXCEPT !.pc = "guard", !.cam = c,
                                  !.todo = @ \ {c}])
     \/ /\ task[t].todo = {}
        /\ Goto(t, IF task[t].op = "sweep" THEN "recheck_viewers" ELSE "release")
  /\ UNCHANGED <<viewers, registry, plugins, op_lock, driver>>

\* _auto_close_camera, on plugin.idle: return if someone watches, or if the
\* camera is gone or has another busy plugin.
CheckIdle(t) ==
  /\ At(t, "check_idle")
  /\ IF viewers = {} THEN Goto(t, "check_busy") ELSE Finish(t)
  /\ UNCHANGED <<viewers, registry, plugins, op_lock, driver>>

\* Mutant: the plugin that went idle counts as busy.
StillBusy(t) ==
  /\ At(t, "check_busy")
  /\ Finish(t)
  /\ UNCHANGED <<viewers, registry, plugins, op_lock, driver>>

CheckBusy(t) ==
  LET c == task[t].cam IN
  /\ At(t, "check_busy")
  /\ IF c \in Open \ busy THEN Goto(t, "guard") ELSE Finish(t)
  /\ UNCHANGED <<viewers, registry, plugins, op_lock, driver>>

\* Mutant: the code before BUG-009, without the recheck.
NoRecheck(t) ==
  /\ At(t, "recheck_viewers")
  /\ Finish(t)
  /\ UNCHANGED <<viewers, registry, plugins, op_lock, driver>>

\* BUG-009: someone connected while cameras were closing; the closing thread
\* itself runs _do_auto_reopen through camera.need_reopen.
RecheckViewers(t) ==
  /\ At(t, "recheck_viewers")
  /\ IF viewers = {} THEN Finish(t)
     ELSE SetTask(t, [IdleTask EXCEPT !.op = "reopen", !.pc = "snapshot_intents"])
  /\ UNCHANGED <<viewers, registry, plugins, op_lock, driver>>

\* _do_auto_reopen: no op lock is taken around its open_camera calls.
SnapshotIntents(t) ==
  /\ At(t, "snapshot_intents")
  /\ SetTask(t, [task[t] EXCEPT !.pc = "next_open",
                                  !.todo = auto_reopen \ (Open \cup closing)])
  /\ UNCHANGED <<viewers, registry, plugins, op_lock, driver>>

NextOpen(t) ==
  /\ At(t, "next_open")
  /\ \/ \E c \in task[t].todo :
          SetTask(t, [task[t] EXCEPT !.pc = "check_open", !.cam = c,
                                  !.todo = @ \ {c}, !.retried = FALSE])
     \/ task[t].todo = {} /\ Finish(t)
  /\ UNCHANGED <<viewers, registry, plugins, op_lock, driver>>

\* scan_cameras: a device some driver holds may not show up in the probe.
Held(c) == \E d \in Drivers : driver[d].cam = c /\ driver[d].state # "dead"

Scan(t) ==
  /\ At(t, "scan")
  /\ \E missed \in SUBSET {c \in Cams : Held(c)} :
       SetTask(t, [task[t] EXCEPT !.pc = "publish_scan", !.todo = Cams \ missed])
  /\ UNCHANGED <<viewers, registry, plugins, op_lock, driver>>

\* An open camera keeps its previous entry when the probe missed it.
PublishScan(t) ==
  /\ At(t, "publish_scan")
  /\ available' = task[t].todo \cup (available \cap Open)
  /\ Finish(t)
  /\ UNCHANGED <<viewers, cameras, closing, auto_reopen, pending_modes,
                 pipelines, plugins, op_lock, driver>>

-----------------------------------------------------------------------------

Opening(t) == \/ CheckOpen(t) \/ Lookup(t) \/ OpenDevice(t) \/ OpenDeviceFails(t)
              \/ Insert(t) \/ StartPipeline(t) \/ StartDriver(t) \/ AddIntent(t)
              \/ NotifyOpen(t) \/ AddStream(t)
Closing(t) == \/ DiscardIntent(t) \/ Guard(t) \/ NotifyClose(t) \/ PreClose(t)
              \/ StopDriver(t) \/ JoinDriver(t) \/ JoinRaises(t)
              \/ StopPipeline(t) \/ Remove(t)
Handling(t) == \/ AcquireLock(t) \/ LockTimeout(t) \/ Release(t) \/ SetMode(t)
               \/ SnapshotOpen(t) \/ ClearIntents(t) \/ Sweep(t)
               \/ ListOpen(t) \/ CollectBusy(t) \/ NextClose(t)
               \/ CheckIdle(t) \/ CheckBusy(t)
               \/ RecheckViewers(t) \/ SnapshotIntents(t) \/ NextOpen(t)
               \/ Scan(t) \/ PublishScan(t)
Step(t) == Opening(t) \/ Closing(t) \/ Handling(t)
Driving(d) == DriverRuns(d) \/ DriverEnds(d)

Event(t) == \/ \E v \in Viewers : Connect(t, v) \/ Disconnect(t, v)
            \/ \E c \in Cams : \/ \E op \in Ops : CamRequest(t, op, c)
                               \/ PluginIdle(t, c)
            \/ CloseAllRequest(t) \/ ScanRequest(t)
            \/ \E d \in Drivers : Unplug(t, d)

Next == \/ \E t \in Threads : Event(t) \/ Step(t)
        \/ \E c \in Cams : Record(c)
        \/ \E d \in Drivers : Driving(d)

Spec == Init /\ [][Next]_vars

\* A started thread and a runnable task are eventually scheduled by the OS;
\* clients, recordings and devices owe nothing.
Fairness == /\ \A t \in Threads : WF_vars(Step(t))
            /\ \A d \in Drivers : WF_vars(Driving(d))
FairSpec == Spec /\ Fairness

-----------------------------------------------------------------------------
(* Safety                                                                  *)

ClosingNow(t, c) == task[t].pc \in ClosePCs /\ task[t].cam = c

\* Two threads never tear down the same camera at once: the guard at the head
\* of _close_camera_internal admits one closer until it has removed the camera.
NoDoubleClose ==
  \A c \in Cams : \A t, u \in Threads :
    ClosingNow(t, c) /\ ClosingNow(u, c) => t = u

\* A camera marked as closing is still in the table, so that _do_auto_reopen,
\* which excludes both sets, cannot open it while its driver is being joined.
ClosingIsOpen == closing \subseteq Open

Preparing(t) == task[t].pc \in {"insert", "start_pipeline", "start_driver"}

\* The driver a thread is about to start was never started before, by itself or
\* by another opener: Thread.start() raises the second time.
StartedOnce ==
  \A t \in Threads : Preparing(t) =>
    /\ task[t].drv \in Drivers /\ driver[task[t].drv].state = "opened"
    /\ \A u \in Threads : Preparing(u) /\ task[u].drv = task[t].drv => u = t

\* The registry implements the lifecycle of each camera.
phase == [c \in Cams |-> CASE c \in closing -> "closing"
                            [] c \in Open \ closing -> "open"
                            [] OTHER -> "closed"]
Lifecycle == INSTANCE CameraLifecycle WITH Cams <- Cams, phase <- phase
ImplementsLifecycle == Lifecycle!LifecycleSpec

\* "cam_ids whose driver thread is inside stop()/join()" (camera.py:109): a
\* camera marked as closing has a thread closing it.
ClosingHasCloser == \A c \in closing : \E t \in Threads : ClosingNow(t, c)

\* An admin's close leaves no intent to reopen the camera behind (camera.py:219).
AdminCloseClearsIntent ==
  \A t \in Threads : task[t].op = "close" /\ At(t, "release")
                      => task[t].cam \notin auto_reopen

\* Opening is idempotent (camera.py:152): the driver of an open camera is never
\* replaced by another one.
NoDriverReplaced ==
  [][\A c \in Cams : cameras[c] # NoDriver => cameras'[c] \in {cameras[c], NoDriver}]_cameras

\* Once no handler runs, every table agrees on which cameras are open: drivers,
\* pipelines, streams, plugins and the intents to reopen.
Quiet == \A t \in Threads : At(t, "idle")
QuietConsistent ==
  Quiet => /\ pipelines = Open /\ streams = Open /\ told = Open
           /\ auto_reopen = Open /\ closing = {}

\* Auto-close never starts closing a camera whose plugin is still working
\* ("While this returns True, the camera will NOT be auto-closed", README.md:415).
AutoCloseBegins(t) == /\ At(t, "guard") /\ task'[t].pc = "notify_close"
                      /\ task[t].op \in {"sweep", "auto"}
BusyNotAutoClosed ==
  [][\A t \in Threads : AutoCloseBegins(t) => task[t].cam \notin busy]_task

-----------------------------------------------------------------------------
(* Liveness.  A close that was abandoned (JoinRaises) also abandons the    *)
(* loop that asked for it; nothing is promised after that.                 *)

Abandoned == ~ClosingHasCloser

\* BUG-009 (camera.py:302): a camera that is wanted back while an automatic close of
\* it is under way, or closed when a reopen begins, is opened or at least tried
\* again, unless everyone leaves or the intent goes.  The viewer's own reopen skips a
\* camera that is closing, so it is the closer that must look again.  What drv.open()
\* answers is the device's business: an open that fails is logged (app.py:155).
AutoClosing(c) == \E t \in Threads : ClosingNow(t, c) /\ task[t].op \in {"sweep", "auto"}
Reopening      == \E t \in Threads : At(t, "snapshot_intents")
Tried(c)       == c \in Open \ closing \/ \E t \in Threads : /\ At(t, "open_device")
                                                             /\ task[t].cam = c
ReopenHonoured ==
  \A c \in Cams :
    viewers # {} /\ c \in auto_reopen /\ (AutoClosing(c) \/ (Reopening /\ c \notin Open))
      ~> viewers = {} \/ c \notin auto_reopen \/ Tried(c) \/ Abandoned

\* The last viewer to leave, or the last plugin to go idle with nobody watching,
\* gets the camera closed unless it is busy, held, or watched again meanwhile
\* (README.md:239-241).
Reconsidered(c) == \E t \in Threads : \/ At(t, "sweep")
                                      \/ At(t, "check_idle") /\ task[t].cam = c
Wanted(c) == viewers # {} \/ c \in busy \/ \E b \in Open \cap busy : c \in Holds[b]
AutoCloses ==
  \A c \in Cams : c \in Open /\ ~Wanted(c) /\ Reconsidered(c)
                   ~> c \notin Open \/ c \in closing \/ Wanted(c) \/ Abandoned
=============================================================================

------------------------ MODULE CameraRegistryProofs ------------------------
(***************************************************************************)
(* For every set of cameras, viewers, threads and driver objects: the      *)
(* registry is type correct, no camera has two closers, a closing camera   *)
(* is still in the table, and the registry implements CameraLifecycle.     *)
(* Then the handlers that take the operation lock on their own, under which *)
(* the tables agree, and auto-close among all the others: it spares a busy  *)
(* camera unless it began to work behind the answer.                        *)
(***************************************************************************)
EXTENDS CameraRegistry, TLAPS

-----------------------------------------------------------------------------
(* What the control operators do to the tasks.                             *)

\* task' differs from task for thread t only.
OnlyTask(t) == \A u \in Threads \ {t} : task'[u] = task[u]

LEMMA IdleTaskType == IdleTask \in Task
BY DEF IdleTask, Task, PCs, OtherPCs, Ops

LEMMA SetTaskEffect ==
  ASSUME NEW t \in Threads, NEW r \in Task, task \in [Threads -> Task], SetTask(t, r)
  PROVE  task' \in [Threads -> Task] /\ OnlyTask(t) /\ task'[t] = r
BY DEF SetTask, OnlyTask

LEMMA GotoEffect ==
  ASSUME NEW t \in Threads, NEW l \in PCs, task \in [Threads -> Task], Goto(t, l)
  PROVE  /\ task' \in [Threads -> Task] /\ OnlyTask(t)
         /\ task'[t].pc = l
         /\ task'[t].cam = task[t].cam /\ task'[t].drv = task[t].drv
<1> DEFINE r == [task[t] EXCEPT !.pc = l]
<1>1. r \in Task /\ r.pc = l /\ r.cam = task[t].cam /\ r.drv = task[t].drv
  BY DEF Task
<1> QED BY <1>1, SetTaskEffect DEF Goto

LEMMA ReturnEffect ==
  ASSUME NEW t \in Threads, NEW l \in PCs, task \in [Threads -> Task], Return(t, l)
  PROVE  /\ task' \in [Threads -> Task] /\ OnlyTask(t)
         /\ task'[t].pc = l
         /\ task'[t].cam = task[t].cam /\ task'[t].drv = NoDriver
<1> DEFINE r == [task[t] EXCEPT !.pc = l, !.drv = NoDriver]
<1>1. r \in Task /\ r.pc = l /\ r.cam = task[t].cam /\ r.drv = NoDriver
  BY DEF Task
<1> QED BY <1>1, SetTaskEffect DEF Return

LEMMA FinishEffect ==
  ASSUME NEW t \in Threads, task \in [Threads -> Task], Finish(t)
  PROVE  /\ task' \in [Threads -> Task] /\ OnlyTask(t) /\ task'[t].pc = "idle"
BY IdleTaskType, SetTaskEffect DEF Finish, IdleTask

LEMMA BeginEffect ==
  ASSUME NEW t \in Threads, NEW op \in Ops, NEW l \in PCs,
         NEW c \in Cams \cup {NoCam}, task \in [Threads -> Task], Begin(t, op, l, c)
  PROVE  /\ task' \in [Threads -> Task] /\ OnlyTask(t)
         /\ task'[t].pc = l /\ task'[t].cam = c
<1> DEFINE r == [IdleTask EXCEPT !.op = op, !.pc = l, !.cam = c]
<1>1. r \in Task /\ r.pc = l /\ r.cam = c
  BY IdleTaskType DEF IdleTask, Task
<1> QED BY <1>1, SetTaskEffect DEF Begin

\* The steps that set the list in hand, or also the camera.
LEMMA TodoEffect ==
  ASSUME NEW t \in Threads, NEW l \in PCs, NEW S \in SUBSET Cams,
         task \in [Threads -> Task],
         SetTask(t, [task[t] EXCEPT !.pc = l, !.todo = S])
  PROVE  task' \in [Threads -> Task] /\ OnlyTask(t) /\ task'[t].pc = l
<1> DEFINE r == [task[t] EXCEPT !.pc = l, !.todo = S]
<1>1. r \in Task /\ r.pc = l
  BY DEF Task
<1> QED BY <1>1, SetTaskEffect

LEMMA PickEffect ==
  ASSUME NEW t \in Threads, NEW l \in PCs, NEW c \in Cams, NEW S \in SUBSET Cams,
         task \in [Threads -> Task],
         \/ SetTask(t, [task[t] EXCEPT !.pc = l, !.cam = c, !.todo = S])
         \/ SetTask(t, [task[t] EXCEPT !.pc = l, !.cam = c, !.todo = S, !.retried = FALSE])
  PROVE  /\ task' \in [Threads -> Task] /\ OnlyTask(t)
         /\ task'[t].pc = l /\ task'[t].cam = c
<1> DEFINE q == [task[t] EXCEPT !.pc = l, !.cam = c, !.todo = S]
           r == [task[t] EXCEPT !.pc = l, !.cam = c, !.todo = S, !.retried = FALSE]
<1>1. q \in Task /\ q.pc = l /\ q.cam = c
  BY DEF Task
<1>2. r \in Task /\ r.pc = l /\ r.cam = c
  BY DEF Task
<1> QED BY <1>1, <1>2, SetTaskEffect

LEMMA AfterTypes ==
  \A op \in Ops : AfterOpen(op) \in OtherPCs /\ AfterClose(op) \in OtherPCs
BY DEF AfterOpen, AfterClose, OtherPCs, Ops

LEMMA DisjointPCs ==
  /\ PCs = OpenPCs \cup ClosePCs \cup OtherPCs
  /\ OpenPCs \cap ClosePCs = {} /\ OtherPCs \cap ClosePCs = {}
  /\ OpenPCs \cap OtherPCs = {}
BY DEF PCs, OpenPCs, ClosePCs, OtherPCs

-----------------------------------------------------------------------------
(* Where each group of steps leaves the task that takes it.                *)

\* The steps of t keep the tasks well typed.
Stays(t) == /\ OnlyTask(t) /\ task' \in [Threads -> Task]
            /\ task'[t].pc \in CamPCs => task'[t].cam \in Cams

LEMMA StaysType ==
  ASSUME TypeOK, NEW t \in Threads, Stays(t)
  PROVE  /\ task' \in [Threads -> Task]
         /\ \A u \in Threads : task'[u].pc \in CamPCs => task'[u].cam \in Cams
BY DEF TypeOK, Stays, OnlyTask

LEMMA GotoStays ==
  ASSUME TypeOK, NEW t \in Threads, NEW l \in PCs, Goto(t, l) \/ Return(t, l),
         l \in CamPCs => task[t].pc \in CamPCs
  PROVE  Stays(t) /\ task'[t].pc = l /\ task'[t].cam = task[t].cam
BY GotoEffect, ReturnEffect DEF Stays, TypeOK

LEMMA FinishStays ==
  ASSUME TypeOK, NEW t \in Threads, Finish(t)
  PROVE  Stays(t) /\ task'[t].pc \in OtherPCs
BY FinishEffect DEF Stays, TypeOK, CamPCs, OpenPCs, ClosePCs, OtherPCs

LEMMA EventControl ==
  ASSUME TypeOK, NEW t \in Threads, Event(t)
  PROVE  Stays(t) /\ task'[t].pc \in OtherPCs
<1>1. ASSUME NEW op \in Ops, NEW l \in OtherPCs, NEW c \in Cams, Begin(t, op, l, c)
      PROVE  Stays(t) /\ task'[t].pc \in OtherPCs
  BY <1>1, BeginEffect, DisjointPCs DEF Stays, TypeOK
<1>2. ASSUME NEW op \in Ops, NEW l \in OtherPCs \ CamPCs, Begin(t, op, l, NoCam)
      PROVE  Stays(t) /\ task'[t].pc \in OtherPCs
  BY <1>2, BeginEffect, DisjointPCs DEF Stays, TypeOK
<1>3. ASSUME NEW v \in Viewers, Connect(t, v) \/ Disconnect(t, v)
      PROVE  Stays(t) /\ task'[t].pc \in OtherPCs
  BY <1>2, <1>3 DEF Connect, Disconnect, Ops, OtherPCs, CamPCs, OpenPCs, ClosePCs
<1>4. ASSUME NEW op \in Ops, NEW c \in Cams, CamRequest(t, op, c)
      PROVE  Stays(t) /\ task'[t].pc \in OtherPCs
  BY <1>1, <1>4 DEF CamRequest, OtherPCs
<1>5. ASSUME NEW c \in Cams, PluginIdle(t, c)
      PROVE  Stays(t) /\ task'[t].pc \in OtherPCs
  BY <1>1, <1>5 DEF PluginIdle, Ops, OtherPCs
<1>6. ASSUME CloseAllRequest(t) \/ ScanRequest(t)
      PROVE  Stays(t) /\ task'[t].pc \in OtherPCs
  BY <1>2, <1>6 DEF CloseAllRequest, ScanRequest, Ops, OtherPCs, CamPCs, OpenPCs, ClosePCs
<1>7. ASSUME NEW d \in Drivers, Unplug(t, d)
      PROVE  Stays(t) /\ task'[t].pc \in OtherPCs
  <2>1. driver[d].cam \in Cams
    BY <1>7 DEF Unplug, TypeOK
  <2> QED BY <1>1, <1>7, <2>1 DEF Unplug, Ops, OtherPCs
<1> QED BY <1>3, <1>4, <1>5, <1>6, <1>7 DEF Event

LEMMA HandlingControl ==
  ASSUME TypeOK, NEW t \in Threads, Handling(t)
  PROVE  Stays(t) /\ task'[t].pc \in OtherPCs \cup {"check_open"}
<1> DEFINE Goal == Stays(t) /\ task'[t].pc \in OtherPCs \cup {"check_open"}
<1>1. ASSUME Finish(t) PROVE Goal
  BY <1>1, FinishStays
<1>2. ASSUME NEW l \in OtherPCs \cup {"check_open"}, Goto(t, l),
             l \in CamPCs => task[t].pc \in CamPCs
      PROVE  Goal
  BY <1>2, GotoStays, DisjointPCs DEF OpenPCs
<1>3. task[t] \in Task /\ task[t].todo \subseteq Cams
  BY DEF TypeOK, Task
<1>4. ASSUME AcquireLock(t) \/ SetMode(t) PROVE Goal
  BY <1>2, <1>4 DEF AcquireLock, SetMode, At, OtherPCs, CamPCs
<1>5. ASSUME ClearIntents(t) PROVE Goal
  BY <1>2, <1>5 DEF ClearIntents, OtherPCs, CamPCs, OpenPCs, ClosePCs
<1>6. ASSUME LockTimeout(t) \/ Release(t) \/ PublishScan(t) PROVE Goal
  BY <1>1, <1>6 DEF LockTimeout, Release, PublishScan
<1>7. ASSUME Sweep(t) \/ CheckIdle(t) \/ CheckBusy(t) PROVE Goal
  BY <1>1, <1>2, <1>7 DEF Sweep, CheckIdle, CheckBusy, At, OtherPCs, CamPCs, OpenPCs,
                          ClosePCs
<1>8. ASSUME NEW l \in OtherPCs \ CamPCs, NEW S \in SUBSET Cams,
             SetTask(t, [task[t] EXCEPT !.pc = l, !.todo = S])
      PROVE  Goal
  <2>1. l \in PCs /\ task \in [Threads -> Task]
    BY DisjointPCs DEF TypeOK
  <2>2. /\ task' \in [Threads -> Task] /\ OnlyTask(t)
        /\ task'[t].pc = l
    BY <1>8, <2>1, TodoEffect, Zenon
  <2> QED BY <2>2 DEF Stays
<1>9. ASSUME SnapshotOpen(t) \/ SnapshotIntents(t) \/ Scan(t) PROVE Goal
  <2>1. {"clear_intents", "next_open", "publish_scan"} \subseteq OtherPCs \ CamPCs
    BY DEF OtherPCs, CamPCs, OpenPCs, ClosePCs
  <2>2. Open \in SUBSET Cams /\ auto_reopen \ (Open \cup closing) \in SUBSET Cams
    BY DEF Open, TypeOK
  <2>3. ASSUME SnapshotOpen(t) PROVE Goal
    BY <1>8, <2>1, <2>2, <2>3 DEF SnapshotOpen
  <2>4. ASSUME SnapshotIntents(t) PROVE Goal
    BY <1>8, <2>1, <2>2, <2>4 DEF SnapshotIntents
  <2>5. ASSUME Scan(t) PROVE Goal
    <3>1. PICK missed \in SUBSET Cams :
                 SetTask(t, [task[t] EXCEPT !.pc = "publish_scan", !.todo = Cams \ missed])
      BY <2>5 DEF Scan
    <3> QED BY <1>8, <2>1, <3>1
  <2> QED BY <1>9, <2>3, <2>4, <2>5
<1>10. ASSUME ListOpen(t) \/ CollectBusy(t) PROVE Goal
  <2>1. {"collect_busy", "next_close"} \subseteq OtherPCs \ CamPCs /\ Open \subseteq Cams
    BY DEF OtherPCs, CamPCs, OpenPCs, ClosePCs, Open
  <2>2. \A S : task[t].todo \ S \in SUBSET Cams
    BY <1>3
  <2>3. ASSUME ListOpen(t) PROVE Goal
    BY <1>1, <1>8, <2>1, <2>3 DEF ListOpen
  <2>4. ASSUME CollectBusy(t) PROVE Goal
    BY <1>8, <2>1, <2>2, <2>4 DEF CollectBusy
  <2> QED BY <1>10, <2>3, <2>4
<1>11. ASSUME NEW l \in {"guard", "check_open"}, NEW c \in Cams, NEW S \in SUBSET Cams,
         \/ SetTask(t, [task[t] EXCEPT !.pc = l, !.cam = c, !.todo = S])
         \/ SetTask(t, [task[t] EXCEPT !.pc = l, !.cam = c, !.todo = S, !.retried = FALSE])
       PROVE  Goal
  <2>1. l \in PCs /\ task \in [Threads -> Task]
    BY DEF TypeOK, PCs, OpenPCs, OtherPCs
  <2>2. /\ task' \in [Threads -> Task] /\ OnlyTask(t)
        /\ task'[t].pc = l /\ task'[t].cam = c
    BY <1>11, <2>1, PickEffect, Zenon
  <2> QED BY <2>2 DEF Stays, OtherPCs
<1>12. ASSUME NextClose(t) \/ NextOpen(t) PROVE Goal
  <2>1. \A c \in task[t].todo : c \in Cams /\ task[t].todo \ {c} \in SUBSET Cams
    BY <1>3
  <2>2. {"recheck_viewers", "release"} \subseteq OtherPCs \ CamPCs
    BY DEF OtherPCs, CamPCs, OpenPCs, ClosePCs
  <2>3. ASSUME NextClose(t) PROVE Goal
    BY <1>2, <1>11, <2>1, <2>2, <2>3 DEF NextClose
  <2>4. ASSUME NextOpen(t) PROVE Goal
    BY <1>1, <1>11, <2>1, <2>4 DEF NextOpen
  <2> QED BY <1>12, <2>3, <2>4
<1>13. ASSUME RecheckViewers(t) PROVE Goal
  <2> DEFINE r == [IdleTask EXCEPT !.op = "reopen", !.pc = "snapshot_intents"]
  <2>1. r \in Task /\ r.pc = "snapshot_intents"
    BY IdleTaskType DEF IdleTask, Task, Ops, PCs, OtherPCs
  <2>2. "snapshot_intents" \in OtherPCs \ CamPCs
    BY DEF OtherPCs, CamPCs, OpenPCs, ClosePCs
  <2>3. ASSUME SetTask(t, r) PROVE Goal
    BY <2>1, <2>2, <2>3, SetTaskEffect DEF Stays, TypeOK
  <2> QED BY <1>1, <1>13, <2>3 DEF RecheckViewers
<1> QED BY <1>4, <1>5, <1>6, <1>7, <1>9, <1>10, <1>11, <1>12, <1>13 DEF Handling

\* Only OpenDevice brings a thread to the statements that prepare a driver.
LEMMA OpeningControl ==
  ASSUME TypeOK, NEW t \in Threads, Opening(t)
  PROVE  /\ Stays(t) /\ task'[t].pc \in OpenPCs \cup OtherPCs
         /\ Preparing(t)' => OpenDevice(t) \/ (Preparing(t) /\ task'[t].drv = task[t].drv)
<1> DEFINE Goal == /\ Stays(t) /\ task'[t].pc \in OpenPCs \cup OtherPCs
                   /\ Preparing(t)' => \/ OpenDevice(t)
                                       \/ Preparing(t) /\ task'[t].drv = task[t].drv
<1>0. task \in [Threads -> Task] /\ task[t] \in Task
  BY DEF TypeOK
<1>1. ASSUME NEW l \in OpenPCs \cup OtherPCs, Goto(t, l) \/ Return(t, l),
             task[t].pc \in CamPCs,
             l \notin {"insert", "start_pipeline", "start_driver"}
      PROVE  Goal
  BY <1>1, GotoStays, DisjointPCs DEF Preparing
<1>2. ASSUME NEW l \in {"start_pipeline", "start_driver"}, Goto(t, l), Preparing(t)
      PROVE  Goal
  BY <1>0, <1>2, GotoStays, GotoEffect, DisjointPCs DEF Preparing, CamPCs, OpenPCs
<1>3. AfterOpen(task[t].op) \in OtherPCs \ {"insert", "start_pipeline", "start_driver"}
  BY <1>0, AfterTypes, DisjointPCs DEF Task, OpenPCs
<1>4. ASSUME CheckOpen(t) \/ Lookup(t) \/ AddStream(t) PROVE Goal
  BY <1>1, <1>3, <1>4 DEF CheckOpen, Lookup, AddStream, At, CamPCs, OpenPCs
<1>5. ASSUME Insert(t) \/ StartPipeline(t) PROVE Goal
  BY <1>2, <1>5 DEF Insert, StartPipeline, At, Preparing
<1>6. ASSUME StartDriver(t) \/ AddIntent(t) \/ NotifyOpen(t) PROVE Goal
  BY <1>1, <1>6 DEF StartDriver, AddIntent, NotifyOpen, At, CamPCs, OpenPCs
<1>7. ASSUME OpenDevice(t) PROVE Goal
  <2> DEFINE r == [task[t] EXCEPT !.pc = "insert", !.drv = NewDriver]
  <2>1. NewDriver \in Drivers
    BY <1>7 DEF OpenDevice, NewDriver, Unused
  <2>2. r \in Task /\ r.pc = "insert" /\ r.cam = task[t].cam
    BY <1>0, <2>1 DEF Task, PCs, OpenPCs
  <2>3. task[t].cam \in Cams
    BY <1>7 DEF OpenDevice, At, TypeOK, CamPCs, OpenPCs
  <2> QED BY <1>0, <1>7, <2>2, <2>3, SetTaskEffect DEF OpenDevice, Stays, OpenPCs
<1>8. ASSUME OpenDeviceFails(t) PROVE Goal
  <2> DEFINE r == [task[t] EXCEPT !.pc = "check_open", !.retried = TRUE]
  <2>1. r \in Task /\ r.pc = "check_open" /\ r.cam = task[t].cam
    BY <1>0 DEF Task, PCs, OpenPCs
  <2>2. task[t].pc \in CamPCs /\ task[t].cam \in Cams
    BY <1>8 DEF OpenDeviceFails, At, TypeOK, CamPCs, OpenPCs
  <2>3. ASSUME SetTask(t, r) PROVE Goal
    BY <1>0, <2>1, <2>2, <2>3, SetTaskEffect DEF Stays, Preparing, OpenPCs
  <2> QED BY <1>1, <1>3, <1>8, <2>2, <2>3 DEF OpenDeviceFails
<1> QED BY <1>4, <1>5, <1>6, <1>7, <1>8 DEF Opening

\* Only Guard makes a thread the closer of a camera.
LEMMA ClosingControl ==
  ASSUME TypeOK, NEW t \in Threads, Closing(t)
  PROVE  /\ Stays(t) /\ task'[t].pc \in ClosePCs \cup OtherPCs
         /\ task'[t].cam = task[t].cam
         /\ task'[t].pc \in ClosePCs => task[t].pc \in ClosePCs \/ Guard(t)
<1> DEFINE Goal == /\ Stays(t) /\ task'[t].pc \in ClosePCs \cup OtherPCs
                   /\ task'[t].cam = task[t].cam
                   /\ task'[t].pc \in ClosePCs => task[t].pc \in ClosePCs \/ Guard(t)
<1>0. task \in [Threads -> Task] /\ task[t] \in Task
  BY DEF TypeOK
<1>1. ASSUME NEW l \in ClosePCs \cup OtherPCs, Goto(t, l) \/ Return(t, l),
             task[t].pc \in CamPCs, l \in ClosePCs => task[t].pc \in ClosePCs
      PROVE  Goal
  BY <1>1, GotoStays, DisjointPCs
<1>2. AfterClose(task[t].op) \in OtherPCs
  BY <1>0, AfterTypes DEF Task
<1>3. ASSUME DiscardIntent(t) PROVE Goal
  BY <1>1, <1>3 DEF DiscardIntent, At, OtherPCs, ClosePCs, CamPCs
<1>4. ASSUME NotifyClose(t) \/ PreClose(t) \/ StopDriver(t) PROVE Goal
  BY <1>1, <1>4 DEF NotifyClose, PreClose, StopDriver, At, ClosePCs, CamPCs
<1>5. ASSUME JoinDriver(t) \/ StopPipeline(t) PROVE Goal
  BY <1>1, <1>5 DEF JoinDriver, StopPipeline, At, ClosePCs, CamPCs
<1>6. ASSUME JoinRaises(t) \/ Remove(t) PROVE Goal
  BY <1>1, <1>2, <1>6, DisjointPCs DEF JoinRaises, Remove, At, OtherPCs, ClosePCs, CamPCs
<1>7. ASSUME Guard(t) PROVE Goal
  <2>1. task[t].pc \in CamPCs /\ task[t].cam \in Cams
    BY <1>7 DEF Guard, At, TypeOK, CamPCs
  <2> DEFINE r == [task[t] EXCEPT !.pc = "notify_close", !.drv = cameras[task[t].cam]]
  <2>2. r \in Task /\ r.pc = "notify_close" /\ r.cam = task[t].cam
    BY <1>0, <2>1 DEF Task, PCs, ClosePCs, TypeOK
  <2>3. ASSUME SetTask(t, r) PROVE Goal
    BY <1>0, <1>7, <2>1, <2>2, <2>3, SetTaskEffect DEF Stays, ClosePCs
  <2>4. ASSUME Goto(t, AfterClose(task[t].op)) PROVE Goal
    BY <1>1, <1>2, <2>1, <2>4, DisjointPCs
  <2> QED BY <1>7, <2>3, <2>4 DEF Guard
<1> QED BY <1>3, <1>4, <1>5, <1>6, <1>7 DEF Closing

-----------------------------------------------------------------------------
(* Type correctness.  The driver a thread starts must be one it opened, so *)
(* that its camera is known: this is where StartedOnce is needed.          *)

LEMMA AnyControl ==
  ASSUME TypeOK, NEW t \in Threads, Event(t) \/ Step(t)
  PROVE  Stays(t)
BY EventControl, HandlingControl, OpeningControl, ClosingControl DEF Step

\* The variables other than task.
DataOK ==
  /\ viewers \subseteq Viewers
  /\ available \subseteq Cams
  /\ cameras \in [Cams -> Drivers \cup {NoDriver}]
  /\ closing \subseteq Cams /\ auto_reopen \subseteq Cams
  /\ pending_modes \subseteq Cams /\ pipelines \subseteq Cams
  /\ told \subseteq Cams /\ streams \subseteq Cams /\ busy \subseteq Cams
  /\ op_lock \in [Cams -> Threads \cup {NoThread}]
  /\ driver \in [Drivers -> [state : DriverStates, cam : Cams \cup {NoCam}]]
  /\ \A d \in Drivers : driver[d].state # "dead" => driver[d].cam \in Cams

LEMMA EventData ==
  ASSUME TypeOK, NEW t \in Threads, Event(t)
  PROVE  DataOK'
<1> USE DEF TypeOK, DataOK, registry, plugins
<1>1. ASSUME NEW v \in Viewers, Connect(t, v) \/ Disconnect(t, v) PROVE DataOK'
  BY <1>1 DEF Connect, Disconnect
<1>2. ASSUME NEW c \in Cams, NEW op \in Ops, CamRequest(t, op, c) PROVE DataOK'
  BY <1>2 DEF CamRequest
<1>3. ASSUME NEW c \in Cams, PluginIdle(t, c) PROVE DataOK'
  BY <1>3 DEF PluginIdle
<1>4. ASSUME CloseAllRequest(t) \/ ScanRequest(t) PROVE DataOK'
  BY <1>4 DEF CloseAllRequest, ScanRequest
<1>5. ASSUME NEW d \in Drivers, Unplug(t, d) PROVE DataOK'
  BY <1>5 DEF Unplug, Ended, DriverStates
<1> QED BY <1>1, <1>2, <1>3, <1>4, <1>5 DEF Event

LEMMA HandlingData ==
  ASSUME TypeOK, NEW t \in Threads, Handling(t)
  PROVE  DataOK'
<1> USE DEF TypeOK, DataOK, registry, plugins
<1>1. ASSUME AcquireLock(t) \/ LockTimeout(t) \/ Release(t) PROVE DataOK'
  BY <1>1 DEF AcquireLock, LockTimeout, Release
<1>2. ASSUME SetMode(t) PROVE DataOK'
  BY <1>2 DEF SetMode, At, CamPCs
<1>3. ASSUME SnapshotOpen(t) \/ ClearIntents(t) \/ Sweep(t) \/ ListOpen(t)
      PROVE  DataOK'
  BY <1>3 DEF SnapshotOpen, ClearIntents, Sweep, ListOpen
<1>4. ASSUME CollectBusy(t) \/ NextClose(t) \/ CheckIdle(t) \/ CheckBusy(t) \/ RecheckViewers(t) PROVE DataOK'
  BY <1>4 DEF CollectBusy, NextClose, CheckIdle, CheckBusy, RecheckViewers
<1>5. ASSUME SnapshotIntents(t) \/ NextOpen(t) \/ Scan(t) PROVE DataOK'
  BY <1>5 DEF SnapshotIntents, NextOpen, Scan
<1>6. ASSUME PublishScan(t) PROVE DataOK'
  BY <1>6 DEF PublishScan, Task
<1> QED BY <1>1, <1>2, <1>3, <1>4, <1>5, <1>6 DEF Handling

LEMMA OpeningData ==
  ASSUME TypeOK, StartedOnce, NEW t \in Threads, Opening(t)
  PROVE  DataOK'
<1> USE DEF TypeOK, DataOK, registry, plugins
<1>0. task[t].cam \in Cams /\ task[t] \in Task
  BY DEF Opening, CheckOpen, Lookup, OpenDevice, OpenDeviceFails, Insert, StartPipeline,
         StartDriver, AddIntent, NotifyOpen, AddStream, At, CamPCs, OpenPCs
<1>1. ASSUME CheckOpen(t) \/ Lookup(t) \/ OpenDeviceFails(t) PROVE DataOK'
  BY <1>1 DEF CheckOpen, Lookup, OpenDeviceFails
<1>2. ASSUME OpenDevice(t) PROVE DataOK'
  <2> DEFINE r == [state |-> "opened", cam |-> task[t].cam]
  <2>1. r \in [state : DriverStates, cam : Cams \cup {NoCam}] /\ r.cam \in Cams
    BY <1>0 DEF DriverStates
  <2>2. driver' = [driver EXCEPT ![NewDriver] = r]
    BY <1>2 DEF OpenDevice
  <2>3. UNCHANGED <<viewers, available, cameras, closing, auto_reopen, pending_modes,
                    pipelines, told, streams, busy, op_lock>>
    BY <1>2 DEF OpenDevice
  <2> HIDE DEF r
  <2> QED BY <2>1, <2>2, <2>3
<1>3. ASSUME Insert(t) PROVE DataOK'
  BY <1>0, <1>3 DEF Insert, Task
<1>4. ASSUME StartPipeline(t) \/ AddIntent(t) \/ NotifyOpen(t) \/ AddStream(t) PROVE DataOK'
  BY <1>0, <1>4 DEF StartPipeline, AddIntent, NotifyOpen, AddStream
<1>5. ASSUME StartDriver(t) PROVE DataOK'
  <2>1. task[t].drv \in Drivers /\ driver[task[t].drv].state = "opened"
    BY <1>5 DEF StartDriver, At, StartedOnce, Preparing
  <2> QED BY <1>5, <2>1 DEF StartDriver, DriverStates
<1> QED BY <1>1, <1>2, <1>3, <1>4, <1>5 DEF Opening

LEMMA ClosingData ==
  ASSUME TypeOK, NEW t \in Threads, Closing(t)
  PROVE  DataOK'
<1> USE DEF TypeOK, DataOK, registry, plugins
<1>1. ASSUME DiscardIntent(t) \/ Guard(t) PROVE DataOK'
  BY <1>1 DEF DiscardIntent, Guard, Open
<1>2. ASSUME NotifyClose(t) \/ PreClose(t) \/ JoinDriver(t) \/ JoinRaises(t) PROVE DataOK'
  BY <1>2 DEF NotifyClose, PreClose, JoinDriver, JoinRaises
<1>3. ASSUME StopDriver(t) PROVE DataOK'
  BY <1>3 DEF StopDriver, DriverStates
<1>4. ASSUME StopPipeline(t) \/ Remove(t) PROVE DataOK'
  BY <1>4 DEF StopPipeline, Remove
<1> QED BY <1>1, <1>2, <1>3, <1>4 DEF Closing

LEMMA TypeStep ==
  ASSUME TypeOK, StartedOnce, [Next]_vars
  PROVE  TypeOK'
<1>1. ASSUME NEW t \in Threads, Event(t) \/ Step(t) PROVE TypeOK'
  <2>1. DataOK'
    BY <1>1, EventData, HandlingData, OpeningData, ClosingData DEF Step
  <2>2. /\ task' \in [Threads -> Task]
        /\ \A u \in Threads : task'[u].pc \in CamPCs => task'[u].cam \in Cams
    BY <1>1, AnyControl, StaysType
  <2> QED BY <2>1, <2>2 DEF DataOK, TypeOK
<1>2. ASSUME NEW c \in Cams, Record(c) PROVE TypeOK'
  BY <1>2 DEF Record, TypeOK, registry
<1>3. ASSUME NEW d \in Drivers, Driving(d) PROVE TypeOK'
  BY <1>3 DEF Driving, DriverRuns, DriverEnds, TypeOK, registry, plugins, DriverStates,
              Ended
<1>4. CASE UNCHANGED vars
  BY <1>4 DEF vars, registry, plugins, TypeOK
<1> QED BY <1>1, <1>2, <1>3, <1>4 DEF Next

-----------------------------------------------------------------------------
(* A driver is started once.  A new driver object is one nobody refers to, *)
(* and only the thread that opened it takes it out of the opened state.    *)

\* If t neither starts preparing nor touches an opened driver, nothing changes.
LEMMA FrameStartedOnce ==
  ASSUME TypeOK, StartedOnce, NEW t \in Threads, OnlyTask(t),
         Preparing(t)' => Preparing(t) /\ task'[t].drv = task[t].drv,
         \A d \in Drivers : driver[d].state = "opened" => driver'[d].state = "opened"
  PROVE  StartedOnce'
<1>1. \A u \in Threads : Preparing(u)' => Preparing(u) /\ task'[u].drv = task[u].drv
  BY DEF Preparing, OnlyTask
<1> QED BY <1>1 DEF StartedOnce

LEMMA StartedOnceStep ==
  ASSUME TypeOK, StartedOnce, [Next]_vars
  PROVE  StartedOnce'
<1> DEFINE Kept == \A d \in Drivers : driver[d].state = "opened" => driver'[d].state = "opened"
<1>1. ASSUME NEW t \in Threads, Event(t) PROVE StartedOnce'
  <2>1. Kept
    BY <1>1 DEF Event, Connect, Disconnect, CamRequest, PluginIdle, CloseAllRequest,
                ScanRequest, Unplug, TypeOK
  <2> QED BY <1>1, <2>1, EventControl, FrameStartedOnce DEF Stays, Preparing, OtherPCs
<1>2. ASSUME NEW t \in Threads, Handling(t) PROVE StartedOnce'
  <2>1. Kept
    BY <1>2 DEF Handling, AcquireLock, LockTimeout, Release, SetMode, SnapshotOpen,
       ClearIntents, Sweep, ListOpen, CollectBusy, NextClose, CheckIdle, CheckBusy,
       RecheckViewers,
       SnapshotIntents, NextOpen, Scan, PublishScan
  <2> QED BY <1>2, <2>1, HandlingControl, FrameStartedOnce DEF Stays, Preparing, OtherPCs
<1>3. ASSUME NEW t \in Threads, Closing(t) PROVE StartedOnce'
  <2>1. Kept
    BY <1>3 DEF Closing, DiscardIntent, Guard, NotifyClose, PreClose, StopDriver,
       JoinDriver, JoinRaises, StopPipeline, Remove, TypeOK
  <2> QED BY <1>3, <2>1, ClosingControl, FrameStartedOnce
          DEF Stays, Preparing, OtherPCs, ClosePCs
<1>4. ASSUME NEW t \in Threads, Opening(t), ~OpenDevice(t), ~StartDriver(t)
      PROVE  StartedOnce'
  <2>1. Kept
    BY <1>4 DEF Opening, CheckOpen, Lookup, OpenDeviceFails, Insert, StartPipeline,
       AddIntent, NotifyOpen, AddStream
  <2> QED BY <1>4, <2>1, OpeningControl, FrameStartedOnce DEF Stays
<1>5. ASSUME NEW t \in Threads, OpenDevice(t) PROVE StartedOnce'
  <2>1. NewDriver \in Drivers /\ \A u \in Threads : task[u].drv # NewDriver
    BY <1>5 DEF OpenDevice, NewDriver, Unused
  <2> DEFINE r == [task[t] EXCEPT !.pc = "insert", !.drv = NewDriver]
  <2>2. r \in Task /\ r.drv = NewDriver
    BY <2>1 DEF TypeOK, Task, PCs, OpenPCs
  <2>3. OnlyTask(t) /\ task'[t].drv = NewDriver
    BY <1>5, <2>2, SetTaskEffect DEF OpenDevice, TypeOK
  <2>4. /\ driver'[NewDriver].state = "opened"
        /\ \A d \in Drivers \ {NewDriver} : driver'[d] = driver[d]
    BY <1>5, <2>1 DEF OpenDevice, TypeOK
  <2>5. \A u \in Threads \ {t} : Preparing(u)' => Preparing(u) /\ task'[u].drv = task[u].drv
    BY <2>3 DEF Preparing, OnlyTask
  <2>6. \A u \in Threads \ {t} : Preparing(u)' => task'[u].drv # NewDriver
    BY <2>1, <2>5
  <2> HIDE DEF r
  <2> QED BY <2>1, <2>3, <2>4, <2>5, <2>6 DEF StartedOnce
<1>6. ASSUME NEW t \in Threads, StartDriver(t) PROVE StartedOnce'
  <2>1. Preparing(t)
    BY <1>6 DEF StartDriver, At, Preparing
  <2>2. OnlyTask(t) /\ ~Preparing(t)'
    BY <1>6, ReturnEffect DEF StartDriver, Preparing, TypeOK, PCs, OpenPCs
  <2>3. \A u \in Threads \ {t} : Preparing(u)' => Preparing(u) /\ task'[u].drv = task[u].drv
    BY <2>2 DEF Preparing, OnlyTask
  <2>4. \A u \in Threads \ {t} : Preparing(u) => task[u].drv # task[t].drv
    BY <2>1 DEF StartedOnce
  <2>5. \A d \in Drivers \ {task[t].drv} : driver'[d] = driver[d]
    BY <1>6 DEF StartDriver, TypeOK
  <2> QED BY <2>2, <2>3, <2>4, <2>5 DEF StartedOnce
<1>7. CASE UNCHANGED task /\ Kept
  BY <1>7 DEF StartedOnce, Preparing
<1>8. ASSUME NEW d \in Drivers, Driving(d) PROVE UNCHANGED task /\ Kept
  BY <1>8 DEF Driving, DriverRuns, DriverEnds, TypeOK
<1>9. ASSUME NEW c \in Cams, Record(c) PROVE UNCHANGED task /\ Kept
  BY <1>9 DEF Record
<1>10. CASE UNCHANGED vars
  BY <1>7, <1>10 DEF vars
<1> QED BY <1>1, <1>2, <1>3, <1>4, <1>5, <1>6, <1>7, <1>8, <1>9, <1>10 DEF Next, Step

-----------------------------------------------------------------------------
(* Closing.  NoDoubleClose needs to know that a closer marks its camera.   *)

CloserMarks == \A t \in Threads : task[t].pc \in ClosePCs => task[t].cam \in closing

CloseInv == CloserMarks /\ NoDoubleClose /\ ClosingIsOpen

\* Thread t does not become a closer and keeps the camera it closes.
Keeps(t) ==
  /\ OnlyTask(t)
  /\ task'[t].pc \in ClosePCs => task[t].pc \in ClosePCs /\ task'[t].cam = task[t].cam

LEMMA KeepsCloseInv ==
  ASSUME CloseInv, NEW t \in Threads, Keeps(t), closing' = closing,
         \A c \in closing : cameras'[c] = cameras[c]
  PROVE  CloseInv'
<1>1. CloserMarks'
  BY DEF CloseInv, CloserMarks, Keeps, OnlyTask
<1>2. NoDoubleClose'
  BY DEF CloseInv, NoDoubleClose, ClosingNow, Keeps, OnlyTask
<1>3. ClosingIsOpen'
  BY DEF CloseInv, ClosingIsOpen, Open
<1> QED BY <1>1, <1>2, <1>3 DEF CloseInv

LEMMA EventOrHandlingKeeps ==
  ASSUME TypeOK, NEW t \in Threads, Event(t) \/ Handling(t)
  PROVE  Keeps(t) /\ UNCHANGED <<cameras, closing>>
<1>1. Keeps(t)
  BY EventControl, HandlingControl, DisjointPCs DEF Stays, Keeps, OpenPCs
<1>2. CASE Event(t)
  BY <1>1, <1>2 DEF Event, Connect, Disconnect, CamRequest, PluginIdle,
     CloseAllRequest, ScanRequest, Unplug, registry
<1>3. CASE Handling(t)
  BY <1>1, <1>3 DEF Handling, AcquireLock, LockTimeout, Release, SetMode, SnapshotOpen,
     ClearIntents, Sweep, ListOpen, CollectBusy, NextClose, CheckIdle, CheckBusy,
     RecheckViewers,
     SnapshotIntents, NextOpen, Scan, PublishScan, registry
<1> QED BY <1>2, <1>3

\* Only Insert touches the table.
LEMMA OpeningKeeps ==
  ASSUME TypeOK, NEW t \in Threads, Opening(t)
  PROVE  Keeps(t) /\ UNCHANGED closing /\ (UNCHANGED cameras \/ Insert(t))
<1>1. Keeps(t)
  BY OpeningControl, DisjointPCs DEF Stays, Keeps
<1>2. UNCHANGED closing /\ (UNCHANGED cameras \/ Insert(t))
  BY DEF Opening, CheckOpen, Lookup, OpenDevice, OpenDeviceFails, StartPipeline,
         StartDriver, AddIntent, NotifyOpen, AddStream, Insert, registry
<1> QED BY <1>1, <1>2

LEMMA ClosingKeeps ==
  ASSUME TypeOK, NEW t \in Threads, Closing(t), ~Guard(t), ~Remove(t)
  PROVE  Keeps(t) /\ UNCHANGED <<cameras, closing>>
<1>1. Keeps(t)
  BY ClosingControl DEF Stays, Keeps
<1>2. UNCHANGED <<cameras, closing>>
  BY DEF Closing, DiscardIntent, NotifyClose, PreClose, StopDriver, JoinDriver,
         JoinRaises, StopPipeline, registry
<1> QED BY <1>1, <1>2

\* The guard admits a closer only if the camera is not marked, so no thread is
\* closing it yet.
LEMMA GuardStep ==
  ASSUME TypeOK, CloseInv, NEW t \in Threads, Guard(t)
  PROVE  CloseInv'
<1> DEFINE c == task[t].cam
           r == [task[t] EXCEPT !.pc = "notify_close", !.drv = cameras[c]]
<1>1. UNCHANGED cameras /\ OnlyTask(t) /\ task'[t].cam = c
  BY ClosingControl DEF Guard, Stays, Closing
<1>2. CASE Goto(t, AfterClose(task[t].op)) /\ UNCHANGED closing
  <2>1. task[t] \in Task /\ AfterClose(task[t].op) \in OtherPCs
    BY AfterTypes DEF TypeOK, Task
  <2>2. Keeps(t)
    BY <1>1, <1>2, <2>1, GotoEffect, DisjointPCs DEF Keeps, TypeOK
  <2> QED BY <1>1, <1>2, <2>2, KeepsCloseInv
<1>3. CASE c \notin closing /\ c \in Open /\ closing' = closing \cup {c} /\ SetTask(t, r)
  <2>1. CloserMarks'
    BY <1>1, <1>3 DEF CloseInv, CloserMarks, OnlyTask
  <2>2. \A u \in Threads \ {t} : ~ClosingNow(u, c)
    BY <1>3 DEF CloseInv, CloserMarks, ClosingNow
  <2>3. \A u \in Threads \ {t} : \A e \in Cams : ClosingNow(u, e)' <=> ClosingNow(u, e)
    BY <1>1 DEF ClosingNow, OnlyTask
  <2>4. \A e \in Cams : ClosingNow(t, e)' => e = c
    BY <1>1 DEF ClosingNow
  <2>5. NoDoubleClose'
    BY <2>2, <2>3, <2>4 DEF CloseInv, NoDoubleClose
  <2>6. ClosingIsOpen'
    BY <1>1, <1>3 DEF CloseInv, ClosingIsOpen, Open
  <2> QED BY <2>1, <2>5, <2>6 DEF CloseInv
<1> QED BY <1>2, <1>3 DEF Guard

\* The only closer of the camera unmarks it and leaves.
LEMMA RemoveStep ==
  ASSUME TypeOK, CloseInv, NEW t \in Threads, Remove(t)
  PROVE  CloseInv'
<1> DEFINE c == task[t].cam
<1>1. AfterClose(task[t].op) \in OtherPCs /\ task[t] \in Task
  BY AfterTypes DEF TypeOK, Task
<1>2. OnlyTask(t) /\ task'[t].pc \notin ClosePCs
  BY <1>1, ReturnEffect, DisjointPCs DEF Remove, TypeOK
<1>3. ClosingNow(t, c)
  BY DEF Remove, At, ClosingNow, ClosePCs
<1>4. c \in Cams
  BY DEF Remove, At, TypeOK, CamPCs, ClosePCs
<1>5. \A u \in Threads \ {t} : task[u].pc \in ClosePCs => task[u].cam # c
  BY <1>3, <1>4 DEF CloseInv, NoDoubleClose, ClosingNow
<1>6. closing' = closing \ {c} /\ cameras' = [cameras EXCEPT ![c] = NoDriver]
  BY DEF Remove
<1>7. CloserMarks'
  BY <1>2, <1>5, <1>6 DEF CloseInv, CloserMarks, OnlyTask
<1>8. NoDoubleClose'
  BY <1>2 DEF CloseInv, NoDoubleClose, ClosingNow, OnlyTask
<1>9. ClosingIsOpen'
  BY <1>6 DEF CloseInv, ClosingIsOpen, Open, TypeOK
<1> QED BY <1>7, <1>8, <1>9 DEF CloseInv

\* Insert puts a driver, which is not NoDriver, in the table.
LEMMA InsertOpens ==
  ASSUME TypeOK, StartedOnce, NEW t \in Threads, Insert(t)
  PROVE  /\ task[t].drv \in Drivers /\ task[t].cam \in Cams
         /\ Open' = Open \cup {task[t].cam}
<1>1. task[t].drv \in Drivers /\ task[t].cam \in Cams
  BY DEF Insert, At, StartedOnce, Preparing, TypeOK, CamPCs, OpenPCs
<1>2. cameras' = [cameras EXCEPT ![task[t].cam] = task[t].drv]
  BY DEF Insert
<1>3. task[t].drv # NoDriver
  BY <1>1, CameraAssumption
<1> QED BY <1>1, <1>2, <1>3 DEF Open, TypeOK

LEMMA CloseStep ==
  ASSUME TypeOK, StartedOnce, CloseInv, [Next]_vars
  PROVE  CloseInv'
<1>1. ASSUME NEW t \in Threads, Event(t) \/ Handling(t) PROVE CloseInv'
  BY <1>1, EventOrHandlingKeeps, KeepsCloseInv
<1>2. ASSUME NEW t \in Threads, Opening(t) PROVE CloseInv'
  <2>1. Keeps(t) /\ UNCHANGED closing
    BY <1>2, OpeningKeeps
  <2>2. CASE UNCHANGED cameras
    BY <2>1, <2>2, KeepsCloseInv
  <2>3. CASE Insert(t)
    <3>1. CloserMarks' /\ NoDoubleClose'
      BY <2>1 DEF CloseInv, CloserMarks, NoDoubleClose, ClosingNow, Keeps, OnlyTask
    <3>2. ClosingIsOpen'
      BY <2>1, <2>3, InsertOpens DEF CloseInv, ClosingIsOpen
    <3> QED BY <3>1, <3>2 DEF CloseInv
  <2> QED BY <1>2, <2>2, <2>3, OpeningKeeps
<1>3. ASSUME NEW t \in Threads, Closing(t) PROVE CloseInv'
  BY <1>3, ClosingKeeps, KeepsCloseInv, GuardStep, RemoveStep
<1>4. CASE UNCHANGED <<cameras, closing, task>>
  BY <1>4 DEF CloseInv, CloserMarks, NoDoubleClose, ClosingIsOpen, ClosingNow, Open
<1>5. ASSUME NEW c \in Cams, Record(c) PROVE UNCHANGED <<cameras, closing, task>>
  BY <1>5 DEF Record, registry
<1>6. ASSUME NEW d \in Drivers, Driving(d) PROVE UNCHANGED <<cameras, closing, task>>
  BY <1>6 DEF Driving, DriverRuns, DriverEnds, registry
<1>7. CASE UNCHANGED vars
  BY <1>4, <1>7 DEF vars, registry
<1> QED BY <1>1, <1>2, <1>3, <1>4, <1>5, <1>6, <1>7 DEF Next, Step

-----------------------------------------------------------------------------
(* The theorems.                                                           *)

RegistryInv == TypeOK /\ StartedOnce /\ CloseInv

LEMMA InitInv == Init => RegistryInv
<1> SUFFICES ASSUME Init PROVE RegistryInv
  OBVIOUS
<1>1. task = [t \in Threads |-> IdleTask] /\ closing = {}
  BY DEF Init
<1>2. \A t \in Threads : task[t].pc = "idle"
  BY <1>1 DEF IdleTask
<1>3. StartedOnce /\ CloseInv
  BY <1>1, <1>2 DEF StartedOnce, Preparing, CloseInv, CloserMarks, NoDoubleClose,
                    ClosingIsOpen, ClosingNow, ClosePCs
<1>4. PICK f \in [InitOpen -> Drivers] :
        /\ cameras = [c \in Cams |-> IF c \in InitOpen THEN f[c] ELSE NoDriver]
        /\ driver = [d \in Drivers |->
             IF \E c \in InitOpen : f[c] = d
             THEN [state |-> "running", cam |-> CHOOSE c \in InitOpen : f[c] = d]
             ELSE Ended]
  BY DEF Init
<1>5. InitOpen \subseteq Cams
  BY CameraAssumption
<1>6. \A d \in Drivers : /\ driver[d] \in [state : DriverStates, cam : Cams \cup {NoCam}]
                         /\ driver[d].state # "dead" => driver[d].cam \in Cams
  <2> SUFFICES ASSUME NEW d \in Drivers
               PROVE  /\ driver[d] \in [state : DriverStates, cam : Cams \cup {NoCam}]
                      /\ driver[d].state # "dead" => driver[d].cam \in Cams
    OBVIOUS
  <2>1. CASE \E c \in InitOpen : f[c] = d
    <3>1. (CHOOSE c \in InitOpen : f[c] = d) \in Cams
      BY <1>5, <2>1
    <3> QED BY <1>4, <2>1, <3>1 DEF DriverStates
  <2>2. CASE ~\E c \in InitOpen : f[c] = d
    BY <1>4, <2>2 DEF Ended, DriverStates
  <2> QED BY <2>1, <2>2
<1>7. task \in [Threads -> Task]
  BY <1>1, IdleTaskType
<1>8. \A t \in Threads : task[t].pc \notin CamPCs
  BY <1>2 DEF CamPCs, OpenPCs, ClosePCs
<1>9. cameras \in [Cams -> Drivers \cup {NoDriver}]
  BY <1>4
<1>10. driver \in [Drivers -> [state : DriverStates, cam : Cams \cup {NoCam}]]
  BY <1>4, <1>6
<1>11. TypeOK
  BY <1>5, <1>6, <1>7, <1>8, <1>9, <1>10 DEF Init, TypeOK
<1> QED BY <1>3, <1>11 DEF RegistryInv

LEMMA StepInv == RegistryInv /\ [Next]_vars => RegistryInv'
BY TypeStep, StartedOnceStep, CloseStep DEF RegistryInv

LEMMA AlwaysInv == Spec => []RegistryInv
BY InitInv, StepInv, PTL DEF Spec

\* Every variable keeps its type, and a task that works on a camera has one in
\* hand, for any number of cameras, viewers, threads and driver objects.
THEOREM TypeCorrect == Spec => []TypeOK
<1>1. RegistryInv => TypeOK
  BY DEF RegistryInv
<1> QED BY <1>1, AlwaysInv, PTL

\* The guard of _close_camera_internal admits one closer per camera at a time.
THEOREM OneCloser == Spec => []NoDoubleClose
<1>1. RegistryInv => NoDoubleClose
  BY DEF RegistryInv, CloseInv
<1> QED BY <1>1, AlwaysInv, PTL

\* A closing camera stays in the table until its closer removes it.
THEOREM ClosingStaysOpen == Spec => []ClosingIsOpen
<1>1. RegistryInv => ClosingIsOpen
  BY DEF RegistryInv, CloseInv
<1> QED BY <1>1, AlwaysInv, PTL

\* No driver thread is started twice, however many handlers open one camera.
THEOREM DriverStartedOnce == Spec => []StartedOnce
<1>1. RegistryInv => StartedOnce
  BY DEF RegistryInv
<1> QED BY <1>1, AlwaysInv, PTL

-----------------------------------------------------------------------------
(* The registry implements CameraLifecycle: Insert of a closed camera,     *)
(* Guard and Remove are its three steps, everything else is a stutter.     *)

LEMMA StutterStep ==
  ASSUME UNCHANGED <<cameras, closing>>
  PROVE  UNCHANGED phase
BY DEF phase, Open

\* Opening a camera that is already open replaces its driver, not its phase.
LEMMA InsertPhase ==
  ASSUME RegistryInv, NEW t \in Threads, Insert(t)
  PROVE  Lifecycle!LifecycleNext \/ UNCHANGED phase
<1> DEFINE c == task[t].cam
<1>1. c \in Cams /\ Open' = Open \cup {c} /\ closing' = closing
  BY InsertOpens DEF RegistryInv, Insert
<1>2. CASE c \in Open
  BY <1>1, <1>2 DEF phase
<1>3. CASE c \notin Open
  <2>1. c \notin closing
    BY <1>3 DEF RegistryInv, CloseInv, ClosingIsOpen
  <2>2. phase[c] = "closed" /\ phase' = [phase EXCEPT ![c] = "open"]
    BY <1>1, <1>3, <2>1 DEF phase
  <2> QED BY <1>1, <2>2 DEF Lifecycle!LifecycleNext, Lifecycle!Opened, Lifecycle!Become
<1> QED BY <1>2, <1>3

LEMMA GuardPhase ==
  ASSUME RegistryInv, NEW t \in Threads, Guard(t)
  PROVE  Lifecycle!LifecycleNext \/ UNCHANGED phase
<1> DEFINE c == task[t].cam
<1>1. UNCHANGED cameras /\ Open' = Open
  BY DEF Guard, Open
<1>2. CASE UNCHANGED closing
  BY <1>1, <1>2, StutterStep
<1>3. CASE c \notin closing /\ c \in Open /\ closing' = closing \cup {c}
  <2>1. c \in Cams
    BY <1>3 DEF Open
  <2>2. phase[c] = "open" /\ phase' = [phase EXCEPT ![c] = "closing"]
    BY <1>1, <1>3, <2>1 DEF phase
  <2> QED BY <2>1, <2>2 DEF Lifecycle!LifecycleNext, Lifecycle!CloseBegun, Lifecycle!Become
<1> QED BY <1>2, <1>3 DEF Guard

LEMMA RemovePhase ==
  ASSUME RegistryInv, NEW t \in Threads, Remove(t)
  PROVE  Lifecycle!LifecycleNext \/ UNCHANGED phase
<1> DEFINE c == task[t].cam
<1>1. c \in Cams /\ c \in closing
  BY DEF Remove, At, RegistryInv, TypeOK, CloseInv, CloserMarks, CamPCs, ClosePCs
<1>2. Open' = Open \ {c} /\ closing' = closing \ {c}
  BY DEF Remove, RegistryInv, TypeOK, Open
<1>3. phase[c] = "closing" /\ phase' = [phase EXCEPT ![c] = "closed"]
  BY <1>1, <1>2 DEF phase
<1> QED BY <1>1, <1>3 DEF Lifecycle!LifecycleNext, Lifecycle!Closed, Lifecycle!Become

LEMMA StepPhase == RegistryInv /\ [Next]_vars => [Lifecycle!LifecycleNext]_phase
<1> SUFFICES ASSUME RegistryInv, [Next]_vars
             PROVE  Lifecycle!LifecycleNext \/ UNCHANGED phase
  OBVIOUS
<1> DEFINE Goal == Lifecycle!LifecycleNext \/ UNCHANGED phase
<1>1. ASSUME NEW t \in Threads, Event(t) \/ Handling(t) PROVE Goal
  BY <1>1, EventOrHandlingKeeps, StutterStep DEF RegistryInv
<1>2. ASSUME NEW t \in Threads, Opening(t) PROVE Goal
  BY <1>2, OpeningKeeps, StutterStep, InsertPhase DEF RegistryInv
<1>3. ASSUME NEW t \in Threads, Closing(t) PROVE Goal
  BY <1>3, ClosingKeeps, StutterStep, GuardPhase, RemovePhase DEF RegistryInv
<1>4. ASSUME NEW c \in Cams, Record(c) PROVE Goal
  BY <1>4, StutterStep DEF Record, registry
<1>5. ASSUME NEW d \in Drivers, Driving(d) PROVE Goal
  BY <1>5, StutterStep DEF Driving, DriverRuns, DriverEnds, registry
<1>6. CASE UNCHANGED vars
  BY <1>6, StutterStep DEF vars, registry
<1> QED BY <1>1, <1>2, <1>3, <1>4, <1>5, <1>6 DEF Next, Step

\* Every behaviour of the registry, handlers and drivers is, camera by camera,
\* a behaviour of CameraLifecycle.
THEOREM RefinesLifecycle == Spec => ImplementsLifecycle
<1>1. Init => Lifecycle!LifecycleInit
  <2> SUFFICES ASSUME Init PROVE phase \in [Cams -> {"closed", "open"}]
    BY DEF Lifecycle!LifecycleInit
  <2>1. closing = {}
    BY DEF Init
  <2> QED BY <2>1 DEF phase
<1> QED BY <1>1, AlwaysInv, StepPhase, PTL DEF Spec, ImplementsLifecycle,
                                               Lifecycle!LifecycleSpec

-----------------------------------------------------------------------------
(* The handlers that take a camera's operation lock, on their own: a camera *)
(* has one handler at a time, and each statement of the handler leaves the  *)
(* tables in the state the next one expects.                                *)

\* The events whose handlers take the lock, and the scan, which opens nothing.
AdminEvents == {"open", "close", "native", "scan"}

ServedPCs == OpenPCs \cup ClosePCs \cup {"discard_intent", "guard", "set_mode", "release"}

\* The statements each handler is made of.
RolePCs(op) ==
  CASE op = "open"   -> OpenPCs \cup {"lock", "release"}
    [] op = "close"  -> ClosePCs \cup {"lock", "discard_intent", "guard", "release"}
    [] op = "native" -> ServedPCs \cup {"lock"}
    [] op = "scan"   -> {"scan", "publish_scan"}
    [] OTHER         -> {"idle"}

Roles == \A t \in Threads : /\ task[t].op \in AdminEvents \cup {"none"}
                            /\ task[t].pc \in RolePCs(task[t].op)

\* The thread that works on a camera is the one that holds its lock.
Exclusive ==
  /\ \A t \in Threads : task[t].pc \in ServedPCs =>
       task[t].cam \in Cams /\ op_lock[task[t].cam] = t
  /\ \A c \in Cams, t \in Threads : op_lock[c] = t =>
       task[t].pc \in ServedPCs /\ task[t].cam = c

\* How far the holder of the camera's lock has come.
Stage(c) == IF op_lock[c] = NoThread THEN "idle" ELSE task[op_lock[c]].pc

\* While an open camera is on its way up, and while it is on its way down.
Unstarted == {"start_pipeline", "start_driver"}
Untold    == Unstarted \cup {"add_intent", "notify_open"}
Heard     == ClosePCs \ {"notify_close"}

\* What the tables say of a camera at each stage.
Tables(c) ==
  LET l    == Stage(c)
      open == c \in Open
  IN
  /\ c \in closing <=> l \in ClosePCs
  /\ l \in {"lookup", "open_device", "insert"} => ~open
  /\ l \in ClosePCs \cup Untold \cup {"add_stream"} => open
  /\ c \in pipelines <=> open /\ l \notin {"start_pipeline", "remove"}
  /\ c \in auto_reopen <=> open /\ l \notin Unstarted \cup ClosePCs \cup {"add_intent", "guard"}
  /\ c \in told <=> open /\ l \notin Untold \cup Heard
  /\ c \in streams <=> open /\ l \notin Untold \cup {"add_stream"} \cup (Heard \ {"pre_close"})

\* The holder has the driver of the table in hand, which was started unless the holder
\* is about to start it; a close that is over has closed the camera.
InHand(c) ==
  /\ Stage(c) \in ClosePCs \cup Unstarted => task[op_lock[c]].drv = cameras[c]
  /\ c \in Open /\ Stage(c) \notin Unstarted => driver[cameras[c]].state # "opened"
  /\ Stage(c) = "release" /\ task[op_lock[c]].op = "close" => c \notin Open

SerialInv == Roles /\ Exclusive /\ \A c \in Cams : Tables(c) /\ InHand(c)

-----------------------------------------------------------------------------

\* Every table but one says of the camera what it said before.
SameCamera(e) ==
  /\ cameras'[e] = cameras[e]
  /\ e \in closing' <=> e \in closing
  /\ e \in pipelines' <=> e \in pipelines
  /\ e \in auto_reopen' <=> e \in auto_reopen
  /\ e \in told' <=> e \in told
  /\ e \in streams' <=> e \in streams

\* A driver object that becomes new was in nobody's table.
OnlyUnusedRenewed ==
  \A d \in Drivers : driver'[d].state = "opened" => driver[d].state = "opened" \/ d \in Unused

\* A camera no step touches, and whose lock is held by another thread or by none.
LEMMA Untouched ==
  ASSUME TypeOK, SerialInv, NEW t \in Threads, OnlyTask(t), NEW e \in Cams,
         op_lock[e] # t, op_lock'[e] = op_lock[e], SameCamera(e), OnlyUnusedRenewed
  PROVE  Tables(e)' /\ InHand(e)'
<1>1. op_lock[e] \in Threads \cup {NoThread} /\ NoThread \notin Threads
  BY CameraAssumption DEF TypeOK
<1>2. op_lock[e] # NoThread => task'[op_lock[e]] = task[op_lock[e]]
  BY <1>1 DEF OnlyTask
<1>3. Stage(e)' = Stage(e)
  BY <1>2 DEF Stage
<1>4. (e \in Open)' <=> e \in Open
  BY DEF Open, SameCamera
<1>5. Tables(e) /\ InHand(e)
  BY DEF SerialInv
<1>6. Tables(e)'
  BY <1>3, <1>4, <1>5 DEF Tables, SameCamera
<1>7. (Stage(e) \in ClosePCs \cup Unstarted => task[op_lock[e]].drv = cameras[e])'
  <2> SUFFICES ASSUME Stage(e) \in ClosePCs \cup Unstarted
               PROVE  task'[op_lock[e]].drv = cameras[e]
    BY <1>3 DEF SameCamera
  <2>1. op_lock[e] # NoThread
    BY DEF Stage, ClosePCs, Unstarted
  <2> QED BY <1>2, <1>5, <2>1 DEF InHand
<1>8. (e \in Open /\ Stage(e) \notin Unstarted => driver[cameras[e]].state # "opened")'
  <2> SUFFICES ASSUME e \in Open, Stage(e) \notin Unstarted
               PROVE  driver'[cameras[e]].state # "opened"
    BY <1>3, <1>4 DEF SameCamera
  <2>1. cameras[e] \in Drivers /\ cameras[e] \notin Unused
    BY DEF Open, TypeOK, Unused
  <2> QED BY <1>5, <2>1 DEF InHand, OnlyUnusedRenewed
<1>9. (Stage(e) = "release" /\ task[op_lock[e]].op = "close" => e \notin Open)'
  <2> SUFFICES ASSUME Stage(e) = "release", task'[op_lock[e]].op = "close"
               PROVE  e \notin Open
    BY <1>3, <1>4
  <2>1. op_lock[e] # NoThread
    BY DEF Stage
  <2> QED BY <1>2, <1>5, <2>1 DEF InHand
<1> QED BY <1>6, <1>7, <1>8, <1>9 DEF InHand

\* The holder of a lock goes from one statement of its handler to the next.
Serves(t, l) ==
  /\ OnlyTask(t) /\ op_lock' = op_lock
  /\ task'[t].pc = l /\ task'[t].op = task[t].op /\ task'[t].cam = task[t].cam

LEMMA ServedStep ==
  ASSUME TypeOK, SerialInv, NEW t \in Threads, NEW c \in Cams, task[t].cam = c,
         NEW l \in ServedPCs, Serves(t, l),
         task[t].pc \in ServedPCs, l \in RolePCs(task[t].op),
         OnlyUnusedRenewed, \A e \in Cams \ {c} : SameCamera(e),
         Stage(c)' = l => Tables(c)' /\ InHand(c)'
  PROVE  SerialInv'
<1>1. op_lock[c] = t /\ NoThread \notin Threads
  BY CameraAssumption DEF SerialInv, Exclusive
<1>2. Stage(c)' = l
  BY <1>1 DEF Stage, Serves
<1>3. Roles'
  BY DEF SerialInv, Roles, Serves, OnlyTask
<1>4. Exclusive'
  BY <1>1 DEF SerialInv, Exclusive, Serves, OnlyTask
<1>5. ASSUME NEW e \in Cams \ {c} PROVE Tables(e)' /\ InHand(e)'
  <2>1. op_lock[e] # t
    BY DEF SerialInv, Exclusive
  <2> QED BY <2>1, Untouched DEF Serves
<1>6. Tables(c)' /\ InHand(c)'
  BY <1>2
<1> QED BY <1>3, <1>4, <1>5, <1>6 DEF SerialInv

\* A step of a thread that has no lock and takes none.
LEMMA UnservedStep ==
  ASSUME TypeOK, SerialInv, NEW t \in Threads, OnlyTask(t), op_lock' = op_lock,
         task[t].pc \notin ServedPCs, task'[t].pc \notin ServedPCs,
         task'[t].op \in AdminEvents \cup {"none"}, task'[t].pc \in RolePCs(task'[t].op),
         OnlyUnusedRenewed, \A e \in Cams : SameCamera(e)
  PROVE  SerialInv'
<1>1. Roles'
  BY DEF SerialInv, Roles, OnlyTask
<1>2. Exclusive'
  BY DEF SerialInv, Exclusive, OnlyTask
<1>3. \A e \in Cams : Tables(e)' /\ InHand(e)'
  BY Untouched DEF SerialInv, Exclusive
<1> QED BY <1>1, <1>2, <1>3 DEF SerialInv

-----------------------------------------------------------------------------

LEMMA GotoServes ==
  ASSUME TypeOK, NEW t \in Threads, NEW l \in PCs, op_lock' = op_lock,
         Goto(t, l) \/ Return(t, l)
  PROVE  Serves(t, l) /\ (Goto(t, l) => task'[t].drv = task[t].drv)
<1>1. task \in [Threads -> Task] /\ task[t] \in Task
  BY DEF TypeOK
<1>2. ASSUME NEW r \in Task, SetTask(t, r) PROVE OnlyTask(t) /\ task'[t] = r
  BY <1>1, <1>2, SetTaskEffect
<1>3. CASE Goto(t, l)
  <2> DEFINE r == [task[t] EXCEPT !.pc = l]
  <2>1. r \in Task /\ r.pc = l /\ r.cam = task[t].cam /\ r.drv = task[t].drv
                   /\ r.op = task[t].op
    BY <1>1 DEF Task
  <2> QED BY <1>2, <1>3, <2>1 DEF Goto, Serves
<1>4. CASE Return(t, l) /\ ~Goto(t, l)
  <2> DEFINE r == [task[t] EXCEPT !.pc = l, !.drv = NoDriver]
  <2>1. r \in Task /\ r.pc = l /\ r.cam = task[t].cam /\ r.op = task[t].op
    BY <1>1 DEF Task
  <2> QED BY <1>2, <1>4, <2>1 DEF Return, Serves
<1> QED BY <1>3, <1>4

\* What the holder of a camera's lock knows of it.
Holding(t, c) ==
  /\ c \in Cams /\ task[t].cam = c /\ op_lock[c] = t /\ Stage(c) = task[t].pc
  /\ Tables(c) /\ InHand(c) /\ task[t].pc \in RolePCs(task[t].op)

LEMMA HolderKnows ==
  ASSUME SerialInv, NEW t \in Threads, task[t].pc \in ServedPCs
  PROVE  Holding(t, task[t].cam)
BY CameraAssumption DEF SerialInv, Exclusive, Roles, Stage, Holding

\* Where a handler returns to when a camera is open or closed.
LEMMA AfterServed ==
  ASSUME NEW op \in AdminEvents
  PROVE  /\ AfterOpen(op) = "release"
         /\ AfterClose(op) = IF op = "native" THEN "set_mode" ELSE "release"
BY DEF AfterOpen, AfterClose, AdminEvents

LEMMA OpStays ==
  ASSUME SerialInv, NEW t \in Threads, task[t].pc \in ServedPCs
  PROVE  /\ task[t].op \in {"open", "close", "native"}
         /\ task[t].pc \in OpenPCs => task[t].op # "close"
         /\ task[t].pc \in ClosePCs \cup {"discard_intent", "guard"} => task[t].op # "open"
         /\ task[t].pc = "set_mode" => task[t].op = "native"
BY DEF SerialInv, Roles, RolePCs, ServedPCs, OpenPCs, ClosePCs, AdminEvents

-----------------------------------------------------------------------------
(* The steps of a handler that has the lock.  One lemma per step: where it  *)
(* leaves the thread, and what the tables say of the camera there.          *)

LEMMA InsertSerial ==
  ASSUME TypeOK, StartedOnce, SerialInv, NEW t \in Threads, Insert(t)
  PROVE  SerialInv'
<1>1. task[t].pc = "insert" /\ "insert" \in ServedPCs
  BY DEF Insert, At, ServedPCs, OpenPCs, ClosePCs
<1>2. PICK c \in Cams : task[t].cam = c /\ Holding(t, c)
  BY <1>1, HolderKnows DEF Holding
<1>3. task[t].op \in {"open", "native"}
  BY <1>1, OpStays DEF OpenPCs, ClosePCs
<1>4. Serves(t, "start_pipeline") /\ task'[t].drv = task[t].drv
  BY <1>3, GotoServes, AfterServed DEF Insert, PCs, OpenPCs, ClosePCs, OtherPCs, AdminEvents
<1>5. "start_pipeline" \in ServedPCs /\ "start_pipeline" \in RolePCs(task[t].op)
  BY <1>3 DEF ServedPCs, RolePCs, OpenPCs, ClosePCs
<1>6. OnlyUnusedRenewed
  BY <1>2 DEF Insert, OnlyUnusedRenewed, TypeOK, DriverStates
<1>7. \A e \in Cams \ {c} : SameCamera(e)
  BY <1>2 DEF Insert, SameCamera, registry, plugins, TypeOK
<1>8. (c \in Open)'
  BY <1>2, InsertOpens
<1>9. ASSUME Stage(c)' = "start_pipeline" PROVE Tables(c)'
  BY <1>1, <1>2, <1>8, <1>9 DEF Insert, registry, plugins, Holding, Tables, Untold,
                                Unstarted, Heard, ClosePCs, OpenPCs
<1>10. ASSUME Stage(c)' = "start_pipeline" PROVE InHand(c)'
  BY <1>1, <1>2, <1>3, <1>4, <1>8, <1>10
  DEF Insert, registry, Serves, Holding, InHand, Tables, Unstarted, ClosePCs, OpenPCs, Open,
      TypeOK
<1> QED BY <1>1, <1>2, <1>4, <1>5, <1>6, <1>7, <1>9, <1>10, ServedStep

LEMMA StartPipelineSerial ==
  ASSUME TypeOK, SerialInv, NEW t \in Threads, StartPipeline(t)
  PROVE  SerialInv'
<1>1. task[t].pc = "start_pipeline" /\ "start_pipeline" \in ServedPCs
  BY DEF StartPipeline, At, ServedPCs, OpenPCs, ClosePCs
<1>2. PICK c \in Cams : task[t].cam = c /\ Holding(t, c)
  BY <1>1, HolderKnows DEF Holding
<1>3. task[t].op \in {"open", "native"}
  BY <1>1, OpStays DEF OpenPCs, ClosePCs
<1>4. Serves(t, "start_driver") /\ task'[t].drv = task[t].drv
  BY <1>3, GotoServes, AfterServed DEF StartPipeline, PCs, OpenPCs, ClosePCs, OtherPCs,
                                       AdminEvents
<1>5. "start_driver" \in ServedPCs /\ "start_driver" \in RolePCs(task[t].op)
  BY <1>3 DEF ServedPCs, RolePCs, OpenPCs, ClosePCs
<1>6. OnlyUnusedRenewed
  BY <1>2 DEF StartPipeline, OnlyUnusedRenewed, TypeOK, DriverStates
<1>7. \A e \in Cams \ {c} : SameCamera(e)
  BY <1>2 DEF StartPipeline, SameCamera, registry, plugins, TypeOK
<1>8. (c \in Open)' <=> c \in Open
  BY <1>2 DEF StartPipeline, Open, registry, TypeOK
<1>9. ASSUME Stage(c)' = "start_driver" PROVE Tables(c)'
  BY <1>1, <1>2, <1>8, <1>9 DEF StartPipeline, registry, plugins, Holding, Tables, Untold,
                                Unstarted, Heard, ClosePCs, OpenPCs
<1>10. ASSUME Stage(c)' = "start_driver" PROVE InHand(c)'
  BY <1>1, <1>2, <1>3, <1>4, <1>8, <1>10
  DEF StartPipeline, registry, Serves, Holding, InHand, Tables, Unstarted, ClosePCs, OpenPCs,
      Open, TypeOK
<1> QED BY <1>1, <1>2, <1>4, <1>5, <1>6, <1>7, <1>9, <1>10, ServedStep

LEMMA StartDriverSerial ==
  ASSUME TypeOK, SerialInv, NEW t \in Threads, StartDriver(t)
  PROVE  SerialInv'
<1>1. task[t].pc = "start_driver" /\ "start_driver" \in ServedPCs
  BY DEF StartDriver, At, ServedPCs, OpenPCs, ClosePCs
<1>2. PICK c \in Cams : task[t].cam = c /\ Holding(t, c)
  BY <1>1, HolderKnows DEF Holding
<1>3. task[t].op \in {"open", "native"}
  BY <1>1, OpStays DEF OpenPCs, ClosePCs
<1>4. Serves(t, "add_intent")
  BY <1>3, GotoServes, AfterServed DEF StartDriver, PCs, OpenPCs, ClosePCs, OtherPCs,
                                       AdminEvents
<1>5. "add_intent" \in ServedPCs /\ "add_intent" \in RolePCs(task[t].op)
  BY <1>3 DEF ServedPCs, RolePCs, OpenPCs, ClosePCs
<1>6. OnlyUnusedRenewed
  BY <1>2 DEF StartDriver, OnlyUnusedRenewed, TypeOK, DriverStates
<1>7. \A e \in Cams \ {c} : SameCamera(e)
  BY <1>2 DEF StartDriver, SameCamera, registry, plugins, TypeOK
<1>8. (c \in Open)' <=> c \in Open
  BY <1>2 DEF StartDriver, Open, registry, TypeOK
<1>9. ASSUME Stage(c)' = "add_intent" PROVE Tables(c)'
  BY <1>1, <1>2, <1>8, <1>9 DEF StartDriver, registry, plugins, Holding, Tables, Untold,
                                Unstarted, Heard, ClosePCs, OpenPCs
<1>10. ASSUME Stage(c)' = "add_intent" PROVE InHand(c)'
  BY <1>1, <1>2, <1>3, <1>4, <1>8, <1>10
  DEF StartDriver, registry, Serves, Holding, InHand, Tables, Unstarted, ClosePCs, OpenPCs,
      Open, TypeOK
<1> QED BY <1>1, <1>2, <1>4, <1>5, <1>6, <1>7, <1>9, <1>10, ServedStep

LEMMA AddIntentSerial ==
  ASSUME TypeOK, SerialInv, NEW t \in Threads, AddIntent(t)
  PROVE  SerialInv'
<1>1. task[t].pc = "add_intent" /\ "add_intent" \in ServedPCs
  BY DEF AddIntent, At, ServedPCs, OpenPCs, ClosePCs
<1>2. PICK c \in Cams : task[t].cam = c /\ Holding(t, c)
  BY <1>1, HolderKnows DEF Holding
<1>3. task[t].op \in {"open", "native"}
  BY <1>1, OpStays DEF OpenPCs, ClosePCs
<1>4. Serves(t, "notify_open") /\ task'[t].drv = task[t].drv
  BY <1>3, GotoServes, AfterServed DEF AddIntent, PCs, OpenPCs, ClosePCs, OtherPCs, AdminEvents
<1>5. "notify_open" \in ServedPCs /\ "notify_open" \in RolePCs(task[t].op)
  BY <1>3 DEF ServedPCs, RolePCs, OpenPCs, ClosePCs
<1>6. OnlyUnusedRenewed
  BY <1>2 DEF AddIntent, OnlyUnusedRenewed, TypeOK, DriverStates
<1>7. \A e \in Cams \ {c} : SameCamera(e)
  BY <1>2 DEF AddIntent, SameCamera, registry, plugins, TypeOK
<1>8. (c \in Open)' <=> c \in Open
  BY <1>2 DEF AddIntent, Open, registry, TypeOK
<1>9. ASSUME Stage(c)' = "notify_open" PROVE Tables(c)'
  BY <1>1, <1>2, <1>8, <1>9 DEF AddIntent, registry, plugins, Holding, Tables, Untold,
                                Unstarted, Heard, ClosePCs, OpenPCs
<1>10. ASSUME Stage(c)' = "notify_open" PROVE InHand(c)'
  BY <1>1, <1>2, <1>3, <1>4, <1>8, <1>10
  DEF AddIntent, registry, Serves, Holding, InHand, Tables, Unstarted, ClosePCs, OpenPCs,
      Open, TypeOK
<1> QED BY <1>1, <1>2, <1>4, <1>5, <1>6, <1>7, <1>9, <1>10, ServedStep

LEMMA NotifyOpenSerial ==
  ASSUME TypeOK, SerialInv, NEW t \in Threads, NotifyOpen(t)
  PROVE  SerialInv'
<1>1. task[t].pc = "notify_open" /\ "notify_open" \in ServedPCs
  BY DEF NotifyOpen, At, ServedPCs, OpenPCs, ClosePCs
<1>2. PICK c \in Cams : task[t].cam = c /\ Holding(t, c)
  BY <1>1, HolderKnows DEF Holding
<1>3. task[t].op \in {"open", "native"}
  BY <1>1, OpStays DEF OpenPCs, ClosePCs
<1>4. Serves(t, "add_stream") /\ task'[t].drv = task[t].drv
  BY <1>3, GotoServes, AfterServed DEF NotifyOpen, PCs, OpenPCs, ClosePCs, OtherPCs, AdminEvents
<1>5. "add_stream" \in ServedPCs /\ "add_stream" \in RolePCs(task[t].op)
  BY <1>3 DEF ServedPCs, RolePCs, OpenPCs, ClosePCs
<1>6. OnlyUnusedRenewed
  BY <1>2 DEF NotifyOpen, OnlyUnusedRenewed, TypeOK, DriverStates
<1>7. \A e \in Cams \ {c} : SameCamera(e)
  BY <1>2 DEF NotifyOpen, SameCamera, registry, plugins, TypeOK
<1>8. (c \in Open)' <=> c \in Open
  BY <1>2 DEF NotifyOpen, Open, registry, TypeOK
<1>9. ASSUME Stage(c)' = "add_stream" PROVE Tables(c)'
  BY <1>1, <1>2, <1>8, <1>9 DEF NotifyOpen, registry, plugins, Holding, Tables, Untold,
                                Unstarted, Heard, ClosePCs, OpenPCs
<1>10. ASSUME Stage(c)' = "add_stream" PROVE InHand(c)'
  BY <1>1, <1>2, <1>3, <1>4, <1>8, <1>10
  DEF NotifyOpen, registry, Serves, Holding, InHand, Tables, Unstarted, ClosePCs, OpenPCs,
      Open, TypeOK
<1> QED BY <1>1, <1>2, <1>4, <1>5, <1>6, <1>7, <1>9, <1>10, ServedStep

LEMMA AddStreamSerial ==
  ASSUME TypeOK, SerialInv, NEW t \in Threads, AddStream(t)
  PROVE  SerialInv'
<1>1. task[t].pc = "add_stream" /\ "add_stream" \in ServedPCs
  BY DEF AddStream, At, ServedPCs, OpenPCs, ClosePCs
<1>2. PICK c \in Cams : task[t].cam = c /\ Holding(t, c)
  BY <1>1, HolderKnows DEF Holding
<1>3. task[t].op \in {"open", "native"}
  BY <1>1, OpStays DEF OpenPCs, ClosePCs
<1>4. Serves(t, "release") /\ task'[t].drv = task[t].drv
  BY <1>3, GotoServes, AfterServed DEF AddStream, PCs, OpenPCs, ClosePCs, OtherPCs, AdminEvents
<1>5. "release" \in ServedPCs /\ "release" \in RolePCs(task[t].op)
  BY <1>3 DEF ServedPCs, RolePCs, OpenPCs, ClosePCs
<1>6. OnlyUnusedRenewed
  BY <1>2 DEF AddStream, OnlyUnusedRenewed, TypeOK, DriverStates
<1>7. \A e \in Cams \ {c} : SameCamera(e)
  BY <1>2 DEF AddStream, SameCamera, registry, plugins, TypeOK
<1>8. (c \in Open)' <=> c \in Open
  BY <1>2 DEF AddStream, Open, registry, TypeOK
<1>9. ASSUME Stage(c)' = "release" PROVE Tables(c)'
  BY <1>1, <1>2, <1>8, <1>9 DEF AddStream, registry, plugins, Holding, Tables, Untold,
                                Unstarted, Heard, ClosePCs, OpenPCs
<1>10. ASSUME Stage(c)' = "release" PROVE InHand(c)'
  BY <1>1, <1>2, <1>3, <1>4, <1>8, <1>10
  DEF AddStream, registry, Serves, Holding, InHand, Tables, Unstarted, ClosePCs, OpenPCs,
      Open, TypeOK
<1> QED BY <1>1, <1>2, <1>4, <1>5, <1>6, <1>7, <1>9, <1>10, ServedStep

LEMMA DiscardIntentSerial ==
  ASSUME TypeOK, SerialInv, NEW t \in Threads, DiscardIntent(t)
  PROVE  SerialInv'
<1>1. task[t].pc = "discard_intent" /\ "discard_intent" \in ServedPCs
  BY DEF DiscardIntent, At, ServedPCs, OpenPCs, ClosePCs
<1>2. PICK c \in Cams : task[t].cam = c /\ Holding(t, c)
  BY <1>1, HolderKnows DEF Holding
<1>3. task[t].op \in {"close", "native"}
  BY <1>1, OpStays DEF OpenPCs, ClosePCs
<1>4. Serves(t, "guard") /\ task'[t].drv = task[t].drv
  BY <1>3, GotoServes, AfterServed DEF DiscardIntent, PCs, OpenPCs, ClosePCs, OtherPCs,
                                       AdminEvents
<1>5. "guard" \in ServedPCs /\ "guard" \in RolePCs(task[t].op)
  BY <1>3 DEF ServedPCs, RolePCs, OpenPCs, ClosePCs
<1>6. OnlyUnusedRenewed
  BY <1>2 DEF DiscardIntent, OnlyUnusedRenewed, TypeOK, DriverStates
<1>7. \A e \in Cams \ {c} : SameCamera(e)
  BY <1>2 DEF DiscardIntent, SameCamera, registry, plugins, TypeOK
<1>8. (c \in Open)' <=> c \in Open
  BY <1>2 DEF DiscardIntent, Open, registry, TypeOK
<1>9. ASSUME Stage(c)' = "guard" PROVE Tables(c)'
  BY <1>1, <1>2, <1>8, <1>9 DEF DiscardIntent, registry, plugins, Holding, Tables, Untold,
                                Unstarted, Heard, ClosePCs, OpenPCs
<1>10. ASSUME Stage(c)' = "guard" PROVE InHand(c)'
  BY <1>1, <1>2, <1>3, <1>4, <1>8, <1>10
  DEF DiscardIntent, registry, Serves, Holding, InHand, Tables, Unstarted, ClosePCs, OpenPCs,
      Open, TypeOK
<1> QED BY <1>1, <1>2, <1>4, <1>5, <1>6, <1>7, <1>9, <1>10, ServedStep

LEMMA NotifyCloseSerial ==
  ASSUME TypeOK, SerialInv, NEW t \in Threads, NotifyClose(t)
  PROVE  SerialInv'
<1>1. task[t].pc = "notify_close" /\ "notify_close" \in ServedPCs
  BY DEF NotifyClose, At, ServedPCs, OpenPCs, ClosePCs
<1>2. PICK c \in Cams : task[t].cam = c /\ Holding(t, c)
  BY <1>1, HolderKnows DEF Holding
<1>3. task[t].op \in {"close", "native"}
  BY <1>1, OpStays DEF OpenPCs, ClosePCs
<1>4. Serves(t, "pre_close") /\ task'[t].drv = task[t].drv
  BY <1>3, GotoServes, AfterServed DEF NotifyClose, PCs, OpenPCs, ClosePCs, OtherPCs,
                                       AdminEvents
<1>5. "pre_close" \in ServedPCs /\ "pre_close" \in RolePCs(task[t].op)
  BY <1>3 DEF ServedPCs, RolePCs, OpenPCs, ClosePCs
<1>6. OnlyUnusedRenewed
  BY <1>2 DEF NotifyClose, OnlyUnusedRenewed, TypeOK, DriverStates
<1>7. \A e \in Cams \ {c} : SameCamera(e)
  BY <1>2 DEF NotifyClose, SameCamera, registry, plugins, TypeOK
<1>8. (c \in Open)' <=> c \in Open
  BY <1>2 DEF NotifyClose, Open, registry, TypeOK
<1>9. ASSUME Stage(c)' = "pre_close" PROVE Tables(c)'
  BY <1>1, <1>2, <1>8, <1>9 DEF NotifyClose, registry, plugins, Holding, Tables, Untold,
                                Unstarted, Heard, ClosePCs, OpenPCs
<1>10. ASSUME Stage(c)' = "pre_close" PROVE InHand(c)'
  BY <1>1, <1>2, <1>3, <1>4, <1>8, <1>10
  DEF NotifyClose, registry, Serves, Holding, InHand, Tables, Unstarted, ClosePCs, OpenPCs,
      Open, TypeOK
<1> QED BY <1>1, <1>2, <1>4, <1>5, <1>6, <1>7, <1>9, <1>10, ServedStep

LEMMA PreCloseSerial ==
  ASSUME TypeOK, SerialInv, NEW t \in Threads, PreClose(t)
  PROVE  SerialInv'
<1>1. task[t].pc = "pre_close" /\ "pre_close" \in ServedPCs
  BY DEF PreClose, At, ServedPCs, OpenPCs, ClosePCs
<1>2. PICK c \in Cams : task[t].cam = c /\ Holding(t, c)
  BY <1>1, HolderKnows DEF Holding
<1>3. task[t].op \in {"close", "native"}
  BY <1>1, OpStays DEF OpenPCs, ClosePCs
<1>4. Serves(t, "stop_driver") /\ task'[t].drv = task[t].drv
  BY <1>3, GotoServes, AfterServed DEF PreClose, PCs, OpenPCs, ClosePCs, OtherPCs, AdminEvents
<1>5. "stop_driver" \in ServedPCs /\ "stop_driver" \in RolePCs(task[t].op)
  BY <1>3 DEF ServedPCs, RolePCs, OpenPCs, ClosePCs
<1>6. OnlyUnusedRenewed
  BY <1>2 DEF PreClose, OnlyUnusedRenewed, TypeOK, DriverStates
<1>7. \A e \in Cams \ {c} : SameCamera(e)
  BY <1>2 DEF PreClose, SameCamera, registry, plugins, TypeOK
<1>8. (c \in Open)' <=> c \in Open
  BY <1>2 DEF PreClose, Open, registry, TypeOK
<1>9. ASSUME Stage(c)' = "stop_driver" PROVE Tables(c)'
  BY <1>1, <1>2, <1>8, <1>9 DEF PreClose, registry, plugins, Holding, Tables, Untold,
                                Unstarted, Heard, ClosePCs, OpenPCs
<1>10. ASSUME Stage(c)' = "stop_driver" PROVE InHand(c)'
  BY <1>1, <1>2, <1>3, <1>4, <1>8, <1>10
  DEF PreClose, registry, Serves, Holding, InHand, Tables, Unstarted, ClosePCs, OpenPCs,
      Open, TypeOK
<1> QED BY <1>1, <1>2, <1>4, <1>5, <1>6, <1>7, <1>9, <1>10, ServedStep

LEMMA StopDriverSerial ==
  ASSUME TypeOK, SerialInv, NEW t \in Threads, StopDriver(t)
  PROVE  SerialInv'
<1>1. task[t].pc = "stop_driver" /\ "stop_driver" \in ServedPCs
  BY DEF StopDriver, At, ServedPCs, OpenPCs, ClosePCs
<1>2. PICK c \in Cams : task[t].cam = c /\ Holding(t, c)
  BY <1>1, HolderKnows DEF Holding
<1>3. task[t].op \in {"close", "native"}
  BY <1>1, OpStays DEF OpenPCs, ClosePCs
<1>4. Serves(t, "join_driver") /\ task'[t].drv = task[t].drv
  BY <1>3, GotoServes, AfterServed DEF StopDriver, PCs, OpenPCs, ClosePCs, OtherPCs, AdminEvents
<1>5. "join_driver" \in ServedPCs /\ "join_driver" \in RolePCs(task[t].op)
  BY <1>3 DEF ServedPCs, RolePCs, OpenPCs, ClosePCs
<1>6. OnlyUnusedRenewed
  BY <1>2 DEF StopDriver, OnlyUnusedRenewed, TypeOK, DriverStates
<1>7. \A e \in Cams \ {c} : SameCamera(e)
  BY <1>2 DEF StopDriver, SameCamera, registry, plugins, TypeOK
<1>8. (c \in Open)' <=> c \in Open
  BY <1>2 DEF StopDriver, Open, registry, TypeOK
<1>9. ASSUME Stage(c)' = "join_driver" PROVE Tables(c)'
  BY <1>1, <1>2, <1>8, <1>9 DEF StopDriver, registry, plugins, Holding, Tables, Untold,
                                Unstarted, Heard, ClosePCs, OpenPCs
<1>10. ASSUME Stage(c)' = "join_driver" PROVE InHand(c)'
  BY <1>1, <1>2, <1>3, <1>4, <1>8, <1>10
  DEF StopDriver, registry, Serves, Holding, InHand, Tables, Unstarted, ClosePCs, OpenPCs,
      Open, TypeOK
<1> QED BY <1>1, <1>2, <1>4, <1>5, <1>6, <1>7, <1>9, <1>10, ServedStep

LEMMA JoinDriverSerial ==
  ASSUME TypeOK, SerialInv, NEW t \in Threads, JoinDriver(t)
  PROVE  SerialInv'
<1>1. task[t].pc = "join_driver" /\ "join_driver" \in ServedPCs
  BY DEF JoinDriver, At, ServedPCs, OpenPCs, ClosePCs
<1>2. PICK c \in Cams : task[t].cam = c /\ Holding(t, c)
  BY <1>1, HolderKnows DEF Holding
<1>3. task[t].op \in {"close", "native"}
  BY <1>1, OpStays DEF OpenPCs, ClosePCs
<1>4. Serves(t, "stop_pipeline") /\ task'[t].drv = task[t].drv
  BY <1>3, GotoServes, AfterServed DEF JoinDriver, PCs, OpenPCs, ClosePCs, OtherPCs, AdminEvents
<1>5. "stop_pipeline" \in ServedPCs /\ "stop_pipeline" \in RolePCs(task[t].op)
  BY <1>3 DEF ServedPCs, RolePCs, OpenPCs, ClosePCs
<1>6. OnlyUnusedRenewed
  BY <1>2 DEF JoinDriver, OnlyUnusedRenewed, TypeOK, DriverStates
<1>7. \A e \in Cams \ {c} : SameCamera(e)
  BY <1>2 DEF JoinDriver, SameCamera, registry, plugins, TypeOK
<1>8. (c \in Open)' <=> c \in Open
  BY <1>2 DEF JoinDriver, Open, registry, TypeOK
<1>9. ASSUME Stage(c)' = "stop_pipeline" PROVE Tables(c)'
  BY <1>1, <1>2, <1>8, <1>9 DEF JoinDriver, registry, plugins, Holding, Tables, Untold,
                                Unstarted, Heard, ClosePCs, OpenPCs
<1>10. ASSUME Stage(c)' = "stop_pipeline" PROVE InHand(c)'
  BY <1>1, <1>2, <1>3, <1>4, <1>8, <1>10
  DEF JoinDriver, registry, Serves, Holding, InHand, Tables, Unstarted, ClosePCs, OpenPCs,
      Open, TypeOK
<1> QED BY <1>1, <1>2, <1>4, <1>5, <1>6, <1>7, <1>9, <1>10, ServedStep

LEMMA StopPipelineSerial ==
  ASSUME TypeOK, SerialInv, NEW t \in Threads, StopPipeline(t)
  PROVE  SerialInv'
<1>1. task[t].pc = "stop_pipeline" /\ "stop_pipeline" \in ServedPCs
  BY DEF StopPipeline, At, ServedPCs, OpenPCs, ClosePCs
<1>2. PICK c \in Cams : task[t].cam = c /\ Holding(t, c)
  BY <1>1, HolderKnows DEF Holding
<1>3. task[t].op \in {"close", "native"}
  BY <1>1, OpStays DEF OpenPCs, ClosePCs
<1>4. Serves(t, "remove") /\ task'[t].drv = task[t].drv
  BY <1>3, GotoServes, AfterServed DEF StopPipeline, PCs, OpenPCs, ClosePCs, OtherPCs,
                                       AdminEvents
<1>5. "remove" \in ServedPCs /\ "remove" \in RolePCs(task[t].op)
  BY <1>3 DEF ServedPCs, RolePCs, OpenPCs, ClosePCs
<1>6. OnlyUnusedRenewed
  BY <1>2 DEF StopPipeline, OnlyUnusedRenewed, TypeOK, DriverStates
<1>7. \A e \in Cams \ {c} : SameCamera(e)
  BY <1>2 DEF StopPipeline, SameCamera, registry, plugins, TypeOK
<1>8. (c \in Open)' <=> c \in Open
  BY <1>2 DEF StopPipeline, Open, registry, TypeOK
<1>9. ASSUME Stage(c)' = "remove" PROVE Tables(c)'
  BY <1>1, <1>2, <1>8, <1>9 DEF StopPipeline, registry, plugins, Holding, Tables, Untold,
                                Unstarted, Heard, ClosePCs, OpenPCs
<1>10. ASSUME Stage(c)' = "remove" PROVE InHand(c)'
  BY <1>1, <1>2, <1>3, <1>4, <1>8, <1>10
  DEF StopPipeline, registry, Serves, Holding, InHand, Tables, Unstarted, ClosePCs, OpenPCs,
      Open, TypeOK
<1> QED BY <1>1, <1>2, <1>4, <1>5, <1>6, <1>7, <1>9, <1>10, ServedStep

LEMMA SetModeSerial ==
  ASSUME TypeOK, SerialInv, NEW t \in Threads, SetMode(t)
  PROVE  SerialInv'
<1>1. task[t].pc = "set_mode" /\ "set_mode" \in ServedPCs
  BY DEF SetMode, At, ServedPCs, OpenPCs, ClosePCs
<1>2. PICK c \in Cams : task[t].cam = c /\ Holding(t, c)
  BY <1>1, HolderKnows DEF Holding
<1>3. task[t].op \in {"native"}
  BY <1>1, OpStays DEF OpenPCs, ClosePCs
<1>4. Serves(t, "check_open") /\ task'[t].drv = task[t].drv
  BY <1>3, GotoServes, AfterServed DEF SetMode, PCs, OpenPCs, ClosePCs, OtherPCs, AdminEvents
<1>5. "check_open" \in ServedPCs /\ "check_open" \in RolePCs(task[t].op)
  BY <1>3 DEF ServedPCs, RolePCs, OpenPCs, ClosePCs
<1>6. OnlyUnusedRenewed
  BY <1>2 DEF SetMode, OnlyUnusedRenewed, TypeOK, DriverStates
<1>7. \A e \in Cams \ {c} : SameCamera(e)
  BY <1>2 DEF SetMode, SameCamera, registry, plugins, TypeOK
<1>8. (c \in Open)' <=> c \in Open
  BY <1>2 DEF SetMode, Open, registry, TypeOK
<1>9. ASSUME Stage(c)' = "check_open" PROVE Tables(c)'
  BY <1>1, <1>2, <1>8, <1>9 DEF SetMode, registry, plugins, Holding, Tables, Untold,
                                Unstarted, Heard, ClosePCs, OpenPCs
<1>10. ASSUME Stage(c)' = "check_open" PROVE InHand(c)'
  BY <1>1, <1>2, <1>3, <1>4, <1>8, <1>10
  DEF SetMode, registry, Serves, Holding, InHand, Tables, Unstarted, ClosePCs, OpenPCs, Open,
      TypeOK
<1> QED BY <1>1, <1>2, <1>4, <1>5, <1>6, <1>7, <1>9, <1>10, ServedStep

LEMMA CheckOpenSerial ==
  ASSUME TypeOK, SerialInv, NEW t \in Threads, CheckOpen(t)
  PROVE  SerialInv'
<1>1. task[t].pc = "check_open" /\ "check_open" \in ServedPCs
  BY DEF CheckOpen, At, ServedPCs, OpenPCs
<1>2. PICK c \in Cams : task[t].cam = c /\ Holding(t, c)
  BY <1>1, HolderKnows DEF Holding
<1>3. task[t].op \in {"open", "native"} /\ AfterOpen(task[t].op) = "release"
  BY <1>1, OpStays, AfterServed DEF OpenPCs, AdminEvents
<1>4. PICK l \in {"release", "lookup"} : Goto(t, l) /\ (l = "lookup" <=> c \notin Open)
  BY <1>2, <1>3 DEF CheckOpen
<1>5. Serves(t, l)
  BY <1>4, GotoServes DEF CheckOpen, PCs, OpenPCs, OtherPCs
<1>6. l \in ServedPCs /\ l \in RolePCs(task[t].op)
  BY <1>3 DEF ServedPCs, RolePCs, OpenPCs
<1>7. OnlyUnusedRenewed /\ \A e \in Cams : SameCamera(e)
  BY DEF CheckOpen, OnlyUnusedRenewed, SameCamera, registry, plugins
<1>8. ((c \in Open)' <=> c \in Open) /\ driver' = driver /\ cameras' = cameras
  BY DEF CheckOpen, Open, registry
<1>9. ASSUME Stage(c)' = l PROVE Tables(c)' /\ InHand(c)'
  <2>1. Tables(c)'
    BY <1>1, <1>2, <1>4, <1>7, <1>8, <1>9
    DEF Holding, SameCamera, Tables, Untold, Unstarted, Heard, ClosePCs
  <2>2. InHand(c)'
    BY <1>1, <1>2, <1>3, <1>4, <1>5, <1>8, <1>9
    DEF Serves, Holding, InHand, Unstarted, ClosePCs
  <2> QED BY <2>1, <2>2
<1> QED BY <1>1, <1>2, <1>5, <1>6, <1>7, <1>9, ServedStep

\* A camera that disappeared loses an intent it does not have: it is closed.
LEMMA LookupSerial ==
  ASSUME TypeOK, SerialInv, NEW t \in Threads, Lookup(t)
  PROVE  SerialInv'
<1>1. task[t].pc = "lookup" /\ "lookup" \in ServedPCs
  BY DEF Lookup, At, ServedPCs, OpenPCs
<1>2. PICK c \in Cams : task[t].cam = c /\ Holding(t, c)
  BY <1>1, HolderKnows DEF Holding
<1>3. task[t].op \in {"open", "native"} /\ AfterOpen(task[t].op) = "release"
  BY <1>1, OpStays, AfterServed DEF OpenPCs, AdminEvents
<1>4. PICK l \in {"release", "open_device"} : Goto(t, l)
  BY <1>3 DEF Lookup
<1>5. Serves(t, l)
  BY <1>4, GotoServes DEF Lookup, PCs, OpenPCs, OtherPCs
<1>6. l \in ServedPCs /\ l \in RolePCs(task[t].op)
  BY <1>3 DEF ServedPCs, RolePCs, OpenPCs
<1>7. c \notin auto_reopen /\ c \notin Open
  BY <1>1, <1>2 DEF Holding, Tables
<1>8. OnlyUnusedRenewed /\ \A e \in Cams : SameCamera(e)
  BY <1>2, <1>7 DEF Lookup, OnlyUnusedRenewed, SameCamera, plugins
<1>9. (c \notin Open)'
  BY <1>7 DEF Lookup, Open
<1>10. ASSUME Stage(c)' = l PROVE Tables(c)' /\ InHand(c)'
  <2>1. Tables(c)'
    BY <1>1, <1>2, <1>7, <1>8, <1>9, <1>10
    DEF Holding, SameCamera, Tables, Untold, Unstarted, Heard, ClosePCs
  <2>2. InHand(c)'
    BY <1>9, <1>10 DEF InHand, Unstarted, ClosePCs
  <2> QED BY <2>1, <2>2
<1> QED BY <1>1, <1>2, <1>5, <1>6, <1>8, <1>10, ServedStep

\* The driver object that is opened was in no table.
LEMMA OpenDeviceSerial ==
  ASSUME TypeOK, SerialInv, NEW t \in Threads, OpenDevice(t)
  PROVE  SerialInv'
<1>1. task[t].pc = "open_device" /\ "open_device" \in ServedPCs
  BY DEF OpenDevice, At, ServedPCs, OpenPCs
<1>2. PICK c \in Cams : task[t].cam = c /\ Holding(t, c)
  BY <1>1, HolderKnows DEF Holding
<1>3. task[t].op \in {"open", "native"}
  BY <1>1, OpStays DEF OpenPCs
<1>4. PICK d \in Unused : /\ d = NewDriver
                          /\ driver' = [driver EXCEPT ![d] = [state |-> "opened", cam |-> c]]
                          /\ SetTask(t, [task[t] EXCEPT !.pc = "insert", !.drv = d])
  <2>1. NewDriver \in Unused
    BY DEF OpenDevice, NewDriver
  <2> QED BY <1>2, <2>1 DEF OpenDevice
<1>5. Serves(t, "insert")
  <2> DEFINE r == [task[t] EXCEPT !.pc = "insert", !.drv = d]
  <2>1. r \in Task /\ r.pc = "insert" /\ r.cam = task[t].cam /\ r.op = task[t].op
    BY DEF Unused, Task, PCs, OpenPCs, TypeOK
  <2> QED BY <1>4, <2>1, SetTaskEffect DEF TypeOK, Serves, OpenDevice
<1>6. "insert" \in ServedPCs /\ "insert" \in RolePCs(task[t].op)
  BY <1>3 DEF ServedPCs, RolePCs, OpenPCs
<1>7. OnlyUnusedRenewed
  BY <1>4 DEF OnlyUnusedRenewed, Unused, TypeOK
<1>8. \A e \in Cams : SameCamera(e)
  BY DEF OpenDevice, SameCamera, registry, plugins
<1>9. c \notin Open /\ (c \notin Open)'
  BY <1>1, <1>2, <1>8 DEF Holding, Tables, Open, SameCamera
<1>10. ASSUME Stage(c)' = "insert" PROVE Tables(c)' /\ InHand(c)'
  <2>1. Tables(c)'
    BY <1>1, <1>2, <1>8, <1>9, <1>10
    DEF Holding, SameCamera, Tables, Untold, Unstarted, Heard, ClosePCs
  <2>2. InHand(c)'
    BY <1>9, <1>10 DEF InHand, Unstarted, ClosePCs
  <2> QED BY <2>1, <2>2
<1> QED BY <1>1, <1>2, <1>5, <1>6, <1>7, <1>8, <1>10, ServedStep

LEMMA OpenDeviceFailsSerial ==
  ASSUME TypeOK, SerialInv, NEW t \in Threads, OpenDeviceFails(t)
  PROVE  SerialInv'
<1>1. task[t].pc = "open_device" /\ "open_device" \in ServedPCs
  BY DEF OpenDeviceFails, At, ServedPCs, OpenPCs
<1>2. PICK c \in Cams : task[t].cam = c /\ Holding(t, c)
  BY <1>1, HolderKnows DEF Holding
<1>3. task[t].op \in {"open", "native"} /\ AfterOpen(task[t].op) = "release"
  BY <1>1, OpStays, AfterServed DEF OpenPCs, AdminEvents
<1>4. Serves(t, "release")
  BY <1>3, GotoServes DEF OpenDeviceFails, PCs, OtherPCs
<1>5. "release" \in ServedPCs /\ "release" \in RolePCs(task[t].op)
  BY <1>3 DEF ServedPCs, RolePCs
<1>6. OnlyUnusedRenewed /\ \A e \in Cams : SameCamera(e)
  BY DEF OpenDeviceFails, OnlyUnusedRenewed, SameCamera, registry, plugins
<1>7. c \notin Open /\ (c \notin Open)'
  BY <1>1, <1>2, <1>6 DEF Holding, Tables, Open, SameCamera
<1>8. ASSUME Stage(c)' = "release" PROVE Tables(c)' /\ InHand(c)'
  <2>1. Tables(c)'
    BY <1>1, <1>2, <1>6, <1>7, <1>8
    DEF Holding, SameCamera, Tables, Untold, Unstarted, Heard, ClosePCs
  <2>2. InHand(c)'
    BY <1>7, <1>8 DEF InHand, Unstarted, ClosePCs
  <2> QED BY <2>1, <2>2
<1> QED BY <1>1, <1>2, <1>4, <1>5, <1>6, <1>8, ServedStep

\* The guard finds the camera closing only if its holder closes it, and that is itself.
LEMMA GuardSerial ==
  ASSUME TypeOK, SerialInv, NEW t \in Threads, Guard(t)
  PROVE  SerialInv'
<1>1. task[t].pc = "guard" /\ "guard" \in ServedPCs
  BY DEF Guard, At, ServedPCs
<1>2. PICK c \in Cams : task[t].cam = c /\ Holding(t, c)
  BY <1>1, HolderKnows DEF Holding
<1>3. task[t].op \in {"close", "native"}
  BY <1>1, OpStays
<1>4. c \notin closing
  BY <1>1, <1>2 DEF Holding, Tables, ClosePCs
<1>5. OnlyUnusedRenewed /\ (\A e \in Cams \ {c} : SameCamera(e)) /\ ((c \in Open)' <=> c \in Open)
  BY <1>2 DEF Guard, OnlyUnusedRenewed, SameCamera, Open, plugins
<1>6. CASE c \notin Open
  <2>1. PICK l \in {"set_mode", "release"} :
          /\ Goto(t, l) /\ closing' = closing
           /\ l = IF task[t].op = "native" THEN "set_mode" ELSE "release"
    BY <1>2, <1>3, <1>6, AfterServed DEF Guard, AdminEvents
  <2>2. Serves(t, l) /\ l \in ServedPCs /\ l \in RolePCs(task[t].op)
    BY <1>3, <2>1, GotoServes DEF Guard, PCs, OtherPCs, ServedPCs, RolePCs
  <2>3. ASSUME Stage(c)' = l PROVE Tables(c)'
    BY <1>1, <1>2, <1>5, <1>6, <2>1, <2>3
    DEF Guard, plugins, Holding, Tables, Untold, Unstarted, Heard, ClosePCs
  <2>4. ASSUME Stage(c)' = l PROVE InHand(c)'
    BY <1>5, <1>6, <2>4 DEF InHand, Unstarted, ClosePCs
  <2> QED BY <1>1, <1>2, <1>5, <2>2, <2>3, <2>4, ServedStep
<1>7. CASE c \in Open
  <2>1. /\ closing' = closing \cup {c} /\ cameras' = cameras /\ driver' = driver
        /\ SetTask(t, [task[t] EXCEPT !.pc = "notify_close", !.drv = cameras[c]])
    BY <1>2, <1>4, <1>7 DEF Guard
  <2>2. Serves(t, "notify_close") /\ task'[t].drv = cameras[c]
    <3> DEFINE r == [task[t] EXCEPT !.pc = "notify_close", !.drv = cameras[c]]
    <3>1. r \in Task /\ r.pc = "notify_close" /\ r.cam = task[t].cam /\ r.op = task[t].op
                     /\ r.drv = cameras[c]
      BY DEF Task, PCs, ClosePCs, TypeOK
    <3> QED BY <2>1, <3>1, SetTaskEffect DEF TypeOK, Serves, Guard
  <2>3. "notify_close" \in ServedPCs /\ "notify_close" \in RolePCs(task[t].op)
    BY <1>3 DEF ServedPCs, RolePCs, ClosePCs
  <2>4. ASSUME Stage(c)' = "notify_close" PROVE Tables(c)'
    BY <1>1, <1>2, <1>5, <1>7, <2>1, <2>4
    DEF Guard, plugins, Holding, Tables, Untold, Unstarted, Heard, ClosePCs
  <2>5. ASSUME Stage(c)' = "notify_close" PROVE InHand(c)'
    BY <1>1, <1>2, <1>5, <1>7, <2>1, <2>2, <2>5
    DEF Serves, Holding, InHand, Unstarted, ClosePCs
  <2> QED BY <1>1, <1>2, <1>5, <2>2, <2>3, <2>4, <2>5, ServedStep
<1> QED BY <1>6, <1>7

LEMMA RemoveSerial ==
  ASSUME TypeOK, SerialInv, NEW t \in Threads, Remove(t)
  PROVE  SerialInv'
<1>1. task[t].pc = "remove" /\ "remove" \in ServedPCs
  BY DEF Remove, At, ServedPCs, ClosePCs
<1>2. PICK c \in Cams : task[t].cam = c /\ Holding(t, c)
  BY <1>1, HolderKnows DEF Holding
<1>3. task[t].op \in {"close", "native"}
  BY <1>1, OpStays DEF ClosePCs
<1>4. PICK l \in {"set_mode", "release"} :
        Return(t, l) /\ l = IF task[t].op = "native" THEN "set_mode" ELSE "release"
  BY <1>3, AfterServed DEF Remove, AdminEvents
<1>5. Serves(t, l) /\ l \in ServedPCs /\ l \in RolePCs(task[t].op)
  BY <1>3, <1>4, GotoServes DEF Remove, PCs, OtherPCs, ServedPCs, RolePCs
<1>6. OnlyUnusedRenewed /\ \A e \in Cams \ {c} : SameCamera(e)
  BY <1>2 DEF Remove, OnlyUnusedRenewed, SameCamera, plugins, TypeOK
<1>7. (c \notin Open)'
  BY <1>2 DEF Remove, Open, TypeOK
<1>8. ASSUME Stage(c)' = l PROVE Tables(c)'
  BY <1>1, <1>2, <1>7, <1>8
  DEF Remove, plugins, Holding, Tables, Untold, Unstarted, Heard, ClosePCs
<1>9. ASSUME Stage(c)' = l PROVE InHand(c)'
  BY <1>7, <1>9 DEF InHand, Unstarted, ClosePCs
<1> QED BY <1>1, <1>2, <1>5, <1>6, <1>8, <1>9, ServedStep

\* The driver a handler joins was started by whoever opened the camera.
LEMMA NeverRaises ==
  ASSUME TypeOK, SerialInv, NEW t \in Threads
  PROVE  ~JoinRaises(t)
<1> SUFFICES ASSUME JoinRaises(t) PROVE FALSE
  OBVIOUS
<1>1. task[t].pc = "join_driver" /\ "join_driver" \in ClosePCs \ Unstarted
  BY DEF JoinRaises, At, ClosePCs, Unstarted
<1>2. PICK c \in Cams : Holding(t, c)
  BY <1>1, HolderKnows DEF Holding, ServedPCs
<1>3. task[t].drv = cameras[c] /\ c \in Open
  BY <1>1, <1>2 DEF Holding, InHand, Tables
<1> QED BY <1>1, <1>2, <1>3 DEF JoinRaises, Holding, InHand

-----------------------------------------------------------------------------
(* The other steps: the lock, the scan and the drivers.                     *)

\* Nobody has the lock, so the tables agree; the first statement of either handler
\* expects no more.
LEMMA AcquireSerial ==
  ASSUME TypeOK, SerialInv, NEW t \in Threads, AcquireLock(t)
  PROVE  SerialInv'
<1>1. PICK c \in Cams : task[t].cam = c /\ op_lock[c] = NoThread
  BY DEF AcquireLock, At, TypeOK, CamPCs
<1>2. task[t].pc = "lock" /\ task[t].op \in {"open", "close", "native"} /\ t # NoThread
  BY CameraAssumption DEF AcquireLock, At, SerialInv, Roles, RolePCs, AdminEvents
<1>3. PICK l \in {"check_open", "discard_intent"} :
        Goto(t, l) /\ l = IF task[t].op = "open" THEN "check_open" ELSE "discard_intent"
  BY DEF AcquireLock
<1>4. /\ task' \in [Threads -> Task] /\ OnlyTask(t)
      /\ task'[t].pc = l /\ task'[t].cam = c /\ task'[t].op = task[t].op
  <2> DEFINE r == [task[t] EXCEPT !.pc = l]
  <2>1. r \in Task /\ r.pc = l /\ r.cam = task[t].cam /\ r.op = task[t].op
    BY <1>3 DEF Task, PCs, OpenPCs, OtherPCs, TypeOK
  <2> QED BY <1>1, <1>3, <2>1, SetTaskEffect DEF Goto, TypeOK
<1>5. op_lock' = [op_lock EXCEPT ![c] = t] /\ op_lock'[c] = t
  BY <1>1 DEF AcquireLock, TypeOK
<1>6. Roles'
  BY <1>2, <1>3, <1>4
  DEF SerialInv, Roles, OnlyTask, RolePCs, ServedPCs, OpenPCs, ClosePCs, AdminEvents
<1>7. Exclusive'
  <2>1. l \in ServedPCs /\ task[t].pc \notin ServedPCs
    BY <1>2, <1>3 DEF ServedPCs, OpenPCs, ClosePCs
  <2>2. \A e \in Cams : e # c => op_lock'[e] = op_lock[e] /\ op_lock[e] # t
    BY <1>5, <2>1 DEF SerialInv, Exclusive, TypeOK
  <2>3. \A u \in Threads \ {t} : task[u].pc \in ServedPCs => task[u].cam # c
    BY <1>1, CameraAssumption DEF SerialInv, Exclusive
  <2> QED BY <1>4, <1>5, <2>1, <2>2, <2>3 DEF SerialInv, Exclusive, OnlyTask
<1>8. OnlyUnusedRenewed /\ (\A e \in Cams : SameCamera(e)) /\ Open' = Open
  BY DEF AcquireLock, OnlyUnusedRenewed, SameCamera, Open, registry, plugins
<1>9. ASSUME NEW e \in Cams \ {c} PROVE Tables(e)' /\ InHand(e)'
  <2>1. op_lock[e] # t /\ op_lock'[e] = op_lock[e]
    BY <1>2, <1>5 DEF SerialInv, Exclusive, TypeOK, ServedPCs, OpenPCs, ClosePCs
  <2> QED BY <1>4, <1>8, <2>1, Untouched
<1>10. Stage(c) = "idle" /\ Stage(c)' = l /\ Tables(c) /\ InHand(c)
  BY <1>1, <1>2, <1>4, <1>5 DEF Stage, SerialInv
<1>11. Tables(c)'
  BY <1>8, <1>10
  DEF SameCamera, Tables, Untold, Unstarted, Heard, ClosePCs
<1>12. InHand(c)'
  BY <1>8, <1>10 DEF AcquireLock, registry, InHand, Unstarted, ClosePCs
<1>13. \A e \in Cams : Tables(e)' /\ InHand(e)'
  BY <1>9, <1>11, <1>12
<1> QED BY <1>6, <1>7, <1>13 DEF SerialInv

\* The handler is over: the tables agree again.
LEMMA ReleaseSerial ==
  ASSUME TypeOK, SerialInv, NEW t \in Threads, Release(t)
  PROVE  SerialInv'
<1>1. task[t].pc = "release" /\ "release" \in ServedPCs
  BY DEF Release, At, ServedPCs
<1>2. PICK c \in Cams : task[t].cam = c /\ Holding(t, c)
  BY <1>1, HolderKnows DEF Holding
<1>3. OnlyTask(t) /\ task'[t] = IdleTask /\ t # NoThread
  BY IdleTaskType, SetTaskEffect, CameraAssumption DEF Release, Finish, TypeOK
<1>4. /\ op_lock'[c] = NoThread
      /\ \A e \in Cams \ {c} : op_lock[e] # t /\ op_lock'[e] = op_lock[e]
  BY <1>2 DEF Release, Holding, SerialInv, Exclusive
<1>5. task'[t].pc = "idle" /\ task'[t].op = "none"
  BY <1>3 DEF IdleTask
<1>6. Roles'
  BY <1>3, <1>5 DEF SerialInv, Roles, OnlyTask, RolePCs, AdminEvents
<1>7. Exclusive'
  <2>1. "idle" \notin ServedPCs /\ NoThread \notin Threads
    BY CameraAssumption DEF ServedPCs, OpenPCs, ClosePCs
  <2>2. \A u \in Threads \ {t} : task[u].pc \in ServedPCs => task[u].cam # c
    BY <1>2 DEF SerialInv, Exclusive, Holding
  <2> QED BY <1>3, <1>4, <1>5, <2>1, <2>2 DEF SerialInv, Exclusive, OnlyTask
<1>8. OnlyUnusedRenewed /\ (\A e \in Cams : SameCamera(e)) /\ Open' = Open
  BY DEF Release, OnlyUnusedRenewed, SameCamera, Open, registry, plugins
<1>9. ASSUME NEW e \in Cams \ {c} PROVE Tables(e)' /\ InHand(e)'
  BY <1>3, <1>4, <1>8, Untouched
<1>10. Stage(c)' = "idle"
  BY <1>4 DEF Stage
<1>11. Tables(c)'
  BY <1>1, <1>2, <1>8, <1>10
  DEF Holding, SameCamera, Tables, Untold, Unstarted, Heard, ClosePCs
<1>12. InHand(c)'
  BY <1>1, <1>2, <1>8, <1>10
  DEF Release, registry, Holding, InHand, Unstarted, ClosePCs
<1>13. \A e \in Cams : Tables(e)' /\ InHand(e)'
  BY <1>9, <1>11, <1>12
<1> QED BY <1>6, <1>7, <1>13 DEF SerialInv

\* A handler that gives up waiting for the lock, and the scan.
LEMMA LockTimeoutSerial ==
  ASSUME TypeOK, SerialInv, NEW t \in Threads, LockTimeout(t)
  PROVE  SerialInv'
<1>1. OnlyTask(t) /\ task'[t].pc = "idle" /\ task'[t].op = "none"
  BY IdleTaskType, SetTaskEffect DEF LockTimeout, Finish, TypeOK, IdleTask
<1>2. task[t].pc \notin ServedPCs /\ "idle" \notin ServedPCs
  BY DEF LockTimeout, At, ServedPCs, OpenPCs, ClosePCs
<1>3. OnlyUnusedRenewed /\ \A e \in Cams : SameCamera(e)
  BY DEF LockTimeout, OnlyUnusedRenewed, SameCamera, registry, plugins
<1>4. "idle" \in RolePCs("none")
  BY DEF RolePCs
<1> QED BY <1>1, <1>2, <1>3, <1>4, UnservedStep DEF LockTimeout

LEMMA ScanSerial ==
  ASSUME TypeOK, SerialInv, NEW t \in Threads, Scan(t) \/ PublishScan(t)
  PROVE  SerialInv'
<1>1. task[t].pc \in {"scan", "publish_scan"} /\ task[t].op = "scan"
  BY DEF Scan, PublishScan, At, SerialInv, Roles, RolePCs, ServedPCs, OpenPCs, ClosePCs,
         AdminEvents
<1>2. /\ OnlyTask(t)
      /\ \/ task'[t].pc = "idle" /\ task'[t].op = "none"
         \/ task'[t].pc = "publish_scan" /\ task'[t].op = "scan"
  <2>1. CASE Scan(t)
    <3>1. PICK S \in SUBSET Cams :
            SetTask(t, [task[t] EXCEPT !.pc = "publish_scan", !.todo = S])
      BY <2>1 DEF Scan
    <3> DEFINE r == [task[t] EXCEPT !.pc = "publish_scan", !.todo = S]
    <3>2. r \in Task /\ r.pc = "publish_scan" /\ r.op = "scan"
      BY <1>1 DEF Task, PCs, OtherPCs, TypeOK
    <3> QED BY <3>1, <3>2, SetTaskEffect DEF TypeOK
  <2>2. CASE PublishScan(t)
    BY <2>2, IdleTaskType, SetTaskEffect DEF PublishScan, Finish, TypeOK, IdleTask
  <2> QED BY <2>1, <2>2
<1>3. {"scan", "publish_scan", "idle"} \cap ServedPCs = {}
  BY DEF ServedPCs, OpenPCs, ClosePCs
<1>4. OnlyUnusedRenewed /\ \A e \in Cams : SameCamera(e)
  BY DEF Scan, PublishScan, OnlyUnusedRenewed, SameCamera, registry, plugins
<1>5. "idle" \in RolePCs("none") /\ "publish_scan" \in RolePCs("scan")
  BY DEF RolePCs
<1>6. op_lock' = op_lock
  BY DEF Scan, PublishScan
<1> QED BY <1>1, <1>2, <1>3, <1>4, <1>5, <1>6, UnservedStep DEF AdminEvents

\* Requests begin without the lock; no other event is among them.
LEMMA EventSerial ==
  ASSUME Requests \subseteq AdminEvents, TypeOK, SerialInv, NEW t \in Threads, Event(t)
  PROVE  SerialInv'
<1>1. ASSUME NEW op \in AdminEvents, NEW l \in {"lock", "scan"}, NEW c \in Cams \cup {NoCam},
             Begin(t, op, l, c), l \in RolePCs(op),
             registry' = registry, plugins' = plugins, op_lock' = op_lock, driver' = driver
      PROVE  SerialInv'
  <2> DEFINE r == [IdleTask EXCEPT !.op = op, !.pc = l, !.cam = c]
  <2>1. r \in Task /\ r.pc = l /\ r.op = op
    BY IdleTaskType DEF IdleTask, Task, PCs, OtherPCs, Ops, AdminEvents
  <2>2. OnlyTask(t) /\ task'[t].pc = l /\ task'[t].op = op
    BY <1>1, <2>1, SetTaskEffect DEF Begin, TypeOK
  <2>3. task[t].pc \notin ServedPCs /\ l \notin ServedPCs
    BY <1>1 DEF Begin, At, ServedPCs, OpenPCs, ClosePCs
  <2>4. OnlyUnusedRenewed /\ \A e \in Cams : SameCamera(e)
    BY <1>1 DEF OnlyUnusedRenewed, SameCamera, registry, plugins
  <2> QED BY <1>1, <2>2, <2>3, <2>4, UnservedStep
<1>2. ASSUME NEW v \in Viewers, Connect(t, v) \/ Disconnect(t, v) PROVE FALSE
  BY <1>2 DEF Connect, Disconnect, AdminEvents
<1>3. ASSUME NEW op \in Ops, NEW c \in Cams, CamRequest(t, op, c) PROVE SerialInv'
  <2>1. op \in AdminEvents \ {"scan"} /\ "lock" \in RolePCs(op)
    BY <1>3 DEF CamRequest, AdminEvents, RolePCs
  <2> QED BY <1>1, <1>3, <2>1 DEF CamRequest
<1>4. ASSUME NEW c \in Cams, PluginIdle(t, c) PROVE FALSE
  BY <1>4 DEF PluginIdle, AdminEvents
<1>5. ASSUME CloseAllRequest(t) PROVE FALSE
  BY <1>5 DEF CloseAllRequest, AdminEvents
<1>6. ASSUME ScanRequest(t) PROVE SerialInv'
  BY <1>1, <1>6 DEF ScanRequest, AdminEvents, RolePCs
<1>7. ASSUME NEW d \in Drivers, Unplug(t, d) PROVE FALSE
  BY <1>7 DEF Unplug, AdminEvents
<1> QED BY <1>2, <1>3, <1>4, <1>5, <1>6, <1>7 DEF Event

\* Nor do the handlers that walk over several cameras run.
LEMMA NoSweep ==
  ASSUME SerialInv, NEW t \in Threads
  PROVE  ~(\/ SnapshotOpen(t) \/ ClearIntents(t) \/ Sweep(t) \/ ListOpen(t)
           \/ CollectBusy(t) \/ NextClose(t) \/ CheckIdle(t) \/ CheckBusy(t)
           \/ RecheckViewers(t) \/ SnapshotIntents(t) \/ NextOpen(t))
<1>1. task[t].pc \in ServedPCs \cup {"idle", "lock", "scan", "publish_scan"}
  BY DEF SerialInv, Roles, RolePCs, ServedPCs
<1> QED BY <1>1 DEF SnapshotOpen, ClearIntents, Sweep, ListOpen, CollectBusy, NextClose,
                    CheckIdle, CheckBusy, RecheckViewers, SnapshotIntents, NextOpen, At,
                    ServedPCs, OpenPCs, ClosePCs

\* A step that changes neither tasks nor tables nor makes a driver new.
LEMMA UnseenStep ==
  ASSUME TypeOK, SerialInv, task' = task, op_lock' = op_lock, registry' = registry,
         told' = told, streams' = streams, OnlyUnusedRenewed
  PROVE  SerialInv'
<1>1. Roles' /\ Exclusive'
  BY DEF SerialInv, Roles, Exclusive
<1>2. ASSUME NEW c \in Cams PROVE Tables(c)' /\ InHand(c)'
  <2>1. Stage(c)' = Stage(c) /\ ((c \in Open)' <=> c \in Open) /\ cameras' = cameras
    BY DEF Stage, Open, registry
  <2>2. Tables(c) /\ InHand(c)
    BY DEF SerialInv
  <2>3. Tables(c)'
    BY <2>1, <2>2 DEF Tables, registry
  <2>4. c \in Open => cameras[c] \in Drivers \ Unused
    BY DEF Open, Unused, TypeOK
  <2> QED BY <2>1, <2>2, <2>3, <2>4 DEF InHand, OnlyUnusedRenewed
<1> QED BY <1>1, <1>2 DEF SerialInv

LEMMA SerialStep ==
  ASSUME Requests \subseteq AdminEvents, RegistryInv, SerialInv, [Next]_vars
  PROVE  SerialInv'
<1>0. TypeOK /\ StartedOnce
  BY DEF RegistryInv
<1>1. ASSUME NEW t \in Threads, Opening(t) PROVE SerialInv'
  BY <1>0, <1>1, CheckOpenSerial, LookupSerial, OpenDeviceSerial, OpenDeviceFailsSerial,
     InsertSerial, StartPipelineSerial, StartDriverSerial, AddIntentSerial,
     NotifyOpenSerial, AddStreamSerial DEF Opening
<1>2. ASSUME NEW t \in Threads, Closing(t) PROVE SerialInv'
  BY <1>0, <1>2, DiscardIntentSerial, GuardSerial, NotifyCloseSerial, PreCloseSerial,
     StopDriverSerial, JoinDriverSerial, NeverRaises, StopPipelineSerial, RemoveSerial
  DEF Closing
<1>3. ASSUME NEW t \in Threads, Handling(t) PROVE SerialInv'
  BY <1>0, <1>3, AcquireSerial, LockTimeoutSerial, ReleaseSerial, SetModeSerial, NoSweep,
     ScanSerial DEF Handling
<1>4. ASSUME NEW t \in Threads, Event(t) PROVE SerialInv'
  BY <1>0, <1>4, EventSerial
<1>5. ASSUME NEW c \in Cams, Record(c) PROVE SerialInv'
  BY <1>5 DEF Record, AdminEvents
<1>6. ASSUME NEW d \in Drivers, Driving(d) PROVE SerialInv'
  <2>1. OnlyUnusedRenewed
    BY <1>0, <1>6 DEF Driving, DriverRuns, DriverEnds, Ended, OnlyUnusedRenewed, TypeOK
  <2> QED BY <1>0, <1>6, <2>1, UnseenStep DEF Driving, DriverRuns, DriverEnds, plugins
<1>7. CASE UNCHANGED vars
  BY <1>0, <1>7, UnseenStep DEF vars, plugins, OnlyUnusedRenewed
<1> QED BY <1>1, <1>2, <1>3, <1>4, <1>5, <1>6, <1>7 DEF Next, Step

\* The tables agree when the process starts, on no camera or on those already open.
LEMMA SerialInit == Init => SerialInv
<1> SUFFICES ASSUME Init PROVE SerialInv
  OBVIOUS
<1>1. \A t \in Threads : task[t].pc = "idle" /\ task[t].op = "none"
  BY DEF Init, IdleTask
<1>2. \A c \in Cams : op_lock[c] = NoThread
  BY DEF Init
<1>3. Roles
  BY <1>1 DEF Roles, RolePCs, AdminEvents
<1>4. Exclusive
  BY <1>1, <1>2, CameraAssumption DEF Exclusive, ServedPCs, OpenPCs, ClosePCs
<1>5. Open = InitOpen
  <2>1. PICK f \in [InitOpen -> Drivers] :
          cameras = [c \in Cams |-> IF c \in InitOpen THEN f[c] ELSE NoDriver]
    BY DEF Init
  <2> QED BY <2>1, CameraAssumption DEF Open
<1>6. \A d \in Drivers : driver[d].state # "opened"
  BY DEF Init, Ended
<1>7. ASSUME NEW c \in Cams PROVE Tables(c) /\ InHand(c)
  <2>1. Stage(c) = "idle"
    BY <1>2 DEF Stage
  <2>2. Tables(c)
    BY <1>5, <2>1 DEF Init, Tables, Untold, Unstarted, Heard, ClosePCs
  <2>3. c \in Open => cameras[c] \in Drivers
    BY InitInv DEF RegistryInv, TypeOK, Open
  <2> QED BY <1>6, <2>1, <2>2, <2>3 DEF InHand, Unstarted, ClosePCs
<1> QED BY <1>3, <1>4, <1>7 DEF SerialInv

LEMMA AlwaysSerial ==
  ASSUME Requests \subseteq AdminEvents
  PROVE  Spec => [](RegistryInv /\ SerialInv)
<1>1. RegistryInv /\ SerialInv /\ [Next]_vars => (RegistryInv /\ SerialInv)'
  BY StepInv, SerialStep
<1> QED BY <1>1, InitInv, SerialInit, PTL DEF Spec

\* When only the handlers that take the operation lock run, every table agrees on
\* which cameras are open whenever no handler is under way: drivers, pipelines,
\* streams, plugins and intents (open_camera, _close_camera_internal).
THEOREM LockedQuiet ==
  ASSUME Requests \subseteq AdminEvents
  PROVE  Spec => []QuietConsistent
<1>1. RegistryInv /\ SerialInv => QuietConsistent
  <2> SUFFICES ASSUME RegistryInv, SerialInv, Quiet
               PROVE  /\ pipelines = Open /\ streams = Open /\ told = Open
                      /\ auto_reopen = Open /\ closing = {}
    BY DEF QuietConsistent
  <2>1. \A c \in Cams : Stage(c) = "idle" /\ Tables(c)
    BY DEF SerialInv, Exclusive, RegistryInv, TypeOK, Quiet, At, Stage, ServedPCs,
           OpenPCs, ClosePCs
  <2>2. \A c \in Cams : /\ c \in pipelines <=> c \in Open
                        /\ c \in streams <=> c \in Open
                        /\ c \in told <=> c \in Open
                        /\ c \in auto_reopen <=> c \in Open
                        /\ c \notin closing
    BY <2>1 DEF Tables, Untold, Unstarted, Heard, ClosePCs
  <2> QED BY <2>2 DEF RegistryInv, TypeOK, Open
<1> QED BY <1>1, AlwaysSerial, PTL

\* An admin's close leaves no intent to reopen the camera behind, under the same
\* condition: nobody else works on the camera until the handler has returned.
THEOREM LockedCloseForgets ==
  ASSUME Requests \subseteq AdminEvents
  PROVE  Spec => []AdminCloseClearsIntent
<1>1. SerialInv => AdminCloseClearsIntent
  <2> SUFFICES ASSUME SerialInv, NEW t \in Threads, task[t].op = "close", At(t, "release")
               PROVE  task[t].cam \notin auto_reopen
    BY DEF AdminCloseClearsIntent
  <2>1. Holding(t, task[t].cam)
    BY HolderKnows DEF At, ServedPCs
  <2> QED BY <2>1 DEF Holding, InHand, Tables, At
<1> QED BY <1>1, AlwaysSerial, PTL

\* open_camera never puts a second driver in the place of one that is open, under the
\* same condition: its check still holds when it inserts the driver.
THEOREM LockedOpenOnce ==
  ASSUME Requests \subseteq AdminEvents
  PROVE  Spec => NoDriverReplaced
<1> DEFINE Kept == \A c \in Cams : cameras[c] # NoDriver => cameras'[c] \in {cameras[c], NoDriver}
<1>1. RegistryInv /\ SerialInv /\ [Next]_vars => [Kept]_cameras
  <2> SUFFICES ASSUME RegistryInv, SerialInv, [Next]_vars PROVE Kept \/ UNCHANGED cameras
    OBVIOUS
  <2>1. ASSUME NEW t \in Threads, Insert(t) PROVE Kept
    <3>1. task[t].pc = "insert" /\ "insert" \in ServedPCs
      BY <2>1 DEF Insert, At, ServedPCs, OpenPCs
    <3>2. PICK c \in Cams : task[t].cam = c /\ c \notin Open
      BY <3>1, HolderKnows DEF Holding, Tables
    <3> QED BY <2>1, <3>2 DEF Insert, Open, RegistryInv, TypeOK
  <2>2. ASSUME NEW t \in Threads, Remove(t) PROVE Kept
    BY <2>2 DEF Remove, RegistryInv, TypeOK
  <2>3. ASSUME NEW t \in Threads, Event(t) \/ Handling(t) PROVE UNCHANGED cameras
    BY <2>3, EventOrHandlingKeeps DEF RegistryInv
  <2>4. ASSUME NEW t \in Threads, Opening(t) PROVE Insert(t) \/ UNCHANGED cameras
    BY <2>4, OpeningKeeps DEF RegistryInv
  <2>5. ASSUME NEW t \in Threads, Closing(t) PROVE Remove(t) \/ UNCHANGED cameras
    BY <2>5 DEF Closing, DiscardIntent, Guard, NotifyClose, PreClose, StopDriver, JoinDriver,
                JoinRaises, StopPipeline, registry
  <2>6. ASSUME NEW c \in Cams, Record(c) PROVE UNCHANGED cameras
    BY <2>6 DEF Record, registry
  <2>7. ASSUME NEW d \in Drivers, Driving(d) PROVE UNCHANGED cameras
    BY <2>7 DEF Driving, DriverRuns, DriverEnds, registry
  <2>8. CASE UNCHANGED vars
    BY <2>8 DEF vars, registry
  <2> QED BY <2>1, <2>2, <2>3, <2>4, <2>5, <2>6, <2>7, <2>8 DEF Next, Step
<1> QED BY <1>1, AlwaysSerial, PTL DEF Spec, NoDriverReplaced

\* Nor is a close abandoned with its camera still marked: only a camera opened without
\* the lock can meet its closer before its driver is started.
THEOREM LockedCloseEnds ==
  ASSUME Requests \subseteq AdminEvents
  PROVE  Spec => []ClosingHasCloser
<1>1. RegistryInv /\ SerialInv => ClosingHasCloser
  <2> SUFFICES ASSUME RegistryInv, SerialInv, NEW c \in closing
               PROVE  \E t \in Threads : ClosingNow(t, c)
    BY DEF ClosingHasCloser
  <2>1. c \in Cams /\ Stage(c) \in ClosePCs
    BY DEF RegistryInv, TypeOK, SerialInv, Tables
  <2>2. op_lock[c] \in Threads /\ task[op_lock[c]].pc \in ClosePCs
    BY <2>1 DEF Stage, ClosePCs, RegistryInv, TypeOK
  <2>3. task[op_lock[c]].cam = c
    BY <2>1, <2>2 DEF SerialInv, Exclusive
  <2> QED BY <2>2, <2>3 DEF ClosingNow
<1> QED BY <1>1, AlwaysSerial, PTL

-----------------------------------------------------------------------------
(* Auto-close and busy cameras, whatever else happens: the question is put to *)
(* the plugins once, before the first of several closes, so a camera may begin *)
(* to work behind the answer; it is the only way a busy one is closed.       *)

AutoOps   == {"sweep", "auto"}
CloserPCs == ClosePCs \cup {"guard", "release"}

\* The statements each handler is made of.
HandlerPCs(op) ==
  CASE op = "open"     -> OpenPCs \cup {"lock", "release"}
    [] op = "native"   -> OpenPCs \cup CloserPCs \cup {"lock", "discard_intent", "set_mode"}
    [] op = "reopen"   -> OpenPCs \cup {"snapshot_intents", "next_open"}
    [] op = "close"    -> CloserPCs \cup {"lock", "discard_intent"}
    [] op = "unplug"   -> CloserPCs \cup {"discard_intent"}
    [] op = "closeAll" -> CloserPCs \cup {"snapshot_open", "clear_intents", "next_close"}
    [] op = "sweep"    -> CloserPCs \cup {"sweep", "list_open", "collect_busy", "next_close",
                                          "recheck_viewers"}
    [] op = "auto"     -> CloserPCs \cup {"check_idle", "check_busy", "recheck_viewers"}
    [] op = "scan"     -> {"scan", "publish_scan"}
    [] op = "none"     -> {"idle"}
    [] OTHER           -> {}

\* An automatic closer has asked about c and has yet to close it.
Asked(t, c) ==
  \/ task[t].op \in AutoOps /\ task[t].pc = "guard" /\ task[t].cam = c
  \/ /\ task[t].op = "sweep" /\ task[t].pc \in ClosePCs \cup {"next_close", "guard"}
     /\ c \in task[t].todo

\* A step that sets a camera to work behind such an answer.
BusyBehind == \E t \in Threads : \E c \in busy' \ busy : Asked(t, c)

Spares(t) == /\ task[t].pc \in HandlerPCs(task[t].op)
             /\ \A c \in busy : ~Asked(t, c)
SpareInv  == \A t \in Threads : Spares(t)

LEMMA OthersSpare ==
  ASSUME SpareInv, ~BusyBehind, NEW t \in Threads, OnlyTask(t), Spares(t)'
  PROVE  SpareInv'
<1> SUFFICES ASSUME NEW u \in Threads \ {t} PROVE Spares(u)'
  BY DEF SpareInv
<1>1. Spares(u) /\ task'[u] = task[u]
  BY DEF SpareInv, OnlyTask
<1>2. \A c \in busy' : ~Asked(u, c)
  BY <1>1 DEF BusyBehind, Spares
<1> QED BY <1>1, <1>2 DEF Spares, Asked

\* Where a handler that does not close by itself goes is only a question of its pcs.
LEMMA OtherSpares ==
  ASSUME SpareInv, ~BusyBehind, NEW t \in Threads, OnlyTask(t),
         task'[t].op \notin AutoOps, task'[t].pc \in HandlerPCs(task'[t].op)
  PROVE  SpareInv'
<1>1. Spares(t)'
  BY DEF Spares, Asked, AutoOps
<1> QED BY <1>1, OthersSpare

\* t goes on to l in the same handler, with the same camera and list in hand.
Goes(t, l) == /\ OnlyTask(t) /\ task'[t].pc = l /\ task'[t].op = task[t].op
              /\ task'[t].cam = task[t].cam /\ task'[t].todo = task[t].todo

LEMMA GotoGoes ==
  ASSUME TypeOK, NEW t \in Threads, NEW l \in PCs, Goto(t, l) \/ Return(t, l)
  PROVE  Goes(t, l)
<1>1. task[t] \in Task
  BY DEF TypeOK
<1>2. ASSUME NEW r \in Task, SetTask(t, r) PROVE OnlyTask(t) /\ task'[t] = r
  BY <1>2, SetTaskEffect DEF TypeOK
<1>3. CASE Goto(t, l)
  <2> DEFINE r == [task[t] EXCEPT !.pc = l]
  <2>1. r \in Task /\ r.pc = l /\ r.cam = task[t].cam /\ r.todo = task[t].todo
                   /\ r.op = task[t].op
    BY <1>1 DEF Task
  <2> QED BY <1>2, <1>3, <2>1 DEF Goto, Goes
<1>4. CASE Return(t, l) /\ ~Goto(t, l)
  <2> DEFINE r == [task[t] EXCEPT !.pc = l, !.drv = NoDriver]
  <2>1. r \in Task /\ r.pc = l /\ r.cam = task[t].cam /\ r.op = task[t].op
                   /\ r.todo = task[t].todo
    BY <1>1 DEF Task
  <2> QED BY <1>2, <1>4, <2>1 DEF Return, Goes
<1> QED BY <1>3, <1>4

LEMMA FinishSpares ==
  ASSUME TypeOK, SpareInv, ~BusyBehind, NEW t \in Threads, Finish(t)
  PROVE  SpareInv'
<1>1. OnlyTask(t) /\ task'[t].pc = "idle" /\ task'[t].op = "none"
  BY IdleTaskType, SetTaskEffect DEF Finish, TypeOK, IdleTask
<1> QED BY <1>1, OtherSpares DEF HandlerPCs, AutoOps

\* A statement that asks nothing and picks no camera.
LEMMA GoesSpares ==
  ASSUME TypeOK, SpareInv, ~BusyBehind, NEW t \in Threads, NEW l \in PCs, Goes(t, l),
         l \in HandlerPCs(task[t].op),
         task[t].op \in AutoOps => /\ l # "guard" /\ busy' \subseteq busy
                                   /\ l \in ClosePCs \cup {"next_close"} =>
                                        task[t].pc \in ClosePCs \cup {"next_close", "guard"}
  PROVE  SpareInv'
<1>1. Spares(t)
  BY DEF SpareInv
<1>2. Spares(t)'
  BY <1>1 DEF Goes, Spares, Asked, AutoOps
<1> QED BY <1>2, OthersSpare DEF Goes

LEMMA SpareEvent ==
  ASSUME TypeOK, SpareInv, ~BusyBehind, NEW t \in Threads, Event(t)
  PROVE  SpareInv'
<1>1. ASSUME NEW op \in Ops, NEW l \in PCs, NEW c \in Cams \cup {NoCam}, Begin(t, op, l, c),
             l \in HandlerPCs(op), l \notin ClosePCs \cup {"next_close", "guard"}
      PROVE  SpareInv'
  <2> DEFINE r == [IdleTask EXCEPT !.op = op, !.pc = l, !.cam = c]
  <2>1. r \in Task /\ r.pc = l /\ r.op = op
    BY IdleTaskType DEF IdleTask, Task
  <2>2. OnlyTask(t) /\ task'[t].pc = l /\ task'[t].op = op
    BY <1>1, <2>1, SetTaskEffect DEF Begin, TypeOK
  <2>3. Spares(t)'
    BY <1>1, <2>2 DEF Spares, Asked
  <2> QED BY <2>2, <2>3, OthersSpare
<1>2. ASSUME NEW v \in Viewers, Connect(t, v) \/ Disconnect(t, v) PROVE SpareInv'
  BY <1>1, <1>2 DEF Connect, Disconnect, Ops, PCs, OtherPCs, HandlerPCs, ClosePCs
<1>3. ASSUME NEW op \in Ops, NEW c \in Cams, CamRequest(t, op, c) PROVE SpareInv'
  BY <1>1, <1>3 DEF CamRequest, PCs, OtherPCs, HandlerPCs, ClosePCs
<1>4. ASSUME NEW c \in Cams, PluginIdle(t, c) PROVE SpareInv'
  BY <1>1, <1>4 DEF PluginIdle, Ops, PCs, OtherPCs, HandlerPCs, ClosePCs
<1>5. ASSUME CloseAllRequest(t) \/ ScanRequest(t) PROVE SpareInv'
  BY <1>1, <1>5 DEF CloseAllRequest, ScanRequest, Ops, PCs, OtherPCs, HandlerPCs, ClosePCs
<1>6. ASSUME NEW d \in Drivers, Unplug(t, d) PROVE SpareInv'
  <2>1. driver[d].cam \in Cams
    BY <1>6 DEF Unplug, TypeOK
  <2> QED BY <1>1, <1>6, <2>1 DEF Unplug, Ops, PCs, OtherPCs, HandlerPCs, CloserPCs, ClosePCs
<1> QED BY <1>2, <1>3, <1>4, <1>5, <1>6 DEF Event

LEMMA SpareOpening ==
  ASSUME TypeOK, SpareInv, ~BusyBehind, NEW t \in Threads, Opening(t)
  PROVE  SpareInv'
<1>0. task[t].pc \in OpenPCs /\ task[t].op \in {"open", "native", "reopen"}
  <2>1. task[t].pc \in OpenPCs
    BY DEF Opening, CheckOpen, Lookup, OpenDevice, OpenDeviceFails, Insert, StartPipeline,
           StartDriver, AddIntent, NotifyOpen, AddStream, At, OpenPCs
  <2>2. task[t].pc \in HandlerPCs(task[t].op)
    BY DEF SpareInv, Spares
  <2> QED BY <2>1, <2>2 DEF HandlerPCs, CloserPCs, ClosePCs, OpenPCs
<1>1. /\ OpenPCs \cup {AfterOpen(task[t].op)} \subseteq HandlerPCs(task[t].op)
      /\ OpenPCs \cup {AfterOpen(task[t].op)} \subseteq PCs
      /\ task[t].op \notin AutoOps
  BY <1>0 DEF AfterOpen, HandlerPCs, CloserPCs, PCs, OtherPCs, AutoOps
<1>2. ASSUME NEW l \in OpenPCs \cup {AfterOpen(task[t].op)}, Goto(t, l) \/ Return(t, l)
      PROVE  SpareInv'
  <2>1. Goes(t, l)
    BY <1>1, <1>2, GotoGoes
  <2> QED BY <1>1, <2>1, OtherSpares DEF Goes
<1>3. ASSUME NEW r \in Task, SetTask(t, r), r.op = task[t].op, r.pc \in OpenPCs
      PROVE  SpareInv'
  <2>1. OnlyTask(t) /\ task'[t] = r
    BY <1>3, SetTaskEffect DEF TypeOK
  <2> QED BY <1>1, <1>3, <2>1, OtherSpares
<1>4. CASE CheckOpen(t) \/ Lookup(t) \/ Insert(t) \/ StartPipeline(t) \/ StartDriver(t)
  BY <1>2, <1>4 DEF CheckOpen, Lookup, Insert, StartPipeline, StartDriver, OpenPCs
<1>5. CASE AddIntent(t) \/ NotifyOpen(t) \/ AddStream(t)
  BY <1>2, <1>5 DEF AddIntent, NotifyOpen, AddStream, OpenPCs
<1>6. CASE OpenDevice(t)
  <2> DEFINE r == [task[t] EXCEPT !.pc = "insert", !.drv = NewDriver]
  <2>1. NewDriver \in Drivers
    BY <1>6 DEF OpenDevice, NewDriver, Unused
  <2>2. r \in Task /\ r.op = task[t].op /\ r.pc \in OpenPCs
    BY <2>1 DEF TypeOK, Task, PCs, OpenPCs
  <2> QED BY <1>3, <1>6, <2>2 DEF OpenDevice
<1>7. CASE OpenDeviceFails(t)
  <2> DEFINE r == [task[t] EXCEPT !.pc = "check_open", !.retried = TRUE]
  <2>1. r \in Task /\ r.op = task[t].op /\ r.pc \in OpenPCs
    BY DEF TypeOK, Task, PCs, OpenPCs
  <2>2. SetTask(t, r) => SpareInv'
    BY <1>3, <2>1
  <2> QED BY <1>2, <1>7, <2>2 DEF OpenDeviceFails
<1> QED BY <1>4, <1>5, <1>6, <1>7 DEF Opening

LEMMA SpareClosing ==
  ASSUME TypeOK, SpareInv, ~BusyBehind, NEW t \in Threads, Closing(t)
  PROVE  SpareInv'
<1>1. Spares(t) /\ busy' \subseteq busy
  BY DEF SpareInv, Closing, DiscardIntent, Guard, NotifyClose, PreClose, StopDriver,
         JoinDriver, JoinRaises, StopPipeline, Remove, plugins
<1>2. task[t].pc \in ClosePCs \cup {"guard"} =>
        /\ CloserPCs \subseteq HandlerPCs(task[t].op)
        /\ AfterClose(task[t].op) \in HandlerPCs(task[t].op)
        /\ AfterClose(task[t].op) \in PCs \ {"guard"}
  <2> SUFFICES ASSUME task[t].pc \in ClosePCs \cup {"guard"}
               PROVE  /\ CloserPCs \subseteq HandlerPCs(task[t].op)
                      /\ AfterClose(task[t].op) \in HandlerPCs(task[t].op)
                      /\ AfterClose(task[t].op) \in PCs \ {"guard"}
    OBVIOUS
  <2>1. task[t].op \in {"native", "close", "unplug", "closeAll", "sweep", "auto"}
    BY <1>1 DEF Spares, HandlerPCs, ClosePCs, OpenPCs
  <2>2. CloserPCs \subseteq HandlerPCs(task[t].op)
    BY <2>1 DEF HandlerPCs
  <2>3. AfterClose(task[t].op) \in HandlerPCs(task[t].op)
    BY <2>1 DEF HandlerPCs, CloserPCs, AfterClose
  <2> QED BY <2>1, <2>2, <2>3 DEF AfterClose, PCs, OtherPCs
<1>3. DiscardIntent(t) => SpareInv'
  <2> SUFFICES ASSUME DiscardIntent(t) PROVE SpareInv'
    OBVIOUS
  <2>1. task[t].op \in {"native", "close", "unplug"}
    BY <1>1 DEF DiscardIntent, At, Spares, HandlerPCs, CloserPCs, ClosePCs, OpenPCs
  <2>2. Goes(t, "guard")
    BY GotoGoes DEF DiscardIntent, PCs, OtherPCs
  <2> QED BY <2>1, <2>2, OtherSpares DEF Goes, HandlerPCs, CloserPCs, AutoOps
<1>4. ASSUME NEW l \in ClosePCs \cup {"release", AfterClose(task[t].op)},
             Goto(t, l) \/ Return(t, l), task[t].pc \in ClosePCs \cup {"guard"}
      PROVE  SpareInv'
  <2>1. l \in PCs /\ l \in HandlerPCs(task[t].op) /\ l # "guard"
    BY <1>2, <1>4 DEF PCs, OtherPCs, CloserPCs, ClosePCs
  <2>2. Goes(t, l)
    BY <1>4, <2>1, GotoGoes
  <2> QED BY <1>1, <1>4, <2>1, <2>2, GoesSpares
<1>5. ASSUME \/ NotifyClose(t) \/ PreClose(t) \/ StopDriver(t) \/ JoinDriver(t)
             \/ JoinRaises(t) \/ StopPipeline(t) \/ Remove(t)
      PROVE  SpareInv'
  BY <1>4, <1>5 DEF NotifyClose, PreClose, StopDriver, JoinDriver, JoinRaises, StopPipeline,
              Remove, At, ClosePCs
<1>6. Guard(t) => SpareInv'
  <2> SUFFICES ASSUME Guard(t) PROVE SpareInv'
    OBVIOUS
  <2>1. CASE Goto(t, AfterClose(task[t].op))
    BY <1>4, <2>1 DEF Guard, At
  <2>2. CASE SetTask(t, [task[t] EXCEPT !.pc = "notify_close", !.drv = cameras[task[t].cam]])
    <3> DEFINE r == [task[t] EXCEPT !.pc = "notify_close", !.drv = cameras[task[t].cam]]
    <3>1. r \in Task /\ r.pc = "notify_close" /\ r.op = task[t].op /\ r.todo = task[t].todo
                     /\ r.cam = task[t].cam
      BY DEF Guard, At, TypeOK, Task, PCs, ClosePCs, CamPCs
    <3>2. OnlyTask(t) /\ task'[t] = r
      BY <2>2, <3>1, SetTaskEffect DEF TypeOK
    <3>3. Goes(t, "notify_close") /\ task[t].pc = "guard"
      BY <3>1, <3>2 DEF Goes, Guard, At
    <3> QED BY <1>1, <1>2, <3>3, GoesSpares DEF PCs, ClosePCs, CloserPCs
  <2> QED BY <2>1, <2>2 DEF Guard
<1> QED BY <1>3, <1>5, <1>6 DEF Closing

LEMMA SpareHandling ==
  ASSUME TypeOK, SpareInv, ~BusyBehind, NEW t \in Threads, Handling(t)
  PROVE  SpareInv'
<1>0. Spares(t) /\ busy' = busy
  BY DEF SpareInv, Handling, AcquireLock, LockTimeout, Release, SetMode, SnapshotOpen,
         ClearIntents, Sweep, ListOpen, CollectBusy, NextClose, CheckIdle, CheckBusy,
         RecheckViewers, SnapshotIntents, NextOpen, Scan, PublishScan, plugins
<1>p. ASSUME NEW l \in {"lock", "set_mode", "snapshot_open", "clear_intents", "sweep",
                        "list_open", "collect_busy", "next_close", "check_idle", "check_busy",
                        "recheck_viewers", "snapshot_intents", "next_open", "scan"},
             task[t].pc = l
      PROVE  task[t].op \in CASE l = "lock" -> {"open", "native", "close"}
                              [] l = "set_mode" -> {"native"}
                              [] l \in {"snapshot_open", "clear_intents"} -> {"closeAll"}
                              [] l \in {"sweep", "list_open", "collect_busy"} -> {"sweep"}
                              [] l = "next_close" -> {"closeAll", "sweep"}
                              [] l \in {"check_idle", "check_busy"} -> {"auto"}
                              [] l = "recheck_viewers" -> {"sweep", "auto"}
                              [] l = "scan" -> {"scan"}
                              [] OTHER -> {"reopen"}
  BY <1>0, <1>p DEF Spares, HandlerPCs, CloserPCs, ClosePCs, OpenPCs
<1>1. Finish(t) => SpareInv'
  BY FinishSpares
<1>2. LockTimeout(t) \/ Release(t) \/ PublishScan(t) => SpareInv'
  BY <1>1 DEF LockTimeout, Release, PublishScan
\* A statement that also sets the list.
<1>3. ASSUME NEW l \in PCs, NEW S \in SUBSET Cams,
             SetTask(t, [task[t] EXCEPT !.pc = l, !.todo = S]),
             l \in HandlerPCs(task[t].op), l \notin ClosePCs \cup {"guard"},
             l = "next_close" => S \cap busy = {}
      PROVE  SpareInv'
  <2> DEFINE r == [task[t] EXCEPT !.pc = l, !.todo = S]
  <2>1. r \in Task /\ r.pc = l /\ r.op = task[t].op /\ r.todo = S
    BY DEF TypeOK, Task
  <2>2. OnlyTask(t) /\ task'[t] = r
    BY <1>3, <2>1, SetTaskEffect DEF TypeOK
  <2>3. Spares(t)'
    BY <1>0, <1>3, <2>1, <2>2 DEF Spares, Asked
  <2> QED BY <2>2, <2>3, OthersSpare
<1>4. AcquireLock(t) \/ SetMode(t) => SpareInv'
  <2> SUFFICES ASSUME AcquireLock(t) \/ SetMode(t) PROVE SpareInv'
    OBVIOUS
  <2>1. PICK l \in {"check_open", "discard_intent"} :
          Goto(t, l) /\ l \in HandlerPCs(task[t].op) /\ task[t].op \notin AutoOps
    <3>1. CASE AcquireLock(t)
      <4>1. task[t].op \in {"open", "native", "close"}
        BY <1>p, <3>1 DEF AcquireLock, At
      <4> QED BY <3>1, <4>1 DEF AcquireLock, HandlerPCs, OpenPCs, AutoOps
    <3>2. CASE SetMode(t)
      <4>1. task[t].op = "native"
        BY <1>p, <3>2 DEF SetMode, At
      <4> QED BY <3>2, <4>1 DEF SetMode, HandlerPCs, OpenPCs, AutoOps
    <3> QED BY <3>1, <3>2
  <2>2. Goes(t, l)
    BY <2>1, GotoGoes DEF PCs, OtherPCs, OpenPCs
  <2> QED BY <2>1, <2>2, OtherSpares DEF Goes
<1>5. SnapshotOpen(t) \/ ClearIntents(t) => SpareInv'
  <2> SUFFICES ASSUME SnapshotOpen(t) \/ ClearIntents(t) PROVE SpareInv'
    OBVIOUS
  <2>1. task[t].op = "closeAll"
    BY <1>p DEF SnapshotOpen, ClearIntents, At
  <2>2. CASE SnapshotOpen(t)
    <3>1. PICK S \in SUBSET Cams : SetTask(t, [task[t] EXCEPT !.pc = "clear_intents", !.todo = S])
      BY <2>2 DEF SnapshotOpen, Open
    <3>2. "clear_intents" \in HandlerPCs(task[t].op) /\ "clear_intents" \in PCs
      BY <2>1 DEF HandlerPCs, PCs, OtherPCs
    <3>3. "clear_intents" \notin ClosePCs \cup {"guard"}
      BY DEF ClosePCs
    <3> QED BY <1>3, <3>1, <3>2, <3>3
  <2>3. CASE ClearIntents(t)
    <3>1. Goes(t, "next_close")
      BY <2>3, GotoGoes DEF ClearIntents, PCs, OtherPCs
    <3> QED BY <2>1, <3>1, OtherSpares DEF Goes, HandlerPCs, AutoOps
  <2> QED BY <2>2, <2>3
<1>6. Sweep(t) \/ CheckIdle(t) => SpareInv'
  <2> SUFFICES ASSUME Sweep(t) \/ CheckIdle(t), ~Finish(t) PROVE SpareInv'
    BY <1>1
  <2>1. PICK l \in {"list_open", "check_busy"} : Goto(t, l) /\ l \in HandlerPCs(task[t].op)
    <3>1. CASE Sweep(t)
      <4>1. task[t].op = "sweep"
        BY <1>p, <3>1 DEF Sweep, At
      <4> QED BY <3>1, <4>1 DEF Sweep, HandlerPCs
    <3>2. CASE CheckIdle(t)
      <4>1. task[t].op = "auto"
        BY <1>p, <3>2 DEF CheckIdle, At
      <4> QED BY <3>2, <4>1 DEF CheckIdle, HandlerPCs
    <3> QED BY <3>1, <3>2
  <2>2. Goes(t, l) /\ l \in PCs
    BY <2>1, GotoGoes DEF PCs, OtherPCs
  <2> QED BY <1>0, <2>1, <2>2, GoesSpares DEF ClosePCs
<1>7. ListOpen(t) \/ CollectBusy(t) => SpareInv'
  <2> SUFFICES ASSUME ListOpen(t) \/ CollectBusy(t), ~Finish(t) PROVE SpareInv'
    BY <1>1
  <2>1. task[t].op = "sweep"
    BY <1>p DEF ListOpen, CollectBusy, At
  <2>2. CASE ListOpen(t)
    <3>1. PICK S \in SUBSET Cams : SetTask(t, [task[t] EXCEPT !.pc = "collect_busy", !.todo = S])
      BY <2>2, <1>1 DEF ListOpen, Open
    <3>2. "collect_busy" \in HandlerPCs(task[t].op) /\ "collect_busy" \in PCs
      BY <2>1 DEF HandlerPCs, PCs, OtherPCs
    <3>3. "collect_busy" \notin ClosePCs \cup {"guard"}
      BY DEF ClosePCs
    <3> QED BY <1>3, <3>1, <3>2, <3>3
  <2>3. CASE CollectBusy(t)
    <3>1. PICK S \in SUBSET Cams : /\ SetTask(t, [task[t] EXCEPT !.pc = "next_close", !.todo = S])
                                   /\ S \cap busy = {}
      <4> DEFINE busyCams == task[t].todo \cap busy
                 keep     == busyCams \cup UNION {Holds[c] : c \in busyCams}
      <4>1. SetTask(t, [task[t] EXCEPT !.pc = "next_close", !.todo = task[t].todo \ keep])
        BY <2>3 DEF CollectBusy, TypeOK, Task, SetTask
      <4>2. task[t].todo \ keep \subseteq Cams /\ (task[t].todo \ keep) \cap busy = {}
        BY DEF TypeOK, Task
      <4> QED BY <4>1, <4>2
    <3> QED BY <1>3, <2>1, <3>1 DEF PCs, OtherPCs, HandlerPCs, ClosePCs
  <2> QED BY <2>2, <2>3
<1>8. NextClose(t) => SpareInv'
  <2> SUFFICES ASSUME NextClose(t) PROVE SpareInv'
    OBVIOUS
  <2>1. task[t].op \in {"closeAll", "sweep"} /\ task[t].pc = "next_close"
    BY <1>p DEF NextClose, At
  <2>2. ASSUME NEW c \in task[t].todo,
               SetTask(t, [task[t] EXCEPT !.pc = "guard", !.cam = c, !.todo = @ \ {c}])
        PROVE  SpareInv'
    <3> DEFINE r == [task[t] EXCEPT !.pc = "guard", !.cam = c, !.todo = @ \ {c}]
    <3>1. /\ r \in Task /\ r.pc = "guard" /\ r.op = task[t].op /\ r.cam = c
          /\ r.todo = task[t].todo \ {c}
      BY DEF TypeOK, Task, PCs, OtherPCs
    <3>2. OnlyTask(t) /\ task'[t] = r
      BY <2>2, <3>1, SetTaskEffect DEF TypeOK
    <3>3. Spares(t)'
      BY <1>0, <2>1, <3>1, <3>2 DEF Spares, Asked, HandlerPCs, CloserPCs, AutoOps
    <3> QED BY <3>2, <3>3, OthersSpare
  <2>3. ASSUME Goto(t, IF task[t].op = "sweep" THEN "recheck_viewers" ELSE "release")
        PROVE  SpareInv'
    <3>1. PICK l \in {"recheck_viewers", "release"} :
            /\ Goto(t, l) /\ l \in HandlerPCs(task[t].op)
      BY <2>1, <2>3 DEF HandlerPCs, CloserPCs
    <3>2. Goes(t, l) /\ l \in PCs
      BY <3>1, GotoGoes DEF PCs, OtherPCs
    <3> QED BY <1>0, <3>1, <3>2, GoesSpares DEF ClosePCs
  <2> QED BY <2>2, <2>3 DEF NextClose
<1>9. CheckBusy(t) => SpareInv'
  <2> SUFFICES ASSUME CheckBusy(t), ~Finish(t) PROVE SpareInv'
    BY <1>1
  <2>1. Goes(t, "guard") /\ task[t].cam \notin busy /\ task[t].op = "auto"
    BY <1>p, GotoGoes DEF CheckBusy, At, PCs, OtherPCs
  <2>2. Spares(t)'
    BY <1>0, <2>1 DEF Goes, Spares, Asked, HandlerPCs, CloserPCs
  <2> QED BY <2>1, <2>2, OthersSpare DEF Goes
<1>10. RecheckViewers(t) => SpareInv'
  <2> SUFFICES ASSUME SetTask(t, [IdleTask EXCEPT !.op = "reopen", !.pc = "snapshot_intents"])
               PROVE  SpareInv'
    BY <1>1 DEF RecheckViewers
  <2> DEFINE r == [IdleTask EXCEPT !.op = "reopen", !.pc = "snapshot_intents"]
  <2>1. r \in Task /\ r.pc = "snapshot_intents" /\ r.op = "reopen"
    BY IdleTaskType DEF IdleTask, Task, Ops, PCs, OtherPCs
  <2>2. OnlyTask(t) /\ task'[t] = r
    BY <2>1, SetTaskEffect DEF TypeOK
  <2> QED BY <2>1, <2>2, OtherSpares DEF HandlerPCs, AutoOps
<1>11. SnapshotIntents(t) \/ Scan(t) => SpareInv'
  <2> SUFFICES ASSUME SnapshotIntents(t) \/ Scan(t) PROVE SpareInv'
    OBVIOUS
  <2>1. PICK l \in {"next_open", "publish_scan"}, S \in SUBSET Cams :
          /\ SetTask(t, [task[t] EXCEPT !.pc = l, !.todo = S])
          /\ l \in HandlerPCs(task[t].op)
    <3>1. CASE SnapshotIntents(t)
      <4>1. task[t].op = "reopen"
        BY <1>p, <3>1 DEF SnapshotIntents, At
      <4>2. auto_reopen \ (Open \cup closing) \in SUBSET Cams
        BY DEF TypeOK
      <4> QED BY <3>1, <4>1, <4>2 DEF SnapshotIntents, HandlerPCs
    <3>2. CASE Scan(t)
      <4>1. task[t].op = "scan"
        BY <1>p, <3>2 DEF Scan, At
      <4> QED BY <3>2, <4>1 DEF Scan, HandlerPCs
    <3> QED BY <3>1, <3>2
  <2> QED BY <1>3, <2>1 DEF PCs, OtherPCs, ClosePCs
<1>12. NextOpen(t) => SpareInv'
  <2> SUFFICES ASSUME NEW c \in task[t].todo, NextOpen(t),
                      SetTask(t, [task[t] EXCEPT !.pc = "check_open", !.cam = c,
                                                 !.todo = @ \ {c}, !.retried = FALSE])
               PROVE  SpareInv'
    BY <1>1 DEF NextOpen
  <2> DEFINE r == [task[t] EXCEPT !.pc = "check_open", !.cam = c, !.todo = @ \ {c},
                                  !.retried = FALSE]
  <2>1. r \in Task /\ r.pc = "check_open" /\ r.op = task[t].op
    BY DEF TypeOK, Task, PCs, OpenPCs
  <2>2. OnlyTask(t) /\ task'[t] = r
    BY <2>1, SetTaskEffect DEF TypeOK
  <2>3. task[t].op = "reopen"
    BY <1>p DEF NextOpen, At
  <2> QED BY <2>1, <2>2, <2>3, OtherSpares DEF HandlerPCs, OpenPCs, AutoOps
<1> QED BY <1>2, <1>4, <1>5, <1>6, <1>7, <1>8, <1>9, <1>10, <1>11, <1>12 DEF Handling

LEMMA SpareStep ==
  ASSUME TypeOK, SpareInv, ~BusyBehind, [Next]_vars
  PROVE  SpareInv'
<1>1. ASSUME NEW t \in Threads, Event(t) \/ Step(t) PROVE SpareInv'
  BY <1>1, SpareEvent, SpareOpening, SpareClosing, SpareHandling DEF Step
<1>2. ASSUME task' = task PROVE SpareInv'
  <2> SUFFICES ASSUME NEW t \in Threads PROVE Spares(t)'
    BY DEF SpareInv
  <2>1. Spares(t) /\ \A c \in busy' : ~Asked(t, c)
    BY DEF SpareInv, Spares, BusyBehind
  <2> QED BY <1>2, <2>1 DEF Spares, Asked
<1>3. ASSUME NEW c \in Cams, Record(c) PROVE SpareInv'
  BY <1>2, <1>3 DEF Record
<1>4. ASSUME NEW d \in Drivers, Driving(d) PROVE SpareInv'
  BY <1>2, <1>4 DEF Driving, DriverRuns, DriverEnds
<1>5. CASE UNCHANGED vars
  BY <1>2, <1>5 DEF vars
<1> QED BY <1>1, <1>3, <1>4, <1>5 DEF Next

\* Auto-close never starts closing a camera whose plugin is working, whoever comes,
\* opens or records meanwhile, unless that very camera began to work after the closer
\* had asked about it: between collect_busy_for_camera and the guard (camera.py:288
\* and :314) nothing asks again.
THEOREM AutoCloseSpares == Spec /\ [][~BusyBehind]_vars => BusyNotAutoClosed
<1>1. Init => SpareInv
  BY DEF Init, IdleTask, SpareInv, Spares, HandlerPCs, Asked, AutoOps, ClosePCs
<1>2. RegistryInv /\ SpareInv /\ [Next]_vars /\ [~BusyBehind]_vars => (RegistryInv /\ SpareInv)'
  <2> SUFFICES ASSUME RegistryInv, SpareInv, [Next]_vars, [~BusyBehind]_vars
               PROVE  RegistryInv' /\ SpareInv'
    OBVIOUS
  <2>1. ~BusyBehind
    BY DEF BusyBehind, vars, plugins
  <2> QED BY <2>1, StepInv, SpareStep DEF RegistryInv
<1>3. RegistryInv /\ SpareInv =>
        [\A t \in Threads : AutoCloseBegins(t) => task[t].cam \notin busy]_task
  BY DEF SpareInv, Spares, Asked, AutoCloseBegins, At, AutoOps
<1> QED BY <1>1, <1>2, <1>3, InitInv, PTL DEF Spec, BusyNotAutoClosed
=============================================================================

---------------------------- MODULE FramePipeline ---------------------------
(***************************************************************************)
(* The way of a frame of one camera from its driver to the buffer that is  *)
(* streamed: the frame callback and _PipelineThread of state/camera.py.    *)
(* The camera is opened and closed again by one handler at a time          *)
(* (CameraRegistry says when that is so); every opening is a session with  *)
(* a driver, a pipeline thread and an Event of its own, and a thread that  *)
(* outlives its join lives on beside those of the next session.  What the  *)
(* registry's dictionaries hold for the camera is a session, or 0.         *)
(***************************************************************************)
EXTENDS Naturals, FiniteSets

CONSTANTS
  MaxSession,   \* sessions in a behaviour (bound)
  MaxFrame,     \* frames captured in a behaviour (bound)
  Faults        \* which failures may happen

AllFaults == {"joinTimeout", "unplug"}

ASSUME FrameAssumption ==
  MaxSession \in Nat \ {0} /\ MaxFrame \in Nat \ {0} /\ Faults \subseteq AllFaults

Sessions == 1..MaxSession

VARIABLES
  session,      \* the number of the last session begun
  op,           \* what the opening or closing handler executes next
  frame_event,  \* _frame_events: the session of the Event listed, or 0
  raw,          \* _raw_frames
  display_frame,  \* _display_frames and _pipeline_frames, published together
  captured,     \* frames captured so far: frames are numbered
  event,        \* the flag of each session's Event
  driver, pipe, \* the threads of each session
  late          \* history: a join has returned before its thread had ended

buffers == <<raw, display_frame>>
vars == <<session, op, frame_event, buffers, captured, event, driver, pipe, late>>

Frame   == [session : 0..MaxSession, n : 0..MaxFrame]
NoFrame == [session |-> 0, n |-> 0]

DriverPCs == {"none", "start", "capture", "store", "signal"}
PipePCs   == {"none", "start", "head", "wait", "check", "clear", "read",
              "publish"}
OpPCs     == {"closed", "make_event", "start_pipe", "start_driver", "open",
              "join_driver", "stop_pipe", "wake_pipe", "join_pipe", "pop", "remove"}

DriverThread == [pc : DriverPCs, running : BOOLEAN, frame : Frame]
PipeThread   == [pc : PipePCs, running : BOOLEAN, evt : 0..MaxSession, frame : Frame]

EndedDriver == [pc |-> "none", running |-> FALSE, frame |-> NoFrame]
EndedPipe   == [pc |-> "none", running |-> FALSE, evt |-> 0, frame |-> NoFrame]

TypeOK ==
  /\ session \in 0..MaxSession /\ op \in OpPCs
  /\ frame_event \in 0..MaxSession
  /\ raw \in Frame /\ display_frame \in Frame
  /\ captured \in 0..MaxFrame
  /\ event \in [Sessions -> BOOLEAN]
  /\ driver \in [Sessions -> DriverThread] /\ pipe \in [Sessions -> PipeThread]
  /\ late \in BOOLEAN

Init ==
  /\ session = 0 /\ op = "closed"
  /\ frame_event = 0
  /\ raw = NoFrame /\ display_frame = NoFrame
  /\ captured = 0
  /\ event = [s \in Sessions |-> FALSE]
  /\ driver = [s \in Sessions |-> EndedDriver] /\ pipe = [s \in Sessions |-> EndedPipe]
  /\ late = FALSE

DriverAt(s, l) == driver[s].pc = l
PipeAt(s, l)   == pipe[s].pc = l
PipeGoto(s, l) == pipe' = [pipe EXCEPT ![s].pc = l]

-----------------------------------------------------------------------------
(* open_camera.                                                            *)

OpenInsert ==
  /\ op = "closed" /\ session < MaxSession
  /\ session' = session + 1
  /\ op' = "make_event"
  /\ UNCHANGED <<frame_event, buffers, captured, event, driver, pipe, late>>

MakeEvent ==
  /\ op = "make_event"
  /\ frame_event' = session
  /\ op' = "start_pipe"
  /\ UNCHANGED <<session, buffers, captured, event, driver, pipe, late>>

StartPipe ==
  /\ op = "start_pipe"
  /\ PipeGoto(session, "start")
  /\ op' = "start_driver"
  /\ UNCHANGED <<session, frame_event, buffers, captured, event, driver, late>>

StartDriver ==
  /\ op = "start_driver"
  /\ driver' = [driver EXCEPT ![session].pc = "start"]
  /\ op' = "open"
  /\ UNCHANGED <<session, frame_event, buffers, captured, event, pipe, late>>

-----------------------------------------------------------------------------
(* _close_camera_internal.                                                 *)

StopDriver ==
  /\ op = "open"
  /\ driver' = [driver EXCEPT ![session].running = FALSE]
  /\ op' = "join_driver"
  /\ UNCHANGED <<session, frame_event, buffers, captured, event, pipe, late>>

\* join() returns when the thread has ended, or times out.  One that is sure to
\* time out is that of a thread whose run() set _running after stop() had
\* cleared it; a thread that is merely slow is the fault "joinTimeout".
Joined(pc, running) == pc = "none" \/ running \/ "joinTimeout" \in Faults

\* Mutant: the driver is not waited for.
JoinDriverSkipped ==
  /\ op = "join_driver"
  /\ op' = "stop_pipe"
  /\ UNCHANGED <<session, frame_event, buffers, captured, event, driver, pipe,
                 late>>

JoinDriver ==
  /\ op = "join_driver" /\ Joined(driver[session].pc, driver[session].running)
  /\ late' = (late \/ ~DriverAt(session, "none"))
  /\ op' = "stop_pipe"
  /\ UNCHANGED <<session, frame_event, buffers, captured, event, driver, pipe>>

StopPipe ==
  /\ op = "stop_pipe"
  /\ pipe' = [pipe EXCEPT ![session].running = FALSE]
  /\ op' = "wake_pipe"
  /\ UNCHANGED <<session, frame_event, buffers, captured, event, driver, late>>

WakePipe ==
  /\ op = "wake_pipe"
  /\ event' = [event EXCEPT ![frame_event] = TRUE]
  /\ op' = "join_pipe"
  /\ UNCHANGED <<session, frame_event, buffers, captured, driver, pipe, late>>

\* Mutant: the pipeline thread is not waited for.
JoinPipeSkipped ==
  /\ op = "join_pipe"
  /\ op' = "pop"
  /\ UNCHANGED <<session, frame_event, buffers, captured, event, driver, pipe,
                 late>>

JoinPipe ==
  /\ op = "join_pipe" /\ Joined(pipe[session].pc, pipe[session].running)
  /\ late' = (late \/ ~PipeAt(session, "none"))
  /\ op' = "pop"
  /\ UNCHANGED <<session, frame_event, buffers, captured, event, driver, pipe>>

Pop ==
  /\ op = "pop"
  /\ frame_event' = 0 /\ raw' = NoFrame
  /\ op' = "remove"
  /\ UNCHANGED <<session, display_frame, captured, event,
                 driver, pipe, late>>

\* The last critical section.
Remove ==
  /\ op = "remove"
  /\ display_frame' = NoFrame
  /\ op' = "closed"
  /\ UNCHANGED <<session, frame_event, raw, captured, event, driver, pipe, late>>

-----------------------------------------------------------------------------
(* The driver thread; _on_frame runs on it.                                *)

DriverStarts(s) ==
  /\ DriverAt(s, "start")
  /\ driver' = [driver EXCEPT ![s] = [@ EXCEPT !.pc = "capture", !.running = TRUE]]
  /\ UNCHANGED <<session, op, frame_event, buffers, captured, event, pipe, late>>

\* The head of the loop: the driver ends, or captures a frame.
Capture(s) ==
  /\ DriverAt(s, "capture")
  /\ \/ /\ ~driver[s].running
        /\ driver' = [driver EXCEPT ![s] = EndedDriver]
        /\ UNCHANGED captured
     \/ /\ driver[s].running /\ captured < MaxFrame
        /\ captured' = captured + 1
        /\ driver' = [driver EXCEPT ![s] =
                        [@ EXCEPT !.pc = "store", !.frame = [session |-> s, n |-> captured + 1]]]
  /\ UNCHANGED <<session, op, frame_event, buffers, event, pipe, late>>

Store(s) ==
  /\ DriverAt(s, "store")
  /\ raw' = driver[s].frame
  /\ driver' = [driver EXCEPT ![s] = [@ EXCEPT !.pc = "signal", !.frame = NoFrame]]
  /\ UNCHANGED <<session, op, frame_event, display_frame,
                 captured, event, pipe, late>>

\* Mutant: the Event is not set again while the thread is busy.
SignalOnce(s) ==
  /\ DriverAt(s, "signal")
  /\ event' = [e \in Sessions |-> event[e] \/ (e = frame_event /\ PipeAt(e, "wait"))]
  /\ driver' = [driver EXCEPT ![s].pc = "capture"]
  /\ UNCHANGED <<session, op, frame_event, buffers, captured, pipe, late>>

Signal(s) ==
  /\ DriverAt(s, "signal")
  /\ event' = [e \in Sessions |-> event[e] \/ e = frame_event]
  /\ driver' = [driver EXCEPT ![s].pc = "capture"]
  /\ UNCHANGED <<session, op, frame_event, buffers, captured, pipe, late>>

\* The device is lost: run() returns (and a close may follow, like any other).
Unplug(s) ==
  /\ "unplug" \in Faults /\ DriverAt(s, "capture")
  /\ driver' = [driver EXCEPT ![s] = EndedDriver]
  /\ UNCHANGED <<session, op, frame_event, buffers, captured, event, pipe, late>>

-----------------------------------------------------------------------------
(* _PipelineThread.run.                                                    *)

PipeStarts(s) ==
  /\ PipeAt(s, "start")
  /\ pipe' = [pipe EXCEPT ![s] = [@ EXCEPT !.pc = "head", !.running = TRUE]]
  /\ UNCHANGED <<session, op, frame_event, buffers, captured, event, driver, late>>

\* `while self._running`, and the lookup of the Event.
PipeHead(s) ==
  /\ PipeAt(s, "head")
  /\ pipe' = IF pipe[s].running /\ frame_event # 0
             THEN [pipe EXCEPT ![s] = [@ EXCEPT !.pc = "wait", !.evt = frame_event]]
             ELSE [pipe EXCEPT ![s] = EndedPipe]
  /\ UNCHANGED <<session, op, frame_event, buffers, captured, event, driver, late>>

\* Mutant: the wait has no timeout.
PipeWaitForever(s) ==
  /\ PipeAt(s, "wait") /\ event[pipe[s].evt]
  /\ PipeGoto(s, "check")
  /\ UNCHANGED <<session, op, frame_event, buffers, captured, event, driver, late>>

\* The Event is set, or a second has passed.
PipeWait(s) ==
  /\ PipeAt(s, "wait")
  /\ pipe' = IF event[pipe[s].evt] THEN [pipe EXCEPT ![s].pc = "check"]
             ELSE [pipe EXCEPT ![s] = [@ EXCEPT !.pc = "head", !.evt = 0]]
  /\ UNCHANGED <<session, op, frame_event, buffers, captured, event, driver, late>>

PipeCheck(s) ==
  /\ PipeAt(s, "check")
  /\ IF pipe[s].running THEN PipeGoto(s, "clear")
                        ELSE pipe' = [pipe EXCEPT ![s] = EndedPipe]
  /\ UNCHANGED <<session, op, frame_event, buffers, captured, event, driver, late>>

PipeClear(s) ==
  /\ PipeAt(s, "clear")
  /\ event' = [event EXCEPT ![pipe[s].evt] = FALSE]
  /\ pipe' = [pipe EXCEPT ![s] = [@ EXCEPT !.pc = "read", !.evt = 0]]
  /\ UNCHANGED <<session, op, frame_event, buffers, captured, driver, late>>

PipeRead(s) ==
  /\ PipeAt(s, "read")
  /\ pipe' = IF raw = NoFrame THEN [pipe EXCEPT ![s].pc = "head"]
             ELSE [pipe EXCEPT ![s] = [@ EXCEPT !.pc = "publish", !.frame = raw]]
  /\ UNCHANGED <<session, op, frame_event, buffers, captured, event, driver, late>>

\* The plugins have processed the frame; the two results are published.
PipePublish(s) ==
  /\ PipeAt(s, "publish")
  /\ display_frame' = pipe[s].frame
  /\ pipe' = [pipe EXCEPT ![s] = [@ EXCEPT !.pc = "head", !.frame = NoFrame]]
  /\ UNCHANGED <<session, op, frame_event, raw, captured, event, driver, late>>

-----------------------------------------------------------------------------

Request  == OpenInsert \/ StopDriver
OpenStep == MakeEvent \/ StartPipe \/ StartDriver
CloseStep == JoinDriver \/ StopPipe \/ WakePipe \/ JoinPipe \/ Pop \/ Remove
PipeStep(s) == \/ PipeStarts(s) \/ PipeHead(s) \/ PipeWait(s) \/ PipeCheck(s)
               \/ PipeClear(s) \/ PipeRead(s) \/ PipePublish(s)
DriverStep(s) == DriverStarts(s) \/ Capture(s) \/ Store(s) \/ Signal(s)

Next == \/ Request \/ OpenStep \/ CloseStep
        \/ \E s \in Sessions : \/ DriverStep(s) \/ Unplug(s)
                               \/ PipeStep(s)

Spec == Init /\ [][Next]_vars

\* Started threads are scheduled and handlers finish what they have begun; nobody
\* need open or close anything, and the device need not deliver a frame.
Fairness == /\ WF_vars(OpenStep) /\ WF_vars(CloseStep)
            /\ \A s \in Sessions : /\ WF_vars(PipeStep(s))
                                   /\ WF_vars(DriverStep(s) /\ captured' = captured)
FairSpec == Spec /\ Fairness

-----------------------------------------------------------------------------

\* A close leaves nothing behind that the next session would show: once it is
\* over the frame buffers are empty and no driver or pipeline thread can fill
\* them, provided every join has ended with its thread.
ClosedIsEmpty ==
  op = "closed" /\ ~late =>
    /\ raw = NoFrame /\ display_frame = NoFrame
    /\ \A s \in Sessions : DriverAt(s, "none") /\ PipeAt(s, "none")

\* The picture never goes back in time: an older frame is not displayed after a
\* newer one, across sessions too, provided every join has ended with its thread.
DisplayMonotonic ==
  [][~late' => display_frame'.n >= display_frame.n \/ display_frame' = NoFrame]_vars

\* Clearing the Event before reading the buffer loses no frame: the newest frame
\* is displayed (or a newer one is), unless the camera is closed first or a
\* driver that outlived its join writes over it.
NewestShown ==
  \A n \in 1..MaxFrame :
    op = "open" /\ raw = [session |-> session, n |-> n]
      ~> op # "open" \/ late \/ display_frame.n >= n

\* When a camera stays closed its pipeline threads all end, those included that
\* missed their stop or outlived their join.
PipesEnd == op = "closed" ~> op # "closed" \/ \A s \in Sessions : PipeAt(s, "none")
=============================================================================

------------------------- MODULE FramePipelineProofs ------------------------
(***************************************************************************)
(* For any number of sessions and frames and any faults: as long as every  *)
(* join has ended with its thread, a close leaves neither frames nor       *)
(* threads behind and the picture never goes back in time.                 *)
(***************************************************************************)
EXTENDS FramePipeline, TLAPS

\* Only the session in hand has threads, and only while the handler has not yet
\* joined them.
Alone ==
  \A s \in Sessions :
    /\ ~DriverAt(s, "none") => s = session /\ op \in {"open", "join_driver"}
    /\ ~PipeAt(s, "none") =>
         /\ s = session
         /\ op \in {"start_driver", "open", "join_driver", "stop_pipe", "wake_pipe",
                    "join_pipe"}

\* What the close has removed stays removed.
Emptied ==
  /\ op \in {"remove", "closed"} => raw = NoFrame
  /\ op = "closed" => display_frame = NoFrame

\* Frames on their way from the driver to the display are in order.
Ordered ==
  /\ op # "remove" => display_frame.n <= raw.n
  /\ raw.n <= captured
  /\ \A s \in Sessions :
       /\ DriverAt(s, "store") => raw.n <= driver[s].frame.n /\ driver[s].frame.n <= captured
       /\ PipeAt(s, "publish") =>
            display_frame.n <= pipe[s].frame.n /\ pipe[s].frame.n <= raw.n

\* The inductive invariant.
Safe     == Alone /\ Emptied /\ Ordered
FrameInv == TypeOK /\ (~late => Safe)

-----------------------------------------------------------------------------
(* Types.                                                                  *)

LEMMA Ended ==
  /\ NoFrame \in Frame
  /\ EndedDriver \in DriverThread /\ EndedDriver.pc = "none"
  /\ EndedPipe \in PipeThread /\ EndedPipe.pc = "none"
BY FrameAssumption
   DEF NoFrame, Frame, EndedDriver, EndedPipe, DriverPCs, PipePCs, DriverThread, PipeThread

\* A thread moves to another position, and may change its locals, or ends.
LEMMA DriverMoves ==
  ASSUME NEW D \in [Sessions -> DriverThread], NEW s
  PROVE  /\ [D EXCEPT ![s] = EndedDriver] \in [Sessions -> DriverThread]
         /\ \A r \in BOOLEAN : [D EXCEPT ![s].running = r] \in [Sessions -> DriverThread]
         /\ \A l \in DriverPCs :
              /\ [D EXCEPT ![s].pc = l] \in [Sessions -> DriverThread]
              /\ \A f \in Frame :
                   [D EXCEPT ![s] = [@ EXCEPT !.pc = l, !.frame = f]] \in [Sessions -> DriverThread]
              /\ \A r \in BOOLEAN :
                   [D EXCEPT ![s] = [@ EXCEPT !.pc = l, !.running = r]] \in [Sessions -> DriverThread]
BY Ended DEF DriverThread

LEMMA PipeMoves ==
  ASSUME NEW P \in [Sessions -> PipeThread], NEW s
  PROVE  /\ [P EXCEPT ![s] = EndedPipe] \in [Sessions -> PipeThread]
         /\ \A r \in BOOLEAN : [P EXCEPT ![s].running = r] \in [Sessions -> PipeThread]
         /\ \A l \in PipePCs :
              /\ [P EXCEPT ![s].pc = l] \in [Sessions -> PipeThread]
              /\ \A f \in Frame :
                   [P EXCEPT ![s] = [@ EXCEPT !.pc = l, !.frame = f]] \in [Sessions -> PipeThread]
              /\ \A e \in 0..MaxSession :
                   [P EXCEPT ![s] = [@ EXCEPT !.pc = l, !.evt = e]] \in [Sessions -> PipeThread]
              /\ \A r \in BOOLEAN :
                   [P EXCEPT ![s] = [@ EXCEPT !.pc = l, !.running = r]] \in [Sessions -> PipeThread]
BY Ended DEF PipeThread

LEMMA ZeroSession == 0 \in 0..MaxSession
BY FrameAssumption

LEMMA InitType == Init => TypeOK
<1> SUFFICES ASSUME Init PROVE TypeOK
  OBVIOUS
<1>1. session \in 0..MaxSession /\ frame_event \in 0..MaxSession /\ captured \in 0..MaxFrame
  BY FrameAssumption DEF Init
<1>2. op \in OpPCs
  BY DEF Init, OpPCs
<1>3. raw \in Frame /\ display_frame \in Frame
  BY Ended DEF Init
<1>4. event \in [Sessions -> BOOLEAN] /\ late \in BOOLEAN
  BY DEF Init
<1>5. driver \in [Sessions -> DriverThread] /\ pipe \in [Sessions -> PipeThread]
  BY Ended DEF Init
<1> QED BY <1>1, <1>2, <1>3, <1>4, <1>5 DEF TypeOK

LEMMA HandlerType ==
  ASSUME TypeOK, Request \/ OpenStep \/ CloseStep
  PROVE  TypeOK'
<1> USE FrameAssumption, Ended DEF TypeOK, OpPCs, Sessions, buffers
<1>1. CASE OpenInsert
  BY <1>1 DEF OpenInsert
<1>2. CASE MakeEvent
  BY <1>2 DEF MakeEvent
<1>3. CASE StartPipe
  <2>1. pipe' \in [Sessions -> PipeThread]
    BY <1>3, PipeMoves DEF StartPipe, PipeGoto, PipePCs
  <2> QED BY <1>3, <2>1 DEF StartPipe
<1>4. CASE StartDriver
  <2>1. driver' \in [Sessions -> DriverThread]
    BY <1>4, DriverMoves DEF StartDriver, DriverPCs
  <2> QED BY <1>4, <2>1 DEF StartDriver
<1>5. CASE StopDriver
  <2>1. driver' \in [Sessions -> DriverThread]
    BY <1>5, DriverMoves DEF StopDriver, DriverPCs
  <2> QED BY <1>5, <2>1 DEF StopDriver
<1>6. CASE JoinDriver \/ JoinPipe
  BY <1>6 DEF JoinDriver, JoinPipe
<1>7. CASE StopPipe
  <2>1. pipe' \in [Sessions -> PipeThread]
    BY <1>7, PipeMoves DEF StopPipe, PipePCs
  <2> QED BY <1>7, <2>1 DEF StopPipe
<1>8. CASE WakePipe
  BY <1>8 DEF WakePipe
<1>9. CASE Pop \/ Remove
  BY <1>9 DEF Pop, Remove
<1> QED BY <1>1, <1>2, <1>3, <1>4, <1>5, <1>6, <1>7, <1>8, <1>9
        DEF Request, OpenStep, CloseStep

LEMMA DriverType ==
  ASSUME TypeOK, NEW s \in Sessions, DriverStep(s) \/ Unplug(s)
  PROVE  TypeOK'
<1> USE FrameAssumption, Ended DEF TypeOK, buffers
<1>1. CASE DriverStarts(s)
  <2>1. driver' \in [Sessions -> DriverThread]
    BY <1>1, DriverMoves DEF DriverStarts, DriverPCs
  <2> QED BY <1>1, <2>1 DEF DriverStarts
<1>2. CASE Capture(s)
  <2>1. CASE ~driver[s].running
    <3>1. /\ driver' = [driver EXCEPT ![s] = EndedDriver] /\ UNCHANGED captured
          /\ UNCHANGED <<session, op, frame_event, buffers, event, pipe, late>>
      BY <1>2, <2>1 DEF Capture
    <3>2. driver' \in [Sessions -> DriverThread]
      BY <3>1, DriverMoves
    <3> QED BY <3>1, <3>2
  <2>2. CASE driver[s].running
    <3> DEFINE f == [session |-> s, n |-> captured + 1]
    <3>1. captured' \in 0..MaxFrame /\ captured + 1 \in 0..MaxFrame
      BY <1>2, <2>2 DEF Capture
    <3>2. f \in Frame
      BY <3>1 DEF Frame, Sessions
    <3>3. driver' = [driver EXCEPT ![s] = [@ EXCEPT !.pc = "store", !.frame = f]]
      BY <1>2, <2>2 DEF Capture
    <3> HIDE DEF f
    <3>4. driver' \in [Sessions -> DriverThread]
      BY <3>2, <3>3, DriverMoves DEF DriverPCs
    <3> QED BY <1>2, <3>1, <3>4 DEF Capture
  <2> QED BY <2>1, <2>2
<1>3. CASE Store(s)
  <2>1. driver' \in [Sessions -> DriverThread]
    BY <1>3, DriverMoves DEF Store, DriverPCs
  <2>2. raw' \in Frame
    BY <1>3 DEF Store, DriverThread
  <2> QED BY <1>3, <2>1, <2>2 DEF Store
<1>4. CASE Signal(s)
  <2>1. driver' \in [Sessions -> DriverThread]
    BY <1>4, DriverMoves DEF Signal, DriverPCs
  <2>2. event' \in [Sessions -> BOOLEAN]
    BY <1>4 DEF Signal
  <2> QED BY <1>4, <2>1, <2>2 DEF Signal
<1>5. CASE Unplug(s)
  <2>1. driver' \in [Sessions -> DriverThread]
    BY <1>5, DriverMoves DEF Unplug, DriverPCs
  <2> QED BY <1>5, <2>1 DEF Unplug
<1> QED BY <1>1, <1>2, <1>3, <1>4, <1>5 DEF DriverStep

LEMMA PipeType ==
  ASSUME TypeOK, NEW s \in Sessions, PipeStep(s)
  PROVE  TypeOK'
<1> USE FrameAssumption, Ended DEF TypeOK, buffers
<1>1. CASE PipeStarts(s)
  <2>1. pipe' \in [Sessions -> PipeThread]
    BY <1>1, PipeMoves DEF PipeStarts, PipePCs
  <2> QED BY <1>1, <2>1 DEF PipeStarts
<1>2. CASE PipeHead(s)
  <2>1. pipe' \in [Sessions -> PipeThread]
    BY <1>2, PipeMoves DEF PipeHead, PipePCs
  <2> QED BY <1>2, <2>1 DEF PipeHead
<1>3. CASE PipeWait(s)
  <2>1. CASE event[pipe[s].evt]
    <3>1. pipe' = [pipe EXCEPT ![s].pc = "check"]
      BY <1>3, <2>1 DEF PipeWait
    <3>2. pipe' \in [Sessions -> PipeThread]
      BY <3>1, PipeMoves DEF PipePCs
    <3> QED BY <1>3, <3>2 DEF PipeWait
  <2>2. CASE ~event[pipe[s].evt]
    <3>1. pipe' = [pipe EXCEPT ![s] = [@ EXCEPT !.pc = "head", !.evt = 0]]
      BY <1>3, <2>2 DEF PipeWait
    <3>2. pipe' \in [Sessions -> PipeThread]
      BY <3>1, ZeroSession, PipeMoves DEF PipePCs
    <3> QED BY <1>3, <3>2 DEF PipeWait
  <2> QED BY <2>1, <2>2
<1>4. CASE PipeCheck(s)
  <2>1. CASE pipe[s].running
    <3>1. pipe' = [pipe EXCEPT ![s].pc = "clear"]
      BY <1>4, <2>1 DEF PipeCheck, PipeGoto
    <3> QED BY <1>4, <3>1, PipeMoves DEF PipeCheck, PipePCs
  <2>2. CASE ~pipe[s].running
    <3>1. pipe' = [pipe EXCEPT ![s] = EndedPipe]
      BY <1>4, <2>2 DEF PipeCheck
    <3> QED BY <1>4, <3>1, PipeMoves DEF PipeCheck
  <2> QED BY <2>1, <2>2
<1>5. CASE PipeClear(s)
  <2>1. pipe' = [pipe EXCEPT ![s] = [@ EXCEPT !.pc = "read", !.evt = 0]]
    BY <1>5 DEF PipeClear
  <2>2. pipe' \in [Sessions -> PipeThread]
    BY <2>1, ZeroSession, PipeMoves DEF PipePCs
  <2>3. event' \in [Sessions -> BOOLEAN]
    BY <1>5 DEF PipeClear
  <2> QED BY <1>5, <2>2, <2>3 DEF PipeClear
<1>6. CASE PipeRead(s)
  <2>1. pipe' \in [Sessions -> PipeThread]
    BY <1>6, PipeMoves DEF PipeRead, PipePCs
  <2> QED BY <1>6, <2>1 DEF PipeRead
<1>7. CASE PipePublish(s)
  <2>1. pipe' \in [Sessions -> PipeThread]
    BY <1>7, PipeMoves DEF PipePublish, PipePCs
  <2>2. display_frame' \in Frame
    BY <1>7 DEF PipePublish, PipeThread
  <2> QED BY <1>7, <2>1, <2>2 DEF PipePublish
<1> QED BY <1>1, <1>2, <1>3, <1>4, <1>5, <1>6, <1>7 DEF PipeStep

LEMMA StutterType == TypeOK /\ UNCHANGED vars => TypeOK'
BY DEF TypeOK, vars, buffers

\* Every variable keeps its type, whatever the number of sessions and frames and
\* whichever faults happen (state/camera.py, the frame path).
THEOREM FrameTypes == Spec => []TypeOK
<1>1. TypeOK /\ [Next]_vars => TypeOK'
  BY HandlerType, DriverType, PipeType, StutterType DEF Next
<1> QED BY InitType, <1>1, PTL DEF Spec

-----------------------------------------------------------------------------
(* The invariant.                                                          *)

LEMMA InitSafe == Init => Safe
<1> SUFFICES ASSUME Init PROVE Safe
  OBVIOUS
<1>1. Alone
  BY DEF Init, Alone, DriverAt, PipeAt, EndedDriver, EndedPipe
<1>2. Emptied
  BY DEF Init, Emptied
<1>3. Ordered
  BY DEF Init, Ordered, NoFrame, EndedDriver, EndedPipe, DriverAt, PipeAt
<1> QED BY <1>1, <1>2, <1>3 DEF Safe

LEMMA LateStays == TypeOK /\ [Next]_vars /\ ~late' => ~late
BY DEF TypeOK, Next, vars, Request, OpenStep, CloseStep, DriverStep, PipeStep,
       OpenInsert, MakeEvent, StartPipe, StartDriver, StopDriver, JoinDriver, StopPipe,
       WakePipe, JoinPipe, Pop, Remove, DriverStarts, Capture, Store, Signal, Unplug,
       PipeStarts, PipeHead, PipeWait, PipeCheck, PipeClear, PipeRead, PipePublish

\* The handler starts threads where there are none, and goes on from a join only
\* when the thread has ended.
LEMMA HandlerSafe ==
  ASSUME TypeOK, Safe, ~late', Request \/ OpenStep \/ CloseStep
  PROVE  Safe'
<1> USE DEF TypeOK, DriverAt, PipeAt, buffers, PipeGoto
<1>1. CASE OpenInsert
  BY <1>1 DEF OpenInsert, Safe, Alone, Emptied, Ordered
<1>2. CASE MakeEvent
  BY <1>2 DEF MakeEvent, Safe, Alone, Emptied, Ordered
<1>3. CASE StartPipe
  <2>1. Alone'
    BY <1>3 DEF StartPipe, Safe, Alone, PipeThread
  <2>2. Emptied' /\ Ordered'
    BY <1>3 DEF StartPipe, Safe, Emptied, Ordered, PipeThread
  <2> QED BY <2>1, <2>2 DEF Safe
<1>4. CASE StartDriver
  <2>1. Alone'
    BY <1>4 DEF StartDriver, Safe, Alone, DriverThread
  <2>2. Emptied' /\ Ordered'
    BY <1>4 DEF StartDriver, Safe, Emptied, Ordered, DriverThread
  <2> QED BY <2>1, <2>2 DEF Safe
<1>5. CASE StopDriver
  <2>1. Alone'
    BY <1>5 DEF StopDriver, Safe, Alone, DriverThread
  <2>2. Emptied' /\ Ordered'
    BY <1>5 DEF StopDriver, Safe, Emptied, Ordered, DriverThread
  <2> QED BY <2>1, <2>2 DEF Safe
<1>6. CASE JoinDriver
  BY <1>6 DEF JoinDriver, Safe, Alone, Emptied, Ordered
<1>7. CASE StopPipe
  <2>1. Alone'
    BY <1>7 DEF StopPipe, Safe, Alone, PipeThread
  <2>2. Emptied' /\ Ordered'
    BY <1>7 DEF StopPipe, Safe, Emptied, Ordered, PipeThread
  <2> QED BY <2>1, <2>2 DEF Safe
<1>8. CASE WakePipe
  BY <1>8 DEF WakePipe, Safe, Alone, Emptied, Ordered
<1>9. CASE JoinPipe
  BY <1>9 DEF JoinPipe, Safe, Alone, Emptied, Ordered
<1>10. CASE Pop
  <2>1. \A s \in Sessions : DriverAt(s, "none") /\ PipeAt(s, "none")
    BY <1>10 DEF Pop, Safe, Alone
  <2> QED BY <1>10, <2>1 DEF Pop, Safe, Alone, Emptied, Ordered, NoFrame
<1>11. CASE Remove
  <2>1. \A s \in Sessions : DriverAt(s, "none") /\ PipeAt(s, "none")
    BY <1>11 DEF Remove, Safe, Alone
  <2> QED BY <1>11, <2>1 DEF Remove, Safe, Alone, Emptied, Ordered, NoFrame
<1> QED BY <1>1, <1>2, <1>3, <1>4, <1>5, <1>6, <1>7, <1>8, <1>9, <1>10, <1>11
        DEF Request, OpenStep, CloseStep

\* A step that moves no frame keeps their order.
LEMMA OrderKept ==
  ASSUME Ordered, UNCHANGED <<op, raw, display_frame, captured>>,
         \A s \in Sessions :
           /\ driver'[s].pc = "store" =>
                driver[s].pc = "store" /\ driver'[s].frame = driver[s].frame
           /\ pipe'[s].pc = "publish" =>
                pipe[s].pc = "publish" /\ pipe'[s].frame = pipe[s].frame
  PROVE  Ordered'
BY DEF Ordered, DriverAt, PipeAt

\* A driver that runs is the session's, and its frame is the newest.
LEMMA DriverSafe ==
  ASSUME TypeOK, Safe, NEW s \in Sessions, DriverStep(s) \/ Unplug(s)
  PROVE  Safe'
<1> USE DEF TypeOK, DriverAt, PipeAt, buffers
<1>1. s = session /\ op \in {"open", "join_driver"}
  BY DEF Safe, Alone, DriverStep, DriverStarts, Capture, Store, Signal, Unplug
<1>2. Alone'
  BY <1>1 DEF Safe, Alone, DriverStep, DriverStarts, Capture, Store, Signal, Unplug,
              DriverThread
<1>3. Emptied'
  BY <1>1 DEF Safe, Emptied, DriverStep, DriverStarts, Capture, Store, Signal, Unplug
<1>4. Ordered'
  <2>1. CASE DriverStarts(s) \/ Signal(s) \/ Unplug(s)
    <3>1. \A r \in Sessions :
            driver'[r].pc = "store" =>
              driver[r].pc = "store" /\ driver'[r].frame = driver[r].frame
      BY <2>1, Ended DEF DriverStarts, Signal, Unplug, DriverThread
    <3> QED BY <2>1, <3>1, OrderKept DEF DriverStarts, Signal, Unplug, Safe
  <2>2. CASE Capture(s)
    <3>1. CASE ~driver[s].running
      <4>1. \A r \in Sessions :
              driver'[r].pc = "store" =>
                driver[r].pc = "store" /\ driver'[r].frame = driver[r].frame
        BY <2>2, <3>1, Ended DEF Capture, DriverThread
      <4> QED BY <2>2, <3>1, <4>1, OrderKept DEF Capture, Safe
    <3>2. CASE driver[s].running
      <4>1. /\ captured' = captured + 1 /\ captured \in Nat /\ raw.n \in Nat
            /\ driver'[s].frame.n = captured + 1
            /\ \A r \in Sessions \ {s} : driver'[r] = driver[r]
        <5>1. /\ driver \in [Sessions -> DriverThread] /\ driver[s] \in DriverThread
              /\ raw \in Frame /\ captured \in 0..MaxFrame
          OBVIOUS
        <5>2. /\ captured' = captured + 1
              /\ driver' = [driver EXCEPT ![s] = driver'[s]]
              /\ driver'[s] = [driver[s] EXCEPT !.pc = "store",
                                 !.frame = [session |-> s, n |-> captured + 1]]
          BY <2>2, <3>2, <5>1 DEF Capture
        <5> QED BY <5>1, <5>2 DEF DriverThread, Frame
      <4>2. \A r \in Sessions \ {s} : ~DriverAt(r, "store")
        BY <1>1 DEF Safe, Alone
      <4>3. UNCHANGED <<op, raw, display_frame, pipe>>
        BY <2>2 DEF Capture
      <4> QED BY <4>1, <4>2, <4>3 DEF Safe, Ordered
    <3> QED BY <3>1, <3>2
  <2>3. CASE Store(s)
    <3>1. \A r \in Sessions : ~DriverAt(r, "store")'
      BY <1>1, <2>3 DEF Store, Safe, Alone, DriverThread
    <3>2. /\ raw' = driver[s].frame /\ raw.n <= raw'.n /\ raw'.n <= captured
          /\ UNCHANGED <<op, display_frame, captured, pipe>>
      BY <2>3 DEF Store, Safe, Ordered
    <3>3. display_frame.n \in Nat /\ raw.n \in Nat /\ raw'.n \in Nat
      BY <2>3 DEF Store, Frame, DriverThread
    <3>4. \A r \in Sessions : PipeAt(r, "publish") => pipe[r].frame.n \in Nat
      BY DEF PipeThread, Frame
    <3> QED BY <1>1, <3>1, <3>2, <3>3, <3>4 DEF Safe, Ordered
  <2> QED BY <2>1, <2>2, <2>3 DEF DriverStep
<1> QED BY <1>2, <1>3, <1>4 DEF Safe

\* The pipeline thread takes the newest frame stored and publishes it before any
\* newer one.
LEMMA PipeSafe ==
  ASSUME TypeOK, Safe, NEW s \in Sessions, PipeStep(s)
  PROVE  Safe'
<1> USE DEF TypeOK, DriverAt, PipeAt, PipeGoto, buffers
<1>1. /\ s = session
      /\ op \in {"start_driver", "open", "join_driver", "stop_pipe", "wake_pipe",
                 "join_pipe"}
  BY DEF Safe, Alone, PipeStep, PipeStarts, PipeHead, PipeWait, PipeCheck, PipeClear,
         PipeRead, PipePublish
<1>2. Alone'
  BY <1>1 DEF Safe, Alone, PipeStep, PipeStarts, PipeHead, PipeWait, PipeCheck, PipeClear,
              PipeRead, PipePublish, PipeThread
<1>3. Emptied'
  BY <1>1 DEF Safe, Emptied, PipeStep, PipeStarts, PipeHead, PipeWait, PipeCheck,
              PipeClear, PipeRead, PipePublish
<1>4. Ordered'
  <2>1. CASE PipeStarts(s) \/ PipeHead(s) \/ PipeWait(s)
    <3>1. \A r \in Sessions :
            pipe'[r].pc = "publish" =>
              pipe[r].pc = "publish" /\ pipe'[r].frame = pipe[r].frame
      <4>1. CASE PipeStarts(s)
        BY <4>1 DEF PipeStarts, PipeThread
      <4>2. CASE PipeHead(s)
        BY <4>2, Ended DEF PipeHead, PipeThread
      <4>3. CASE PipeWait(s)
        BY <4>3 DEF PipeWait, PipeThread
      <4> QED BY <2>1, <4>1, <4>2, <4>3
    <3> QED BY <2>1, <3>1, OrderKept DEF PipeStarts, PipeHead, PipeWait, Safe
  <2>2. CASE PipeCheck(s) \/ PipeClear(s)
    <3>1. \A r \in Sessions :
            pipe'[r].pc = "publish" =>
              pipe[r].pc = "publish" /\ pipe'[r].frame = pipe[r].frame
      <4>1. pipe[s] \in PipeThread /\ pipe \in [Sessions -> PipeThread]
        OBVIOUS
      <4>2. CASE PipeCheck(s)
        BY <4>1, <4>2, Ended DEF PipeCheck, PipeThread
      <4>3. CASE PipeClear(s)
        BY <4>1, <4>3 DEF PipeClear, PipeThread
      <4> QED BY <2>2, <4>2, <4>3
    <3> QED BY <2>2, <3>1, OrderKept DEF PipeCheck, PipeClear, Safe
  <2>3. CASE PipeRead(s)
    <3>1. CASE raw = NoFrame
      <4>1. \A r \in Sessions :
              pipe'[r].pc = "publish" =>
                pipe[r].pc = "publish" /\ pipe'[r].frame = pipe[r].frame
        BY <2>3, <3>1 DEF PipeRead, PipeThread
      <4> QED BY <2>3, <4>1, OrderKept DEF PipeRead, Safe
    <3>2. CASE raw # NoFrame
      <4>1. /\ pipe'[s].frame = raw /\ raw.n \in Nat
            /\ \A r \in Sessions \ {s} : pipe'[r] = pipe[r]
            /\ UNCHANGED <<op, raw, display_frame, captured, driver>>
        BY <2>3, <3>2 DEF PipeRead, PipeThread, Frame
      <4> QED BY <1>1, <4>1 DEF Safe, Ordered
    <3> QED BY <3>1, <3>2
  <2>4. CASE PipePublish(s)
    <3>1. \A r \in Sessions : ~PipeAt(r, "publish")'
      BY <1>1, <2>4 DEF PipePublish, Safe, Alone, PipeThread
    <3>2. /\ display_frame' = pipe[s].frame /\ display_frame'.n <= raw.n
          /\ UNCHANGED <<op, raw, captured, driver>>
      BY <2>4 DEF PipePublish, Safe, Ordered
    <3> QED BY <3>1, <3>2 DEF Safe, Ordered
  <2> QED BY <2>1, <2>2, <2>3, <2>4 DEF PipeStep
<1> QED BY <1>2, <1>3, <1>4 DEF Safe

LEMMA StutterSafe == Safe /\ UNCHANGED vars => Safe'
BY DEF Safe, Alone, Emptied, Ordered, vars, buffers, DriverAt, PipeAt

LEMMA FrameInvariant == Spec => []FrameInv
<1>1. Init => FrameInv
  BY InitType, InitSafe DEF FrameInv
<1>2. FrameInv /\ [Next]_vars => FrameInv'
  <2> SUFFICES ASSUME FrameInv, [Next]_vars PROVE FrameInv'
    OBVIOUS
  <2>1. TypeOK /\ TypeOK'
    BY HandlerType, DriverType, PipeType, StutterType DEF Next, FrameInv
  <2>2. ASSUME ~late' PROVE Safe'
    <3>1. Safe
      BY <2>1, <2>2, LateStays DEF FrameInv
    <3> QED BY <2>1, <2>2, <3>1, HandlerSafe, DriverSafe, PipeSafe, StutterSafe DEF Next
  <2> QED BY <2>1, <2>2 DEF FrameInv
<1> QED BY <1>1, <1>2, PTL DEF Spec

\* As long as every join has ended with its thread, a closed camera has empty frame
\* buffers and no thread that could fill them (_close_camera_internal).
THEOREM CloseEmpties == Spec => []ClosedIsEmpty
<1>1. FrameInv => ClosedIsEmpty
  BY DEF FrameInv, Safe, Alone, Emptied, ClosedIsEmpty
<1> QED BY <1>1, FrameInvariant, PTL

\* As long as every join has ended with its thread, no step shows an older frame
\* than the one shown (_PipelineThread.run, lines 61-77).
THEOREM NeverBack == Spec => DisplayMonotonic
<1> DEFINE Forward == ~late' => display_frame'.n >= display_frame.n
                                  \/ display_frame' = NoFrame
<1>1. FrameInv /\ [Next]_vars => [Forward]_vars
  <2> SUFFICES ASSUME FrameInv, Next, ~late'
               PROVE  display_frame'.n >= display_frame.n \/ display_frame' = NoFrame
    OBVIOUS
  <2>1. Ordered /\ TypeOK
    BY LateStays DEF FrameInv, Safe
  <2>2. CASE display_frame' = display_frame
    BY <2>1, <2>2 DEF TypeOK, Frame
  <2>3. CASE Remove
    BY <2>3 DEF Remove
  <2>4. ASSUME NEW s \in Sessions, PipePublish(s)
        PROVE  display_frame'.n >= display_frame.n
    BY <2>1, <2>4 DEF PipePublish, Ordered, TypeOK, Frame, PipeThread, PipeAt
  <2> QED BY <2>2, <2>3, <2>4
          DEF Next, Request, OpenStep, CloseStep, DriverStep, PipeStep, buffers,
              OpenInsert, MakeEvent, StartPipe, StartDriver, StopDriver, JoinDriver,
              StopPipe, WakePipe, JoinPipe, Pop, DriverStarts, Capture, Store, Signal,
              Unplug, PipeStarts, PipeHead, PipeWait, PipeCheck, PipeClear, PipeRead
<1>2. Spec => [][Forward]_vars
  BY <1>1, FrameInvariant, PTL DEF Spec
<1> QED BY <1>2 DEF DisplayMonotonic

=============================================================================

---------------------------- MODULE MotionDetect ----------------------------
(***************************************************************************)
(* Motion detection on one camera: plugins/motiondetect/motion.py.         *)
(* Handlers switch detection on and off and save zones, other threads open *)
(* and close the camera or remove the plugin; each calls into the plugin,  *)
(* whose _start_thread and _stop_thread take no lock.  A detector thread   *)
(* runs _detect_loop.  Time counts in units of which a cooldown is a few;  *)
(* an image is whether it shows motion.                                    *)
(***************************************************************************)
EXTENDS Naturals

CONSTANTS
  Callers,      \* threads inside a plugin method at once (bound)
  MaxRequests,  \* calls begun in a behaviour (bound)
  MaxTime,      \* end of time (bound)
  Cooldown,     \* motdet_cooldown_sec
  InitialFiles, \* what earlier runs of the server may have left in the zones file
  Faults        \* which failures may happen

ZoneLists == {"empty", "drawn"}
AllFaults == {"joinTimeout", "diskFull"}

ASSUME MotionAssumption ==
  /\ MaxRequests \in Nat \ {0} /\ MaxTime \in Nat
  /\ Cooldown \in 1..MaxTime
  /\ InitialFiles \subseteq ZoneLists \cup {"absent", "broken"}
  /\ Faults \subseteq AllFaults

Detectors == 1..MaxRequests     \* a request starts one thread at most
NoThread  == 0

VARIABLES
  clock,        \* time.monotonic()
  cam,          \* the camera: never opened (_cam_id = ""), open, closing or closed
  removed,      \* the plugin has been taken from the registry
  requests,     \* calls begun so far
  self,         \* _enabled, _running, _stop_evt, _thread; whether there is a _mog2
  zones, last_trigger, pending_photo,
  file,         \* the zones file of the camera
  det,          \* the detector threads
  call,         \* what each caller is executing
  overlap,      \* history: two calls that start or stop detection overlapped
  zone_clash,   \* history: two calls that read or write the zones file overlapped
  late          \* history: a join gave up on a live detector

env     == <<cam, removed, requests>>
trigger == <<clock, last_trigger, pending_photo>>
saved   == <<zones, file>>
history == <<overlap, zone_clash, late>>
vars    == <<env, trigger, saved, self, det, call, history>>

\* enable to save are the calls; unload is the end of a removal.
Ops     == {"none", "enable", "disable", "open", "close", "remove", "unload", "save"}
CallPCs == {"return", "start_check", "start_join", "clear_stop", "make_model",
            "set_running", "new_thread", "start_thread", "clear_running", "set_stop",
            "read_thread", "null_thread", "stop_join", "mark_idle", "drop_model",
            "read_zones", "put_zones", "copy_zones", "truncate",
            "write_zones"}
Call    == [pc : CallPCs, op : Ops, thread : Detectors \cup {NoThread}, zones : ZoneLists]
NoCall  == [pc |-> "return", op |-> "none", thread |-> NoThread, zones |-> "empty"]

DetPCs   == {"unused", "new", "head", "sample", "detect", "trigger", "pend", "ended",
             "raised"}
Detector == [pc : DetPCs, now : 0..MaxTime]
NewDet   == [pc |-> "unused", now |-> 0]

TypeOK ==
  /\ clock \in 0..MaxTime /\ cam \in {"none", "open", "closing", "closed"}
  /\ removed \in BOOLEAN /\ requests \in 0..MaxRequests
  /\ self \in [enabled : BOOLEAN, running : BOOLEAN, stop_evt : BOOLEAN, mog2 : BOOLEAN,
               thread : Detectors \cup {NoThread}]
  /\ zones \in ZoneLists /\ file \in ZoneLists \cup {"absent", "broken"}
  /\ last_trigger \in 0..MaxTime /\ pending_photo \in BOOLEAN
  /\ det \in [Detectors -> Detector] /\ call \in [Callers -> Call]
  /\ overlap \in BOOLEAN /\ zone_clash \in BOOLEAN /\ late \in BOOLEAN

\* The machine has been up for longer than the cooldown.
Init ==
  /\ clock = Cooldown
  /\ cam = "none" /\ removed = FALSE /\ requests = 0
  /\ self = [enabled |-> FALSE, running |-> FALSE, stop_evt |-> FALSE, mog2 |-> FALSE,
             thread |-> NoThread]
  /\ zones = "empty" /\ file \in InitialFiles
  /\ last_trigger = 0 /\ pending_photo = FALSE
  /\ det = [d \in Detectors |-> NewDet] /\ call = [t \in Callers |-> NoCall]
  /\ overlap = FALSE /\ zone_clash = FALSE /\ late = FALSE

Raised    == {d \in Detectors : det[d].pc = "raised"}
Live      == {d \in Detectors : det[d].pc \notin {"unused", "new", "ended", "raised"}}
                                                                    \* is_alive()
At(t, l)  == call[t].pc = l
Busy(ops) == \E t \in Callers : call[t].op \in ops

SwitchOps == Ops \ {"none", "save"}
FileOps   == {"open", "save"}

\* The caller goes from one statement to the next; at "return" it is free again.
Move(t, from, to) ==
  /\ At(t, from)
  /\ call' = [call EXCEPT ![t] = IF to = "return" THEN NoCall ELSE [@ EXCEPT !.pc = to]]

\* A statement that assigns one attribute of the plugin.
Assign(t, from, to, attribute, value) ==
  /\ Move(t, from, to)
  /\ self' = [self EXCEPT ![attribute] = value]
  /\ UNCHANGED <<env, trigger, saved, det, history>>

\* A statement that changes nothing but where the caller is.
Local == UNCHANGED <<env, trigger, saved, self, det, history>>

-----------------------------------------------------------------------------
(* Calls into the plugin.                                                  *)

Begin(t, op, l) ==
  /\ At(t, "return") /\ ~removed /\ requests < MaxRequests
  /\ requests' = requests + 1
  /\ call' = [call EXCEPT ![t] = [@ EXCEPT !.op = op, !.pc = l]]
  /\ overlap' = (overlap \/ (op \in SwitchOps /\ Busy(SwitchOps)))
  /\ zone_clash' = (zone_clash \/ (op \in FileOps /\ Busy(FileOps)))
  /\ UNCHANGED <<trigger, file, det, late>>

\* handle_set_param("motdet_enabled").
Enable(t) ==
  /\ Begin(t, "enable", "start_check")
  /\ self' = [self EXCEPT !.enabled = TRUE]
  /\ UNCHANGED <<cam, removed, zones>>

Disable(t) ==
  /\ Begin(t, "disable", "clear_running")
  /\ self' = [self EXCEPT !.enabled = FALSE]
  /\ UNCHANGED <<cam, removed, zones>>

SaveZones(t) ==
  /\ Begin(t, "save", "copy_zones")
  /\ zones' \in ZoneLists
  /\ UNCHANGED <<cam, removed, self>>

OnCameraOpen(t) ==
  /\ cam \in {"none", "closed"} /\ Begin(t, "open", "read_zones")
  /\ cam' = "open"
  /\ UNCHANGED <<removed, self, zones>>

OnCameraClose(t) ==
  /\ cam = "open" /\ Begin(t, "close", "clear_running")
  /\ cam' = "closing"
  /\ UNCHANGED <<removed, self, zones>>

\* remove_plugin: on_camera_close, then on_unload.
Remove(t) ==
  /\ Begin(t, "remove", "clear_running")
  /\ removed' = TRUE
  /\ UNCHANGED <<cam, self, zones>>

-----------------------------------------------------------------------------
(* _start_thread.                                                          *)

\* join(timeout=0.3), when the thread is alive.
Join(d) == /\ d \notin Live \/ "joinTimeout" \in Faults
           /\ late' = (late \/ d \in Live)
           /\ UNCHANGED <<env, trigger, saved, self, det, overlap, zone_clash>>

StartCheck(t) ==
  /\ At(t, "start_check")
  /\ IF self.running THEN Move(t, "start_check", "return")
     ELSE call' = [call EXCEPT ![t] = [@ EXCEPT !.pc = "start_join",
                                                !.thread = self.thread]]
  /\ Local

StartJoin(t) ==
  /\ At(t, "start_join") /\ Join(call[t].thread)
  /\ call' = [call EXCEPT ![t] = [@ EXCEPT !.pc = "clear_stop", !.thread = NoThread]]

\* Mutant: the event set by the last stop is left set.
ClearStopForgotten(t) == Move(t, "clear_stop", "make_model") /\ Local

ClearStop(t)  == Assign(t, "clear_stop", "make_model", "stop_evt", FALSE)
MakeModel(t)  == Assign(t, "make_model", "set_running", "mog2", TRUE)
SetRunning(t) == Assign(t, "set_running", "new_thread", "running", TRUE)

NewThread(t) ==
  /\ Move(t, "new_thread", "start_thread")
  /\ \E d \in Detectors :
       /\ det[d].pc = "unused" /\ \A e \in 1..(d - 1) : det[e].pc # "unused"
       /\ det' = [det EXCEPT ![d].pc = "new"]
       /\ self' = [self EXCEPT !.thread = d]
  /\ UNCHANGED <<env, trigger, saved, history>>

\* self._thread.start(): by now _thread may be None, or another caller's thread
\* that has been started already; then it raises.
StartThread(t) ==
  /\ Move(t, "start_thread", "return")
  /\ IF self.thread # NoThread /\ det[self.thread].pc = "new"
     THEN det' = [det EXCEPT ![self.thread].pc = "head"]
     ELSE UNCHANGED det
  /\ UNCHANGED <<env, trigger, saved, self, history>>

-----------------------------------------------------------------------------
(* _stop_thread, and what its callers do next.                             *)

ClearRunning(t) == Assign(t, "clear_running", "set_stop", "running", FALSE)
SetStop(t)      == Assign(t, "set_stop", "read_thread", "stop_evt", TRUE)

ReadThread(t) ==
  /\ At(t, "read_thread")
  /\ call' = [call EXCEPT ![t] = [@ EXCEPT !.pc = "null_thread", !.thread = self.thread]]
  /\ Local

NullThread(t) == Assign(t, "null_thread", "stop_join", "thread", NoThread)

Stopped(t) ==
  call' = [call EXCEPT ![t] =
    CASE @.op = "unload"  -> NoCall
      [] @.op = "disable" -> [@ EXCEPT !.pc = "mark_idle", !.thread = NoThread]
      [] OTHER            -> [@ EXCEPT !.pc = "drop_model", !.thread = NoThread]]

\* Mutant: the detector is told to stop and not waited for.
StopUnjoined(t) == At(t, "stop_join") /\ Stopped(t) /\ Local

StopJoin(t) == At(t, "stop_join") /\ Join(call[t].thread) /\ Stopped(t)

\* plugin.idle may make the registry close the camera, on this thread.
MarkIdle(t) ==
  /\ \/ Move(t, "mark_idle", "return") /\ UNCHANGED cam
     \/ /\ At(t, "mark_idle") /\ cam = "open" /\ cam' = "closing"
        /\ call' = [call EXCEPT ![t] = [@ EXCEPT !.op = "close", !.pc = "clear_running"]]
  /\ UNCHANGED <<removed, requests, trigger, saved, self, det, history>>

DropModel(t) ==
  /\ At(t, "drop_model")
  /\ self' = [self EXCEPT !.mog2 = FALSE]
  /\ \/ call[t].op = "close" /\ Move(t, "drop_model", "return") /\ cam' = "closed"
     \/ /\ call[t].op = "remove" /\ UNCHANGED cam
        /\ call' = [call EXCEPT ![t] = [@ EXCEPT !.op = "unload", !.pc = "clear_running"]]
  /\ UNCHANGED <<removed, requests, trigger, saved, det, history>>

-----------------------------------------------------------------------------
(* The zones file: on_camera_open loads it, motdet_save_zones writes it.   *)

\* A file that is absent or cannot be parsed leaves the zones as they are.  Then
\* detection starts, if it is enabled.
ReadZones(t) ==
  /\ At(t, "read_zones")
  /\ call' = [call EXCEPT ![t] =
       IF file \in ZoneLists THEN [@ EXCEPT !.pc = "put_zones", !.zones = file]
       ELSE IF self.enabled THEN [@ EXCEPT !.pc = "start_check"] ELSE NoCall]
  /\ Local

PutZones(t) ==
  /\ At(t, "put_zones")
  /\ call' = [call EXCEPT ![t] = IF self.enabled THEN [NoCall EXCEPT !.pc = "start_check",
                                                                   !.op = "open"]
                                 ELSE NoCall]
  /\ zones' = call[t].zones
  /\ UNCHANGED <<env, trigger, file, self, det, history>>

\* Mutant: nothing is written while the camera is closed.
CopyOnlyOpen(t) ==
  /\ At(t, "copy_zones")
  /\ call' = [call EXCEPT ![t] = IF cam # "open" THEN NoCall
                                 ELSE [@ EXCEPT !.pc = "truncate", !.zones = zones]]
  /\ Local

CopyZones(t) ==
  /\ At(t, "copy_zones")
  /\ call' = [call EXCEPT ![t] = IF cam = "none" THEN NoCall
                                 ELSE [@ EXCEPT !.pc = "truncate", !.zones = zones]]
  /\ Local

Truncate(t) ==
  /\ Move(t, "truncate", "write_zones")
  /\ file' = "broken"
  /\ UNCHANGED <<env, trigger, zones, self, det, history>>

\* Over another caller's longer text the rest of that text stays.
WriteZones(t) ==
  /\ Move(t, "write_zones", "return")
  /\ \/ file' = call[t].zones
     \/ file' = "broken" /\ (file # "broken" \/ "diskFull" \in Faults)
  /\ UNCHANGED <<env, trigger, zones, self, det, history>>

-----------------------------------------------------------------------------
(* _detect_loop; a turn begins 0.1 s after the last at the earliest.       *)

DetAt(d, l)   == det[d].pc = l
DetGoto(d, l) == det' = [det EXCEPT ![d] = IF l \in {"head", "ended", "raised"}
                                           THEN [NewDet EXCEPT !.pc = l]
                                           ELSE [@ EXCEPT !.pc = l]]
DetLocal == UNCHANGED <<env, trigger, saved, self, call, history>>

Head(d) ==
  /\ DetAt(d, "head")
  /\ IF self.running /\ ~self.stop_evt
     THEN det' = [det EXCEPT ![d] = [@ EXCEPT !.pc = "sample", !.now = clock]]
     ELSE DetGoto(d, "ended")
  /\ DetLocal

\* Mutant: the detector waits for a frame.
SampleWaits(d) ==
  /\ DetAt(d, "sample") /\ cam \in {"open", "closing"}
  /\ DetGoto(d, "detect")
  /\ DetLocal

\* The camera may be open without a frame yet.
Sample(d) ==
  /\ DetAt(d, "sample")
  /\ \/ DetGoto(d, "head")
     \/ cam \in {"open", "closing"} /\ DetGoto(d, "detect")
  /\ DetLocal

\* With a model and zones, the cooldown being over, a zone has motion, or not.  The
\* last trigger is read later than the rest: only another detector writes it.
Detect(d) ==
  /\ DetAt(d, "detect")
  /\ \/ DetGoto(d, "head")
     \/ /\ self.mog2 /\ zones = "drawn" /\ det[d].now >= last_trigger + Cooldown
        /\ DetGoto(d, "trigger")
  /\ DetLocal

\* The loop has no try: an exception (zones that are not lists of points, an image
\* that cannot be scaled) ends the thread, with _running still set.
DetectRaises(d) == DetAt(d, "detect") /\ DetGoto(d, "raised") /\ DetLocal

Trigger(d) ==
  /\ DetAt(d, "trigger") /\ DetGoto(d, "pend")
  /\ last_trigger' = det[d].now
  /\ UNCHANGED <<env, clock, pending_photo, saved, self, call, history>>

Pend(d) ==
  /\ DetAt(d, "pend") /\ DetGoto(d, "head")
  /\ pending_photo' = TRUE
  /\ UNCHANGED <<env, clock, last_trigger, saved, self, call, history>>

\* The pipeline thread; it may still hold a plugin that has been removed.
OnFrame ==
  /\ cam \in {"open", "closing"} /\ pending_photo
  /\ pending_photo' = FALSE
  /\ UNCHANGED <<env, clock, last_trigger, saved, self, det, call, history>>

Tick ==
  /\ clock < MaxTime /\ clock' = clock + 1
  /\ UNCHANGED <<env, last_trigger, pending_photo, saved, self, det, call,
                 history>>

-----------------------------------------------------------------------------

Request(t) == \/ Enable(t) \/ Disable(t) \/ SaveZones(t)
              \/ OnCameraOpen(t) \/ OnCameraClose(t) \/ Remove(t)
CallStep(t) ==
  \/ StartCheck(t) \/ StartJoin(t) \/ ClearStop(t) \/ MakeModel(t) \/ SetRunning(t)
  \/ NewThread(t) \/ StartThread(t)
  \/ ClearRunning(t) \/ SetStop(t) \/ ReadThread(t) \/ NullThread(t) \/ StopJoin(t)
  \/ MarkIdle(t) \/ DropModel(t)
  \/ ReadZones(t) \/ PutZones(t)
  \/ CopyZones(t) \/ Truncate(t) \/ WriteZones(t)
DetStep(d) == \/ Head(d) \/ Sample(d) \/ Detect(d) \/ DetectRaises(d)
              \/ Trigger(d) \/ Pend(d)

Next == \/ OnFrame \/ Tick
        \/ \E t \in Callers : Request(t) \/ CallStep(t)
        \/ \E d \in Detectors : DetStep(d)

Spec == Init /\ [][Next]_vars

\* Threads are scheduled; nobody need call, and time need not pass.
FairSpec == /\ Spec
            /\ \A t \in Callers : WF_vars(CallStep(t))
            /\ \A d \in Detectors : WF_vars(DetStep(d))

-----------------------------------------------------------------------------

\* When nobody is switching, detection is on exactly when it should be: a disabled
\* or removed plugin does not run, an enabled one of an open camera does, and one
\* that reports itself busy (is_busy) has a model and a live detector it can stop,
\* unless an exception ended it; provided no two calls that start or stop detection
\* overlapped, for they take no lock.
DetectionFollowsSwitch ==
  ~overlap /\ ~Busy(SwitchOps) =>
    /\ removed \/ ~self.enabled => ~self.running
    /\ self.running => self.mog2 /\ self.thread \in Live \cup Raised
    /\ self.enabled /\ cam = "open" /\ ~removed => self.running

\* The zones in memory are those in the file once the camera has been opened and
\* nobody loads or saves, unless two calls on the file overlapped or a write failed.
ZonesKept ==
  ~zone_clash /\ ~Busy(FileOps) /\ cam # "none" /\ file \in ZoneLists => zones = file

\* Two triggers are a cooldown apart, those of a detector that was stopped and of the
\* next one included: a stop waits for the old thread, which would otherwise run on
\* beside the new one, on a time it took before.  Nothing is said once a join gave up
\* or two calls that start or stop detection overlapped: then two detectors may run.
TriggersApart ==
  [][~overlap /\ ~late /\ last_trigger' # last_trigger =>
       last_trigger' >= last_trigger + Cooldown]_vars

\* Every detector ends once detection has been stopped, those included whose join
\* timed out and those of calls that overlapped, unless detection is switched again
\* (a start clears the stop event for a detector that has not seen it) or _running
\* was left set.
StoppedEnd ==
  ~self.running /\ ~Busy(SwitchOps) ~>
    Busy(SwitchOps) \/ Live = {}
=============================================================================

------------------------------- MODULE Driver -------------------------------
(***************************************************************************)
(* One camera device, the driver objects that use it one after another,     *)
(* and the settings BasicParams keeps for it.  Sources: drivers/*.py,       *)
(* plugins/params/basic.py, and the parts of state/camera.py and app.py     *)
(* that open, close and parameterise a driver.                              *)
(*                                                                          *)
(* Every session has a driver object of its own: open() takes the device,   *)
(* start() runs the acquisition thread, only that thread gives the device   *)
(* back; what an open that failed half-way, or a thread that died before its *)
(* loop, leaves behind keeps the device until it is collected (Leftover).    *)
(* `kind` is the driver class.  Of the parameters only exposure,     *)
(* its auto mode and fps are kept: gain behaves as exposure does.           *)
(***************************************************************************)
EXTENDS Naturals, Sequences

CONSTANTS Kinds,      \* driver classes, some of "uvc" "aravis" "rpi" "rpi_img" "virtual"
          Drivers,    \* driver objects
          Setters,    \* concurrent set_param handlers
          NoDriver,
          Leftover,   \* an open that hangs or an object that nobody closed
          FailLimit,  \* _READ_FAIL_LIMIT, _TIMEOUT_FAIL_LIMIT, _FAIL_LIMIT
          Messages,   \* the <<key, value>> pairs set_param messages carry
          MaxSets     \* bound: messages that change settings in a behaviour

ASSUME DriverAssumption == /\ FailLimit \in Nat \ {0}
                           /\ MaxSets \in Nat
                           /\ Messages \subseteq ({"exposure", "fps"} \X {1, 2})
                                               \cup ({"auto"} \X BOOLEAN)
                           /\ Drivers \cap {NoDriver, Leftover, "admin"} = {}

VARIABLES
  kind,     \* the driver class of the device
  present,  \* it is plugged in
  listed,   \* it is in available_cameras
  holder,   \* who has it open
  hw,       \* its registers
  current,  \* _cameras[cam_id]
  closing,  \* cam_id is in _closing_cams
  mode,     \* _pending_native_modes[cam_id], as its fps; 0 is none
  drv,      \* the driver objects and their threads
  task,     \* the admin's handlers, and the thread reporting each driver's loss
  plugin,   \* the camera's BasicParams
  set,      \* the set_param handlers
  sets,     \* messages sent so far
  excused   \* keys whose register may differ from the plugin's value (see SetPush)

vars == <<kind, present, listed, holder, hw, current, closing, mode, drv, task,
          plugin, set, sets, excused>>
device  == <<kind, present, listed, holder, hw>>
session == <<current, closing, mode, task>>
params  == <<plugin, set, sets, excused>>

Tasks     == {"admin"} \cup Drivers
AutoLeft  == 0           \* an exposure that auto exposure chose
Levels    == {1, 2}      \* exposures and frame rates; 1 is the default
Unset     == 0           \* the 0.0 of a plugin value that was never seeded
Keys      == {"auto", "exposure", "fps"}
HasFps    == kind # "rpi_img"
Pi        == kind \in {"rpi", "rpi_img"}            \* their captures have no timeout
AutoFirst == kind \in {"aravis", "rpi", "rpi_img"}   \* DEFAULT_PARAMS["exposure_auto"]
-----------------------------------------------------------------------------
(* Driver objects. *)

NoObject == [pc |-> "none", running |-> FALSE, auto |-> FALSE, fails |-> 0,
             lost |-> FALSE, abandoned |-> FALSE, pending |-> <<>>, init |-> 1]

Alive(d) == drv[d].pc \in {"begin", "loop", "read", "report", "release"}

\* What open() writes to the device: the defaults, with the native mode's fps.
Initial(fps) == [auto |-> AutoFirst, exposure |-> IF AutoFirst THEN AutoLeft ELSE 1,
                 fps |-> fps]

\* (mutant: a list of requests instead of a dict)
PutTwice(pending, k, v) == Append(pending, [key |-> k, val |-> v])

\* _pending[key] = value: a key that is there keeps its place.
Put(pending, k, v) ==
  LET new == [key |-> k, val |-> v]
  IN  IF \E i \in DOMAIN pending : pending[i].key = k
      THEN [i \in DOMAIN pending |-> IF pending[i].key = k THEN new ELSE pending[i]]
      ELSE Append(pending, new)

\* One entry of _apply_pending; s is the registers and the driver's auto flag.
ApplyAuto(s, on) ==
  [hw   |-> [s.hw EXCEPT !.auto = on, !.exposure = IF on THEN AutoLeft ELSE @],
   auto |-> on]

\* The 0.0 of an unseeded value is no exposure and no frame rate.  What a device makes
\* of it is its own (the Pi driver raises and skips it): the register stays, and the
\* key is excused from then on.
Take(old, v) == IF v = Unset THEN old ELSE v

\* Aravis leaves auto mode for it, the others drop it.
ApplyExposure(s, v) ==
  IF s.auto /\ kind # "aravis" THEN s
  ELSE [s EXCEPT !.hw = [s.hw EXCEPT !.auto = FALSE, !.exposure = Take(s.hw.exposure, v)]]

ApplyFps(s, v) == IF HasFps THEN [s EXCEPT !.hw.fps = Take(@, v)] ELSE s

Apply(s, e) == CASE e.key = "auto"     -> ApplyAuto(s, e.val)
                 [] e.key = "exposure" -> ApplyExposure(s, e.val)
                 [] e.key = "fps"      -> ApplyFps(s, e.val)

\* _apply_pending: every entry, in the order of the dict.
Applied(s, pending) ==
  LET after[i \in 0..Len(pending)] ==
        IF i = 0 THEN s ELSE Apply(after[i - 1], pending[i])
  IN  after[Len(pending)]

\* driver.set_param: queued for the loop, except by the virtual camera.
SetParam(d, k, v) ==
  IF kind = "virtual"
  THEN /\ hw' = IF k = "fps" THEN [hw EXCEPT !.fps = v] ELSE hw
       /\ UNCHANGED drv
  ELSE drv' = [drv EXCEPT ![d].pending = Put(@, k, v)] /\ UNCHANGED hw
-----------------------------------------------------------------------------
(* The acquisition thread: run(). *)

Thread(d, pc) == drv[d].pc = pc /\ UNCHANGED <<kind, present, listed, params>>

\* _running = True; Aravis writes its initial parameters once more.
RunBegin(d) ==
  /\ Thread(d, "begin")
  /\ drv' = [drv EXCEPT ![d] =
                [@ EXCEPT !.pc = "loop", !.running = TRUE,
                          !.auto = IF kind = "aravis" THEN AutoFirst ELSE drv[d].auto]]
  /\ hw' = IF kind = "aravis" THEN Initial(drv[d].init) ELSE hw
  /\ UNCHANGED <<holder, session>>

\* Aravis makes its stream before the loop and its finally clause: an exception there
\* ends the thread with _running and _cam still set, and nobody hears of it.
RunRaises(d) ==
  /\ Thread(d, "begin") /\ kind = "aravis"
  /\ drv' = [drv EXCEPT ![d] = [@ EXCEPT !.pc = "dead", !.running = TRUE]]
  /\ holder' = IF holder = d THEN Leftover ELSE holder
  /\ UNCHANGED <<hw, session>>

\* (mutant: while True)
LoopHeadAlways(d) ==
  /\ Thread(d, "loop")
  /\ drv' = [drv EXCEPT ![d].pc = "read"]
  /\ UNCHANGED <<hw, holder, session>>

LoopHead(d) ==
  /\ Thread(d, "loop")
  /\ IF ~drv[d].running
     THEN drv' = [drv EXCEPT ![d].pc = "release"] /\ UNCHANGED hw
     ELSE LET s == Applied([hw |-> hw, auto |-> drv[d].auto], drv[d].pending)
          IN  /\ drv' = [drv EXCEPT ![d] = [@ EXCEPT !.pc = "read", !.auto = s.auto,
                                                     !.pending = <<>>]]
              /\ hw' = s.hw
  /\ UNCHANGED <<holder, session>>

\* A frame arrives and is handed to on_frame.
ReadFrame(d) ==
  /\ Thread(d, "read") /\ present
  /\ drv' = [drv EXCEPT ![d] = [@ EXCEPT !.pc = "loop", !.fails = 0]]
  /\ UNCHANGED <<holder, hw, session>>

\* (mutant: at the limit the loop ends without on_disconnect)
ReadFailsUnheard(d) ==
  /\ Thread(d, "read") /\ kind # "virtual"
  /\ drv' = [drv EXCEPT ![d] = [@ EXCEPT !.running = FALSE, !.lost = TRUE,
                                         !.pc = "release"]]
  /\ UNCHANGED <<holder, hw, session>>

\* No frame.  The Pi drivers leave quietly once they were stopped; at the limit
\* (at once for an Aravis device that is gone) the camera is declared lost.
\* Aravis releases the device first and reports then, the others the other way.
ReadFails(d) ==
  LET n    == drv[d].fails + 1
      lost == n >= FailLimit \/ (kind = "aravis" /\ ~present)
      quit == Pi /\ ~drv[d].running
  IN /\ Thread(d, "read") /\ kind # "virtual"
     /\ drv' = IF quit THEN [drv EXCEPT ![d].pc = "release"]
               ELSE IF ~lost THEN [drv EXCEPT ![d] = [@ EXCEPT !.pc = "loop", !.fails = n]]
               ELSE [drv EXCEPT ![d] =
                       [@ EXCEPT !.running = FALSE, !.lost = TRUE,
                                 !.pc = IF kind = "aravis" THEN "release" ELSE "report"]]
     /\ UNCHANGED <<holder, hw, session>>

\* The Pi video driver tries again when it gets nothing, and does not count it.
ReadNothing(d) ==
  /\ Thread(d, "read") /\ kind = "rpi"
  /\ drv' = [drv EXCEPT ![d].pc = "loop"]
  /\ UNCHANGED <<holder, hw, session>>

\* (mutant: no finally clause)
ReadRaisesKeeps(d) ==
  /\ Thread(d, "read") /\ kind # "virtual"
  /\ drv' = [drv EXCEPT ![d].pc = "dead"]
  /\ UNCHANGED <<holder, hw, session>>

\* An exception outside the inner try (a frame that cannot be decoded, a failing read
\* of UVC) ends the thread; _running stays.
ReadRaises(d) ==
  /\ Thread(d, "read") /\ kind # "virtual"
  /\ drv' = [drv EXCEPT ![d].pc = "release"]
  /\ UNCHANGED <<holder, hw, session>>

\* on_disconnect: a thread of its own runs _handle_disconnect.
Report(d) ==
  /\ Thread(d, "report")
  /\ task' = [task EXCEPT ![d] = [@ EXCEPT !.pc = "guard"]]
  /\ drv' = [drv EXCEPT ![d].pc = IF kind = "aravis" THEN "dead" ELSE "release"]
  /\ UNCHANGED <<holder, hw, current, closing, mode>>

Release(d) ==
  /\ Thread(d, "release")
  /\ holder' = IF holder = d THEN NoDriver ELSE holder
  /\ drv' = [drv EXCEPT ![d] =
                [@ EXCEPT !.running = kind # "virtual" /\ drv[d].running,
                          !.pc = IF kind = "aravis" /\ drv[d].lost THEN "report" ELSE "dead",
                          !.pending = <<>>, !.fails = 0]]
  /\ hw' = IF holder = d THEN Initial(1) ELSE hw     \* every open() writes them all
  /\ UNCHANGED session

\* What ends a read for certain: the timeout of UVC and Aravis, the clock of the virtual
\* camera; a Pi capture only the device itself.
ReadEnds(d) == \/ kind \in {"uvc", "aravis"} /\ ReadFails(d)
               \/ kind = "virtual" /\ ReadFrame(d)
               \/ Pi /\ present /\ (ReadFrame(d) \/ ReadFails(d) \/ ReadNothing(d))

Acquire(d) == \/ RunBegin(d) \/ LoopHead(d) \/ ReadEnds(d)
              \/ Report(d) \/ Release(d)
-----------------------------------------------------------------------------
(* Closing and opening.  Steps that CameraRegistry splits to interleave two     *)
(* callers are one step here; what remains apart is what a thread can see.     *)

At(t, pc) == task[t].pc = pc

IdleTask == [pc |-> "idle", drv |-> NoDriver, then |-> "idle"]

Goto(t, pc) == task' = IF pc = "idle" THEN [task EXCEPT ![t] = IdleTask]
                       ELSE [task EXCEPT ![t].pc = pc]

\* close_camera; the native-mode handler goes on with an open.
AdminClose(then) ==
  /\ At("admin", "idle") /\ current # NoDriver
  /\ IF then = "lookup" THEN kind # "virtual" /\ sets < MaxSets /\ sets' = sets + 1
                         ELSE UNCHANGED sets
  /\ task' = [task EXCEPT !["admin"] = [pc |-> "guard", drv |-> NoDriver, then |-> then]]
  /\ UNCHANGED <<device, current, closing, mode, drv, plugin, set, excused>>

\* When a close returns, the native-mode handler stores the mode and opens.
Closed(t) == /\ Goto(t, task[t].then)
             /\ mode' = IF task[t].then = "lookup" THEN 2 ELSE mode

\* The guard, then on_camera_close: _supported_params goes, the values stay.
CloseBegin(t) ==
  /\ At(t, "guard")
  /\ IF closing \/ current = NoDriver
     THEN Closed(t) /\ UNCHANGED <<closing, plugin>>
     ELSE /\ closing' = TRUE
          /\ plugin' = [plugin EXCEPT !.open = FALSE]
          /\ task' = [task EXCEPT ![t] = [@ EXCEPT !.pc = "stop", !.drv = current]]
          /\ UNCHANGED mode
  /\ UNCHANGED <<device, current, drv, set, sets, excused>>

\* (mutant: stop() releases the device itself)
StopReleases(t) ==
  /\ At(t, "stop")
  /\ drv' = [drv EXCEPT ![task[t].drv].running = FALSE]
  /\ holder' = NoDriver /\ Goto(t, "join")
  /\ UNCHANGED <<kind, present, listed, hw, current, closing, mode, params>>

Stop(t) ==
  /\ At(t, "stop")
  /\ drv' = [drv EXCEPT ![task[t].drv].running = FALSE]
  /\ Goto(t, "join")
  /\ UNCHANGED <<device, current, closing, mode, params>>

\* The join ends with the thread or gives up after CAM_JOIN_TIMEOUT; either way
\* the camera leaves the registry.
JoinAndRemove(t) ==
  LET d == task[t].drv
  IN /\ At(t, "join")
     /\ drv' = [drv EXCEPT ![d] = IF Alive(d) THEN [@ EXCEPT !.abandoned = TRUE]
                                  ELSE NoObject]
     /\ current' = NoDriver /\ closing' = FALSE
     /\ Closed(t)
     /\ UNCHANGED <<device, params>>

\* An abandoned thread that has ended after all.
Forget(d) ==
  /\ drv[d].pc = "dead" /\ drv[d].abandoned
  /\ drv' = [drv EXCEPT ![d] = NoObject]
  /\ UNCHANGED <<device, session, params>>

AdminOpen ==
  /\ At("admin", "idle") /\ current = NoDriver
  /\ Goto("admin", "lookup")
  /\ UNCHANGED <<device, current, closing, mode, drv, params>>

\* The mode is taken once the device is known, and is gone if open() then fails.
Fresh == {d \in Drivers : /\ drv[d] = NoObject /\ At(d, "idle")
                          /\ \A s \in Setters : set[s].drv # d}

Lookup ==
  LET d == CHOOSE d \in Fresh : TRUE      \* a new object, nobody's
  IN /\ At("admin", "lookup") /\ Fresh # {}
     /\ IF current # NoDriver \/ ~listed
        THEN Goto("admin", "idle") /\ UNCHANGED <<mode, drv>>
        ELSE /\ task' = [task EXCEPT !["admin"] = [@ EXCEPT !.pc = "device", !.drv = d]]
             /\ mode' = 0
             /\ drv' = [drv EXCEPT ![d].init = IF mode # 0 /\ HasFps THEN mode ELSE 1]
     /\ UNCHANGED <<device, current, closing, params>>

\* open(), then the table entry and the thread.
OpenDevice ==
  LET d == task["admin"].drv
  IN /\ At("admin", "device") /\ present /\ holder = NoDriver
     /\ holder' = IF kind = "virtual" THEN NoDriver ELSE d
     /\ hw' = Initial(drv[d].init)
     /\ drv' = [drv EXCEPT ![d] =
                   [@ EXCEPT !.pc = "begin", !.auto = AutoFirst,
                             !.init = IF kind = "aravis" THEN drv[d].init ELSE 1]]
     /\ current' = d
     /\ Goto("admin", "opened")
     /\ UNCHANGED <<kind, present, listed, closing, mode, params>>

\* The device is gone, taken or refuses.  Or the open has taken it and then fails, or
\* hangs (the watchdog of UVC gives up on it): the device stays taken.
OpenFails ==
  /\ At("admin", "device") /\ kind # "virtual"
  /\ UNCHANGED holder \/ (present /\ holder = NoDriver /\ holder' = Leftover)
  /\ drv' = [drv EXCEPT ![task["admin"].drv] = NoObject]
  /\ Goto("admin", "idle")
  /\ UNCHANGED <<kind, present, listed, hw, current, closing, mode, params>>
-----------------------------------------------------------------------------
(* BasicParams. *)

Unseeded == [has |-> FALSE, open |-> FALSE, auto |-> FALSE, exposure |-> Unset,
             fps |-> Unset]

Seeded == [has |-> TRUE, open |-> TRUE, auto |-> AutoFirst, exposure |-> 1,
           fps |-> IF HasFps THEN 1 ELSE Unset]

\* A close has overtaken the event: there is no cam_info and no driver.
SeededFromNothing == IF plugin.has THEN [plugin EXCEPT !.open = FALSE]
                     ELSE [Unseeded EXCEPT !.has = TRUE]

\* (mutant: values before modes)
RestoreExposureFirst(pending) ==
  Put(Put(Put(pending, "exposure", plugin.exposure), "auto", plugin.auto), "fps", plugin.fps)

\* The saved values, in the order on_camera_open pushes them.
Restore(pending) ==
  LET mode1 == Put(pending, "auto", plugin.auto)
      exp1  == IF plugin.auto THEN mode1 ELSE Put(mode1, "exposure", plugin.exposure)
  IN  IF HasFps THEN Put(exp1, "fps", plugin.fps) ELSE exp1

Overtaken == set' = [s \in Setters |-> [set[s] EXCEPT !.mixed = @ \/ set[s].pc # "idle"]]

\* on_camera_open, from the camera.opened event, for the driver that is there by then.
NotifyOpen ==
  /\ At("admin", "opened")
  /\ IF current = NoDriver
     THEN plugin' = SeededFromNothing /\ UNCHANGED <<drv, hw, excused>>
     ELSE IF ~plugin.has
     THEN /\ plugin' = Seeded /\ UNCHANGED <<drv, hw>>
          /\ excused' = IF hw.fps = 1 THEN excused ELSE Keys
     ELSE /\ plugin' = [plugin EXCEPT !.open = TRUE]
          /\ excused' = IF drv[current].pending = <<>>
                        THEN {k \in {"exposure", "fps"} : plugin[k] = Unset} ELSE Keys
          /\ IF kind = "virtual"
             THEN hw' = [hw EXCEPT !.fps = Take(@, plugin.fps)] /\ UNCHANGED drv
             ELSE drv' = [drv EXCEPT ![current].pending = Restore(@)] /\ UNCHANGED hw
  /\ Overtaken /\ Goto("admin", "idle")
  /\ UNCHANGED <<kind, present, listed, holder, current, closing, mode, sets>>

IdleSetter == [pc |-> "idle", key |-> "fps", val |-> 1, drv |-> NoDriver, mixed |-> FALSE]

\* on_set_param: the driver is looked up, then the plugin's field is assigned,
\* then the driver is told.
SetBegin(s, k, v) ==
  LET others == \E o \in Setters \ {s} : set[o].pc # "idle"
  IN /\ set[s].pc = "idle" /\ sets < MaxSets
     /\ sets' = sets + 1
     /\ set' = [o \in Setters |->
                  IF o = s THEN [pc |-> "field", key |-> k, val |-> v,
                                 drv |-> current, mixed |-> others]
                  ELSE [set[o] EXCEPT !.mixed = set[o].pc # "idle"]]
     /\ UNCHANGED <<device, session, drv, plugin, excused>>

SetField(s) ==
  LET r == set[s]
  IN /\ r.pc = "field"
     /\ IF r.key = "fps" /\ ~(plugin.open /\ HasFps)
        THEN set' = [set EXCEPT ![s] = IdleSetter] /\ UNCHANGED plugin
        ELSE /\ plugin' = [plugin EXCEPT ![r.key] = r.val]
             /\ set' = [set EXCEPT ![s].pc = "push"]
     /\ UNCHANGED <<device, session, drv, sets, excused>>

Coupled(k) == IF k = "fps" THEN {"fps"} ELSE {"auto", "exposure"}

\* The keys this message leaves unsettled: all it touches when it overlapped
\* another message, an open, or came before the plugin was seeded; those it
\* overwrote in place before the loop took them; the exposure when only the mode
\* changes; and the mode of an Aravis camera whose exposure is set while
\* the plugin says auto.
Unsettled(r, pending) ==
  LET rewrite == r.key # "fps" /\ \E i \in DOMAIN pending : pending[i].key # "fps"
      aravis  == r.key = "exposure" /\ plugin.auto /\ kind = "aravis"
      hidden  == (r.key = "auto" /\ ~r.val) \/ (r.key = "exposure" /\ plugin.auto)
  IN  IF r.mixed \/ ~plugin.has \/ rewrite \/ aravis THEN Coupled(r.key)
      ELSE IF hidden THEN {"exposure"} ELSE {}

SetPush(s) ==
  LET r == set[s]
      unsettled == IF r.drv = NoDriver THEN (IF r.mixed THEN Coupled(r.key) ELSE {})
                   ELSE Unsettled(r, drv[r.drv].pending)
  IN /\ r.pc = "push"
     /\ IF r.drv = NoDriver \/ drv[r.drv].pc \in {"none", "dead"}
        THEN UNCHANGED <<hw, drv>> ELSE SetParam(r.drv, r.key, r.val)
     /\ excused' = IF unsettled # {} \/ "auto" \in excused \/ r.drv = NoDriver
                   THEN excused \cup unsettled ELSE excused \ {r.key}
     /\ set' = [set EXCEPT ![s] = IdleSetter]
     /\ UNCHANGED <<kind, present, listed, holder, session, plugin, sets>>
-----------------------------------------------------------------------------
(* The world outside. *)

Plug ==
  /\ kind # "virtual" /\ (present \/ current = NoDriver)
  /\ present' = ~present
  /\ UNCHANGED <<kind, listed, holder, hw, session, drv, params>>

\* The hanging open returns, or the object is collected once the registry has none.
LeftoverFreed ==
  /\ holder = Leftover /\ current = NoDriver
  /\ holder' = NoDriver
  /\ UNCHANGED <<kind, present, listed, hw, session, drv, params>>

\* An open camera stays listed; the UVC scan sees only devices it can open.
Scan ==
  /\ listed' = \/ listed /\ current # NoDriver
               \/ present /\ (kind = "uvc" => holder = NoDriver)
  /\ UNCHANGED <<kind, present, holder, hw, session, drv, params>>
-----------------------------------------------------------------------------
Init ==
  /\ kind \in Kinds
  /\ present = TRUE /\ listed = TRUE /\ holder = NoDriver
  /\ hw = Initial(1)
  /\ current = NoDriver /\ closing = FALSE /\ mode = 0
  /\ drv = [d \in Drivers |-> NoObject]
  /\ task = [t \in Tasks |-> IdleTask]
  /\ plugin = Unseeded
  /\ set = [s \in Setters |-> IdleSetter] /\ sets = 0 /\ excused = {}

Close(t) == CloseBegin(t) \/ Stop(t) \/ JoinAndRemove(t)
Open     == Lookup \/ OpenDevice \/ OpenFails \/ NotifyOpen

Next ==
  \/ \E d \in Drivers : \/ RunBegin(d) \/ RunRaises(d) \/ LoopHead(d)
                        \/ ReadFrame(d) \/ ReadFails(d) \/ ReadNothing(d) \/ ReadRaises(d)
                        \/ Report(d) \/ Release(d) \/ Forget(d)
  \/ \E t \in Tasks : Close(t)
  \/ Open \/ AdminOpen \/ \E then \in {"idle", "lookup"} : AdminClose(then)
  \/ \E s \in Setters : \/ SetField(s) \/ SetPush(s)
                        \/ \E m \in Messages : SetBegin(s, m[1], m[2])
  \/ Plug \/ LeftoverFreed \/ Scan

Spec == Init /\ [][Next]_vars

\* Threads are scheduled, and reads with a timeout return.  Nothing is promised about the
\* device, a Pi capture of a device that is gone, or the admin.
FairSpec == /\ Spec
            /\ \A d \in Drivers : WF_vars(Acquire(d))
            /\ \A t \in Tasks : WF_vars(Close(t))
            /\ WF_vars(Open)
-----------------------------------------------------------------------------
(* Properties. *)

Registers == [auto : BOOLEAN, exposure : Levels \cup {AutoLeft}, fps : Levels]
Pcs       == {"idle", "guard", "stop", "join", "lookup", "device", "opened"}

\* The state has the shape the code's fields have; a queue holds a key once.
TypeOK ==
  /\ kind \in Kinds /\ present \in BOOLEAN /\ listed \in BOOLEAN
  /\ holder \in Drivers \cup {NoDriver, Leftover} /\ current \in Drivers \cup {NoDriver}
  /\ hw \in Registers /\ closing \in BOOLEAN /\ mode \in {0, 2}
  /\ \A d \in Drivers :
       /\ drv[d].pc \in {"none", "begin", "loop", "read", "report", "release", "dead"}
       /\ drv[d].fails \in 0..FailLimit /\ drv[d].init \in Levels
       /\ \A i, j \in DOMAIN drv[d].pending :
            drv[d].pending[i].key = drv[d].pending[j].key => i = j
  /\ \A t \in Tasks : /\ task[t].pc \in Pcs /\ task[t].then \in {"idle", "lookup"}
                      /\ task[t].drv \in Drivers \cup {NoDriver}
  /\ plugin \in [has : BOOLEAN, open : BOOLEAN, auto : BOOLEAN,
                 exposure : Levels \cup {Unset}, fps : Levels \cup {Unset}]
  /\ \A s \in Setters : set[s].pc \in {"idle", "field", "push"}
  /\ sets \in 0..MaxSets /\ excused \subseteq Keys

\* A closed camera's device is free for the next open, whatever closed it and however
\* its thread ended once it had reached its finally clause ("so the next open()
\* succeeds"), unless the join gave up on the thread.  What never reached that clause
\* is Leftover: an open that failed half-way or hangs, an Aravis thread that died first.
ClosedReleased ==
  current = NoDriver /\ (\A t \in Tasks : At(t, "idle"))
    => \/ holder \in {NoDriver, Leftover}
       \/ drv[holder].abandoned

\* A thread only ever reads a device that is open in its own hands, so no
\* session reads what an earlier one left behind or another has taken.
ReadsOwnDevice ==
  \A d \in Drivers : drv[d].pc \in {"loop", "read"} /\ kind # "virtual" => holder = d

\* With nothing under way, the registers of an open camera are what BasicParams
\* shows, after any sequence of settings, closes, reopens and native modes
\* (basic.py: "so the hardware matches what the user set"), except for the
\* excused keys.
HwFollowsPlugin ==
  LET settled == /\ current # NoDriver /\ drv[current].pc = "read"
                 /\ drv[current].pending = <<>>
                 /\ (\A t \in Tasks : At(t, "idle")) /\ ~closing
                 /\ \A s \in Setters : set[s].pc = "idle"
  IN settled /\ plugin.has /\ plugin.open =>
       /\ HasFps /\ "fps" \notin excused => hw.fps = plugin.fps
       /\ kind # "virtual" =>
            /\ "auto" \notin excused => hw.auto = plugin.auto
            /\ {"auto", "exposure"} \cap excused = {} /\ ~plugin.auto
                 => hw.exposure = plugin.exposure

\* A thread that is in its loop when it is told to stop ends, though every read fails or
\* hangs up to its timeout; a Pi capture has none, and hangs if its device is gone.
StoppedEnds ==
  \A d \in Drivers :
    (Alive(d) /\ drv[d].pc # "begin" /\ ~drv[d].running)
      ~> (drv[d].pc \in {"none", "dead"} \/ (Pi /\ ~present))

\* A UVC or Aravis camera whose device is gone is taken out of the registry, unless its
\* thread had died of an exception.  The Pi drivers promise nothing: their capture has
\* no timeout, and one that yields nothing is not counted.
LossNoticed ==
  \A d \in Drivers :
    (current = d /\ drv[d].pc = "read" /\ ~present /\ ~Pi)
      ~> \/ current # d \/ present
         \/ drv[d].pc = "dead" /\ ~drv[d].lost
=============================================================================

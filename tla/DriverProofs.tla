---------------------------- MODULE DriverProofs ----------------------------
(***************************************************************************)
(* For any driver class, settings and faults: a thread reads its own device  *)
(* only, a camera that is closed has given its device back unless the close  *)
(* gave up on its thread, and the registers of an open camera are what       *)
(* BasicParams shows.  The last needs what applying a queue of requests does: *)
(* a recursive function in the model, a chain of stages here.                *)
(***************************************************************************)
EXTENDS Driver, SequenceTheorems, WellFoundedInduction, TLAPS

TaskStates == [pc : Pcs, drv : Drivers \cup {NoDriver}, then : {"idle", "lookup"}]
Live       == {"begin", "loop", "read", "report", "release"}

\* What the steps below rely on: the fields they look at are there.
Shape ==
  /\ drv = [d \in Drivers |-> drv[d]]
  /\ \A d \in Drivers : {"pc", "abandoned", "lost", "running"} \subseteq DOMAIN drv[d]
  /\ task \in [Tasks -> TaskStates]
  /\ current \in Drivers \cup {NoDriver} /\ holder \in Drivers \cup {NoDriver, Leftover}

\* A thread has its device from the moment it is started until it gives it back; an
\* Aravis thread that reports a loss has done so before.
Holding(d) == \/ drv[d].pc \in {"begin", "loop", "read", "release"}
              \/ drv[d].pc = "report" /\ kind # "aravis"
Held == /\ kind # "virtual" => \A d \in Drivers : Holding(d) => holder = d
        /\ \A d \in Drivers : holder = d => kind # "virtual" /\ Holding(d)

\* A close under way has the current driver; an open under way has an unused one.
Sessions ==
  /\ \A t \in Tasks : At(t, "stop") \/ At(t, "join") =>
       task[t].drv = current /\ current # NoDriver /\ closing
  /\ \A t, u \in Tasks : (At(t, "stop") \/ At(t, "join")) /\ (At(u, "stop") \/ At(u, "join")) => t = u
  /\ \A t \in Tasks \ {"admin"} : task[t].pc \in {"idle", "guard", "stop", "join"}
                                    /\ task[t].then = "idle"
  /\ At("admin", "device") => /\ task["admin"].drv \in Drivers /\ current = NoDriver
                              /\ drv[task["admin"].drv].pc = "none"
                              /\ At(task["admin"].drv, "idle")

\* A live thread is the current driver's, or one a close gave up on.
Owned == \A d \in Drivers : drv[d].pc \in Live => current = d \/ drv[d].abandoned

\* A driver whose loss is being handled does not report it again.
Reported ==
  \A d \in Drivers : task[d].pc # "idle" => \/ drv[d].pc \in {"none", "dead"}
                                            \/ drv[d].pc = "release" /\ kind # "aravis"

DriverInv == Shape /\ Held /\ Sessions /\ Owned /\ Reported
-----------------------------------------------------------------------------
\* A step of one thread: no other object changes, and no object's fields are lost.
Moves(d) ==
  /\ drv' = [e \in Drivers |-> drv'[e]]
  /\ DOMAIN drv'[d] = DOMAIN drv[d] /\ drv'[d].abandoned = drv[d].abandoned
  /\ \A e \in Drivers \ {d} : drv'[e] = drv[e]

LEMMA Idle ==
  /\ IdleTask \in TaskStates /\ IdleTask.pc = "idle" /\ IdleTask.then = "idle"
  /\ NoObject.pc = "none" /\ ~NoObject.abandoned
  /\ {"pc", "abandoned", "lost", "running"} \subseteq DOMAIN NoObject
BY DEF IdleTask, TaskStates, Pcs, NoObject

LEMMA InitHolds == Init => DriverInv
<1> SUFFICES ASSUME Init PROVE DriverInv
  OBVIOUS
<1>1. /\ drv = [d \in Drivers |-> NoObject] /\ task = [t \in Tasks |-> IdleTask]
      /\ current = NoDriver /\ holder = NoDriver /\ "admin" \in Tasks
  BY DEF Init, Tasks
<1>2. Shape
  BY <1>1, Idle DEF Shape
<1>3. Held /\ Owned
  BY <1>1, Idle, DriverAssumption DEF Held, Holding, Owned, Live
<1>4. Sessions
  BY <1>1, Idle DEF Sessions, At
<1>5. Reported
  BY <1>1, Idle DEF Reported, Tasks
<1> QED BY <1>2, <1>3, <1>4, <1>5 DEF DriverInv


\* A step of a live thread that keeps its device, or gives it back (leaves it taken) at
\* its end; only a report starts a task.
LEMMA ThreadMoves ==
  ASSUME DriverInv, NEW d \in Drivers, Moves(d), drv[d].pc \in Live,
         UNCHANGED <<kind, current, closing>>, NEW x \in {NoDriver, Leftover},
         \/ holder' = holder /\ drv'[d].pc \in Live /\ (Holding(d)' <=> Holding(d))
         \/ /\ holder' = IF holder = d THEN x ELSE holder
            /\ drv'[d].pc \in {"report", "dead"} /\ ~Holding(d)',
         \/ UNCHANGED task /\ (task[d].pc = "idle" \/ drv'[d].pc = "dead")
         \/ /\ task' = [task EXCEPT ![d] = [task[d] EXCEPT !.pc = "guard"]] /\ task[d].pc = "idle"
            /\ \/ drv'[d].pc = "dead"
               \/ drv'[d].pc = "release" /\ kind # "aravis"
  PROVE  DriverInv'
<1>0. /\ d \in Tasks /\ d # "admin" /\ task \in [Tasks -> TaskStates] /\ d # NoDriver
      /\ NoDriver \notin Drivers /\ x \notin Drivers
  BY DriverAssumption DEF DriverInv, Shape, Tasks
<1>1. /\ [task[d] EXCEPT !.pc = "guard"] \in TaskStates
      /\ [task[d] EXCEPT !.pc = "guard"].pc = "guard" /\ [task[d] EXCEPT !.pc = "guard"].then = task[d].then
  BY <1>0 DEF TaskStates, Pcs
<1>2. /\ task' \in [Tasks -> TaskStates] /\ \A t \in Tasks \ {d} : task'[t] = task[t]
      /\ \/ task'[d] = task[d] /\ (task[d].pc = "idle" \/ drv'[d].pc = "dead")
         \/ /\ task'[d].pc = "guard" /\ task[d].pc = "idle" /\ task'[d].then = task[d].then
            /\ \/ drv'[d].pc = "dead"
               \/ drv'[d].pc = "release" /\ kind # "aravis"
  BY <1>0, <1>1
<1>3. Shape'
  BY <1>0, <1>2 DEF DriverInv, Shape, Moves
<1>4. Held'
  BY <1>0 DEF DriverInv, Held, Holding, Moves, Live
<1>5. Sessions'
  <2>1. \A t \in Tasks : At(t, "stop")' \/ At(t, "join")' => task'[t] = task[t]
    BY <1>0, <1>2 DEF At
  <2>2. \A t \in Tasks : At(t, "stop")' \/ At(t, "join")' =>
          task'[t].drv = current' /\ current' # NoDriver /\ closing'
    BY <2>1 DEF DriverInv, Sessions, At
  <2>3. \A t, u \in Tasks : (At(t, "stop")' \/ At(t, "join")') /\ (At(u, "stop")' \/ At(u, "join")') => t = u
    BY <2>1 DEF DriverInv, Sessions, At
  <2>4. \A t \in Tasks \ {"admin"} : task'[t].pc \in {"idle", "guard", "stop", "join"}
                                        /\ task'[t].then = "idle"
    BY <1>0, <1>2 DEF DriverInv, Sessions
  <2>5. "admin" \in Tasks /\ task'["admin"] = task["admin"]
    BY <1>0, <1>2 DEF Tasks
  <2>6. At("admin", "device") => task["admin"].drv # d /\ task["admin"].drv \in Drivers
    BY DEF DriverInv, Sessions, Live
  <2>7. ASSUME task'["admin"].pc = "device"
        PROVE  /\ task'["admin"].drv \in Drivers /\ current' = NoDriver
               /\ drv'[task'["admin"].drv].pc = "none" /\ task'[task'["admin"].drv].pc = "idle"
    <3> DEFINE e == task["admin"].drv
    <3>1. /\ e \in Drivers /\ current = NoDriver /\ drv[e].pc = "none" /\ task[e].pc = "idle"
      BY <2>5, <2>7 DEF DriverInv, Sessions, At
    <3>2. e # d /\ e \in Tasks
      BY <3>1 DEF Live, Tasks
    <3> QED BY <1>2, <2>5, <3>1, <3>2 DEF Moves
  <2> QED BY <2>2, <2>3, <2>4, <2>7 DEF Sessions, At
<1>6. Owned'
  BY <1>0 DEF DriverInv, Owned, Moves
<1>7. Reported'
  BY <1>0, <1>2 DEF DriverInv, Reported, Moves, Tasks
<1> QED BY <1>3, <1>4, <1>5, <1>6, <1>7 DEF DriverInv

LEMMA ThreadStep ==
  ASSUME DriverInv, NEW d \in Drivers,
         \/ RunBegin(d) \/ RunRaises(d) \/ LoopHead(d)
         \/ ReadFrame(d) \/ ReadFails(d) \/ ReadNothing(d) \/ ReadRaises(d)
         \/ Report(d) \/ Release(d)
  PROVE  DriverInv'
<1>0. /\ drv = [e \in Drivers |-> drv[e]]
      /\ {"pc", "abandoned", "lost", "running"} \subseteq DOMAIN drv[d]
      /\ drv[d].pc \in {"begin", "loop", "read"} => task[d].pc = "idle"
      /\ kind # "virtual" /\ Holding(d) => holder = d
  BY DEF DriverInv, Shape, Reported, Held
<1>1. CASE RunBegin(d)
  <2>1. Moves(d) /\ drv[d].pc = "begin" /\ drv'[d].pc = "loop"
    BY <1>0, <1>1 DEF RunBegin, Thread, Moves
  <2>2. UNCHANGED <<kind, holder, current, closing, task>>
    BY <1>1 DEF RunBegin, Thread, session
  <2> QED BY <1>0, <2>1, <2>2, ThreadMoves DEF Live, Holding
<1>2. CASE LoopHead(d)
  <2>1. Moves(d) /\ drv[d].pc = "loop" /\ drv'[d].pc \in {"release", "read"}
    <3>1. PICK a, q :
             \/ drv' = [drv EXCEPT ![d].pc = "release"]
             \/ drv' = [drv EXCEPT ![d] = [@ EXCEPT !.pc = "read", !.auto = a, !.pending = q]]
      BY <1>2 DEF LoopHead
    <3>2. drv[d].pc = "loop"
      BY <1>2 DEF LoopHead, Thread
    <3> QED BY <1>0, <3>1, <3>2 DEF Moves
  <2>2. UNCHANGED <<kind, holder, current, closing, task>>
    BY <1>2 DEF LoopHead, Thread, session
  <2> QED BY <1>0, <2>1, <2>2, ThreadMoves DEF Live, Holding
<1>3. CASE ReadFrame(d) \/ ReadNothing(d) \/ ReadRaises(d)
  <2>1. Moves(d) /\ drv[d].pc = "read" /\ drv'[d].pc \in {"release", "loop"}
    BY <1>0, <1>3 DEF ReadFrame, ReadNothing, ReadRaises, Thread, Moves
  <2>2. UNCHANGED <<kind, holder, current, closing, task>>
    BY <1>3 DEF ReadFrame, ReadNothing, ReadRaises, Thread, session
  <2> QED BY <1>0, <2>1, <2>2, ThreadMoves DEF Live, Holding
<1>4. CASE ReadFails(d)
  <2>1. /\ Moves(d) /\ drv[d].pc = "read" /\ drv'[d].pc \in {"release", "loop", "report"}
        /\ drv'[d].pc = "report" => kind # "aravis"
    BY <1>0, <1>4 DEF ReadFails, Thread, Moves
  <2>2. UNCHANGED <<kind, holder, current, closing, task>>
    BY <1>4 DEF ReadFails, Thread, session
  <2> QED BY <1>0, <2>1, <2>2, ThreadMoves DEF Live, Holding
<1>5. CASE Report(d)
  <2>1. /\ Moves(d) /\ drv[d].pc = "report"
        /\ drv'[d].pc = IF kind = "aravis" THEN "dead" ELSE "release"
    BY <1>0, <1>5 DEF Report, Thread, Moves
  <2>2. UNCHANGED <<kind, holder, current, closing>>
        /\ task' = [task EXCEPT ![d] = [task[d] EXCEPT !.pc = "guard"]]
    BY <1>5 DEF Report, Thread
  <2>3. task[d].pc = "idle"
    BY <2>1 DEF DriverInv, Reported
  <2>4. CASE kind = "aravis"
    <3>1. drv'[d].pc = "dead" /\ ~Holding(d)'
      BY <2>1, <2>4 DEF Holding
    <3>2. holder' = IF holder = d THEN NoDriver ELSE holder
      BY <2>1, <2>2, <2>4 DEF DriverInv, Held, Holding
    <3> QED BY <2>1, <2>2, <2>3, <3>1, <3>2, ThreadMoves DEF Live
  <2>5. CASE kind # "aravis"
    BY <2>1, <2>2, <2>3, <2>5, ThreadMoves DEF Live, Holding
  <2> QED BY <2>4, <2>5
<1>6. CASE Release(d)
  <2>1. /\ Moves(d) /\ drv[d].pc = "release"
        /\ drv'[d].pc = IF kind = "aravis" /\ drv[d].lost THEN "report" ELSE "dead"
    BY <1>0, <1>6 DEF Release, Thread, Moves
  <2>2. /\ UNCHANGED <<kind, current, closing, task>>
        /\ holder' = IF holder = d THEN NoDriver ELSE holder
    BY <1>6 DEF Release, Thread, session
  <2>3. task[d].pc = "idle" \/ kind # "aravis"
    BY <2>1 DEF DriverInv, Reported
  <2>4. drv'[d].pc \in {"report", "dead"} /\ ~Holding(d)'
    BY <2>1, <2>2 DEF Holding
  <2> QED BY <2>1, <2>2, <2>3, <2>4, ThreadMoves DEF Live
<1>7. CASE RunRaises(d)
  <2>1. Moves(d) /\ drv[d].pc = "begin" /\ drv'[d].pc = "dead"
    BY <1>0, <1>7 DEF RunRaises, Thread, Moves
  <2>2. /\ UNCHANGED <<kind, current, closing, task>>
        /\ holder' = IF holder = d THEN Leftover ELSE holder
    BY <1>7 DEF RunRaises, Thread, session
  <2>3. ~Holding(d)'
    BY <2>1 DEF Holding
  <2> QED BY <1>0, <2>1, <2>2, <2>3, ThreadMoves DEF Live
<1> QED BY <1>1, <1>2, <1>3, <1>4, <1>5, <1>6, <1>7

\* No object's thread or place changes.
SameThreads ==
  /\ drv' = [d \in Drivers |-> drv'[d]]
  /\ \A d \in Drivers : /\ DOMAIN drv'[d] = DOMAIN drv[d]
                        /\ drv'[d].pc = drv[d].pc /\ drv'[d].abandoned = drv[d].abandoned

\* A step of a task that changes neither threads nor sessions.
LEMMA TaskMoves ==
  ASSUME DriverInv, NEW t \in Tasks, NEW r \in TaskStates, task' = [task EXCEPT ![t] = r],
         SameThreads, UNCHANGED <<kind, holder, current, closing>>,
         r.pc \in {"idle", "guard", "lookup", "opened"},
         t # "admin" => r.pc \in {"idle", "guard"} /\ r.then = "idle" /\ task[t].pc # "idle"
  PROVE  DriverInv'
<1>0. task \in [Tasks -> TaskStates] /\ NoDriver \notin Drivers /\ Drivers \subseteq Tasks
      /\ "admin" \in Tasks /\ "admin" \notin Drivers
  BY DriverAssumption DEF DriverInv, Shape, Tasks
<1>1. task' \in [Tasks -> TaskStates] /\ task'[t] = r /\ \A u \in Tasks \ {t} : task'[u] = task[u]
  BY <1>0
<1>2. Shape'
  BY <1>1 DEF DriverInv, Shape, SameThreads
<1>3. Held' /\ Owned'
  BY DEF DriverInv, Held, Owned, Holding, SameThreads
<1>4. Sessions'
  <2>1. \A u \in Tasks : task'[u].pc \in {"stop", "join"} => task'[u] = task[u]
    BY <1>1
  <2>2. /\ \A u \in Tasks : At(u, "stop")' \/ At(u, "join")' =>
                              task'[u].drv = current' /\ current' # NoDriver /\ closing'
        /\ \A u, v \in Tasks : (At(u, "stop")' \/ At(u, "join")')
                                /\ (At(v, "stop")' \/ At(v, "join")') => u = v
    BY <2>1 DEF DriverInv, Sessions, At
  <2>3. \A u \in Tasks \ {"admin"} : task'[u].pc \in {"idle", "guard", "stop", "join"}
                                       /\ task'[u].then = "idle"
    BY <1>1 DEF DriverInv, Sessions
  <2>4. ASSUME task'["admin"].pc = "device"
        PROVE  /\ task'["admin"].drv \in Drivers /\ current' = NoDriver
               /\ drv'[task'["admin"].drv].pc = "none" /\ task'[task'["admin"].drv].pc = "idle"
    <3> DEFINE e == task["admin"].drv
    <3>1. t # "admin" /\ task'["admin"] = task["admin"]
      BY <1>0, <1>1, <2>4
    <3>2. e \in Drivers /\ current = NoDriver /\ drv[e].pc = "none" /\ task[e].pc = "idle"
      BY <2>4, <3>1 DEF DriverInv, Sessions, At
    <3>3. e # t
      BY <3>1, <3>2
    <3> QED BY <1>0, <1>1, <3>1, <3>2, <3>3 DEF SameThreads
  <2> QED BY <2>2, <2>3, <2>4 DEF Sessions, At
<1>5. Reported'
  BY <1>0, <1>1 DEF DriverInv, Reported, SameThreads
<1> QED BY <1>2, <1>3, <1>4, <1>5 DEF DriverInv

\* A step that changes no task either.
LEMMA NothingMoves ==
  ASSUME DriverInv, SameThreads, UNCHANGED <<kind, current, closing, task>>,
         holder' = holder \/ (holder = Leftover /\ holder' = NoDriver)
  PROVE  DriverInv'
<1>1. Drivers \cap {NoDriver, Leftover} = {}
  BY DriverAssumption
<1>2. Shape' /\ Held' /\ Owned' /\ Reported'
  BY <1>1 DEF DriverInv, Shape, Held, Owned, Reported, Holding, SameThreads
<1>3. Sessions'
  <2>1. At("admin", "device") => drv'[task["admin"].drv].pc = "none"
    BY DEF DriverInv, Sessions, SameThreads
  <2> QED BY <2>1 DEF DriverInv, Sessions, At
<1> QED BY <1>2, <1>3 DEF DriverInv

\* Queueing parameters, and taking a new object's native mode, change no thread.
LEMMA Queued ==
  ASSUME DriverInv, NEW d, NEW q, drv' = [drv EXCEPT ![d].pending = q]
  PROVE  SameThreads
<1>1. /\ drv = [e \in Drivers |-> drv[e]]
      /\ \A e \in Drivers : {"pc", "abandoned", "lost", "running"} \subseteq DOMAIN drv[e]
  BY DEF DriverInv, Shape
<1>2. drv' = [e \in Drivers |-> drv'[e]]
  BY <1>1
<1>3. ASSUME NEW e \in Drivers
      PROVE  /\ DOMAIN drv'[e] = DOMAIN drv[e]
             /\ drv'[e].pc = drv[e].pc /\ drv'[e].abandoned = drv[e].abandoned
  <2>1. CASE e = d
    BY <1>1, <2>1
  <2>2. CASE e # d
    BY <1>1, <2>2
  <2> QED BY <2>1, <2>2
<1> QED BY <1>2, <1>3 DEF SameThreads

\* The handlers of settings change no thread: they queue parameters at most.
LEMMA SettingStep ==
  ASSUME DriverInv, NEW s \in Setters,
         \/ SetField(s) \/ SetPush(s) \/ \E m \in Messages : SetBegin(s, m[1], m[2])
  PROVE  DriverInv'
<1>0. drv = [d \in Drivers |-> drv[d]]
  BY DEF DriverInv, Shape
<1>1. CASE SetField(s) \/ \E m \in Messages : SetBegin(s, m[1], m[2])
  <2>1. UNCHANGED <<kind, holder, current, closing, task, drv>>
    BY <1>1 DEF SetField, SetBegin, device, session
  <2> QED BY <1>0, <2>1, NothingMoves DEF SameThreads
<1>2. CASE SetPush(s)
  <2>1. UNCHANGED <<kind, holder, current, closing, task>>
    BY <1>2 DEF SetPush, session
  <2>2. \/ drv' = drv
        \/ \E d, q : drv' = [drv EXCEPT ![d].pending = q]
    BY <1>2 DEF SetPush, SetParam
  <2>3. SameThreads
    BY <1>0, <2>2, Queued DEF SameThreads
  <2> QED BY <2>1, <2>3, NothingMoves
<1> QED BY <1>1, <1>2

LEMMA OpenStep ==
  ASSUME DriverInv, Open \/ AdminOpen
  PROVE  DriverInv'
<1>0. /\ drv = [e \in Drivers |-> drv[e]] /\ "admin" \in Tasks /\ "admin" \notin Drivers
      /\ task \in [Tasks -> TaskStates] /\ NoDriver \notin Drivers /\ Drivers \subseteq Tasks
      /\ Leftover \notin Drivers
      /\ \A d \in Drivers : {"pc", "abandoned", "lost", "running"} \subseteq DOMAIN drv[d]
  BY DriverAssumption DEF DriverInv, Shape, Tasks
<1> DEFINE a == task["admin"]
<1>a. a \in TaskStates
  BY <1>0
<1>1. CASE AdminOpen
  <2>1. [a EXCEPT !.pc = "lookup"] \in TaskStates /\ [a EXCEPT !.pc = "lookup"].pc = "lookup"
    BY <1>a DEF TaskStates, Pcs
  <2>2. task' = [task EXCEPT !["admin"] = [a EXCEPT !.pc = "lookup"]]
    BY <1>1 DEF AdminOpen, Goto
  <2>3. UNCHANGED <<kind, holder, current, closing, drv>>
    BY <1>1 DEF AdminOpen, device
  <2> QED BY <1>0, <2>1, <2>2, <2>3, TaskMoves DEF SameThreads
<1>2. CASE NotifyOpen
  <2>1. task' = [task EXCEPT !["admin"] = IdleTask]
    BY <1>2 DEF NotifyOpen, Goto
  <2>2. UNCHANGED <<kind, holder, current, closing>>
    BY <1>2 DEF NotifyOpen
  <2>3. drv' = drv \/ \E d, q : drv' = [drv EXCEPT ![d].pending = q]
    BY <1>2 DEF NotifyOpen
  <2>4. SameThreads
    BY <1>0, <2>3, Queued DEF SameThreads
  <2> QED BY <1>0, <2>1, <2>2, <2>4, TaskMoves, Idle
<1>3. CASE Lookup /\ (current # NoDriver \/ ~listed)
  <2>1. task' = [task EXCEPT !["admin"] = IdleTask]
    BY <1>3 DEF Lookup, Goto
  <2>2. UNCHANGED <<kind, holder, current, closing, drv>>
    BY <1>3 DEF Lookup, device
  <2> QED BY <1>0, <2>1, <2>2, TaskMoves, Idle DEF SameThreads
<1>4. CASE Lookup /\ ~(current # NoDriver \/ ~listed)
  <2> DEFINE d == CHOOSE e \in Fresh : TRUE
             r == [a EXCEPT !.pc = "device", !.drv = d]
  <2>1. d \in Drivers /\ drv[d].pc = "none" /\ task[d].pc = "idle"
    <3>1. d \in Fresh
      BY <1>4 DEF Lookup
    <3> QED BY <3>1, Idle DEF Fresh, At
  <2>2. r \in TaskStates /\ r.pc = "device" /\ r.drv = d
    BY <1>a, <2>1 DEF TaskStates, Pcs
  <2>3. task' = [task EXCEPT !["admin"] = r] /\ current = NoDriver
        /\ UNCHANGED <<kind, holder, current, closing>>
    <3>1. task' = [task EXCEPT !["admin"] = [@ EXCEPT !.pc = "device", !.drv = d]]
      BY <1>4 DEF Lookup
    <3>2. current = NoDriver /\ UNCHANGED <<kind, holder, current, closing>>
      BY <1>4 DEF Lookup, device
    <3> HIDE DEF d
    <3> QED BY <1>0, <1>a, <3>1, <3>2 DEF TaskStates
  <2>4. SameThreads
    <3>1. drv' = [drv EXCEPT ![d].init = IF mode # 0 /\ HasFps THEN mode ELSE 1]
      BY <1>4 DEF Lookup
    <3> HIDE DEF d
    <3> QED BY <1>0, <2>1, <3>1 DEF SameThreads
  <2> HIDE DEF d, r
  <2>5. task' \in [Tasks -> TaskStates] /\ task'["admin"] = r
        /\ \A u \in Tasks \ {"admin"} : task'[u] = task[u]
    BY <1>0, <2>2, <2>3
  <2>6. Shape' /\ Held' /\ Owned' /\ Reported'
    BY <1>0, <2>3, <2>4, <2>5 DEF DriverInv, Shape, Held, Owned, Reported, Holding,
                                  SameThreads
  <2>7. Sessions'
    <3>1. \A u \in Tasks : task'[u].pc \in {"stop", "join"} => FALSE
      BY <2>2, <2>3, <2>5 DEF DriverInv, Sessions, At
    <3>2. task'["admin"].drv \in Drivers /\ current' = NoDriver
          /\ drv'[task'["admin"].drv].pc = "none" /\ task'[task'["admin"].drv].pc = "idle"
      BY <1>0, <2>1, <2>2, <2>3, <2>4, <2>5 DEF SameThreads
    <3> QED BY <2>5, <3>1, <3>2 DEF DriverInv, Sessions, At
  <2> QED BY <2>6, <2>7 DEF DriverInv
<1>5. CASE OpenDevice
  <2> DEFINE d == a.drv
             r == [a EXCEPT !.pc = "opened"]
  <2>1. /\ a.pc = "device" /\ d \in Drivers /\ current = NoDriver /\ drv[d].pc = "none"
        /\ task[d].pc = "idle" /\ holder = NoDriver
    BY <1>5 DEF OpenDevice, DriverInv, Sessions, At
  <2>2. r \in TaskStates /\ r.pc = "opened"
    BY <1>a DEF TaskStates, Pcs
  <2>3. task' = [task EXCEPT !["admin"] = r] /\ current' = d /\ UNCHANGED <<kind, closing>>
        /\ holder' = IF kind = "virtual" THEN NoDriver ELSE d
    BY <1>5 DEF OpenDevice, Goto
  <2>4. /\ drv' = [e \in Drivers |-> drv'[e]] /\ drv'[d].pc = "begin"
        /\ DOMAIN drv'[d] = DOMAIN drv[d] /\ \A e \in Drivers \ {d} : drv'[e] = drv[e]
    <3>1. drv' = [drv EXCEPT ![d] = [@ EXCEPT !.pc = "begin", !.auto = AutoFirst,
                                              !.init = IF kind = "aravis" THEN drv[d].init ELSE 1]]
      BY <1>5 DEF OpenDevice
    <3> HIDE DEF d
    <3> QED BY <1>0, <2>1, <3>1
  <2> HIDE DEF d, r
  <2>5. task' \in [Tasks -> TaskStates] /\ task'["admin"] = r
        /\ \A u \in Tasks \ {"admin"} : task'[u] = task[u]
    BY <1>0, <2>2, <2>3
  <2>6. Shape'
    BY <1>0, <2>1, <2>3, <2>4, <2>5 DEF DriverInv, Shape
  <2>7. Held'
    BY <1>0, <2>1, <2>3, <2>4 DEF DriverInv, Held, Holding
  <2>8. Owned'
    BY <1>0, <2>1, <2>3, <2>4 DEF DriverInv, Owned
  <2>9. Reported'
    BY <1>0, <2>1, <2>3, <2>4, <2>5 DEF DriverInv, Reported
  <2>10. Sessions'
    <3>1. \A u \in Tasks : task'[u].pc \in {"stop", "join"} => FALSE
      BY <2>1, <2>2, <2>5 DEF DriverInv, Sessions, At
    <3> QED BY <2>2, <2>5, <3>1 DEF DriverInv, Sessions, At
  <2> QED BY <2>6, <2>7, <2>8, <2>9, <2>10 DEF DriverInv
<1>6. CASE OpenFails
  <2> DEFINE d == a.drv
  <2>1. /\ a.pc = "device" /\ d \in Drivers /\ current = NoDriver /\ drv[d].pc = "none"
        /\ task[d].pc = "idle"
    BY <1>6 DEF OpenFails, DriverInv, Sessions, At
  <2>2. task' = [task EXCEPT !["admin"] = IdleTask] /\ UNCHANGED <<kind, current, closing>>
    BY <1>6 DEF OpenFails, Goto
  <2>3. holder' = holder \/ (holder = NoDriver /\ holder' = Leftover)
    BY <1>6 DEF OpenFails
  <2>4. drv' = [drv EXCEPT ![d] = NoObject]
    BY <1>6 DEF OpenFails
  <2> HIDE DEF d
  <2>5. task' \in [Tasks -> TaskStates] /\ task'["admin"] = IdleTask
        /\ \A u \in Tasks \ {"admin"} : task'[u] = task[u]
    BY <1>0, <2>2, Idle
  <2>6. Shape'
    BY <1>0, <2>1, <2>2, <2>3, <2>4, <2>5, Idle DEF DriverInv, Shape
  <2>7. Held'
    BY <1>0, <2>1, <2>2, <2>3, <2>4, Idle DEF DriverInv, Held, Holding
  <2>8. Owned'
    BY <1>0, <2>1, <2>2, <2>4, Idle DEF DriverInv, Owned, Live
  <2>9. Reported'
    BY <1>0, <2>1, <2>2, <2>4, <2>5, Idle DEF DriverInv, Reported
  <2>10. Sessions'
    <3>1. \A u \in Tasks : task'[u].pc \in {"stop", "join"} => FALSE
      BY <2>1, <2>5, Idle DEF DriverInv, Sessions, At
    <3> QED BY <2>5, <3>1, Idle DEF DriverInv, Sessions, At
  <2> QED BY <2>6, <2>7, <2>8, <2>9, <2>10 DEF DriverInv
<1> QED BY <1>1, <1>2, <1>3, <1>4, <1>5, <1>6 DEF Open

LEMMA CloseStep ==
  ASSUME DriverInv, NEW t \in Tasks, Close(t)
  PROVE  DriverInv'
<1>0. /\ drv = [e \in Drivers |-> drv[e]] /\ "admin" \in Tasks /\ "admin" \notin Drivers
      /\ task \in [Tasks -> TaskStates] /\ NoDriver \notin Drivers /\ Drivers \subseteq Tasks
      /\ current \in Drivers \cup {NoDriver} /\ task[t] \in TaskStates
      /\ \A d \in Drivers : {"pc", "abandoned", "lost", "running"} \subseteq DOMAIN drv[d]
  BY DriverAssumption DEF DriverInv, Shape, Tasks
<1>1. ASSUME task[t].pc \notin {"idle", "device"}, Closed(t), SameThreads, UNCHANGED <<kind, holder, current, closing>>
      PROVE  DriverInv'
  <2> DEFINE r == [task[t] EXCEPT !.pc = task[t].then]
  <2>1. CASE task[t].then = "idle"
    BY <1>0, <1>1, <2>1, Idle, TaskMoves DEF Closed, Goto
  <2>2. CASE task[t].then = "lookup"
    <3>1. r \in TaskStates /\ r.pc = "lookup"
      BY <1>0, <2>2 DEF TaskStates, Pcs
    <3>2. task' = [task EXCEPT ![t] = r]
      BY <1>1, <2>2 DEF Closed, Goto
    <3>3. t = "admin"
      BY <2>2 DEF DriverInv, Sessions
    <3> HIDE DEF r
    <3> QED BY <1>1, <3>1, <3>2, <3>3, TaskMoves
  <2> QED BY <1>0, <2>1, <2>2 DEF TaskStates
<1>2. CASE CloseBegin(t) /\ (closing \/ current = NoDriver)
  <2>1. task[t].pc = "guard" /\ Closed(t) /\ UNCHANGED <<kind, holder, current, closing, drv>>
    BY <1>2 DEF CloseBegin, At, device
  <2> QED BY <1>0, <1>1, <2>1 DEF SameThreads
<1>3. CASE CloseBegin(t) /\ ~(closing \/ current = NoDriver)
  <2> DEFINE r == [task[t] EXCEPT !.pc = "stop", !.drv = current]
  <2>1. r \in TaskStates /\ r.pc = "stop" /\ r.drv = current /\ r.then = task[t].then
    BY <1>0 DEF TaskStates, Pcs
  <2>2. /\ task' = [task EXCEPT ![t] = r] /\ closing' = TRUE /\ ~closing /\ current # NoDriver
        /\ UNCHANGED <<kind, holder, current, drv>> /\ task[t].pc = "guard"
    BY <1>0, <1>3 DEF CloseBegin, At, device, TaskStates
  <2> HIDE DEF r
  <2>3. task' \in [Tasks -> TaskStates] /\ task'[t] = r /\ \A u \in Tasks \ {t} : task'[u] = task[u]
    BY <1>0, <2>1, <2>2
  <2>4. \A u \in Tasks : task[u].pc \notin {"stop", "join"}
    BY <2>2 DEF DriverInv, Sessions, At
  <2>5. Sessions'
    <3>1. task["admin"].pc # "device"
      BY <2>2 DEF DriverInv, Sessions, At
    <3> QED BY <2>1, <2>2, <2>3, <2>4, <3>1 DEF DriverInv, Sessions, At
  <2>6. Reported'
    BY <1>0, <2>2, <2>3 DEF DriverInv, Reported
  <2>7. Shape' /\ Held' /\ Owned'
    BY <1>0, <2>2, <2>3 DEF DriverInv, Shape, Held, Owned, Holding
  <2> QED BY <2>5, <2>6, <2>7 DEF DriverInv
<1>4. CASE Stop(t)
  <2> DEFINE r == [task[t] EXCEPT !.pc = "join"]
  <2>1. r \in TaskStates /\ r.pc = "join" /\ r.drv = task[t].drv /\ r.then = task[t].then
    BY <1>0 DEF TaskStates, Pcs
  <2>2. /\ task' = [task EXCEPT ![t] = r] /\ task[t].pc = "stop"
        /\ UNCHANGED <<kind, holder, current, closing>>
    BY <1>4 DEF Stop, At, device, Goto
  <2> HIDE DEF r
  <2>3. task' \in [Tasks -> TaskStates] /\ task'[t] = r /\ \A u \in Tasks \ {t} : task'[u] = task[u]
    BY <1>0, <2>1, <2>2
  <2>4. SameThreads
    BY <1>0, <1>4 DEF Stop, SameThreads
  <2>5. Sessions'
    <3>1. \A u \in Tasks : task'[u].pc \in {"stop", "join"} => u = t
      BY <2>2, <2>3 DEF DriverInv, Sessions, At
    <3>2. task[t].drv = current /\ current # NoDriver /\ closing
      BY <2>2 DEF DriverInv, Sessions, At
    <3>3. task["admin"].pc # "device"
      BY <3>2 DEF DriverInv, Sessions, At
    <3> QED BY <2>1, <2>2, <2>3, <3>1, <3>2, <3>3 DEF DriverInv, Sessions, At
  <2>6. Reported'
    BY <1>0, <2>1, <2>2, <2>3, <2>4 DEF DriverInv, Reported, SameThreads
  <2>7. Shape' /\ Held' /\ Owned'
    BY <1>0, <2>2, <2>3, <2>4 DEF DriverInv, Shape, Held, Owned, Holding, SameThreads
  <2> QED BY <2>5, <2>6, <2>7 DEF DriverInv
<1>5. CASE JoinAndRemove(t)
  <2> DEFINE d == task[t].drv
  <2>1. /\ task[t].pc = "join" /\ d \in Drivers /\ d = current /\ current' = NoDriver
        /\ UNCHANGED <<kind, holder>> /\ Closed(t) /\ task["admin"].pc # "device"
    BY <1>0, <1>5 DEF JoinAndRemove, At, DriverInv, Sessions, device
  <2>2. drv' = [drv EXCEPT ![d] = IF Alive(d) THEN [drv[d] EXCEPT !.abandoned = TRUE] ELSE NoObject]
    BY <1>5 DEF JoinAndRemove
  <2> HIDE DEF d
  <2>3. /\ drv' = [e \in Drivers |-> drv'[e]] /\ \A e \in Drivers \ {d} : drv'[e] = drv[e]
        /\ \/ /\ drv[d].pc \in Live /\ DOMAIN drv'[d] = DOMAIN drv[d]
              /\ drv'[d].pc = drv[d].pc /\ drv'[d].abandoned
           \/ drv[d].pc \notin Live /\ drv'[d] = NoObject
    BY <1>0, <2>1, <2>2 DEF Alive, Live
  <2>4. /\ task' \in [Tasks -> TaskStates] /\ \A u \in Tasks \ {t} : task'[u] = task[u]
        /\ \/ task'[t].pc = "idle" /\ task'[t].then = "idle"
           \/ task'[t].pc = "lookup" /\ t = "admin"
    <3>1. CASE task[t].then = "idle"
      BY <1>0, <2>1, <3>1, Idle DEF Closed, Goto
    <3>2. CASE task[t].then = "lookup"
      <4>1. task' = [task EXCEPT ![t] = [task[t] EXCEPT !.pc = "lookup"]]
        BY <2>1, <3>2 DEF Closed, Goto
      <4>2. [task[t] EXCEPT !.pc = "lookup"] \in TaskStates
            /\ [task[t] EXCEPT !.pc = "lookup"].pc = "lookup"
        BY <1>0 DEF TaskStates, Pcs
      <4>3. t = "admin"
        BY <3>2 DEF DriverInv, Sessions
      <4> QED BY <1>0, <4>1, <4>2, <4>3
    <3> QED BY <1>0, <3>1, <3>2 DEF TaskStates
  <2>5. Sessions'
    <3>1. \A u \in Tasks : task'[u].pc \in {"stop", "join"} => FALSE
      BY <2>1, <2>4 DEF DriverInv, Sessions, At
    <3> QED BY <1>0, <2>1, <2>4, <3>1 DEF DriverInv, Sessions, At
  <2>6. Owned'
    BY <2>1, <2>3, Idle DEF DriverInv, Owned, Live
  <2>7. Reported'
    BY <1>0, <2>1, <2>3, <2>4, Idle DEF DriverInv, Reported
  <2>8. Held'
    BY <2>1, <2>3, Idle DEF DriverInv, Held, Holding, Live
  <2>9. Shape'
    BY <1>0, <2>1, <2>3, <2>4, Idle DEF DriverInv, Shape
  <2> QED BY <2>5, <2>6, <2>7, <2>8, <2>9 DEF DriverInv
<1> QED BY <1>2, <1>3, <1>4, <1>5 DEF Close

\* An abandoned thread that ended is forgotten.
LEMMA ForgetStep ==
  ASSUME DriverInv, NEW d \in Drivers, Forget(d)
  PROVE  DriverInv'
<1>0. /\ drv = [e \in Drivers |-> drv[e]] /\ drv[d].pc = "dead"
      /\ UNCHANGED <<kind, holder, current, closing, task>>
  BY DEF DriverInv, Shape, Forget, device, session
<1>1. /\ drv' = [e \in Drivers |-> drv'[e]] /\ drv'[d] = NoObject
      /\ \A e \in Drivers \ {d} : drv'[e] = drv[e]
  BY <1>0 DEF Forget
<1>2. Shape' /\ Reported'
  BY <1>0, <1>1, Idle DEF DriverInv, Shape, Reported
<1>3. Held' /\ Owned'
  BY <1>0, <1>1, Idle DEF DriverInv, Held, Holding, Owned, Live
<1>4. At("admin", "device") => drv'[task["admin"].drv].pc = "none"
  BY <1>0, <1>1, Idle DEF DriverInv, Sessions
<1>5. Sessions'
  BY <1>0, <1>4 DEF DriverInv, Sessions, At
<1> QED BY <1>2, <1>3, <1>5 DEF DriverInv

LEMMA AdminCloseStep ==
  ASSUME DriverInv, NEW then \in {"idle", "lookup"}, AdminClose(then)
  PROVE  DriverInv'
<1> DEFINE r == [pc |-> "guard", drv |-> NoDriver, then |-> then]
<1>1. r \in TaskStates /\ r.pc = "guard" /\ "admin" \in Tasks
  BY DEF TaskStates, Pcs, Tasks
<1>2. task' = [task EXCEPT !["admin"] = r] /\ UNCHANGED <<kind, holder, current, closing, drv>>
  BY DEF AdminClose, device
<1>3. SameThreads
  BY <1>2 DEF SameThreads, DriverInv, Shape
<1> HIDE DEF r
<1> QED BY <1>1, <1>2, <1>3, TaskMoves

LEMMA StepHolds == DriverInv /\ [Next]_vars => DriverInv'
<1> SUFFICES ASSUME DriverInv, [Next]_vars PROVE DriverInv'
  OBVIOUS
<1>0. drv' = drv => SameThreads
  BY DEF SameThreads, DriverInv, Shape
<1>1. ASSUME NEW d \in Drivers,
             \/ RunBegin(d) \/ RunRaises(d) \/ LoopHead(d)
             \/ ReadFrame(d) \/ ReadFails(d) \/ ReadNothing(d) \/ ReadRaises(d)
             \/ Report(d) \/ Release(d)
      PROVE  DriverInv'
  BY <1>1, ThreadStep
<1>2. CASE Plug \/ LeftoverFreed \/ Scan
  <2>1. /\ UNCHANGED <<kind, current, closing, task, drv>>
        /\ holder' = holder \/ (holder = Leftover /\ holder' = NoDriver)
    BY <1>2 DEF Plug, LeftoverFreed, Scan, session
  <2> QED BY <1>0, <2>1, NothingMoves
<1>3. CASE UNCHANGED vars
  BY <1>0, <1>3, NothingMoves DEF vars
<1> QED BY <1>1, <1>2, <1>3, ForgetStep, CloseStep, OpenStep, AdminCloseStep,
           SettingStep DEF Next

LEMMA Inductive == Spec => []DriverInv
BY InitHolds, StepHolds, PTL DEF Spec
-----------------------------------------------------------------------------
(* What the queue does to the registers.  Apply and Applied read the kind of the *)
(* device; the same with the kind as a parameter can be compared between states. *)

\* Every set of numbers has a least one: induction in a form without predicates.
LEMMA LeastNumber ==
  ASSUME NEW T, T \subseteq Nat, T # {}
  PROVE  \E x \in T : \A y \in T : x <= y
<1> DEFINE R == OpToRel(<, Nat)
<1>1. IsWellFoundedOn(R, Nat)
  BY NatLessThanWellFounded
<1>2. \A y, x \in Nat : y < x => <<y, x>> \in R
  BY DEF OpToRel
<1> HIDE DEF R
<1>3. PICK x \in T : \A y \in T : ~ (<<y, x>> \in R)
  BY <1>1, WFMin
<1>4. ASSUME NEW y \in T
      PROVE  x <= y
  <2>1. x \in Nat /\ y \in Nat
    OBVIOUS
  <2>2. ~ (y < x)
    BY <1>2, <1>3, <2>1
  <2>3. QED BY <2>1, <2>2
<1>5. QED BY <1>4

Entries == [key : {"exposure", "fps"}, val : Levels \cup {Unset}]
             \cup [key : {"auto"}, val : BOOLEAN]
States  == [hw : Registers, auto : BOOLEAN]

\* Apply for a device of kind k.
Change(k, s, e) ==
  CASE e.key = "auto"     -> ApplyAuto(s, e.val)
    [] e.key = "exposure" -> IF s.auto /\ k # "aravis" THEN s
                             ELSE [s EXCEPT !.hw = [s.hw EXCEPT
                                    !.auto = FALSE, !.exposure = Take(s.hw.exposure, e.val)]]
    [] e.key = "fps"      -> IF k # "rpi_img" THEN [s EXCEPT !.hw.fps = Take(@, e.val)]
                             ELSE s

LEMMA ApplyIsChange ==
  ASSUME NEW s, NEW e
  PROVE  Apply(s, e) = Change(kind, s, e)
BY DEF Apply, Change, ApplyAuto, ApplyExposure, ApplyFps, HasFps

\* f are the registers after each entry of q.
Stages(k, f, s, q, n) ==
  \A i \in 0..n : f[i] = IF i = 0 THEN s ELSE Change(k, f[i - 1], q[i])

LEMMA StagesExist ==
  ASSUME NEW k, NEW s, NEW q, NEW n \in Nat
  PROVE  \E f : f = [i \in 0..n |-> f[i]] /\ Stages(k, f, s, q, n)
<1> DEFINE Bad == {m \in Nat : ~ \E f : f = [i \in 0..m |-> f[i]] /\ Stages(k, f, s, q, m)}
<1>1. SUFFICES ASSUME Bad # {}
               PROVE  FALSE
  OBVIOUS
<1>2. PICK m \in Bad : \A l \in Bad : m <= l
  BY <1>1, LeastNumber
<1>3. m \in Nat /\ ~ \E f : f = [i \in 0..m |-> f[i]] /\ Stages(k, f, s, q, m)
  OBVIOUS
<1>4. CASE m = 0
  <2> DEFINE f == [i \in 0..0 |-> s]
  <2>1. f = [i \in 0..0 |-> f[i]] /\ Stages(k, f, s, q, 0)
    BY DEF Stages
  <2>2. QED BY <1>3, <1>4, <2>1
<1>5. CASE m # 0
  <2>1. m - 1 \in Nat /\ m - 1 \notin Bad
    BY <1>2, <1>3, <1>5
  <2>2. PICK g : g = [i \in 0..(m - 1) |-> g[i]] /\ Stages(k, g, s, q, m - 1)
    BY <2>1
  <2> DEFINE last == Change(k, g[m - 1], q[m])
             f    == [i \in 0..m |-> IF i = m THEN last ELSE g[i]]
  <2>3. f = [i \in 0..m |-> f[i]]
    OBVIOUS
  <2>4. ASSUME NEW i \in 0..m
        PROVE  f[i] = IF i = 0 THEN s ELSE Change(k, f[i - 1], q[i])
    <3>1. CASE i = m
      <4>1. f[m] = last /\ m - 1 \in 0..m /\ m - 1 # m
        BY <1>3, <1>5
      <4>2. f[m - 1] = g[m - 1]
        BY <4>1
      <4>3. QED BY <1>5, <3>1, <4>1, <4>2
    <3>2. CASE i # m
      <4>1. i \in 0..(m - 1) /\ f[i] = g[i] /\ (i # 0 => i - 1 \in 0..m /\ i - 1 # m)
        BY <1>3, <3>2
      <4>2. i # 0 => f[i - 1] = g[i - 1]
        BY <4>1
      <4> HIDE DEF f
      <4>3. QED BY <2>2, <4>1, <4>2 DEF Stages
    <3>3. QED BY <3>1, <3>2
  <2> HIDE DEF f
  <2>5. Stages(k, f, s, q, m)
    BY <2>4 DEF Stages
  <2>6. QED BY <1>3, <2>3, <2>5
<1>6. QED BY <1>4, <1>5

\* Two queues of the same length, taken entry by entry: a relation that every two
\* entries keep holds of the two results.
LEMMA TwoStages ==
  ASSUME NEW k, NEW p, NEW q, NEW s, NEW t, NEW f, NEW g, NEW n \in Nat, NEW R,
         Stages(k, f, s, p, n), Stages(k, g, t, q, n), <<s, t>> \in R[0],
         \A i \in 1..n : \A x, y : <<x, y>> \in R[i - 1]
             => <<Change(k, x, p[i]), Change(k, y, q[i])>> \in R[i]
  PROVE  <<f[n], g[n]>> \in R[n]
<1> DEFINE Bad == {i \in 0..n : ~ (<<f[i], g[i]>> \in R[i])}
<1>1. SUFFICES ASSUME Bad # {}
               PROVE  FALSE
  OBVIOUS
<1>2. PICK m \in Bad : \A l \in Bad : m <= l
  <2>1. Bad \subseteq Nat
    OBVIOUS
  <2> HIDE DEF Bad
  <2>2. QED BY <1>1, <2>1, LeastNumber
<1>3. m \in 0..n /\ ~ (<<f[m], g[m]>> \in R[m])
  OBVIOUS
<1>4. m # 0
  BY <1>3 DEF Stages
<1>5. m \in 1..n /\ m - 1 \in 0..n /\ ~ (m <= m - 1)
  BY <1>3, <1>4
<1>6. <<f[m - 1], g[m - 1]>> \in R[m - 1]
  BY <1>2, <1>5
<1>7. f[m] = Change(k, f[m - 1], p[m]) /\ g[m] = Change(k, g[m - 1], q[m])
  BY <1>3, <1>4 DEF Stages
<1>8. QED BY <1>3, <1>5, <1>6, <1>7

Effect(k, s, q) ==
  (CHOOSE f : f = [i \in 0..Len(q) |-> f[i]] /\ Stages(k, f, s, q, Len(q)))[Len(q)]

LEMMA EffectStages ==
  ASSUME NEW k, NEW s, NEW q, Len(q) \in Nat
  PROVE  \E f : Stages(k, f, s, q, Len(q)) /\ Effect(k, s, q) = f[Len(q)]
<1>1. PICK f : f = [i \in 0..Len(q) |-> f[i]] /\ Stages(k, f, s, q, Len(q))
  BY StagesExist
<1> DEFINE Good(h) == h = [i \in 0..Len(q) |-> h[i]] /\ Stages(k, h, s, q, Len(q))
           g == CHOOSE h : Good(h)
<1>2. Good(f)
  BY <1>1
<1>3. Good(g)
  BY <1>2
<1>4. Effect(k, s, q) = g[Len(q)]
  BY DEF Effect
<1>5. Stages(k, g, s, q, Len(q))
  BY <1>3
<1> HIDE DEF g
<1>6. QED BY <1>4, <1>5

\* Any stages give the effect.
LEMMA EffectIs ==
  ASSUME NEW k, NEW s, NEW q, Len(q) \in Nat, NEW f, Stages(k, f, s, q, Len(q))
  PROVE  Effect(k, s, q) = f[Len(q)]
<1>1. PICK g : Stages(k, g, s, q, Len(q)) /\ Effect(k, s, q) = g[Len(q)]
  BY EffectStages
<1> DEFINE Bad == {i \in 0..Len(q) : f[i] # g[i]}
<1>2. SUFFICES ASSUME Bad # {}
               PROVE  FALSE
  BY <1>1
<1>3. PICK m \in Bad : \A l \in Bad : m <= l
  <2>1. Bad \subseteq Nat
    OBVIOUS
  <2> HIDE DEF Bad
  <2>2. QED BY <1>2, <2>1, LeastNumber
<1>4. m \in 0..Len(q) /\ f[m] # g[m]
  OBVIOUS
<1>5. m # 0
  BY <1>1, <1>4 DEF Stages
<1>6. m - 1 \in 0..Len(q) /\ ~ (m <= m - 1)
  BY <1>4, <1>5
<1>7. f[m - 1] = g[m - 1]
  BY <1>3, <1>6
<1>8. QED BY <1>1, <1>4, <1>5, <1>7 DEF Stages

\* _apply_pending has this effect.
LEMMA AppliedIsEffect ==
  ASSUME NEW s, NEW q, Len(q) \in Nat
  PROVE  Applied(s, q) = Effect(kind, s, q)
<1> DEFINE IsAfter(f) == f = [i \in 0..Len(q) |-> IF i = 0 THEN s ELSE Apply(f[i - 1], q[i])]
           after == CHOOSE f : IsAfter(f)
<1>1. PICK f : f = [i \in 0..Len(q) |-> f[i]] /\ Stages(kind, f, s, q, Len(q))
  BY StagesExist
<1> DEFINE e(i) == IF i = 0 THEN s ELSE Apply(f[i - 1], q[i])
<1>2. \A i \in 0..Len(q) : f[i] = e(i)
  BY <1>1, ApplyIsChange DEF Stages
<1>3. [i \in 0..Len(q) |-> f[i]] = [i \in 0..Len(q) |-> e(i)]
  BY <1>2
<1>4. IsAfter(f)
  BY <1>1, <1>3
<1>5. IsAfter(after)
  BY <1>4
<1>6. \A i \in 0..Len(q) : after[i] = IF i = 0 THEN s ELSE Apply(after[i - 1], q[i])
  <2> HIDE DEF after
  <2>1. QED BY <1>5
<1>7. Applied(s, q) = after[Len(q)]
  BY DEF Applied
<1> HIDE DEF after
<1>8. Stages(kind, after, s, q, Len(q))
  BY <1>6, ApplyIsChange DEF Stages
<1>9. QED BY <1>7, <1>8, EffectIs

LEMMA TwoEffects ==
  ASSUME NEW k, NEW p, NEW q, NEW s, NEW t, Len(p) \in Nat, Len(q) = Len(p), NEW R,
         <<s, t>> \in R[0],
         \A i \in 1..Len(p) : \A x, y : <<x, y>> \in R[i - 1]
             => <<Change(k, x, p[i]), Change(k, y, q[i])>> \in R[i]
  PROVE  <<Effect(k, s, p), Effect(k, t, q)>> \in R[Len(p)]
<1>1. PICK f : Stages(k, f, s, p, Len(p)) /\ Effect(k, s, p) = f[Len(p)]
  BY EffectStages
<1>2. PICK g : Stages(k, g, t, q, Len(p)) /\ Effect(k, t, q) = g[Len(p)]
  BY EffectStages
<1>3. QED BY <1>1, <1>2, TwoStages

LEMMA EffectEmpty ==
  ASSUME NEW k, NEW s
  PROVE  Effect(k, s, <<>>) = s
<1>1. Len(<<>>) = 0
  OBVIOUS
<1>2. PICK f : Stages(k, f, s, <<>>, 0) /\ Effect(k, s, <<>>) = f[0]
  BY <1>1, EffectStages
<1>3. QED BY <1>2 DEF Stages

LEMMA EffectAppend ==
  ASSUME NEW k, NEW s, NEW q \in Seq(Entries), NEW e \in Entries
  PROVE  Effect(k, s, Append(q, e)) = Change(k, Effect(k, s, q), e)
<1> DEFINE n == Len(q)
           p == Append(q, e)
<1>1. n \in Nat /\ Len(p) = n + 1 /\ p[n + 1] = e /\ \A i \in 1..n : p[i] = q[i]
  BY AppendProperties
<1> HIDE DEF n, p
<1>2. PICK f : Stages(k, f, s, p, n + 1) /\ Effect(k, s, p) = f[n + 1]
  <2>1. Len(p) \in Nat
    BY <1>1
  <2>2. \E f : Stages(k, f, s, p, Len(p)) /\ Effect(k, s, p) = f[Len(p)]
    BY <2>1, EffectStages
  <2>3. QED BY <1>1, <2>2
<1>3. \A i \in 0..n : i \in 0..(n + 1) /\ (i # 0 => i \in 1..n)
  BY <1>1
<1>4. Stages(k, f, s, q, n)
  BY <1>1, <1>2, <1>3 DEF Stages
<1>5. Effect(k, s, q) = f[n]
  BY <1>1, <1>4, EffectIs DEF n
<1>6. f[n + 1] = Change(k, f[(n + 1) - 1], p[n + 1])
  BY <1>1, <1>2 DEF Stages
<1>7. (n + 1) - 1 = n
  BY <1>1
<1>8. QED BY <1>1, <1>2, <1>5, <1>6, <1>7 DEF p

\* What one entry e of the queue makes of x.
Changed(k, x, e, y) ==
  /\ y \in States
  /\ e.key = "auto" =>
       /\ y.auto = e.val /\ y.hw.auto = e.val /\ y.hw.fps = x.hw.fps
       /\ y.hw.exposure = IF e.val THEN AutoLeft ELSE x.hw.exposure
  /\ e.key = "exposure" =>
       /\ y.hw.fps = x.hw.fps /\ y.auto = x.auto
       /\ x.auto /\ k # "aravis" => y = x
       /\ ~x.auto \/ k = "aravis" =>
            /\ y.hw.auto = FALSE
            /\ y.hw.exposure = Take(x.hw.exposure, e.val)
  /\ e.key = "fps" =>
       /\ y.auto = x.auto /\ y.hw.auto = x.hw.auto /\ y.hw.exposure = x.hw.exposure
       /\ y.hw.fps = IF k # "rpi_img" THEN Take(x.hw.fps, e.val) ELSE x.hw.fps

LEMMA Changes ==
  ASSUME NEW k, NEW x \in States, NEW e \in Entries, NEW y, y = Change(k, x, e)
  PROVE  Changed(k, x, e, y)
<1>1. CASE e.key = "auto"
  <2>1. y = ApplyAuto(x, e.val)
    BY <1>1 DEF Change
  <2>2. e.val \in BOOLEAN
    BY <1>1 DEF Entries
  <2>3. x \in States /\ x.hw \in Registers
    BY DEF States
  <2>4. PICK v : v = IF e.val THEN AutoLeft ELSE x.hw.exposure
    OBVIOUS
  <2>5. v \in Levels \cup {AutoLeft}
    BY <2>3, <2>4 DEF Registers
  <2> DEFINE h == [x.hw EXCEPT !.auto = e.val, !.exposure = v]
  <2>6. y = [hw |-> h, auto |-> e.val]
    BY <2>1, <2>3, <2>4 DEF ApplyAuto, Registers
  <2>10. h \in Registers /\ h.auto = e.val /\ h.fps = x.hw.fps /\ h.exposure = v
    BY <2>2, <2>3, <2>5 DEF Registers
  <2> HIDE DEF h
  <2>7. y.hw \in Registers /\ y.hw.auto = e.val /\ y.hw.fps = x.hw.fps /\ y.hw.exposure = v
    BY <2>6, <2>10
  <2>8. y \in States /\ y.auto = e.val
    BY <2>2, <2>6, <2>7 DEF States
  <2>9. QED BY <1>1, <2>4, <2>7, <2>8 DEF Changed
<1>2. CASE e.key = "exposure"
  <2>1. y = IF x.auto /\ k # "aravis" THEN x
            ELSE [x EXCEPT !.hw = [x.hw EXCEPT !.auto = FALSE,
                                               !.exposure = Take(x.hw.exposure, e.val)]]
    BY <1>2 DEF Change
  <2>2. e.val \in Levels \cup {Unset}
    BY <1>2 DEF Entries
  <2>3. x \in States /\ x.hw \in Registers
    BY DEF States
  <2>4. CASE x.auto /\ k # "aravis"
    BY <1>2, <2>1, <2>4 DEF Changed
  <2>5. CASE ~ (x.auto /\ k # "aravis")
    <3>1. y = [x EXCEPT !.hw = [x.hw EXCEPT !.auto = FALSE,
                                            !.exposure = Take(x.hw.exposure, e.val)]]
      BY <2>1, <2>5
    <3>2. Take(x.hw.exposure, e.val) \in Levels \cup {AutoLeft}
      BY <2>2, <2>3 DEF Take, Registers, Unset
    <3>3. QED BY <1>2, <2>3, <2>5, <3>1, <3>2 DEF States, Registers, Changed
  <2>6. QED BY <2>4, <2>5
<1>3. CASE e.key = "fps"
  <2>1. y = IF k # "rpi_img" THEN [x EXCEPT !.hw.fps = Take(@, e.val)] ELSE x
    BY <1>3 DEF Change
  <2>2. e.val \in Levels \cup {Unset}
    BY <1>3 DEF Entries
  <2>3. x \in States /\ x.hw \in Registers
    BY DEF States
  <2>4. Take(x.hw.fps, e.val) \in Levels
    BY <2>2, <2>3 DEF Take, Registers, Unset
  <2>5. QED BY <1>3, <2>1, <2>3, <2>4 DEF States, Registers, Changed
<1>4. QED BY <1>1, <1>2, <1>3 DEF Entries

\* The queue keeps the registers registers, and the flag of every driver but Aravis'
\* what the device's mode is.
LEMMA EffectTyped ==
  ASSUME NEW k, NEW s \in States, NEW q \in Seq(Entries)
  PROVE  /\ Effect(k, s, q) \in States
         /\ k # "aravis" /\ s.auto = s.hw.auto
              => Effect(k, s, q).auto = Effect(k, s, q).hw.auto
<1> DEFINE Good == {x \in States : k # "aravis" /\ s.auto = s.hw.auto => x.auto = x.hw.auto}
           R    == [i \in 0..Len(q) |-> Good \X Good]
<1>1. Len(q) \in Nat /\ \A i \in 1..Len(q) : q[i] \in Entries
  BY LenProperties, ElementOfSeq
<1>2. \A x \in Good, i \in 1..Len(q) : Change(k, x, q[i]) \in Good
  <2>1. SUFFICES ASSUME NEW x \in Good, NEW i \in 1..Len(q)
                 PROVE  Change(k, x, q[i]) \in Good
    OBVIOUS
  <2>0. PICK e, y : e = q[i] /\ y = Change(k, x, e)
    OBVIOUS
  <2>2. x \in States /\ e \in Entries /\ y = Change(k, x, e)
    BY <1>1, <2>0
  <2>6. Changed(k, x, e, y)
    <3> HIDE DEF Good
    <3>1. QED BY ONLY <2>2, Changes
  <2>3. Changed(k, x, e, y) /\ y \in States
    BY <2>6 DEF Changed
  <2>4. ASSUME k # "aravis", s.auto = s.hw.auto
        PROVE  y.auto = y.hw.auto
    <3>1. x.auto = x.hw.auto /\ x.auto \in BOOLEAN
      BY <2>4, <2>2 DEF States
    <3>2. e.key \in {"auto", "exposure", "fps"}
      BY <2>2 DEF Entries
    <3>3. CASE e.key = "auto"
      BY <2>3, <3>3 DEF Changed
    <3>4. CASE e.key = "fps"
      BY <2>3, <3>1, <3>4 DEF Changed
    <3>5. CASE e.key = "exposure"
      <4>1. CASE x.auto
        <5>1. y = x
          BY <2>3, <2>4, <3>5, <4>1 DEF Changed
        <5>2. QED BY <3>1, <5>1
      <4>2. CASE ~ x.auto
        <5>1. y.auto = x.auto
          BY <2>3, <3>5 DEF Changed
        <5>3. y.hw.auto = FALSE
          BY <2>3, <3>5, <4>2 DEF Changed
        <5>2. QED BY <3>1, <4>2, <5>1, <5>3
      <4>3. QED BY <4>1, <4>2
    <3>6. QED BY <3>2, <3>3, <3>4, <3>5
  <2>5. QED BY <2>0, <2>3, <2>4
<1>3. \A i \in 1..Len(q) : i \in 0..Len(q) /\ i - 1 \in 0..Len(q)
  BY <1>1
<1>4. 0 \in 0..Len(q) /\ Len(q) \in 0..Len(q)
  BY <1>1
<1>5. s \in Good
  OBVIOUS
<1> HIDE DEF Good
<1>6. \A i \in 1..Len(q) : \A x, y : <<x, y>> \in R[i - 1]
             => <<Change(k, x, q[i]), Change(k, y, q[i])>> \in R[i]
  BY <1>2, <1>3
<1>7. <<s, s>> \in R[0]
  BY <1>4, <1>5
<1>8. <<Effect(k, s, q), Effect(k, s, q)>> \in R[Len(q)]
  <2> HIDE DEF R
  <2>1. QED BY <1>1, <1>6, <1>7, TwoEffects
<1>9. Effect(k, s, q) \in Good
  BY <1>4, <1>8
<1>10. QED BY <1>9 DEF Good

LEMMA IsASequence ==
  ASSUME NEW S, NEW n \in Nat, NEW f \in [1..n -> S]
  PROVE  f \in Seq(S) /\ Len(f) = n /\ DOMAIN f = 1..n
<1>1. f \in Seq(S)
  BY SeqDef
<1>2. QED BY <1>1, LenProperties

Once(q) == \A i, j \in DOMAIN q : q[i].key = q[j].key => i = j

\* A request is put in the place of an earlier one for its key, or at the end.
PutInPlace(q, e, p) ==
  /\ Len(p) = Len(q) /\ \E j \in 1..Len(q) : q[j].key = e.key
  /\ \A i \in 1..Len(q) : p[i] = IF q[i].key = e.key THEN e ELSE q[i]

LEMMA Puts ==
  ASSUME NEW q \in Seq(Entries), NEW e \in Entries, NEW p, p = Put(q, e.key, e.val)
  PROVE  /\ p \in Seq(Entries)
         /\ Once(q) => Once(p)
         /\ \/ PutInPlace(q, e, p)
            \/ p = Append(q, e) /\ \A i \in 1..Len(q) : q[i].key # e.key
<1>0. Len(q) \in Nat /\ DOMAIN q = 1..Len(q) /\ \A i \in 1..Len(q) : q[i] \in Entries
  BY LenProperties, ElementOfSeq
<1>1. [key |-> e.key, val |-> e.val] = e
  BY DEF Entries
<1>2. CASE \E i \in 1..Len(q) : q[i].key = e.key
  <2>1. p = [i \in 1..Len(q) |-> IF q[i].key = e.key THEN e ELSE q[i]]
    BY <1>0, <1>1, <1>2 DEF Put
  <2>2. p \in [1..Len(q) -> Entries]
    BY <1>0, <2>1
  <2>3. p \in Seq(Entries) /\ Len(p) = Len(q) /\ DOMAIN p = 1..Len(q)
    BY <1>0, <2>2, IsASequence
  <2>4. \A i \in 1..Len(q) : p[i] = IF q[i].key = e.key THEN e ELSE q[i]
    BY <2>1
  <2>5. \A i \in 1..Len(q) : p[i].key = q[i].key
    BY <2>4
  <2>6. Once(q) => Once(p)
    BY <1>0, <2>3, <2>5 DEF Once
  <2>7. PutInPlace(q, e, p)
    BY <1>2, <2>3, <2>4 DEF PutInPlace
  <2>8. QED BY <2>3, <2>6, <2>7
<1>3. CASE ~ \E i \in 1..Len(q) : q[i].key = e.key
  <2>1. p = Append(q, e)
    BY <1>0, <1>1, <1>3 DEF Put
  <2>2. /\ p \in Seq(Entries) /\ Len(p) = Len(q) + 1 /\ p[Len(q) + 1] = e
        /\ DOMAIN p = 1..Len(p) /\ \A i \in 1..Len(q) : p[i] = q[i]
    BY <2>1, AppendProperties, LenProperties
  <2>3. \A i \in 1..Len(p) : i = Len(q) + 1 \/ i \in 1..Len(q)
    BY <1>0, <2>2
  <2>4. Once(q) => Once(p)
    BY <1>0, <1>3, <2>2, <2>3 DEF Once
  <2>5. QED BY <1>3, <2>1, <2>2, <2>4
<1>4. QED BY <1>2, <1>3

\* A frame rate changes nothing but the frame rate.
LEMMA PutFps ==
  ASSUME NEW k, NEW s \in States, NEW q \in Seq(Entries), NEW e \in Entries, e.key = "fps",
         NEW p, p = Put(q, e.key, e.val), NEW x, x = Effect(k, s, q),
         NEW y, y = Effect(k, s, p)
  PROVE  /\ y.auto = x.auto /\ y.hw.auto = x.hw.auto /\ y.hw.exposure = x.hw.exposure
         /\ k # "rpi_img" /\ e.val # Unset => y.hw.fps = e.val
<1>0. Len(q) \in Nat /\ \A i \in 1..Len(q) : q[i] \in Entries
  BY LenProperties, ElementOfSeq
<1>1. CASE p = Append(q, e)
  <2>1. y = Change(k, x, e) /\ x \in States
    BY <1>1, EffectAppend, EffectTyped
  <2>2. Changed(k, x, e, y)
    BY ONLY <2>1, e \in Entries, Changes
  <2>3. QED BY <2>2 DEF Changed, Take
<1>2. CASE PutInPlace(q, e, p)
  <2>1. PICK j \in 1..Len(q) : q[j].key = "fps"
    BY <1>2 DEF PutInPlace
  <2> DEFINE Rel(i) == {r \in States \X States :
                         /\ r[1].auto = r[2].auto /\ r[1].hw.auto = r[2].hw.auto
                         /\ r[1].hw.exposure = r[2].hw.exposure
                         /\ j <= i /\ k # "rpi_img" /\ e.val # Unset => r[2].hw.fps = e.val}
             R == [i \in 0..Len(q) |-> Rel(i)]
  <2>2. ASSUME NEW i \in 1..Len(q), NEW a, NEW b, <<a, b>> \in Rel(i - 1)
        PROVE  <<Change(k, a, q[i]), Change(k, b, p[i])>> \in Rel(i)
    <3>1. PICK c, d : c = Change(k, a, q[i]) /\ d = Change(k, b, p[i])
      OBVIOUS
    <3>2. /\ a \in States /\ b \in States /\ q[i] \in Entries /\ p[i] \in Entries
          /\ a.auto = b.auto /\ a.hw.auto = b.hw.auto /\ a.hw.exposure = b.hw.exposure
          /\ j <= i - 1 /\ k # "rpi_img" /\ e.val # Unset => b.hw.fps = e.val
          /\ p[i] = IF q[i].key = "fps" THEN e ELSE q[i]
      BY <1>0, <1>2, <2>2 DEF PutInPlace
    <3>3. Changed(k, a, q[i], c) /\ Changed(k, b, p[i], d)
      BY ONLY <3>1, <3>2, Changes
    <3>4. c \in States /\ d \in States
      BY <3>3 DEF Changed
    <3>5. q[i].key \in {"auto", "exposure", "fps"}
      BY <3>2 DEF Entries
    <3>6. c.auto = d.auto /\ c.hw.auto = d.hw.auto /\ c.hw.exposure = d.hw.exposure
      <4>1. CASE q[i].key = "fps"
        BY <3>2, <3>3, <4>1 DEF Changed
      <4>2. CASE q[i].key = "auto"
        BY <3>2, <3>3, <4>2 DEF Changed
      <4>3. CASE q[i].key = "exposure"
        BY <3>2, <3>3, <4>3 DEF Changed
      <4>4. QED BY <3>5, <4>1, <4>2, <4>3
    <3>7. ASSUME j <= i, k # "rpi_img", e.val # Unset
          PROVE  d.hw.fps = e.val
      <4>1. CASE q[i].key = "fps"
        BY <3>2, <3>3, <3>7, <4>1 DEF Changed, Take
      <4>2. CASE q[i].key # "fps"
        <5>1. i # j /\ j <= i - 1
          BY <1>0, <2>1, <3>7, <4>2
        <5>2. d.hw.fps = b.hw.fps
          BY <3>2, <3>3, <3>5, <4>2 DEF Changed
        <5>3. QED BY <3>2, <3>7, <5>1, <5>2
      <4>3. QED BY <4>1, <4>2
    <3>8. QED BY <3>1, <3>4, <3>6, <3>7
  <2>3. \A i \in 1..Len(q) : i \in 0..Len(q) /\ i - 1 \in 0..Len(q)
    BY <1>0
  <2>4. 0 \in 0..Len(q) /\ Len(q) \in 0..Len(q)
    BY <1>0
  <2>5. <<s, s>> \in Rel(0)
    BY <1>0, <2>1
  <2> HIDE DEF Rel
  <2>6. <<s, s>> \in R[0]
    BY <2>4, <2>5
  <2>7. \A i \in 1..Len(q) : \A a, b : <<a, b>> \in R[i - 1]
             => <<Change(k, a, q[i]), Change(k, b, p[i])>> \in R[i]
    BY <2>2, <2>3
  <2>8. <<x, y>> \in R[Len(q)]
    <3> HIDE DEF R
    <3>1. Len(p) = Len(q)
      BY <1>2 DEF PutInPlace
    <3>2. QED BY <1>0, <2>6, <2>7, <3>1, TwoEffects
  <2>9. <<x, y>> \in Rel(Len(q))
    BY <2>4, <2>8
  <2>10. QED BY <1>0, <2>1, <2>9 DEF Rel
<1>3. QED BY <1>1, <1>2, Puts

\* The exposure and its mode do not touch the frame rate.
LEMMA PutOther ==
  ASSUME NEW k, NEW s \in States, NEW q \in Seq(Entries), NEW e \in Entries, e.key # "fps",
         NEW p, p = Put(q, e.key, e.val), NEW x, x = Effect(k, s, q),
         NEW y, y = Effect(k, s, p)
  PROVE  y.hw.fps = x.hw.fps
<1>0. Len(q) \in Nat /\ \A i \in 1..Len(q) : q[i] \in Entries
  BY LenProperties, ElementOfSeq
<1>1. CASE p = Append(q, e)
  <2>1. y = Change(k, x, e) /\ x \in States
    BY <1>1, EffectAppend, EffectTyped
  <2>2. Changed(k, x, e, y) /\ e.key \in {"auto", "exposure"}
    <3>1. Changed(k, x, e, y)
      BY ONLY <2>1, e \in Entries, Changes
    <3>2. QED BY <3>1 DEF Entries
  <2>3. QED BY <2>2 DEF Changed
<1>2. CASE PutInPlace(q, e, p)
  <2> DEFINE Same == {r \in States \X States : r[1].hw.fps = r[2].hw.fps}
             R    == [i \in 0..Len(q) |-> Same]
  <2>2. ASSUME NEW i \in 1..Len(q), NEW a, NEW b, <<a, b>> \in Same
        PROVE  <<Change(k, a, q[i]), Change(k, b, p[i])>> \in Same
    <3>1. PICK c, d : c = Change(k, a, q[i]) /\ d = Change(k, b, p[i])
      OBVIOUS
    <3>2. /\ a \in States /\ b \in States /\ q[i] \in Entries /\ p[i] \in Entries
          /\ a.hw.fps = b.hw.fps
          /\ p[i] = IF q[i].key = e.key THEN e ELSE q[i]
      BY <1>0, <1>2, <2>2 DEF PutInPlace
    <3>3. Changed(k, a, q[i], c) /\ Changed(k, b, p[i], d)
      BY ONLY <3>1, <3>2, Changes
    <3>4. c \in States /\ d \in States
      BY <3>3 DEF Changed
    <3>5. q[i].key \in {"auto", "exposure", "fps"}
      BY <3>2 DEF Entries
    <3>6. c.hw.fps = d.hw.fps
      <4>1. CASE q[i].key = "fps"
        <5>1. p[i] = q[i]
          BY <3>2, <4>1
        <5>2. QED BY <3>2, <3>3, <4>1, <5>1 DEF Changed
      <4>2. CASE q[i].key # "fps"
        <5>1. p[i].key = q[i].key
          BY <3>2
        <5>2. c.hw.fps = a.hw.fps /\ d.hw.fps = b.hw.fps
          BY <3>3, <3>5, <4>2, <5>1 DEF Changed
        <5>3. QED BY <3>2, <5>2
      <4>3. QED BY <4>1, <4>2
    <3>7. QED BY <3>1, <3>4, <3>6
  <2>3. \A i \in 1..Len(q) : i \in 0..Len(q) /\ i - 1 \in 0..Len(q)
    BY <1>0
  <2>4. 0 \in 0..Len(q) /\ Len(q) \in 0..Len(q)
    BY <1>0
  <2>5. <<s, s>> \in Same
    OBVIOUS
  <2> HIDE DEF Same
  <2>6. <<s, s>> \in R[0]
    BY <2>4, <2>5
  <2>7. \A i \in 1..Len(q) : \A a, b : <<a, b>> \in R[i - 1]
             => <<Change(k, a, q[i]), Change(k, b, p[i])>> \in R[i]
    BY <2>2, <2>3
  <2>8. <<x, y>> \in R[Len(q)]
    <3> HIDE DEF R
    <3>1. Len(p) = Len(q)
      BY <1>2 DEF PutInPlace
    <3>2. QED BY <1>0, <2>6, <2>7, <3>1, TwoEffects
  <2>9. <<x, y>> \in Same
    BY <2>4, <2>8
  <2>10. QED BY <2>9 DEF Same
<1>3. QED BY <1>1, <1>2, Puts

\* The first request about the exposure comes after what is queued.
LEMMA PutFirst ==
  ASSUME NEW k, NEW s \in States, NEW q \in Seq(Entries), NEW e \in Entries, e.key # "fps",
         \A i \in DOMAIN q : q[i].key = "fps",
         NEW p, p = Put(q, e.key, e.val), NEW x, x = Effect(k, s, q),
         NEW y, y = Effect(k, s, p)
  PROVE  x \in States /\ Changed(k, x, e, y)
<1>1. DOMAIN q = 1..Len(q)
  BY LenProperties
<1>2. p = Append(q, e)
  BY <1>1, Puts DEF PutInPlace
<1>3. y = Change(k, x, e) /\ x \in States
  BY <1>2, EffectAppend, EffectTyped
<1>4. QED BY ONLY <1>3, e \in Entries, Changes

\* What on_camera_open pushes into an empty queue.
LEMMA Restored ==
  ASSUME NEW s \in States, plugin.auto \in BOOLEAN,
         {plugin.exposure, plugin.fps} \subseteq Levels \cup {Unset},
         NEW q, q = Restore(<<>>), NEW y, y = Effect(kind, s, q)
  PROVE  /\ q \in Seq(Entries) /\ Once(q)
         /\ y.hw.auto = plugin.auto
         /\ ~plugin.auto /\ plugin.exposure # Unset => y.hw.exposure = plugin.exposure
         /\ HasFps /\ plugin.fps # Unset => y.hw.fps = plugin.fps
<1> DEFINE a == [key |-> "auto", val |-> plugin.auto]
           b == [key |-> "exposure", val |-> plugin.exposure]
           c == [key |-> "fps", val |-> plugin.fps]
<1>1. a \in Entries /\ b \in Entries /\ c \in Entries
  BY DEF Entries
<1>2. /\ a.key = "auto" /\ a.val = plugin.auto /\ b.key = "exposure" /\ b.val = plugin.exposure
      /\ c.key = "fps" /\ c.val = plugin.fps
  OBVIOUS
<1> HIDE DEF a, b, c
<1>12. PICK nil : nil = <<>>
  OBVIOUS
<1>0. PICK q1, q2, y1, y2 : /\ q1 = Put(nil, a.key, a.val)
                            /\ q2 = IF plugin.auto THEN q1 ELSE Put(q1, b.key, b.val)
                            /\ y1 = Effect(kind, s, q1) /\ y2 = Effect(kind, s, q2)
  OBVIOUS
<1>3. q = IF HasFps THEN Put(q2, c.key, c.val) ELSE q2
  BY <1>12, <1>0, <1>2 DEF Restore
<1>4. nil \in Seq(Entries) /\ Once(nil) /\ Effect(kind, s, nil) = s /\ Len(nil) = 0
  BY <1>12, EffectEmpty DEF Once
<1>13. nil \in Seq(Entries) /\ Once(nil)
  BY <1>4
<1>14. q1 = Put(nil, a.key, a.val) /\ a \in Entries
  BY <1>0, <1>1
<1>15. b \in Entries /\ c \in Entries
  BY <1>1
<1>16. y1 = Effect(kind, s, q1) /\ y2 = Effect(kind, s, q2)
  BY <1>0
<1>5. q1 \in Seq(Entries) /\ Once(q1)
  BY ONLY <1>13, <1>14, Puts
<1>17. q1 = Append(nil, a)
  <2>1. PutInPlace(nil, a, q1) \/ q1 = Append(nil, a)
    BY ONLY <1>13, <1>14, Puts
  <2>2. QED BY <1>4, <2>1 DEF PutInPlace
<1>6. y1 \in States /\ y1.hw.auto = plugin.auto /\ y1.auto = plugin.auto
  <2>1. Effect(kind, s, q1) = Change(kind, Effect(kind, s, nil), a)
    BY ONLY <1>13, <1>14, <1>17, EffectAppend
  <2>2. y1 = Change(kind, s, a)
    BY <1>4, <1>16, <2>1
  <2>3. Changed(kind, s, a, y1)
    BY <1>1, <2>2, Changes
  <2>4. QED BY <1>2, <2>3 DEF Changed
<1>7. q2 \in Seq(Entries) /\ Once(q2)
  <2>1. CASE plugin.auto
    BY <1>0, <1>5, <2>1
  <2>2. CASE ~plugin.auto
    <3>1. q2 = Put(q1, b.key, b.val)
      BY <1>0, <2>2
    <3>2. QED BY ONLY <1>15, <1>5, <3>1, Puts
  <2>3. QED BY <2>1, <2>2
<1>8. /\ y2 \in States /\ y2.hw.auto = plugin.auto
      /\ ~plugin.auto /\ plugin.exposure # Unset => y2.hw.exposure = plugin.exposure
  <2>1. CASE plugin.auto
    BY <1>0, <1>6, <2>1
  <2>2. CASE ~plugin.auto
    <3>1. Len(q1) = 1 /\ q1[1] = a
      BY <1>1, <1>4, <1>17, AppendProperties
    <3>2. q2 = Put(q1, b.key, b.val)
      BY <1>0, <2>2
    <3>3. q2 = Append(q1, b)
      <4>1. PutInPlace(q1, b, q2) \/ q2 = Append(q1, b)
        BY ONLY <1>1, <1>5, <3>2, Puts
      <4>2. QED BY <1>2, <3>1, <4>1 DEF PutInPlace
    <3>4. y2 = Change(kind, y1, b)
      <4>1. Effect(kind, s, q2) = Change(kind, Effect(kind, s, q1), b)
        BY ONLY <1>15, <1>5, <3>3, EffectAppend
      <4>2. QED BY <1>16, <4>1
    <3>5. Changed(kind, y1, b, y2)
      BY <1>1, <1>6, <3>4, Changes
    <3>6. ~y1.auto
      BY <1>6, <2>2
    <3>7. y2 \in States /\ y2.hw.auto = FALSE /\ y2.hw.exposure = Take(y1.hw.exposure, b.val)
      BY <1>2, <3>5, <3>6 DEF Changed
    <3>8. QED BY <1>2, <2>2, <3>7 DEF Take
  <2>3. QED BY <2>1, <2>2
<1>9. CASE ~HasFps
  BY <1>0, <1>3, <1>7, <1>8, <1>9
<1>10. CASE HasFps
  <2>1. q = Put(q2, c.key, c.val)
    BY <1>3, <1>10
  <2>2. q \in Seq(Entries) /\ Once(q)
    BY ONLY <1>1, <1>7, <2>1, Puts
  <2>3. /\ y.hw.auto = y2.hw.auto /\ y.hw.exposure = y2.hw.exposure
        /\ kind # "rpi_img" /\ c.val # Unset => y.hw.fps = c.val
    BY ONLY s \in States, y = Effect(kind, s, q), <1>0, <1>1, <1>2, <1>7, <2>1, PutFps
  <2>4. QED BY <1>2, <1>8, <1>10, <2>2, <2>3 DEF HasFps
<1>11. QED BY <1>9, <1>10

-----------------------------------------------------------------------------
(* Types.  A queue holds entries, and a key once.                           *)

Queues    == {q \in Seq(Entries) : Once(q)}
DrvStates == [pc : {"none", "begin", "loop", "read", "report", "release", "dead"},
              running : BOOLEAN, auto : BOOLEAN, fails : 0..FailLimit, lost : BOOLEAN,
              abandoned : BOOLEAN, pending : Queues, init : Levels]
Plugins   == [has : BOOLEAN, open : BOOLEAN, auto : BOOLEAN,
              exposure : Levels \cup {Unset}, fps : Levels \cup {Unset}]
SetPcs    == {"idle", "field", "push"}
SetStates == [pc : SetPcs, key : {"exposure", "fps"}, val : Levels,
              drv : Drivers \cup {NoDriver}, mixed : BOOLEAN]
               \cup [pc : SetPcs, key : {"auto"}, val : BOOLEAN,
                     drv : Drivers \cup {NoDriver}, mixed : BOOLEAN]

DriverTypes ==
  /\ kind \in Kinds /\ present \in BOOLEAN /\ listed \in BOOLEAN
  /\ hw \in Registers /\ closing \in BOOLEAN /\ mode \in {0, 2}
  /\ drv \in [Drivers -> DrvStates] /\ plugin \in Plugins
  /\ set \in [Setters -> SetStates] /\ sets \in 0..MaxSets /\ excused \subseteq Keys

LEMMA EmptyQueue == <<>> \in Queues
BY DEF Queues, Once

LEMMA PutTyped ==
  ASSUME NEW q \in Queues, NEW e \in Entries
  PROVE  Put(q, e.key, e.val) \in Queues
<1>1. q \in Seq(Entries) /\ Once(q)
  BY DEF Queues
<1>2. PICK p : p = Put(q, e.key, e.val)
  OBVIOUS
<1>3. p \in Seq(Entries) /\ Once(p)
  BY ONLY e \in Entries, <1>1, <1>2, Puts
<1>4. QED BY <1>2, <1>3 DEF Queues

LEMMA RestoreTyped ==
  ASSUME plugin \in Plugins, NEW q \in Queues
  PROVE  Restore(q) \in Queues
<1>1. PICK a, b, c : /\ a = [key |-> "auto", val |-> plugin.auto]
                     /\ b = [key |-> "exposure", val |-> plugin.exposure]
                     /\ c = [key |-> "fps", val |-> plugin.fps]
  OBVIOUS
<1>2. a \in Entries /\ b \in Entries /\ c \in Entries
  BY <1>1 DEF Entries, Plugins
<1>3. PICK q1, q2 : /\ q1 = Put(q, "auto", plugin.auto)
                    /\ q2 = Put(q1, "exposure", plugin.exposure)
  OBVIOUS
<1>4. q1 = Put(q, a.key, a.val) /\ q2 = Put(q1, b.key, b.val)
  BY <1>1, <1>3
<1>5. q1 \in Queues /\ q2 \in Queues
  BY <1>2, <1>4, PutTyped
<1>6. PICK q3 : q3 = IF plugin.auto THEN q1 ELSE q2
  OBVIOUS
<1>7. q3 \in Queues
  BY <1>5, <1>6
<1>8. Put(q3, c.key, c.val) \in Queues
  BY <1>2, <1>7, PutTyped
<1>9. Restore(q) = IF HasFps THEN Put(q3, c.key, c.val) ELSE q3
  BY <1>1, <1>3, <1>6 DEF Restore
<1>10. QED BY <1>7, <1>8, <1>9

LEMMA AppliedTyped ==
  ASSUME DriverTypes, NEW d \in Drivers
  PROVE  Applied([hw |-> hw, auto |-> drv[d].auto], drv[d].pending) \in States
<1>1. PICK s, q : s = [hw |-> hw, auto |-> drv[d].auto] /\ q = drv[d].pending
  OBVIOUS
<1>2. drv[d] \in DrvStates /\ hw \in Registers
  BY DEF DriverTypes
<1>3. s \in States
  BY <1>1, <1>2 DEF States, DrvStates
<1>4. q \in Seq(Entries)
  BY <1>1, <1>2 DEF DrvStates, Queues
<1>5. Len(q) \in Nat
  BY <1>4, LenProperties
<1>6. Applied(s, q) = Effect(kind, s, q)
  BY ONLY <1>5, AppliedIsEffect
<1>7. Effect(kind, s, q) \in States
  BY ONLY <1>3, <1>4, EffectTyped
<1>8. QED BY <1>1, <1>6, <1>7

LEMMA InitialTyped ==
  ASSUME NEW fps \in Levels
  PROVE  Initial(fps) \in Registers
BY DEF Initial, Registers, AutoFirst, Levels, AutoLeft

LEMMA ObjectTyped == NoObject \in DrvStates /\ IdleTask.pc = "idle"
BY EmptyQueue, DriverAssumption DEF NoObject, DrvStates, Levels, IdleTask

LEMMA Bounds == FailLimit \in Nat /\ 0 \in 0..FailLimit /\ 0 \in 0..MaxSets
<1>1. FailLimit \in Nat \ {0} /\ MaxSets \in Nat
  BY DriverAssumption
<1>2. QED BY <1>1

LEMMA TypesInit == Init => DriverTypes
<1> SUFFICES ASSUME Init PROVE DriverTypes
  OBVIOUS
<1>1. IdleSetter \in SetStates
  BY DEF IdleSetter, SetStates, SetPcs, Levels
<1>2. Unseeded \in Plugins
  BY DEF Unseeded, Plugins
<1>3. hw \in Registers
  BY InitialTyped DEF Init, Levels
<1>4. drv \in [Drivers -> DrvStates] /\ set \in [Setters -> SetStates] /\ plugin \in Plugins
  BY <1>1, <1>2, ObjectTyped DEF Init
<1>5. mode \in {0, 2} /\ sets \in 0..MaxSets /\ excused \subseteq Keys
  BY Bounds DEF Init
<1>6. kind \in Kinds /\ present \in BOOLEAN /\ listed \in BOOLEAN /\ closing \in BOOLEAN
  BY DEF Init
<1>7. QED BY <1>3, <1>4, <1>5, <1>6 DEF DriverTypes

LEMMA ThreadTypes ==
  ASSUME DriverTypes, NEW d \in Drivers,
         \/ RunBegin(d) \/ RunRaises(d) \/ LoopHead(d)
         \/ ReadFrame(d) \/ ReadFails(d) \/ ReadNothing(d) \/ ReadRaises(d)
         \/ Report(d) \/ Release(d) \/ Forget(d)
  PROVE  DriverTypes'
<1>0. drv \in [Drivers -> DrvStates] /\ drv[d] \in DrvStates /\ hw \in Registers
  BY DEF DriverTypes
<1>1. UNCHANGED <<kind, present, listed, closing, mode, plugin, set, sets, excused>>
  BY DEF RunBegin, RunRaises, LoopHead, ReadFrame, ReadFails, ReadNothing, ReadRaises, Report,
         Release, Forget, Thread, device, session, params
<1>2. SUFFICES hw' \in Registers /\ \E r \in DrvStates : drv' = [drv EXCEPT ![d] = r]
  BY <1>0, <1>1 DEF DriverTypes
<1>3. CASE RunBegin(d)
  <2> DEFINE r == [drv[d] EXCEPT !.pc = "loop", !.running = TRUE,
                          !.auto = IF kind = "aravis" THEN AutoFirst ELSE drv[d].auto]
  <2>1. r \in DrvStates
    BY <1>0 DEF DrvStates, AutoFirst
  <2>2. drv' = [drv EXCEPT ![d] = r]
    BY <1>3 DEF RunBegin
  <2>3. hw' \in Registers
    BY <1>0, <1>3, InitialTyped DEF RunBegin, DrvStates
  <2> HIDE DEF r
  <2>4. QED BY <2>1, <2>2, <2>3
<1>4. CASE LoopHead(d) /\ ~drv[d].running
  <2> DEFINE r == [drv[d] EXCEPT !.pc = "release"]
  <2>1. r \in DrvStates
    BY <1>0 DEF DrvStates
  <2>2. drv' = [drv EXCEPT ![d] = r] /\ hw' = hw
    BY <1>4 DEF LoopHead
  <2> HIDE DEF r
  <2>3. QED BY <1>0, <2>1, <2>2
<1>5. CASE LoopHead(d) /\ drv[d].running
  <2>1. PICK s : s = Applied([hw |-> hw, auto |-> drv[d].auto], drv[d].pending)
    OBVIOUS
  <2>2. s.hw \in Registers /\ s.auto \in BOOLEAN
    BY <2>1, AppliedTyped DEF States
  <2> DEFINE r == [drv[d] EXCEPT !.pc = "read", !.auto = s.auto, !.pending = <<>>]
  <2>3. r \in DrvStates
    BY <1>0, <2>2, EmptyQueue DEF DrvStates
  <2>4. drv' = [drv EXCEPT ![d] = r] /\ hw' = s.hw
    BY <1>5, <2>1 DEF LoopHead
  <2> HIDE DEF r
  <2>5. QED BY <2>2, <2>3, <2>4
<1>6. CASE ReadFrame(d) \/ ReadNothing(d) \/ ReadRaises(d) \/ Report(d) \/ RunRaises(d)
  <2>1. hw' = hw
    BY <1>6 DEF ReadFrame, ReadNothing, ReadRaises, Report, RunRaises
  <2>2. CASE ReadFrame(d)
    <3> DEFINE r == [drv[d] EXCEPT !.pc = "loop", !.fails = 0]
    <3>1. r \in DrvStates
      BY <1>0, Bounds DEF DrvStates
    <3>2. drv' = [drv EXCEPT ![d] = r]
      BY <2>2 DEF ReadFrame
    <3> HIDE DEF r
    <3>3. QED BY <1>0, <2>1, <3>1, <3>2
  <2>3. ASSUME NEW pc \in {"loop", "release", "dead"}, drv' = [drv EXCEPT ![d].pc = pc]
        PROVE  \E r \in DrvStates : drv' = [drv EXCEPT ![d] = r]
    <3> DEFINE r == [drv[d] EXCEPT !.pc = pc]
    <3>1. r \in DrvStates
      BY <1>0 DEF DrvStates
    <3>2. drv' = [drv EXCEPT ![d] = r]
      BY <2>3
    <3> HIDE DEF r
    <3>3. QED BY <3>1, <3>2
  <2>4. CASE ReadNothing(d) \/ ReadRaises(d) \/ Report(d)
    <3>1. PICK pc \in {"loop", "release", "dead"} : drv' = [drv EXCEPT ![d].pc = pc]
      BY <2>4 DEF ReadNothing, ReadRaises, Report
    <3>2. QED BY <1>0, <2>1, <2>3, <3>1
  <2>5. CASE RunRaises(d)
    <3> DEFINE r == [drv[d] EXCEPT !.pc = "dead", !.running = TRUE]
    <3>1. r \in DrvStates
      BY <1>0 DEF DrvStates
    <3>2. drv' = [drv EXCEPT ![d] = r]
      BY <2>5 DEF RunRaises
    <3> HIDE DEF r
    <3>3. QED BY <1>0, <2>1, <3>1, <3>2
  <2>6. QED BY <1>6, <2>2, <2>4, <2>5
<1>7. CASE ReadFails(d)
  <2> DEFINE n == drv[d].fails + 1
  <2>1. hw' = hw
    BY <1>7 DEF ReadFails
  <2>2. \/ drv' = [drv EXCEPT ![d] = [drv[d] EXCEPT !.pc = "release"]]
        \/ n < FailLimit /\ drv' = [drv EXCEPT ![d] = [drv[d] EXCEPT !.pc = "loop", !.fails = n]]
        \/ \E pc \in {"release", "report"} :
             drv' = [drv EXCEPT ![d] = [drv[d] EXCEPT !.running = FALSE, !.lost = TRUE, !.pc = pc]]
    <3>1. n \in Nat
      BY <1>0, DriverAssumption DEF DrvStates
    <3>2. n < FailLimit \/ n >= FailLimit
      BY <3>1, DriverAssumption
    <3>3. QED BY <1>7, <3>1, <3>2, DriverAssumption DEF ReadFails
  <2>3. [drv[d] EXCEPT !.pc = "release"] \in DrvStates
    BY <1>0 DEF DrvStates
  <2>4. n < FailLimit => [drv[d] EXCEPT !.pc = "loop", !.fails = n] \in DrvStates
    <3>1. n < FailLimit => n \in 0..FailLimit
      BY <1>0, Bounds DEF DrvStates
    <3> HIDE DEF n
    <3>2. QED BY <1>0, <3>1 DEF DrvStates
  <2>5. \A pc \in {"release", "report"} :
           [drv[d] EXCEPT !.running = FALSE, !.lost = TRUE, !.pc = pc] \in DrvStates
    BY <1>0 DEF DrvStates
  <2> HIDE DEF n
  <2>6. QED BY <1>0, <2>1, <2>2, <2>3, <2>4, <2>5
<1>8. CASE Release(d)
  <2>0. PICK on, pc : /\ on = (kind # "virtual" /\ drv[d].running)
                      /\ pc = IF kind = "aravis" /\ drv[d].lost THEN "report" ELSE "dead"
    OBVIOUS
  <2> DEFINE r == [drv[d] EXCEPT !.running = on, !.pc = pc, !.pending = <<>>, !.fails = 0]
  <2>1. r \in DrvStates
    <3>1. on \in BOOLEAN /\ pc \in {"report", "dead"}
      BY <2>0
    <3>2. QED BY <1>0, <3>1, EmptyQueue, Bounds DEF DrvStates
  <2>2. drv' = [drv EXCEPT ![d] = r]
    BY <1>8, <2>0 DEF Release
  <2>3. hw' \in Registers
    BY <1>0, <1>8, InitialTyped DEF Release, Levels
  <2> HIDE DEF r
  <2>4. QED BY <2>1, <2>2, <2>3
<1>9. CASE Forget(d)
  <2>1. drv' = [drv EXCEPT ![d] = NoObject] /\ hw' = hw
    BY <1>9 DEF Forget, device
  <2>2. QED BY <1>0, <2>1, ObjectTyped
<1>10. QED BY <1>3, <1>4, <1>5, <1>6, <1>7, <1>8, <1>9

LEMMA CloseTypes ==
  ASSUME DriverInv, DriverTypes, NEW t \in Tasks, Close(t)
  PROVE  DriverTypes'
<1>0. /\ drv \in [Drivers -> DrvStates] /\ plugin \in Plugins /\ mode \in {0, 2}
      /\ UNCHANGED <<kind, present, listed, hw, set, sets, excused>>
  BY DEF DriverTypes, Close, CloseBegin, Stop, JoinAndRemove, device, params
<1>1. task[t].pc \in {"stop", "join"} => task[t].drv \in Drivers
  BY DEF DriverInv, Sessions, Shape, At
<1>2. CASE CloseBegin(t)
  <2>1. drv' = drv /\ mode' \in {0, 2} /\ closing' \in BOOLEAN
    BY <1>0, <1>2 DEF CloseBegin, Closed, DriverTypes
  <2>2. plugin' \in Plugins
    <3>1. [plugin EXCEPT !.open = FALSE] \in Plugins
      BY <1>0 DEF Plugins
    <3>2. QED BY <1>0, <1>2, <3>1 DEF CloseBegin
  <2>3. QED BY <1>0, <2>1, <2>2 DEF DriverTypes
<1>3. CASE Stop(t)
  <2> DEFINE d == task[t].drv
             r == [drv[d] EXCEPT !.running = FALSE]
  <2>1. d \in Drivers /\ drv[d] \in DrvStates
    BY <1>0, <1>1, <1>3 DEF Stop, At
  <2>2. r \in DrvStates
    BY <2>1 DEF DrvStates
  <2>3. drv' = [drv EXCEPT ![d] = r] /\ UNCHANGED <<closing, mode, plugin>>
    BY <1>3 DEF Stop, params
  <2> HIDE DEF d, r
  <2>4. QED BY <1>0, <2>2, <2>3 DEF DriverTypes
<1>4. CASE JoinAndRemove(t)
  <2> DEFINE d == task[t].drv
             r == IF Alive(d) THEN [drv[d] EXCEPT !.abandoned = TRUE] ELSE NoObject
  <2>1. d \in Drivers /\ drv[d] \in DrvStates
    BY <1>0, <1>1, <1>4 DEF JoinAndRemove, At
  <2>2. r \in DrvStates
    <3>1. [drv[d] EXCEPT !.abandoned = TRUE] \in DrvStates
      BY <2>1 DEF DrvStates
    <3>2. QED BY <3>1, ObjectTyped
  <2>3. drv' = [drv EXCEPT ![d] = r] /\ closing' = FALSE /\ mode' \in {0, 2} /\ plugin' = plugin
    BY <1>0, <1>4 DEF JoinAndRemove, Closed, params
  <2> HIDE DEF d, r
  <2>4. QED BY <1>0, <2>2, <2>3 DEF DriverTypes
<1>5. QED BY <1>2, <1>3, <1>4 DEF Close

LEMMA OpenTypes ==
  ASSUME DriverInv, DriverTypes,
         AdminOpen \/ Lookup \/ OpenDevice \/ OpenFails
           \/ \E then \in {"idle", "lookup"} : AdminClose(then)
  PROVE  DriverTypes'
<1>0. /\ drv \in [Drivers -> DrvStates] /\ mode \in {0, 2} /\ sets \in 0..MaxSets
      /\ UNCHANGED <<kind, present, listed, closing, plugin, set, excused>>
  BY DEF DriverTypes, AdminOpen, Lookup, OpenDevice, OpenFails, AdminClose, device, params
<1>1. CASE AdminOpen \/ \E then \in {"idle", "lookup"} : AdminClose(then)
  <2>1. UNCHANGED <<hw, mode, drv>> /\ (sets' = sets \/ (sets < MaxSets /\ sets' = sets + 1))
    <3>1. CASE AdminOpen
      <4>1. UNCHANGED <<device, mode, drv, params>>
        BY <3>1 DEF AdminOpen
      <4>2. QED BY <4>1 DEF device, params
    <3>2. ASSUME NEW then, AdminClose(then)
          PROVE  UNCHANGED <<hw, mode, drv>>
                   /\ (sets' = sets \/ (sets < MaxSets /\ sets' = sets + 1))
      <4>1. UNCHANGED <<device, mode, drv>>
        BY <3>2 DEF AdminClose
      <4>2. sets' = sets \/ (sets < MaxSets /\ sets' = sets + 1)
        BY <3>2 DEF AdminClose
      <4>3. QED BY <4>1, <4>2 DEF device
    <3>3. QED BY <1>1, <3>1, <3>2
  <2>2. sets' \in 0..MaxSets
    BY <1>0, <2>1, DriverAssumption
  <2>3. QED BY <1>0, <2>1, <2>2 DEF DriverTypes
<1>2. CASE Lookup
  <2>1. UNCHANGED <<hw, sets>> /\ mode' \in {0, 2}
    BY <1>0, <1>2 DEF Lookup, device, params
  <2>2. CASE drv' = drv
    BY <1>0, <2>1, <2>2 DEF DriverTypes
  <2>3. CASE drv' # drv
    <3> DEFINE d == CHOOSE e \in Fresh : TRUE
               n == IF mode # 0 /\ HasFps THEN mode ELSE 1
               r == [drv[d] EXCEPT !.init = n]
    <3>1. d \in Drivers /\ drv[d] \in DrvStates
      BY <1>0, <1>2 DEF Lookup, Fresh
    <3>2. n \in Levels
      BY <1>0 DEF Levels
    <3>3. drv' = [drv EXCEPT ![d] = r]
      BY <1>2, <2>3 DEF Lookup
    <3> HIDE DEF d, n
    <3>4. r \in DrvStates
      BY <3>1, <3>2 DEF DrvStates
    <3> HIDE DEF r
    <3>5. drv' \in [Drivers -> DrvStates]
      BY <1>0, <3>3, <3>4
    <3>6. QED BY <1>0, <2>1, <3>5 DEF DriverTypes
  <2>4. QED BY <2>2, <2>3
<1>3. CASE OpenDevice
  <2> DEFINE d == task["admin"].drv
             n == IF kind = "aravis" THEN drv[d].init ELSE 1
             on == AutoFirst
             r == [drv[d] EXCEPT !.pc = "begin", !.auto = on, !.init = n]
  <2>1. d \in Drivers /\ drv[d] \in DrvStates
    BY <1>0, <1>3 DEF OpenDevice, DriverInv, Sessions, At
  <2>2. n \in Levels
    BY <2>1 DEF DrvStates, Levels
  <2>3. drv' = [drv EXCEPT ![d] = r] /\ hw' = Initial(drv[d].init)
    BY <1>3 DEF OpenDevice
  <2>4. UNCHANGED <<mode, sets>>
    BY <1>3 DEF OpenDevice, params
  <2>5. hw' \in Registers
    BY <2>1, <2>3, InitialTyped DEF DrvStates
  <2>9. on \in BOOLEAN
    BY DEF AutoFirst
  <2> HIDE DEF d, n, on
  <2>6. r \in DrvStates
    BY <2>1, <2>2, <2>9 DEF DrvStates
  <2> HIDE DEF r
  <2>7. drv' \in [Drivers -> DrvStates]
    BY <1>0, <2>3, <2>6
  <2>8. QED BY <1>0, <2>4, <2>5, <2>7 DEF DriverTypes
<1>4. CASE OpenFails
  <2>1. drv' = [drv EXCEPT ![task["admin"].drv] = NoObject] /\ UNCHANGED <<hw, mode, sets>>
    BY <1>4 DEF OpenFails, params
  <2>2. drv' \in [Drivers -> DrvStates]
    BY <1>0, <2>1, ObjectTyped
  <2>3. QED BY <1>0, <2>1, <2>2 DEF DriverTypes
<1>5. QED BY <1>1, <1>2, <1>3, <1>4

LEMMA NotifyTypes ==
  ASSUME DriverInv, DriverTypes, NotifyOpen
  PROVE  DriverTypes'
<1>0. /\ drv \in [Drivers -> DrvStates] /\ plugin \in Plugins /\ hw \in Registers
      /\ set \in [Setters -> SetStates] /\ excused \subseteq Keys
      /\ UNCHANGED <<kind, present, listed, closing, mode, sets>>
  BY DEF DriverTypes, NotifyOpen
<1>1. set' \in [Setters -> SetStates]
  <2>1. ASSUME NEW s \in Setters
        PROVE  [set[s] EXCEPT !.mixed = @ \/ set[s].pc # "idle"] \in SetStates
    <3>1. PICK b : b = (set[s].mixed \/ set[s].pc # "idle")
      OBVIOUS
    <3>2. b \in BOOLEAN
      BY <3>1
    <3>3. set[s] \in SetStates
      BY <1>0
    <3>4. [set[s] EXCEPT !.mixed = b] \in SetStates
      BY <3>2, <3>3 DEF SetStates
    <3>5. QED BY <3>1, <3>4
  <2>2. QED BY <2>1 DEF NotifyOpen, Overtaken
<1>2. plugin' \in Plugins
  <2>1. Seeded \in Plugins
    BY DEF Seeded, Plugins, AutoFirst, Levels, Unset
  <2>2. [Unseeded EXCEPT !.has = TRUE] \in Plugins
    BY DEF Unseeded, Plugins
  <2>3. [plugin EXCEPT !.open = TRUE] \in Plugins /\ [plugin EXCEPT !.open = FALSE] \in Plugins
    BY <1>0 DEF Plugins
  <2>4. QED BY <2>1, <2>2, <2>3 DEF NotifyOpen, SeededFromNothing
<1>3. excused' \subseteq Keys
  <2>1. {k \in {"exposure", "fps"} : plugin[k] = Unset} \subseteq Keys
    BY DEF Keys
  <2>2. QED BY <1>0, <2>1 DEF NotifyOpen
<1>4. hw' \in Registers
  <2>1. Take(hw.fps, plugin.fps) \in Levels
    BY <1>0 DEF Take, Registers, Plugins
  <2>2. [hw EXCEPT !.fps = Take(@, plugin.fps)] \in Registers
    BY <1>0, <2>1 DEF Registers
  <2>3. QED BY <1>0, <2>2 DEF NotifyOpen
<1>5. drv' \in [Drivers -> DrvStates]
  <2>1. CASE drv' = drv
    BY <1>0, <2>1
  <2>2. CASE drv' # drv
    <3> DEFINE q == Restore(drv[current].pending)
               r == [drv[current] EXCEPT !.pending = q]
    <3>1. drv' = [drv EXCEPT ![current] = r] /\ current \in Drivers
      BY <2>2 DEF NotifyOpen, DriverInv, Shape
    <3>2. drv[current] \in DrvStates
      BY <1>0, <3>1
    <3>3. drv[current].pending \in Queues
      BY <3>2 DEF DrvStates
    <3>4. q \in Queues
      BY <1>0, <3>3, RestoreTyped
    <3> HIDE DEF q
    <3>5. r \in DrvStates
      BY <3>2, <3>4 DEF DrvStates
    <3> HIDE DEF r
    <3>6. QED BY <1>0, <3>1, <3>5
  <2>3. QED BY <2>1, <2>2
<1>6. QED BY <1>0, <1>1, <1>2, <1>3, <1>4, <1>5 DEF DriverTypes

LEMMA SettingTypes ==
  ASSUME DriverInv, DriverTypes, NEW s \in Setters,
         \/ SetField(s) \/ SetPush(s) \/ \E m \in Messages : SetBegin(s, m[1], m[2])
  PROVE  DriverTypes'
<1>0. /\ drv \in [Drivers -> DrvStates] /\ plugin \in Plugins /\ hw \in Registers
      /\ set \in [Setters -> SetStates] /\ set[s] \in SetStates /\ excused \subseteq Keys
      /\ sets \in 0..MaxSets /\ IdleSetter \in SetStates
      /\ UNCHANGED <<kind, present, listed, closing, mode>>
  <2>1. IdleSetter \in SetStates
    BY DEF IdleSetter, SetStates, SetPcs, Levels
  <2>2. QED BY <2>1 DEF DriverTypes, SetField, SetPush, SetBegin, device, session
<1>1. ASSUME NEW m \in Messages, SetBegin(s, m[1], m[2])
      PROVE  DriverTypes'
  <2>1. UNCHANGED <<hw, drv, plugin, excused>> /\ sets' = sets + 1 /\ sets < MaxSets
    BY <1>1 DEF SetBegin, device
  <2>2. sets' \in 0..MaxSets
    BY <1>0, <2>1, DriverAssumption
  <2>3. PICK b : b = \E o \in Setters \ {s} : set[o].pc # "idle"
    OBVIOUS
  <2>4. PICK k, v : k = m[1] /\ v = m[2]
    OBVIOUS
  <2>5. \/ k \in {"exposure", "fps"} /\ v \in Levels
        \/ k = "auto" /\ v \in BOOLEAN
    BY <2>4, DriverAssumption DEF Levels
  <2>6. current \in Drivers \cup {NoDriver} /\ b \in BOOLEAN
    BY <2>3 DEF DriverInv, Shape
  <2> DEFINE new == [pc |-> "field", key |-> k, val |-> v, drv |-> current, mixed |-> b]
  <2>7. new \in SetStates
    BY <2>5, <2>6 DEF SetStates, SetPcs
  <2>8. \A o \in Setters : [set[o] EXCEPT !.mixed = set[o].pc # "idle"] \in SetStates
    <3>1. ASSUME NEW o \in Setters
          PROVE  [set[o] EXCEPT !.mixed = set[o].pc # "idle"] \in SetStates
      <4>1. PICK c : c = (set[o].pc # "idle")
        OBVIOUS
      <4>2. c \in BOOLEAN /\ set[o] \in SetStates
        BY <1>0, <4>1
      <4>3. [set[o] EXCEPT !.mixed = c] \in SetStates
        BY <4>2 DEF SetStates
      <4>4. QED BY <4>1, <4>3
    <3>2. QED BY <3>1
  <2>9. set' = [o \in Setters |->
                  IF o = s THEN new ELSE [set[o] EXCEPT !.mixed = set[o].pc # "idle"]]
    BY <1>1, <2>3, <2>4 DEF SetBegin
  <2> HIDE DEF new
  <2>10. set' \in [Setters -> SetStates]
    BY <2>7, <2>8, <2>9
  <2>11. QED BY <1>0, <2>1, <2>2, <2>10 DEF DriverTypes
<1>2. CASE SetField(s)
  <2>1. UNCHANGED <<hw, drv, excused, sets>>
    BY <1>2 DEF SetField, device
  <2>2. set' \in [Setters -> SetStates]
    <3>1. [set[s] EXCEPT !.pc = "push"] \in SetStates
      BY <1>0 DEF SetStates, SetPcs
    <3>2. QED BY <1>0, <1>2, <3>1 DEF SetField
  <2>3. plugin' \in Plugins
    <3>1. plugin' = plugin \/ plugin' = [plugin EXCEPT ![set[s].key] = set[s].val]
      BY <1>2 DEF SetField
    <3>2. PICK k, v : k = set[s].key /\ v = set[s].val
      OBVIOUS
    <3>3. \/ k \in {"exposure", "fps"} /\ v \in Levels
          \/ k = "auto" /\ v \in BOOLEAN
      BY <1>0, <3>2 DEF SetStates
    <3>4. [plugin EXCEPT ![k] = v] \in Plugins
      <4>1. CASE k = "auto" /\ v \in BOOLEAN
        <5>1. [plugin EXCEPT !.auto = v] \in Plugins
          BY <1>0, <4>1 DEF Plugins
        <5>2. QED BY <4>1, <5>1
      <4>2. CASE k = "exposure" /\ v \in Levels
        <5>1. [plugin EXCEPT !.exposure = v] \in Plugins
          BY <1>0, <4>2 DEF Plugins
        <5>2. QED BY <4>2, <5>1
      <4>3. CASE k = "fps" /\ v \in Levels
        <5>1. [plugin EXCEPT !.fps = v] \in Plugins
          BY <1>0, <4>3 DEF Plugins
        <5>2. QED BY <4>3, <5>1
      <4>4. QED BY <3>3, <4>1, <4>2, <4>3
    <3>5. QED BY <1>0, <3>1, <3>2, <3>4
  <2>4. QED BY <1>0, <2>1, <2>2, <2>3 DEF DriverTypes
<1>3. CASE SetPush(s)
  <2>1. UNCHANGED <<plugin, sets>> /\ set' \in [Setters -> SetStates]
    BY <1>0, <1>3 DEF SetPush
  <2>2. excused' \subseteq Keys
    <3>1. \A k \in Keys : Coupled(k) \subseteq Keys
      BY DEF Coupled, Keys
    <3>2. set[s].key \in Keys
      BY <1>0 DEF SetStates, Keys
    <3>3. \A q : Unsettled(set[s], q) \subseteq Keys
      BY <3>1, <3>2 DEF Unsettled, Keys
    <3>4. QED BY <1>0, <1>3, <3>1, <3>2, <3>3 DEF SetPush
  <2>3. PICK d, e : d = set[s].drv /\ e = [key |-> set[s].key, val |-> set[s].val]
    OBVIOUS
  <2>4. e \in Entries /\ e.key = set[s].key /\ e.val = set[s].val
    BY <1>0, <2>3 DEF SetStates, Entries
  <2>5. \/ UNCHANGED <<hw, drv>>
        \/ hw' = [hw EXCEPT !.fps = e.val] /\ e.key = "fps" /\ drv' = drv
        \/ drv' = [drv EXCEPT ![d].pending = Put(@, e.key, e.val)] /\ hw' = hw /\ d # NoDriver
    BY <1>3, <2>3, <2>4 DEF SetPush, SetParam
  <2>6. hw' \in Registers /\ drv' \in [Drivers -> DrvStates]
    <3>1. CASE UNCHANGED <<hw, drv>>
      BY <1>0, <3>1
    <3>2. CASE hw' = [hw EXCEPT !.fps = e.val] /\ e.key = "fps" /\ drv' = drv
      <4>1. e.val \in Levels
        BY <1>0, <2>4, <3>2 DEF SetStates
      <4>2. [hw EXCEPT !.fps = e.val] \in Registers
        BY <1>0, <4>1 DEF Registers
      <4>3. QED BY <1>0, <3>2, <4>2
    <3>3. CASE drv' = [drv EXCEPT ![d].pending = Put(@, e.key, e.val)] /\ hw' = hw /\ d # NoDriver
      <4>1. d \in Drivers
        BY <1>0, <2>3, <3>3 DEF SetStates
      <4> DEFINE q == Put(drv[d].pending, e.key, e.val)
                 r == [drv[d] EXCEPT !.pending = q]
      <4>2. drv[d] \in DrvStates /\ drv' = [drv EXCEPT ![d] = r]
        BY <1>0, <3>3, <4>1
      <4>3. drv[d].pending \in Queues
        BY <4>2 DEF DrvStates
      <4>4. q \in Queues
        BY <2>4, <4>3, PutTyped
      <4> HIDE DEF q
      <4>5. r \in DrvStates
        BY <4>2, <4>4 DEF DrvStates
      <4> HIDE DEF r
      <4>6. QED BY <1>0, <3>3, <4>2, <4>5
    <3>4. QED BY <2>5, <3>1, <3>2, <3>3
  <2>7. QED BY <1>0, <2>1, <2>2, <2>6 DEF DriverTypes
<1>4. QED BY <1>1, <1>2, <1>3

LEMMA TypesStep == DriverInv /\ DriverTypes /\ [Next]_vars => DriverTypes'
<1> SUFFICES ASSUME DriverInv, DriverTypes, [Next]_vars PROVE DriverTypes'
  OBVIOUS
<1>1. ASSUME NEW d \in Drivers,
             \/ RunBegin(d) \/ RunRaises(d) \/ LoopHead(d)
             \/ ReadFrame(d) \/ ReadFails(d) \/ ReadNothing(d) \/ ReadRaises(d)
             \/ Report(d) \/ Release(d) \/ Forget(d)
      PROVE  DriverTypes'
  BY <1>1, ThreadTypes
<1>2. CASE Plug \/ LeftoverFreed \/ Scan
  <2>1. /\ UNCHANGED <<kind, hw, closing, mode, drv, plugin, set, sets, excused>>
        /\ present' \in BOOLEAN /\ listed' \in BOOLEAN
    BY <1>2 DEF Plug, LeftoverFreed, Scan, session, params, DriverTypes
  <2>2. QED BY <2>1 DEF DriverTypes
<1>3. CASE UNCHANGED vars
  BY <1>3 DEF vars, DriverTypes
<1>4. QED BY <1>1, <1>2, <1>3, CloseTypes, OpenTypes, NotifyTypes, SettingTypes DEF Next, Open

LEMMA AlwaysTyped == Spec => []DriverTypes
BY TypesInit, TypesStep, Inductive, PTL DEF Spec
-----------------------------------------------------------------------------
(* The registers follow the plugin.  What is claimed is not only of the settled  *)
(* state: at any moment the registers, once the queue is applied, are what the   *)
(* plugin shows, except for the keys excused and those a handler is about to push. *)

Acquiring(d) == drv[d].pc \in {"begin", "loop", "read"}
Opened       == At("admin", "opened")
Alone(s)     == set[s].pc # "idle" /\ ~set[s].mixed
Pushed       == {set[s].key : s \in {o \in Setters : set[o].pc = "push"}}

\* The registers and the flag when the queue has been applied.
Ahead == Effect(kind, [hw |-> hw, auto |-> drv[current].auto], drv[current].pending)

\* What on_camera_open will seed the plugin with; the frame rate is compared later.
FirstValues == [auto |-> AutoFirst, exposure |-> 1, fps |-> hw.fps]

Matches(k, x, values, except) ==
  /\ k # "rpi_img" /\ "fps" \notin except => x.hw.fps = values.fps
  /\ k # "virtual" =>
       /\ "auto" \notin except => x.hw.auto = values.auto
       /\ {"auto", "exposure"} \cap except = {} /\ ~values.auto
            => x.hw.exposure = values.exposure

\* A driver that has not been started has an empty queue, and so has a virtual one; no
\* close has given up on it.
EmptyQueues ==
  \A d \in Drivers : /\ kind = "virtual" \/ drv[d].pc = "none" => drv[d].pending = <<>>
                     /\ drv[d].pc = "none" => ~drv[d].abandoned

\* The current driver was started and is not one a close gave up on.  Until its loop
\* begins, an Aravis camera has what the loop will write; the flag of the others is
\* the mode of the device.
Started == current # NoDriver =>
  /\ drv[current].pc # "none" /\ ~drv[current].abandoned
  /\ drv[current].pc = "begin" /\ kind = "aravis"
       => hw = Initial(drv[current].init) /\ drv[current].auto = AutoFirst
  /\ Acquiring(current) /\ kind # "aravis" => drv[current].auto = hw.auto

\* A message that overlaps no other and no open has the current driver, and the plugin
\* has its value when it is pushed.
Messaging == \A s \in Setters : Alone(s) =>
  /\ \A o \in Setters \ {s} : set[o].pc = "idle"
  /\ current # NoDriver /\ ~Opened => set[s].drv = current
  /\ set[s].pc = "push" => plugin[set[s].key] = set[s].val

Follows == current # NoDriver /\ Acquiring(current) =>
  /\ ~Opened /\ plugin.has /\ plugin.open => Matches(kind, Ahead, plugin, excused \cup Pushed)
  /\ Opened /\ ~plugin.has => Matches(kind, Ahead, FirstValues, excused)

FollowInv == EmptyQueues /\ Started /\ Messaging /\ Follows

LEMMA FollowInit == Init => FollowInv
<1> SUFFICES ASSUME Init PROVE FollowInv
  OBVIOUS
<1>1. /\ current = NoDriver /\ drv = [d \in Drivers |-> NoObject]
      /\ set = [s \in Setters |-> IdleSetter]
  BY DEF Init
<1>2. NoObject.pending = <<>> /\ ~NoObject.abandoned /\ IdleSetter.pc = "idle"
  BY DEF NoObject, IdleSetter
<1>3. QED BY <1>1, <1>2 DEF FollowInv, EmptyQueues, Started, Messaging, Follows, Alone

\* A step that changes nothing of an acquiring driver but its place, and no message.
Calm ==
  /\ UNCHANGED <<kind, set, excused>> /\ (Opened' <=> Opened)
  /\ plugin' = plugin \/ plugin' = [plugin EXCEPT !.open = FALSE]
  /\ \A d \in Drivers : \/ drv'[d].pending = <<>>
                        \/ /\ drv'[d].pending = drv[d].pending
                           /\ drv'[d].pc = "none" => drv[d].pc = "none"
  /\ \A d \in Drivers : drv'[d].pc = "none" =>
       ~drv'[d].abandoned \/ (drv[d].pc = "none" /\ drv'[d].abandoned = drv[d].abandoned)
  /\ current' = current \/ current' = NoDriver
  /\ current' # NoDriver =>
       /\ drv'[current].pc = "none" => drv[current].pc = "none"
       /\ drv'[current].abandoned = drv[current].abandoned
       /\ drv'[current].pc \in {"begin", "loop", "read"} =>
            /\ Acquiring(current) /\ hw' = hw
            /\ drv'[current].pending = drv[current].pending
            /\ drv'[current].auto = drv[current].auto
       /\ drv'[current].pc = "begin" =>
            drv[current].pc = "begin" /\ drv'[current].init = drv[current].init

LEMMA CalmStep ==
  ASSUME DriverInv, DriverTypes, FollowInv, Calm
  PROVE  FollowInv'
<1>0. kind' = kind /\ set' = set /\ excused' = excused
  BY DEF Calm
<1>1. EmptyQueues'
  BY <1>0 DEF Calm, FollowInv, EmptyQueues
<1>2. Started'
  BY <1>0 DEF Calm, FollowInv, Started, Acquiring, Initial, AutoFirst
<1>3. Messaging'
  <2>1. ASSUME NEW s \in Setters
        PROVE  plugin'[set[s].key] = plugin[set[s].key]
    <3>1. set[s].key \in {"auto", "exposure", "fps"}
      BY DEF DriverTypes, SetStates
    <3>2. plugin \in Plugins
      BY DEF DriverTypes
    <3>3. CASE plugin' = plugin
      BY <3>3
    <3>4. CASE plugin' = [plugin EXCEPT !.open = FALSE]
      BY <3>1, <3>2, <3>4 DEF Plugins
    <3>5. QED BY <3>3, <3>4 DEF Calm
  <2>2. QED BY <1>0, <2>1 DEF Calm, FollowInv, Messaging, Alone
<1>4. Follows'
  <2>1. SUFFICES ASSUME current' # NoDriver, Acquiring(current)'
                 PROVE  Follows'
    BY DEF Follows
  <2>2. /\ current' = current /\ Acquiring(current) /\ hw' = hw
        /\ drv'[current].pending = drv[current].pending
        /\ drv'[current].auto = drv[current].auto
    BY <2>1 DEF Calm, Acquiring
  <2>3. Ahead' = Ahead /\ FirstValues' = FirstValues /\ Pushed' = Pushed
    BY <1>0, <2>2 DEF Ahead, FirstValues, Pushed, AutoFirst
  <2>4. plugin'.has = plugin.has /\ (plugin'.open => plugin' = plugin)
    BY DEF Calm, DriverTypes, Plugins
  <2>5. QED BY <1>0, <2>1, <2>2, <2>3, <2>4 DEF Calm, FollowInv, Follows
<1>5. QED BY <1>1, <1>2, <1>3, <1>4 DEF FollowInv

\* Two acquiring drivers of a real device are one.
LEMMA OneHolder ==
  ASSUME DriverInv, kind # "virtual", NEW d \in Drivers, NEW e \in Drivers,
         Holding(d), Holding(e)
  PROVE  d = e
BY DEF DriverInv, Held

\* A step of the thread of d: the other objects stay.
LEMMA CalmThread ==
  ASSUME DriverInv, DriverTypes, NEW d \in Drivers, NEW r \in DrvStates,
         drv' = [drv EXCEPT ![d] = r], UNCHANGED <<kind, set, excused, current, plugin>>,
         Opened' <=> Opened, r.pc # "begin",
         \/ r.pending = <<>>
         \/ r.pending = drv[d].pending /\ r.pc # "none",
         r.pc = "none" => ~r.abandoned,
         d = current => /\ r.pc # "none" /\ r.abandoned = drv[d].abandoned
                        /\ r.pc \in {"loop", "read"} =>
                             /\ Acquiring(d) /\ hw' = hw
                             /\ r.pending = drv[d].pending /\ r.auto = drv[d].auto,
         current # NoDriver /\ d # current /\ Acquiring(current) => hw' = hw
  PROVE  Calm
<1>1. drv \in [Drivers -> DrvStates] /\ current \in Drivers \cup {NoDriver}
  BY DEF DriverTypes, DriverInv, Shape
<1>2. drv'[d] = r /\ \A e \in Drivers : e # d => drv'[e] = drv[e]
  BY <1>1
<1>3. ASSUME NEW e \in Drivers
      PROVE  /\ \/ drv'[e].pending = <<>>
                \/ /\ drv'[e].pending = drv[e].pending
                   /\ drv'[e].pc = "none" => drv[e].pc = "none"
             /\ drv'[e].pc = "none" =>
                  \/ ~drv'[e].abandoned
                  \/ drv[e].pc = "none" /\ drv'[e].abandoned = drv[e].abandoned
  <2>1. CASE e = d
    BY <1>2, <2>1
  <2>2. CASE e # d
    BY <1>2, <2>2
  <2>3. QED BY <2>1, <2>2
<1>4. CASE current = d
  <2>1. drv'[current] = r /\ current' = current
    BY <1>2, <1>4
  <2>2. r.pc \in {"begin", "loop", "read"} => r.pc \in {"loop", "read"}
    OBVIOUS
  <2>3. QED BY <1>3, <1>4, <2>1, <2>2 DEF Calm
<1>5. CASE current # d
  <2>1. current # NoDriver => drv'[current] = drv[current]
    BY <1>1, <1>2, <1>5
  <2>2. QED BY <1>3, <1>5, <2>1 DEF Calm, Acquiring
<1>6. QED BY <1>4, <1>5

LEMMA ThreadFollows ==
  ASSUME DriverInv, DriverTypes, FollowInv, NEW d \in Drivers,
         \/ RunBegin(d) \/ RunRaises(d) \/ (LoopHead(d) /\ ~drv[d].running)
         \/ ReadFrame(d) \/ ReadFails(d) \/ ReadNothing(d) \/ ReadRaises(d)
         \/ Report(d) \/ Release(d) \/ Forget(d)
  PROVE  FollowInv'
<1>0. /\ drv \in [Drivers -> DrvStates] /\ drv[d] \in DrvStates /\ task \in [Tasks -> TaskStates]
      /\ d # "admin" /\ "admin" \in Tasks /\ d \in Tasks
      /\ current # NoDriver => drv[current].pc # "none" /\ ~drv[current].abandoned
  BY DriverAssumption DEF DriverTypes, DriverInv, Shape, Tasks, FollowInv, Started
<1>1. UNCHANGED <<kind, set, excused, current, plugin>>
  BY DEF RunBegin, RunRaises, LoopHead, ReadFrame, ReadFails, ReadNothing, ReadRaises, Report,
         Release, Forget, Thread, device, session, params
<1>2. Opened' <=> Opened
  <2>1. task' = task \/ task' = [task EXCEPT ![d] = [task[d] EXCEPT !.pc = "guard"]]
    BY DEF RunBegin, RunRaises, LoopHead, ReadFrame, ReadFails, ReadNothing, ReadRaises,
           Report, Release, Forget, session
  <2>2. task'["admin"] = task["admin"]
    BY <1>0, <2>1
  <2>3. QED BY <2>2 DEF Opened, At
<1>3. SUFFICES Calm
  BY CalmStep
<1>4. CASE RunBegin(d)
  <2> DEFINE flag == IF kind = "aravis" THEN AutoFirst ELSE drv[d].auto
             r == [drv[d] EXCEPT !.pc = "loop", !.running = TRUE, !.auto = flag]
  <2>1. drv' = [drv EXCEPT ![d] = r] /\ drv[d].pc = "begin"
    BY <1>4 DEF RunBegin, Thread
  <2>2. flag \in BOOLEAN
    BY <1>0 DEF AutoFirst, DrvStates
  <2>3. d = current => flag = drv[d].auto /\ hw' = hw
    <3>1. d = current => d # NoDriver
      BY DriverAssumption
    <3>2. CASE kind = "aravis"
      BY <1>4, <2>1, <3>1, <3>2 DEF RunBegin, FollowInv, Started
    <3>3. CASE kind # "aravis"
      BY <1>4, <3>3 DEF RunBegin
    <3>4. QED BY <3>2, <3>3
  <2>4. current # NoDriver /\ d # current /\ Acquiring(current) => hw' = hw
    <3>1. CASE kind = "aravis"
      <4>1. current # NoDriver /\ d # current /\ Acquiring(current) => FALSE
        <5>1. current \in Drivers \cup {NoDriver}
          BY DEF DriverInv, Shape
        <5>2. QED BY <2>1, <3>1, <5>1, OneHolder DEF Holding, Acquiring
      <4>2. QED BY <4>1
    <3>2. CASE kind # "aravis"
      BY <1>4, <3>2 DEF RunBegin
    <3>3. QED BY <3>1, <3>2
  <2> HIDE DEF flag
  <2>5. r \in DrvStates /\ r.pc = "loop" /\ r.pending = drv[d].pending /\ r.auto = flag
        /\ r.abandoned = drv[d].abandoned
    BY <1>0, <2>2 DEF DrvStates
  <2> HIDE DEF r
  <2>6. Acquiring(d)
    BY <2>1 DEF Acquiring
  <2>7. QED BY <1>1, <1>2, <2>1, <2>3, <2>4, <2>5, <2>6, CalmThread
<1>5. CASE LoopHead(d) /\ ~drv[d].running
  <2> DEFINE r == [drv[d] EXCEPT !.pc = "release"]
  <2>1. drv' = [drv EXCEPT ![d] = r] /\ hw' = hw
    BY <1>5 DEF LoopHead
  <2>2. r \in DrvStates /\ r.pc = "release" /\ r.pending = drv[d].pending
        /\ r.abandoned = drv[d].abandoned
    BY <1>0 DEF DrvStates
  <2> HIDE DEF r
  <2>3. QED BY <1>1, <1>2, <2>1, <2>2, CalmThread
<1>6. ASSUME NEW pc \in {"release", "dead"}, drv' = [drv EXCEPT ![d].pc = pc], hw' = hw
      PROVE  Calm
  <2> DEFINE r == [drv[d] EXCEPT !.pc = pc]
  <2>1. drv' = [drv EXCEPT ![d] = r]
    BY <1>6
  <2>2. r \in DrvStates /\ r.pc = pc /\ r.pending = drv[d].pending
        /\ r.abandoned = drv[d].abandoned
    BY <1>0 DEF DrvStates
  <2> HIDE DEF r
  <2>3. QED BY <1>1, <1>2, <1>6, <2>1, <2>2, CalmThread
<1>7. CASE ReadRaises(d) \/ Report(d)
  <2>1. PICK pc \in {"release", "dead"} : drv' = [drv EXCEPT ![d].pc = pc]
    BY <1>7 DEF ReadRaises, Report
  <2>2. hw' = hw
    BY <1>7 DEF ReadRaises, Report
  <2>3. QED BY <1>6, <2>1, <2>2
<1>8. CASE ReadFrame(d)
  <2> DEFINE r == [drv[d] EXCEPT !.pc = "loop", !.fails = 0]
  <2>1. drv' = [drv EXCEPT ![d] = r] /\ hw' = hw /\ drv[d].pc = "read"
    BY <1>8 DEF ReadFrame, Thread
  <2>2. r \in DrvStates /\ r.pc = "loop" /\ r.pending = drv[d].pending /\ r.auto = drv[d].auto
        /\ r.abandoned = drv[d].abandoned
    BY <1>0, Bounds DEF DrvStates
  <2>3. Acquiring(d)
    BY <2>1 DEF Acquiring
  <2> HIDE DEF r
  <2>4. QED BY <1>1, <1>2, <2>1, <2>2, <2>3, CalmThread
<1>9. CASE ReadFails(d)
  <2> DEFINE n == drv[d].fails + 1
  <2>1. hw' = hw /\ drv[d].pc = "read"
    BY <1>9 DEF ReadFails, Thread
  <2>2. \/ drv' = [drv EXCEPT ![d] = [drv[d] EXCEPT !.pc = "release"]]
        \/ n < FailLimit /\ drv' = [drv EXCEPT ![d] = [drv[d] EXCEPT !.pc = "loop", !.fails = n]]
        \/ \E pc \in {"release", "report"} :
             drv' = [drv EXCEPT ![d] = [drv[d] EXCEPT !.running = FALSE, !.lost = TRUE, !.pc = pc]]
    <3>1. n \in Nat
      BY <1>0, Bounds DEF DrvStates
    <3>2. n < FailLimit \/ n >= FailLimit
      BY <3>1, Bounds
    <3>3. QED BY <1>9, <3>1, <3>2 DEF ReadFails
  <2>3. Acquiring(d)
    BY <2>1 DEF Acquiring
  <2>4. CASE drv' = [drv EXCEPT ![d] = [drv[d] EXCEPT !.pc = "release"]]
    BY <1>0, <1>6, <2>1, <2>4
  <2>5. CASE n < FailLimit /\ drv' = [drv EXCEPT ![d] = [drv[d] EXCEPT !.pc = "loop", !.fails = n]]
    <3> DEFINE r == [drv[d] EXCEPT !.pc = "loop", !.fails = n]
    <3>1. n \in 0..FailLimit
      BY <1>0, <2>5, Bounds DEF DrvStates
    <3> HIDE DEF n
    <3>2. r \in DrvStates /\ r.pc = "loop" /\ r.pending = drv[d].pending /\ r.auto = drv[d].auto
          /\ r.abandoned = drv[d].abandoned
      BY <1>0, <3>1 DEF DrvStates
    <3> HIDE DEF r
    <3>3. drv' = [drv EXCEPT ![d] = r]
      BY <2>5 DEF r
    <3>4. QED BY <1>1, <1>2, <2>1, <2>3, <3>2, <3>3, CalmThread
  <2>6. ASSUME NEW pc \in {"release", "report"},
               drv' = [drv EXCEPT ![d] =
                         [drv[d] EXCEPT !.running = FALSE, !.lost = TRUE, !.pc = pc]]
        PROVE  Calm
    <3> DEFINE r == [drv[d] EXCEPT !.running = FALSE, !.lost = TRUE, !.pc = pc]
    <3>1. r \in DrvStates /\ r.pc = pc /\ r.pending = drv[d].pending
          /\ r.abandoned = drv[d].abandoned
      BY <1>0 DEF DrvStates
    <3> HIDE DEF r
    <3>2. drv' = [drv EXCEPT ![d] = r]
      BY <2>6 DEF r
    <3>3. QED BY <1>1, <1>2, <2>1, <3>1, <3>2, CalmThread
  <2> HIDE DEF n
  <2>7. QED BY <2>2, <2>4, <2>5, <2>6
<1>10. CASE Release(d)
  <2>0. PICK on, pc : /\ on = (kind # "virtual" /\ drv[d].running)
                      /\ pc = IF kind = "aravis" /\ drv[d].lost THEN "report" ELSE "dead"
    OBVIOUS
  <2> DEFINE r == [drv[d] EXCEPT !.running = on, !.pc = pc, !.pending = <<>>, !.fails = 0]
  <2>1. r \in DrvStates /\ r.pc = pc /\ r.pending = <<>> /\ r.abandoned = drv[d].abandoned
    <3>1. on \in BOOLEAN /\ pc \in {"report", "dead"}
      BY <2>0
    <3>2. QED BY <1>0, <3>1, EmptyQueue, Bounds DEF DrvStates
  <2>2. drv' = [drv EXCEPT ![d] = r] /\ drv[d].pc = "release" /\ pc \in {"report", "dead"}
    BY <1>10, <2>0 DEF Release, Thread
  <2>3. current # NoDriver /\ d # current /\ Acquiring(current) => hw' = hw
    <3>1. CASE holder # d
      BY <1>10, <3>1 DEF Release
    <3>2. CASE holder = d
      <4>1. kind # "virtual" /\ current \in Drivers \cup {NoDriver}
        BY <3>2 DEF DriverInv, Shape, Held
      <4>2. QED BY <2>2, <4>1, OneHolder DEF Holding, Acquiring
    <3>3. QED BY <3>1, <3>2
  <2> HIDE DEF r
  <2>4. QED BY <1>1, <1>2, <2>1, <2>2, <2>3, CalmThread
<1>11. CASE Forget(d)
  <2>1. drv' = [drv EXCEPT ![d] = NoObject] /\ hw' = hw /\ drv[d].abandoned
    BY <1>11 DEF Forget, device
  <2>2. NoObject \in DrvStates /\ NoObject.pc = "none" /\ NoObject.pending = <<>>
        /\ ~NoObject.abandoned
    BY ObjectTyped DEF NoObject
  <2>3. d # current
    BY <1>0, <2>1, DriverAssumption
  <2>4. QED BY <1>1, <1>2, <2>1, <2>2, <2>3, CalmThread
<1>12. CASE ReadNothing(d)
  <2> DEFINE r == [drv[d] EXCEPT !.pc = "loop"]
  <2>1. drv' = [drv EXCEPT ![d] = r] /\ hw' = hw /\ drv[d].pc = "read"
    BY <1>12 DEF ReadNothing, Thread
  <2>2. r \in DrvStates /\ r.pc = "loop" /\ r.pending = drv[d].pending /\ r.auto = drv[d].auto
        /\ r.abandoned = drv[d].abandoned
    BY <1>0 DEF DrvStates
  <2>3. Acquiring(d)
    BY <2>1 DEF Acquiring
  <2> HIDE DEF r
  <2>4. QED BY <1>1, <1>2, <2>1, <2>2, <2>3, CalmThread
<1>13. CASE RunRaises(d)
  <2> DEFINE r == [drv[d] EXCEPT !.pc = "dead", !.running = TRUE]
  <2>1. drv' = [drv EXCEPT ![d] = r] /\ hw' = hw
    BY <1>13 DEF RunRaises
  <2>2. r \in DrvStates /\ r.pc = "dead" /\ r.pending = drv[d].pending
        /\ r.abandoned = drv[d].abandoned
    BY <1>0 DEF DrvStates
  <2> HIDE DEF r
  <2>3. QED BY <1>1, <1>2, <2>1, <2>2, CalmThread
<1>14. QED BY <1>4, <1>5, <1>7, <1>8, <1>9, <1>10, <1>11, <1>12, <1>13

\* The loop takes the queue: what was ahead is what the registers hold.
LEMMA LoopFollows ==
  ASSUME DriverInv, DriverTypes, FollowInv, NEW d \in Drivers, LoopHead(d), drv[d].running
  PROVE  FollowInv'
<1>0. /\ drv \in [Drivers -> DrvStates] /\ drv[d] \in DrvStates /\ hw \in Registers
      /\ current \in Drivers \cup {NoDriver} /\ d # NoDriver
      /\ UNCHANGED <<kind, set, excused, current, plugin, task>> /\ drv[d].pc = "loop"
  BY DriverAssumption DEF DriverTypes, DriverInv, Shape, LoopHead, Thread, session, params
<1>1. PICK x, q, s : /\ x = [hw |-> hw, auto |-> drv[d].auto] /\ q = drv[d].pending
                     /\ s = Applied(x, q)
  OBVIOUS
<1>2. /\ s \in States /\ x \in States /\ x.hw = hw /\ x.auto = drv[d].auto
      /\ q \in Seq(Entries)
  BY <1>0, <1>1, AppliedTyped DEF States, DrvStates, Queues
<1>3. s = Effect(kind, x, q)
  <2>1. Len(q) \in Nat
    BY <1>2, LenProperties
  <2>2. QED BY ONLY <1>1, <2>1, AppliedIsEffect
<1>4. PICK r : r = [drv[d] EXCEPT !.pc = "read", !.auto = s.auto, !.pending = <<>>]
  OBVIOUS
<1>5. drv' = [drv EXCEPT ![d] = r] /\ hw' = s.hw
  BY <1>1, <1>4 DEF LoopHead
<1>6. /\ r \in DrvStates /\ r.pc = "read" /\ r.auto = s.auto /\ r.pending = <<>>
      /\ r.abandoned = drv[d].abandoned
  BY <1>0, <1>2, <1>4, EmptyQueue DEF States, DrvStates
<1>7. CASE d # current
  <2>1. current # NoDriver /\ Acquiring(current) => hw' = hw
    <3>1. CASE kind = "virtual"
      <4>1. q = <<>>
        BY <1>1, <3>1 DEF FollowInv, EmptyQueues
      <4>2. s = x
        BY <1>3, <4>1, EffectEmpty
      <4>3. QED BY <1>2, <1>5, <4>2
    <3>2. CASE kind # "virtual"
      BY <1>0, <1>7, <3>2, OneHolder DEF Holding, Acquiring
    <3>3. QED BY <3>1, <3>2
  <2>2. Calm
    BY <1>0, <1>5, <1>6, <1>7, <2>1, CalmThread DEF Opened, At
  <2>3. QED BY <2>2, CalmStep
<1>8. CASE d = current
  <2>1. drv'[d] = r /\ \A e \in Drivers : e # d => drv'[e] = drv[e]
    BY <1>0, <1>5
  <2>2. EmptyQueues'
    BY <1>0, <1>6, <2>1 DEF FollowInv, EmptyQueues
  <2>3. Started'
    <3>1. kind # "aravis" => s.auto = s.hw.auto
      <4>1. kind # "aravis" => x.auto = x.hw.auto
        BY <1>0, <1>2, <1>8 DEF FollowInv, Started, Acquiring
      <4>2. QED BY ONLY <1>2, <1>3, <4>1, EffectTyped
    <3>2. QED BY <1>0, <1>5, <1>6, <1>8, <2>1, <3>1 DEF FollowInv, Started, Acquiring
  <2>4. Messaging'
    BY <1>0 DEF FollowInv, Messaging, Alone, Opened, At
  <2>5. Ahead = s
    BY <1>1, <1>3, <1>8 DEF Ahead
  <2>6. Ahead' = [hw |-> s.hw, auto |-> s.auto]
    <3>1. Ahead' = Effect(kind, [hw |-> s.hw, auto |-> s.auto], <<>>)
      BY <1>0, <1>5, <1>6, <1>8, <2>1 DEF Ahead
    <3>2. QED BY <3>1, EffectEmpty
  <2>7. Ahead'.hw = s.hw
    BY <2>6
  <2>8. FirstValues.auto = FirstValues'.auto /\ FirstValues'.fps = s.hw.fps
        /\ FirstValues.exposure = FirstValues'.exposure
    BY <1>0, <1>5 DEF FirstValues, AutoFirst
  <2>9. Pushed' = Pushed /\ (Opened' <=> Opened) /\ Acquiring(current)
    BY <1>0, <1>8 DEF Pushed, Opened, At, Acquiring
  <2>10. Follows'
    BY <1>0, <1>8, <2>5, <2>7, <2>8, <2>9 DEF FollowInv, Follows, Matches
  <2>11. QED BY <2>2, <2>3, <2>4, <2>10 DEF FollowInv
<1>9. QED BY <1>7, <1>8

LEMMA CloseFollows ==
  ASSUME DriverInv, DriverTypes, FollowInv, NEW t \in Tasks, Close(t)
  PROVE  FollowInv'
<1>0. /\ drv \in [Drivers -> DrvStates] /\ task \in [Tasks -> TaskStates] /\ "admin" \in Tasks
      /\ current \in Drivers \cup {NoDriver}
      /\ UNCHANGED <<kind, hw, set, excused>>
  BY DEF DriverTypes, DriverInv, Shape, Tasks, Close, CloseBegin, Stop, JoinAndRemove, device,
         params
<1>1. Opened' <=> Opened
  <2>1. /\ task[t].pc \in {"guard", "stop", "join"}
        /\ \/ task' = [task EXCEPT ![t] = IdleTask]
           \/ \E pc \in {"stop", "join", "lookup"} :
                \/ task' = [task EXCEPT ![t].pc = pc]
                \/ task' = [task EXCEPT ![t] = [task[t] EXCEPT !.pc = pc, !.drv = current]]
    <3>1. task[t] \in TaskStates
      BY <1>0
    <3>2. task[t].then \in {"idle", "lookup"}
      BY <3>1 DEF TaskStates
    <3>3. QED BY <3>2 DEF Close, CloseBegin, Stop, JoinAndRemove, Closed, Goto, At
  <2>2. task'[t].pc # "opened" /\ \A u \in Tasks : u # t => task'[u] = task[u]
    <3>1. task[t] \in TaskStates
      BY <1>0
    <3>2. \A pc : [task[t] EXCEPT !.pc = pc].pc = pc
                /\ [task[t] EXCEPT !.pc = pc, !.drv = current].pc = pc
      BY ONLY <3>1 DEF TaskStates
    <3>3. IdleTask.pc = "idle"
      BY DEF IdleTask
    <3>4. QED BY <1>0, <2>1, <3>2, <3>3
  <2>3. QED BY <1>0, <2>1, <2>2 DEF Opened, At
<1>2. SUFFICES Calm
  BY CalmStep
<1>3. CASE CloseBegin(t)
  BY <1>0, <1>1, <1>3 DEF CloseBegin, Calm, Acquiring
<1>4. task[t].pc \in {"stop", "join"} => task[t].drv \in Drivers
  BY DEF DriverInv, Sessions, Shape, At
<1>5. CASE Stop(t)
  <2> DEFINE d == task[t].drv
             r == [drv[d] EXCEPT !.running = FALSE]
  <2>1. d \in Drivers /\ drv' = [drv EXCEPT ![d] = r]
    BY <1>4, <1>5 DEF Stop, At
  <2>2. /\ r.pc = drv[d].pc /\ r.pending = drv[d].pending /\ r.auto = drv[d].auto
        /\ r.abandoned = drv[d].abandoned /\ r.init = drv[d].init
    BY <1>0, <2>1 DEF DrvStates
  <2> HIDE DEF r, d
  <2>3. \A e \in Drivers : /\ drv'[e].pc = drv[e].pc /\ drv'[e].pending = drv[e].pending
                           /\ drv'[e].auto = drv[e].auto
                           /\ drv'[e].abandoned = drv[e].abandoned
                           /\ drv'[e].init = drv[e].init
    <3>1. ASSUME NEW e \in Drivers
          PROVE  drv'[e] = IF e = d THEN r ELSE drv[e]
      BY <1>0, <2>1
    <3>2. QED BY <2>2, <3>1
  <2>4. current' = current /\ plugin' = plugin
    BY <1>5 DEF Stop, params
  <2>5. QED BY <1>0, <1>1, <2>3, <2>4 DEF Calm, Acquiring
<1>6. CASE JoinAndRemove(t)
  <2> DEFINE d == task[t].drv
             r == IF Alive(d) THEN [drv[d] EXCEPT !.abandoned = TRUE] ELSE NoObject
  <2>1. d \in Drivers /\ drv' = [drv EXCEPT ![d] = r] /\ current' = NoDriver
        /\ plugin' = plugin
    BY <1>4, <1>6 DEF JoinAndRemove, At, params
  <2>2. \/ r.pending = <<>> /\ ~r.abandoned
        \/ r.pending = drv[d].pending /\ r.pc = drv[d].pc /\ r.pc # "none"
    BY <1>0, <2>1 DEF DrvStates, NoObject, Alive
  <2> HIDE DEF r, d
  <2>3. \A e \in Drivers : drv'[e] = IF e = d THEN r ELSE drv[e]
    BY <1>0, <2>1
  <2>4. \A e \in Drivers : \/ drv'[e].pending = <<>> /\ ~drv'[e].abandoned
                           \/ /\ drv'[e].pending = drv[e].pending /\ drv'[e].pc = drv[e].pc
                              /\ drv[e].pc # "none" \/ drv'[e].abandoned = drv[e].abandoned
    BY <2>2, <2>3
  <2>5. QED BY <1>0, <1>1, <2>1, <2>4 DEF Calm
<1>7. QED BY <1>3, <1>5, <1>6 DEF Close

\* The steps of an open up to open() itself, and the world outside.
LEMMA OutsideFollows ==
  ASSUME DriverInv, DriverTypes, FollowInv,
         \/ AdminOpen \/ Lookup \/ OpenFails \/ Plug \/ LeftoverFreed \/ Scan \/ UNCHANGED vars
         \/ \E then \in {"idle", "lookup"} : AdminClose(then)
  PROVE  FollowInv'
<1>0. /\ drv \in [Drivers -> DrvStates] /\ task \in [Tasks -> TaskStates] /\ "admin" \in Tasks
      /\ current \in Drivers \cup {NoDriver}
      /\ UNCHANGED <<kind, hw, set, excused, plugin, current>>
  BY DEF DriverTypes, DriverInv, Shape, Tasks, AdminOpen, Lookup, OpenFails, Plug, LeftoverFreed,
         Scan, AdminClose, vars, device, session, params
<1>1. Opened' <=> Opened
  <2>1. \/ task' = task
        \/ /\ task["admin"].pc \in {"idle", "lookup", "device"}
           /\ \E r : task' = [task EXCEPT !["admin"] = r] /\ r.pc # "opened"
    <3>0. /\ task["admin"] \in TaskStates /\ IdleTask.pc = "idle"
          /\ [task["admin"] EXCEPT !.pc = "lookup"].pc = "lookup"
      BY <1>0 DEF TaskStates, IdleTask
    <3>1. CASE Lookup
      <4>1. PICK d, r : /\ d = CHOOSE e \in Fresh : TRUE
                        /\ r = [task["admin"] EXCEPT !.pc = "device", !.drv = d]
        OBVIOUS
      <4>2. \/ task' = [task EXCEPT !["admin"] = IdleTask]
            \/ task' = [task EXCEPT !["admin"] = r]
        BY <3>1, <4>1 DEF Lookup, Goto
      <4>3. r.pc = "device"
        BY <3>0, <4>1 DEF TaskStates
      <4>4. QED BY <3>0, <3>1, <4>2, <4>3 DEF Lookup, At
    <3>2. CASE AdminOpen \/ OpenFails
      BY <3>0, <3>2 DEF AdminOpen, OpenFails, At, Goto
    <3>3. CASE Plug \/ LeftoverFreed \/ Scan \/ UNCHANGED vars
      BY <3>3 DEF Plug, LeftoverFreed, Scan, vars, session
    <3>4. ASSUME NEW then \in {"idle", "lookup"}, AdminClose(then)
          PROVE  /\ task["admin"].pc = "idle"
                 /\ task' = [task EXCEPT !["admin"] =
                               [pc |-> "guard", drv |-> NoDriver, then |-> then]]
      BY <3>4 DEF AdminClose, At
    <3>5. QED BY <3>1, <3>2, <3>3, <3>4
  <2>2. task' # task => task["admin"].pc # "opened" /\ task'["admin"].pc # "opened"
    BY <1>0, <2>1
  <2>3. QED BY <2>2 DEF Opened, At
<1>2. SUFFICES Calm
  BY CalmStep
<1>3. CASE drv' = drv
  BY <1>0, <1>1, <1>3 DEF Calm, Acquiring
<1>4. CASE Lookup /\ drv' # drv
  <2>1. PICK d : d = CHOOSE e \in Fresh : TRUE
    OBVIOUS
  <2>2. d \in Fresh
    BY <1>4, <2>1 DEF Lookup
  <2>3. d \in Drivers /\ drv[d].pc = "none"
    BY <2>2 DEF Fresh, NoObject
  <2>4. PICK fps : drv' = [drv EXCEPT ![d].init = fps]
    BY <1>4, <2>1 DEF Lookup
  <2>5. PICK r : r = [drv[d] EXCEPT !.init = fps]
    OBVIOUS
  <2>6. r.pc = drv[d].pc /\ r.pending = drv[d].pending /\ r.abandoned = drv[d].abandoned
    BY <1>0, <2>3, <2>5 DEF DrvStates
  <2>7. \A e \in Drivers : drv'[e] = IF e = d THEN r ELSE drv[e]
    BY <1>0, <2>3, <2>4, <2>5
  <2>8. current # NoDriver => drv'[current] = drv[current]
    BY <1>0, <2>3, <2>7 DEF FollowInv, Started
  <2>9. \A e \in Drivers : /\ drv'[e].pending = drv[e].pending /\ drv'[e].pc = drv[e].pc
                           /\ drv'[e].abandoned = drv[e].abandoned
    BY <2>6, <2>7
  <2>10. QED BY <1>0, <1>1, <2>8, <2>9 DEF Calm, Acquiring
<1>5. CASE OpenFails
  <2>1. current = NoDriver /\ task["admin"].drv \in Drivers
        /\ drv' = [drv EXCEPT ![task["admin"].drv] = NoObject]
    BY <1>5 DEF OpenFails, DriverInv, Sessions
  <2>2. \A e \in Drivers : \/ drv'[e].pending = <<>> /\ ~drv'[e].abandoned
                           \/ drv'[e] = drv[e]
    BY <1>0, <2>1 DEF NoObject
  <2>3. QED BY <1>0, <1>1, <2>1, <2>2 DEF Calm
<1>6. (AdminOpen \/ Plug \/ LeftoverFreed \/ Scan \/ UNCHANGED vars
        \/ \E then \in {"idle", "lookup"} : AdminClose(then)) => drv' = drv
  BY DEF AdminOpen, Plug, LeftoverFreed, Scan, AdminClose, vars
<1>7. QED BY <1>3, <1>4, <1>5, <1>6

\* open() leaves the first values in the device, whatever the plugin has.
LEMMA OpenFollows ==
  ASSUME DriverInv, DriverTypes, FollowInv, OpenDevice
  PROVE  FollowInv'
<1>0. /\ drv \in [Drivers -> DrvStates] /\ task \in [Tasks -> TaskStates] /\ "admin" \in Tasks
      /\ UNCHANGED <<kind, set, excused, plugin>>
  BY DEF DriverTypes, DriverInv, Shape, Tasks, OpenDevice, params
<1>1. PICK d : d = task["admin"].drv
  OBVIOUS
<1>2. d \in Drivers /\ d # NoDriver /\ drv[d] \in DrvStates /\ drv[d].pc = "none"
  BY <1>0, <1>1, DriverAssumption DEF OpenDevice, DriverInv, Sessions
<1>3. drv[d].pending = <<>> /\ ~drv[d].abandoned
  BY <1>2 DEF FollowInv, EmptyQueues
<1>4. PICK r : r = [drv[d] EXCEPT !.pc = "begin", !.auto = AutoFirst,
                                  !.init = IF kind = "aravis" THEN drv[d].init ELSE 1]
  OBVIOUS
<1>5. drv' = [drv EXCEPT ![d] = r] /\ current' = d /\ hw' = Initial(drv[d].init)
  BY <1>1, <1>4 DEF OpenDevice
<1>6. /\ r.pc = "begin" /\ r.auto = AutoFirst /\ r.pending = <<>> /\ ~r.abandoned
      /\ kind = "aravis" => r.init = drv[d].init
  BY <1>2, <1>3, <1>4 DEF DrvStates
<1>7. drv'[d] = r /\ \A e \in Drivers : e # d => drv'[e] = drv[e]
  BY <1>0, <1>2, <1>5
<1>8. Opened'
  <2>1. task' = [task EXCEPT !["admin"].pc = "opened"]
    BY DEF OpenDevice, Goto
  <2>2. task["admin"] \in TaskStates
    BY <1>0
  <2>3. [task["admin"] EXCEPT !.pc = "opened"].pc = "opened"
    BY <2>2 DEF TaskStates
  <2>4. QED BY <1>0, <2>1, <2>3 DEF Opened, At
<1>9. Initial(drv[d].init).auto = AutoFirst
      /\ (~AutoFirst => Initial(drv[d].init).exposure = 1)
  BY DEF Initial
<1>10. EmptyQueues'
  BY <1>0, <1>6, <1>7 DEF FollowInv, EmptyQueues
<1>11. Started'
  BY <1>0, <1>2, <1>5, <1>6, <1>7, <1>9 DEF Started, AutoFirst, Initial
<1>12. Messaging'
  BY <1>0, <1>8 DEF FollowInv, Messaging, Alone
<1>13. Follows'
  <2>1. Ahead' = [hw |-> hw', auto |-> AutoFirst]
    <3>1. Ahead' = Effect(kind, [hw |-> hw', auto |-> AutoFirst], <<>>)
      BY <1>0, <1>5, <1>6, <1>7 DEF Ahead
    <3>2. QED BY <3>1, EffectEmpty
  <2>2. Ahead'.hw = hw'
    BY <2>1
  <2>3. FirstValues'.auto = AutoFirst /\ FirstValues'.exposure = 1 /\ FirstValues'.fps = hw'.fps
    BY <1>0 DEF FirstValues, AutoFirst
  <2>4. QED BY <1>0, <1>5, <1>8, <1>9, <2>2, <2>3 DEF Follows, Matches
<1>14. QED BY <1>10, <1>11, <1>12, <1>13 DEF FollowInv

\* on_camera_open seeds the plugin with what the device has, or pushes what it kept.
LEMMA NotifyFollows ==
  ASSUME DriverInv, DriverTypes, FollowInv, NotifyOpen
  PROVE  FollowInv'
<1>0. /\ drv \in [Drivers -> DrvStates] /\ task \in [Tasks -> TaskStates] /\ "admin" \in Tasks
      /\ current \in Drivers \cup {NoDriver} /\ set \in [Setters -> SetStates]
      /\ hw \in Registers /\ plugin \in Plugins /\ Opened
      /\ UNCHANGED <<kind, current>>
  BY DEF DriverTypes, DriverInv, Shape, Tasks, NotifyOpen, Opened
<1>1. ~Opened'
  <2>1. task' = [task EXCEPT !["admin"] = IdleTask]
    BY DEF NotifyOpen, Goto
  <2>2. QED BY <1>0, <2>1 DEF Opened, At, IdleTask
<1>2. Messaging'
  <2>1. ASSUME NEW s \in Setters
        PROVE  ~Alone(s)'
    <3>1. PICK b : b = (set[s].mixed \/ set[s].pc # "idle")
      OBVIOUS
    <3>2. set'[s] = [set[s] EXCEPT !.mixed = b] /\ set[s] \in SetStates
      BY <1>0, <3>1 DEF NotifyOpen, Overtaken
    <3>3. set'[s].mixed = b /\ set'[s].pc = set[s].pc
      BY <3>2 DEF SetStates
    <3>4. QED BY <3>1, <3>3 DEF Alone
  <2>2. QED BY <2>1 DEF Messaging
<1>3. CASE current = NoDriver
  <2>1. drv' = drv
    BY <1>3 DEF NotifyOpen
  <2>2. QED BY <1>0, <1>2, <1>3, <2>1 DEF FollowInv, EmptyQueues, Started, Follows
<1>4. CASE current # NoDriver /\ ~plugin.has
  <2>1. /\ UNCHANGED <<drv, hw>> /\ plugin' = Seeded
        /\ excused' = IF hw.fps = 1 THEN excused ELSE Keys
    BY <1>4 DEF NotifyOpen
  <2>2. EmptyQueues' /\ Started'
    BY <1>0, <2>1 DEF FollowInv, EmptyQueues, Started, Acquiring, Initial, AutoFirst
  <2>3. Ahead' = Ahead
    BY <1>0, <2>1 DEF Ahead
  <2>4. Seeded.auto = AutoFirst /\ Seeded.exposure = 1 /\ (kind # "rpi_img" => Seeded.fps = 1)
    BY DEF Seeded, HasFps
  <2>5. FirstValues.auto = AutoFirst /\ FirstValues.exposure = 1 /\ FirstValues.fps = hw.fps
    BY DEF FirstValues
  <2>6. Acquiring(current) => Matches(kind, Ahead, FirstValues, excused)
    BY <1>0, <1>4 DEF FollowInv, Follows
  <2>7. Acquiring(current) => Matches(kind, Ahead, Seeded, excused' \cup Pushed')
    <3>1. CASE hw.fps = 1
      BY <2>1, <2>4, <2>5, <2>6, <3>1 DEF Matches
    <3>2. CASE hw.fps # 1
      BY <2>1, <3>2 DEF Matches, Keys
    <3>3. QED BY <3>1, <3>2
  <2>8. Follows'
    BY <1>0, <1>1, <2>1, <2>3, <2>7 DEF Follows, Acquiring
  <2>9. QED BY <1>2, <2>2, <2>8 DEF FollowInv
<1>5. CASE current # NoDriver /\ plugin.has
  <2>0. current \in Drivers /\ drv[current] \in DrvStates
    BY <1>0, <1>5
  <2>1. /\ plugin' = [plugin EXCEPT !.open = TRUE]
        /\ excused' = IF drv[current].pending = <<>>
                      THEN {k \in {"exposure", "fps"} : plugin[k] = Unset} ELSE Keys
    BY <1>5 DEF NotifyOpen
  <2>2. plugin'.auto = plugin.auto /\ plugin'.exposure = plugin.exposure
        /\ plugin'.fps = plugin.fps
    BY <1>0, <2>1 DEF Plugins
  <2>3. \/ plugin.exposure = Unset /\ "exposure" \in excused'
        \/ plugin.exposure # Unset
        \/ excused' = Keys
    BY <2>1
  <2>4. \/ plugin.fps = Unset /\ "fps" \in excused'
        \/ plugin.fps # Unset
        \/ excused' = Keys
    BY <2>1
  <2>5. \A x : excused' = Keys => Matches(kind, x, plugin', excused' \cup Pushed')
    BY DEF Matches, Keys
  <2>6. CASE kind = "virtual"
    <3>1. drv' = drv /\ hw' = [hw EXCEPT !.fps = Take(hw.fps, plugin.fps)]
      BY <1>5, <2>6 DEF NotifyOpen
    <3>2. hw'.auto = hw.auto /\ hw'.fps = Take(hw.fps, plugin.fps)
      BY <1>0, <3>1 DEF Registers
    <3>3. EmptyQueues' /\ Started'
      BY <1>0, <2>6, <3>1, <3>2 DEF FollowInv, EmptyQueues, Started, Acquiring
    <3>4. Ahead' = [hw |-> hw', auto |-> drv[current].auto]
      <4>1. drv[current].pending = <<>>
        BY <2>0, <2>6 DEF FollowInv, EmptyQueues
      <4>2. Ahead' = Effect(kind, [hw |-> hw', auto |-> drv[current].auto], <<>>)
        BY <1>0, <3>1, <4>1 DEF Ahead
      <4>3. QED BY <4>2, EffectEmpty
    <3>5. Ahead'.hw = hw'
      BY <3>4
    <3>6. Matches(kind, Ahead', plugin', excused' \cup Pushed')
      BY <2>2, <2>4, <2>5, <2>6, <3>2, <3>5 DEF Matches, Take
    <3>7. Follows'
      BY <1>0, <1>1, <3>6 DEF Follows
    <3>8. QED BY <1>2, <3>3, <3>7 DEF FollowInv
  <2>7. CASE kind # "virtual"
    <3>1. PICK q, r : q = Restore(drv[current].pending) /\ r = [drv[current] EXCEPT !.pending = q]
      OBVIOUS
    <3>2. drv' = [drv EXCEPT ![current] = r] /\ hw' = hw
      BY <1>5, <2>7, <3>1 DEF NotifyOpen
    <3>3. /\ r.pc = drv[current].pc /\ r.auto = drv[current].auto /\ r.pending = q
          /\ r.abandoned = drv[current].abandoned /\ r.init = drv[current].init
      BY <2>0, <3>1 DEF DrvStates
    <3>4. drv'[current] = r /\ \A e \in Drivers : e # current => drv'[e] = drv[e]
      BY <1>0, <2>0, <3>2
    <3>5. drv[current].pc # "none"
      BY <1>5 DEF FollowInv, Started
    <3>6. EmptyQueues'
      BY <1>0, <2>0, <2>7, <3>3, <3>4, <3>5 DEF FollowInv, EmptyQueues
    <3>7. Started'
      BY <1>0, <3>2, <3>3, <3>4 DEF FollowInv, Started, Acquiring, Initial, AutoFirst
    <3>8. PICK s : s = [hw |-> hw, auto |-> drv[current].auto]
      OBVIOUS
    <3>9. Ahead' = Effect(kind, s, q)
      BY <1>0, <3>2, <3>3, <3>4, <3>8 DEF Ahead
    <3>10. s \in States
      BY <1>0, <2>0, <3>8 DEF States, DrvStates
    <3>11. drv[current].pending = <<>> =>
             /\ Ahead'.hw.auto = plugin.auto
             /\ ~plugin.auto /\ plugin.exposure # Unset => Ahead'.hw.exposure = plugin.exposure
             /\ HasFps /\ plugin.fps # Unset => Ahead'.hw.fps = plugin.fps
      <4>1. plugin.auto \in BOOLEAN /\ {plugin.exposure, plugin.fps} \subseteq Levels \cup {Unset}
        BY <1>0 DEF Plugins
      <4>2. drv[current].pending = <<>> => q = Restore(<<>>)
        BY <3>1
      <4>3. QED BY ONLY <3>9, <3>10, <4>1, <4>2, Restored
    <3>12. Matches(kind, Ahead', plugin', excused' \cup Pushed')
      <4>1. CASE excused' = Keys
        BY <2>5, <4>1
      <4>2. CASE excused' # Keys
        <5>1. drv[current].pending = <<>>
          BY <2>1, <4>2
        <5>2. QED BY <2>2, <2>3, <2>4, <3>11, <4>2, <5>1 DEF Matches, HasFps
      <4>3. QED BY <4>1, <4>2
    <3>13. Follows'
      BY <1>0, <1>1, <3>12 DEF Follows
    <3>14. QED BY <1>2, <3>6, <3>7, <3>13 DEF FollowInv
  <2>8. QED BY <2>6, <2>7
<1>6. QED BY <1>3, <1>4, <1>5

LEMMA MatchesLess ==
  ASSUME NEW k, NEW x, NEW values, NEW e, NEW f, e \subseteq f, Matches(k, x, values, e)
  PROVE  Matches(k, x, values, f)
BY DEF Matches

LEMMA BeginFollows ==
  ASSUME DriverInv, DriverTypes, FollowInv, NEW s \in Setters, NEW k, NEW v, SetBegin(s, k, v)
  PROVE  FollowInv'
<1>0. /\ set \in [Setters -> SetStates]
      /\ UNCHANGED <<kind, hw, drv, current, task, plugin, excused>>
  BY DEF DriverTypes, SetBegin, device, session
<1>1. PICK others : others = \E o \in Setters \ {s} : set[o].pc # "idle"
  OBVIOUS
<1>2. /\ set'[s] = [pc |-> "field", key |-> k, val |-> v, drv |-> current, mixed |-> others]
      /\ \A o \in Setters : o # s => set'[o] = [set[o] EXCEPT !.mixed = set[o].pc # "idle"]
      /\ set[s].pc = "idle"
  BY <1>1 DEF SetBegin
<1>3. /\ set'[s].pc = "field" /\ set'[s].drv = current /\ set'[s].mixed = others
      /\ \A o \in Setters : o # s => /\ set'[o].pc = set[o].pc /\ set'[o].key = set[o].key
                                     /\ set'[o].mixed = (set[o].pc # "idle")
  <2>1. ASSUME NEW o \in Setters, o # s
        PROVE  /\ set'[o].pc = set[o].pc /\ set'[o].key = set[o].key
               /\ set'[o].mixed = (set[o].pc # "idle")
    <3>1. PICK b : b = (set[o].pc # "idle")
      OBVIOUS
    <3>2. set'[o] = [set[o] EXCEPT !.mixed = b] /\ set[o] \in SetStates
      BY <1>0, <1>2, <2>1, <3>1
    <3>3. set'[o].pc = set[o].pc /\ set'[o].key = set[o].key /\ set'[o].mixed = b
      BY <3>2 DEF SetStates
    <3>4. QED BY <3>1, <3>3
  <2>2. QED BY <1>2, <2>1
<1>4. EmptyQueues' /\ Started'
  BY <1>0 DEF FollowInv, EmptyQueues, Started, Acquiring, Initial, AutoFirst
<1>5. Messaging'
  BY <1>0, <1>1, <1>3 DEF Messaging, Alone
<1>6. Pushed \subseteq Pushed'
  BY <1>2, <1>3 DEF Pushed
<1>7. Ahead' = Ahead /\ FirstValues' = FirstValues
  BY <1>0 DEF Ahead, FirstValues, AutoFirst
<1>8. Follows'
  <2>1. excused \cup Pushed \subseteq excused \cup Pushed'
    BY <1>6
  <2>2. QED BY <1>0, <1>7, <2>1, MatchesLess DEF FollowInv, Follows, Acquiring, Opened, At
<1>9. QED BY <1>4, <1>5, <1>8 DEF FollowInv

\* The field is assigned before the driver is told: meanwhile its key is in Pushed.
LEMMA FieldFollows ==
  ASSUME DriverInv, DriverTypes, FollowInv, NEW s \in Setters, SetField(s)
  PROVE  FollowInv'
<1>0. /\ set \in [Setters -> SetStates] /\ set[s] \in SetStates /\ plugin \in Plugins
      /\ set[s].pc = "field"
      /\ UNCHANGED <<kind, hw, drv, current, task, excused>>
  BY DEF DriverTypes, SetField, device, session
<1>1. EmptyQueues' /\ Started'
  BY <1>0 DEF FollowInv, EmptyQueues, Started, Acquiring, Initial, AutoFirst
<1>2. Ahead' = Ahead /\ FirstValues' = FirstValues
  BY <1>0 DEF Ahead, FirstValues, AutoFirst
<1>3. \A o \in Setters : o # s => set'[o] = set[o] /\ ~Alone(o)
  <2>1. \A o \in Setters : o # s => set'[o] = set[o]
    BY <1>0 DEF SetField
  <2>2. QED BY <1>0, <2>1 DEF FollowInv, Messaging
<1>4. CASE plugin' = plugin /\ set' = [set EXCEPT ![s] = IdleSetter]
  <2>1. set'[s].pc = "idle"
    BY <1>0, <1>4 DEF IdleSetter
  <2>2. Messaging'
    BY <1>3, <2>1 DEF Messaging, Alone
  <2>3. Pushed \subseteq Pushed'
    BY <1>0, <1>3 DEF Pushed
  <2>4. excused \cup Pushed \subseteq excused \cup Pushed'
    BY <2>3
  <2>5. Follows'
    BY <1>0, <1>2, <1>4, <2>4, MatchesLess DEF FollowInv, Follows, Acquiring, Opened, At
  <2>6. QED BY <1>1, <2>2, <2>5 DEF FollowInv
<1>5. CASE /\ plugin' = [plugin EXCEPT ![set[s].key] = set[s].val]
           /\ set' = [set EXCEPT ![s].pc = "push"]
  <2>1. PICK k, v : k = set[s].key /\ v = set[s].val
    OBVIOUS
  <2>2. k \in {"auto", "exposure", "fps"}
    BY <1>0, <2>1 DEF SetStates
  <2>3. set'[s] = [set[s] EXCEPT !.pc = "push"]
    BY <1>0, <1>5
  <2>4. /\ set'[s].pc = "push" /\ set'[s].key = k /\ set'[s].val = v
        /\ set'[s].drv = set[s].drv /\ set'[s].mixed = set[s].mixed
    BY <1>0, <2>1, <2>3 DEF SetStates
  <2>5. /\ plugin'[k] = v /\ plugin'.has = plugin.has /\ plugin'.open = plugin.open
        /\ k # "auto" => plugin'.auto = plugin.auto
        /\ k # "exposure" => plugin'.exposure = plugin.exposure
        /\ k # "fps" => plugin'.fps = plugin.fps
    BY <1>0, <1>5, <2>1, <2>2 DEF Plugins
  <2>6. Messaging'
    BY <1>0, <1>3, <2>1, <2>4, <2>5 DEF FollowInv, Messaging, Alone, Opened, At
  <2>7. excused \cup Pushed \subseteq excused \cup Pushed' /\ k \in Pushed'
    <3>1. Pushed \subseteq Pushed'
      BY <1>0, <1>3 DEF Pushed
    <3>2. k \in Pushed'
      BY <2>4 DEF Pushed
    <3>3. QED BY <3>1, <3>2
  <2>8. ASSUME Matches(kind, Ahead, plugin, excused \cup Pushed)
        PROVE  Matches(kind, Ahead, plugin', excused \cup Pushed')
    BY <2>2, <2>5, <2>7, <2>8 DEF Matches
  <2>9. Follows'
    BY <1>0, <1>2, <2>5, <2>8 DEF FollowInv, Follows, Acquiring, Opened, At
  <2>10. QED BY <1>1, <2>6, <2>9 DEF FollowInv
<1>6. QED BY <1>4, <1>5 DEF SetField

\* The flag of every driver but Aravis' stays the mode of the device.
LEMMA AheadTyped ==
  ASSUME DriverInv, DriverTypes, FollowInv, current # NoDriver
  PROVE  /\ [hw |-> hw, auto |-> drv[current].auto] \in States
         /\ drv[current].pending \in Seq(Entries) /\ Ahead \in States
         /\ Acquiring(current) /\ kind # "aravis" => Ahead.auto = Ahead.hw.auto
         /\ kind = "virtual" => Ahead = [hw |-> hw, auto |-> drv[current].auto]
<1>1. current \in Drivers /\ drv[current] \in DrvStates /\ hw \in Registers
  BY DEF DriverInv, DriverTypes, Shape
<1>2. PICK x, q : x = [hw |-> hw, auto |-> drv[current].auto] /\ q = drv[current].pending
  OBVIOUS
<1>3. x \in States /\ q \in Seq(Entries) /\ x.auto = drv[current].auto /\ x.hw = hw
  BY <1>1, <1>2 DEF States, DrvStates, Queues
<1>4. Ahead = Effect(kind, x, q)
  BY <1>2 DEF Ahead
<1>5. Acquiring(current) /\ kind # "aravis" => x.auto = x.hw.auto
  BY <1>3 DEF FollowInv, Started
<1>6. Effect(kind, x, q) \in States
      /\ (Acquiring(current) /\ kind # "aravis"
             => Effect(kind, x, q).auto = Effect(kind, x, q).hw.auto)
  BY ONLY <1>3, <1>5, EffectTyped
<1>7. kind = "virtual" => Ahead = x
  <2>1. kind = "virtual" => q = <<>>
    BY <1>1, <1>2 DEF FollowInv, EmptyQueues
  <2>2. QED BY <1>4, <2>1, EffectEmpty
<1>8. QED BY <1>2, <1>3, <1>4, <1>6, <1>7

\* What a message does to the values ahead.
PushesTo(r) ==
  /\ r.key = "fps" => Ahead'.hw.auto = Ahead.hw.auto /\ Ahead'.hw.exposure = Ahead.hw.exposure
  /\ r.key # "fps" => Ahead'.hw.fps = Ahead.hw.fps
  /\ r.drv = NoDriver => Ahead' = Ahead /\ hw' = hw
  /\ r.drv = current /\ Acquiring(current) =>
       /\ r.key = "fps" /\ kind # "rpi_img" => Ahead'.hw.fps = r.val
       /\ /\ kind # "virtual" /\ r.key # "fps"
          /\ \A i \in DOMAIN drv[current].pending : drv[current].pending[i].key = "fps"
          => \E e \in Entries : /\ e.key = r.key /\ e.val = r.val
                                /\ Changed(kind, Ahead, e, Ahead')

LEMMA Pushing ==
  ASSUME DriverInv, DriverTypes, FollowInv, NEW s \in Setters, SetPush(s)
  PROVE  /\ EmptyQueues' /\ Started'
         /\ kind # "virtual" \/ set[s].key # "fps" => hw' = hw
         /\ \A d \in Drivers : drv'[d].pc = drv[d].pc
         /\ current # NoDriver => PushesTo(set[s])
<1>0. /\ set[s] \in SetStates /\ drv \in [Drivers -> DrvStates] /\ hw \in Registers
      /\ current \in Drivers \cup {NoDriver}
      /\ UNCHANGED <<kind, current>>
  BY DEF DriverTypes, DriverInv, Shape, SetPush, session
<1>1. PICK d, e : d = set[s].drv /\ e = [key |-> set[s].key, val |-> set[s].val]
  OBVIOUS
<1>2. /\ e \in Entries /\ e.key = set[s].key /\ e.val = set[s].val
      /\ e.key = "fps" => e.val \in Levels
      /\ d \in Drivers \cup {NoDriver}
  BY <1>0, <1>1 DEF SetStates, Entries
<1>3. \/ UNCHANGED <<hw, drv>> /\ (d = NoDriver \/ drv[d].pc \in {"none", "dead"})
      \/ /\ kind = "virtual" /\ d # NoDriver /\ drv' = drv
         /\ hw' = IF e.key = "fps" THEN [hw EXCEPT !.fps = e.val] ELSE hw
      \/ /\ kind # "virtual" /\ hw' = hw /\ d # NoDriver /\ drv[d].pc # "none"
         /\ drv' = [drv EXCEPT ![d] = [drv[d] EXCEPT !.pending =
                                        Put(drv[d].pending, e.key, e.val)]]
  BY <1>1, <1>2 DEF SetPush, SetParam
<1>4. CASE UNCHANGED <<hw, drv>> /\ (d = NoDriver \/ drv[d].pc \in {"none", "dead"})
  <2>1. EmptyQueues' /\ Started'
    BY <1>0, <1>4 DEF FollowInv, EmptyQueues, Started, Acquiring, Initial, AutoFirst
  <2>2. Ahead' = Ahead
    BY <1>0, <1>4 DEF Ahead
  <2>3. current # NoDriver => ~(d = current /\ Acquiring(current))
    BY <1>4 DEF Acquiring
  <2>4. QED BY <1>0, <1>1, <1>4, <2>1, <2>2, <2>3 DEF PushesTo
<1>5. CASE /\ kind = "virtual" /\ d # NoDriver /\ drv' = drv
           /\ hw' = IF e.key = "fps" THEN [hw EXCEPT !.fps = e.val] ELSE hw
  <2>1. /\ hw'.auto = hw.auto /\ hw'.exposure = hw.exposure
        /\ hw'.fps = IF e.key = "fps" THEN e.val ELSE hw.fps
    BY <1>0, <1>5 DEF Registers
  <2>2. EmptyQueues' /\ Started'
    BY <1>0, <1>5, <2>1 DEF FollowInv, EmptyQueues, Started, Acquiring
  <2>3. current # NoDriver => Ahead.hw = hw /\ Ahead'.hw = hw'
    <3>1. current # NoDriver => drv[current].pending = <<>>
      BY <1>0, <1>5 DEF FollowInv, EmptyQueues
    <3>2. current # NoDriver =>
            Ahead' = Effect(kind, [hw |-> hw', auto |-> drv[current].auto], <<>>)
      BY <1>0, <1>5, <3>1 DEF Ahead
    <3>3. current # NoDriver => Ahead' = [hw |-> hw', auto |-> drv[current].auto]
      BY <3>2, EffectEmpty
    <3>4. QED BY <1>5, <3>3, AheadTyped
  <2>4. QED BY <1>0, <1>1, <1>2, <1>5, <2>1, <2>2, <2>3 DEF PushesTo
<1>6. CASE /\ kind # "virtual" /\ hw' = hw /\ d # NoDriver /\ drv[d].pc # "none"
           /\ drv' = [drv EXCEPT ![d] = [drv[d] EXCEPT !.pending =
                                           Put(drv[d].pending, e.key, e.val)]]
  <2>1. PICK p, r : /\ p = Put(drv[d].pending, e.key, e.val)
                    /\ r = [drv[d] EXCEPT !.pending = p]
    OBVIOUS
  <2>2. d \in Drivers /\ drv[d] \in DrvStates /\ drv' = [drv EXCEPT ![d] = r]
    BY <1>0, <1>2, <1>6, <2>1
  <2>3. /\ r.pc = drv[d].pc /\ r.auto = drv[d].auto /\ r.pending = p
        /\ r.abandoned = drv[d].abandoned /\ r.init = drv[d].init
    BY <2>1, <2>2 DEF DrvStates
  <2>4. drv'[d] = r /\ \A f \in Drivers : f # d => drv'[f] = drv[f]
    BY <1>0, <2>2
  <2>5. EmptyQueues'
    BY <1>0, <1>6, <2>3, <2>4 DEF FollowInv, EmptyQueues
  <2>6. Started'
    <3>1. current # NoDriver =>
            /\ drv'[current].pc = drv[current].pc /\ drv'[current].auto = drv[current].auto
            /\ drv'[current].abandoned = drv[current].abandoned
            /\ drv'[current].init = drv[current].init
      BY <1>0, <2>3, <2>4
    <3>2. QED BY <1>0, <1>6, <3>1 DEF FollowInv, Started, Acquiring, Initial, AutoFirst
  <2>7. \A f \in Drivers : drv'[f].pc = drv[f].pc
    BY <2>3, <2>4
  <2>8. ASSUME current # NoDriver
        PROVE  PushesTo(set[s])
    <3>1. CASE d # current
      <4>1. drv'[current] = drv[current]
        BY <1>0, <2>4, <2>8, <3>1
      <4>2. Ahead' = Ahead
        BY <1>0, <1>6, <4>1 DEF Ahead
      <4>3. QED BY <1>1, <1>6, <3>1, <4>2 DEF PushesTo
    <3>2. CASE d = current
      <4>1. PICK x, q : x = [hw |-> hw, auto |-> drv[d].auto] /\ q = drv[d].pending
        OBVIOUS
      <4>2. x \in States /\ q \in Seq(Entries) /\ Ahead \in States
        BY <2>8, <3>2, <4>1, AheadTyped
      <4>3. Ahead = Effect(kind, x, q) /\ Ahead' = Effect(kind, x, p)
        BY <1>0, <1>6, <2>3, <2>4, <3>2, <4>1 DEF Ahead
      <4>4. p = Put(q, e.key, e.val)
        BY <2>1, <4>1
      <4>5. PICK y : y = Ahead'
        OBVIOUS
      <4>6. y = Effect(kind, x, p)
        BY <4>3, <4>5
      <4>7. e.key = "fps" => /\ y.hw.auto = Ahead.hw.auto /\ y.hw.exposure = Ahead.hw.exposure
                             /\ kind # "rpi_img" /\ e.val # Unset => y.hw.fps = e.val
        BY ONLY <1>2, <4>2, <4>3, <4>4, <4>6, PutFps
      <4>8. e.key # "fps" => y.hw.fps = Ahead.hw.fps
        BY ONLY <1>2, <4>2, <4>3, <4>4, <4>6, PutOther
      <4>9. e.key # "fps" /\ (\A i \in DOMAIN q : q[i].key = "fps")
              => Changed(kind, Ahead, e, y)
        BY ONLY <1>2, <4>2, <4>3, <4>4, <4>6, PutFirst
      <4>10. e.key = "fps" => e.val # Unset
        BY <1>2 DEF Levels, Unset
      <4>11. QED BY <1>1, <1>2, <1>6, <3>2, <4>1, <4>5, <4>7, <4>8, <4>9, <4>10 DEF PushesTo
    <3>3. QED BY <3>1, <3>2
  <2>9. QED BY <1>6, <2>5, <2>6, <2>7, <2>8
<1>7. QED BY <1>3, <1>4, <1>5, <1>6

\* The push settles the key, or the key is excused.
LEMMA PushFollows ==
  ASSUME DriverInv, DriverTypes, FollowInv, NEW s \in Setters, SetPush(s)
  PROVE  FollowInv'
<1>0. /\ set \in [Setters -> SetStates] /\ set[s] \in SetStates /\ plugin \in Plugins
      /\ set[s].pc = "push" /\ set' = [set EXCEPT ![s] = IdleSetter]
      /\ UNCHANGED <<kind, current, task, plugin>>
  BY DEF DriverTypes, SetPush, session
<1>1. PICK r : r = set[s]
  OBVIOUS
<1>2. /\ r.key \in Keys /\ r.drv \in Drivers \cup {NoDriver} /\ r.mixed \in BOOLEAN
      /\ r.key = "auto" => r.val \in BOOLEAN
      /\ r.key # "auto" => r.val \in Levels
  BY <1>0, <1>1 DEF SetStates, Keys
<1>3. set'[s].pc = "idle" /\ \A o \in Setters : o # s => set'[o] = set[o]
  BY <1>0 DEF IdleSetter
<1>4. Messaging'
  <2>1. \A o \in Setters : ~Alone(o)'
    BY <1>0, <1>3 DEF FollowInv, Messaging, Alone
  <2>2. QED BY <2>1 DEF Messaging
<1>5. EmptyQueues' /\ Started' /\ (kind # "virtual" \/ r.key # "fps" => hw' = hw)
      /\ \A d \in Drivers : drv'[d].pc = drv[d].pc
  BY <1>1, Pushing
<1>6. SUFFICES ASSUME current # NoDriver, Acquiring(current)'
               PROVE  Follows'
  BY <1>0, <1>4, <1>5 DEF FollowInv, Follows
<1>7. current \in Drivers /\ Acquiring(current) /\ drv[current].pc \notin {"none", "dead"}
  BY <1>0, <1>5, <1>6 DEF DriverInv, Shape, Acquiring
<1>8. PushesTo(r)
  BY <1>1, <1>6, Pushing
<1>9. Pushed \subseteq Pushed' \cup {r.key}
  <2>1. ASSUME NEW o \in Setters, set[o].pc = "push"
        PROVE  set[o].key \in Pushed' \cup {r.key}
    <3>1. CASE o = s
      BY <1>1, <3>1
    <3>2. CASE o # s
      BY <1>3, <2>1, <3>2 DEF Pushed
    <3>3. QED BY <3>1, <3>2
  <2>2. QED BY <2>1 DEF Pushed
<1>10. PICK unsettled : unsettled = IF r.drv = NoDriver
                                    THEN (IF r.mixed THEN Coupled(r.key) ELSE {})
                                    ELSE Unsettled(r, drv[r.drv].pending)
  OBVIOUS
<1>11. excused' = IF unsettled # {} \/ "auto" \in excused \/ r.drv = NoDriver
                  THEN excused \cup unsettled ELSE excused \ {r.key}
  BY <1>1, <1>10 DEF SetPush
<1>12. Coupled(r.key) = (IF r.key = "fps" THEN {"fps"} ELSE {"auto", "exposure"})
       /\ r.key \in Coupled(r.key)
  BY <1>2 DEF Coupled, Keys
<1>13. CASE unsettled = Coupled(r.key)
  <2>1. excused' = excused \cup Coupled(r.key)
    BY <1>11, <1>12, <1>13
  <2>2. excused \cup Pushed \subseteq excused' \cup Pushed'
    BY <1>9, <1>12, <2>1
  <2>3. ASSUME NEW v, NEW w, NEW e, Matches(kind, Ahead, v, e), NEW f, e \subseteq f,
               Coupled(r.key) \subseteq f, w.auto = v.auto, w.exposure = v.exposure,
               r.key # "fps" => w.fps = v.fps
        PROVE  Matches(kind, Ahead', w, f)
    BY <1>8, <1>12, <2>3 DEF Matches, PushesTo
  <2>4. /\ FirstValues'.auto = FirstValues.auto /\ FirstValues'.exposure = FirstValues.exposure
        /\ r.key # "fps" => FirstValues'.fps = FirstValues.fps
    BY <1>0, <1>5 DEF FirstValues, AutoFirst
  <2>5. Coupled(r.key) \subseteq excused' /\ excused \subseteq excused'
    BY <2>1
  <2>6. ~Opened /\ plugin.has /\ plugin.open
          => Matches(kind, Ahead', plugin, excused' \cup Pushed')
    BY <1>6, <1>7, <2>2, <2>3, <2>5 DEF FollowInv, Follows
  <2>7. Opened /\ ~plugin.has => Matches(kind, Ahead', FirstValues', excused')
    BY <1>6, <1>7, <2>3, <2>4, <2>5 DEF FollowInv, Follows
  <2>8. QED BY <1>0, <2>6, <2>7 DEF Follows, Opened, At
<1>14. CASE unsettled # Coupled(r.key)
  <2>0. PICK rewrite : rewrite = (r.key # "fps" /\ \E i \in DOMAIN drv[r.drv].pending :
                                                    drv[r.drv].pending[i].key # "fps")
    OBVIOUS
  <2>9. Unsettled(r, drv[r.drv].pending) =
          IF r.mixed \/ ~plugin.has \/ rewrite THEN Coupled(r.key)
          ELSE IF r.key = "exposure" /\ plugin.auto /\ kind = "aravis" THEN Coupled(r.key)
          ELSE IF (r.key = "auto" /\ ~r.val) \/ (r.key = "exposure" /\ plugin.auto)
               THEN {"exposure"} ELSE {}
    BY <2>0 DEF Unsettled
  <2>1. r.drv # NoDriver => /\ ~r.mixed /\ plugin.has
                            /\ \/ r.key = "fps"
                               \/ \A i \in DOMAIN drv[r.drv].pending :
                                    drv[r.drv].pending[i].key = "fps"
    BY <1>10, <1>14, <2>0, <2>9
  <2>2. ~r.mixed
    BY <1>2, <1>10, <1>14, <2>1
  <2>3. Alone(s)
    BY <1>0, <1>1, <2>2 DEF Alone
  <2>4. /\ \A o \in Setters \ {s} : set[o].pc = "idle"
        /\ ~Opened => r.drv = current
        /\ plugin[r.key] = r.val
    BY <1>0, <1>1, <1>6, <2>3 DEF FollowInv, Messaging
  <2>5. Pushed = {r.key}
    BY <1>0, <1>1, <2>4 DEF Pushed
  <2>6. Opened /\ ~plugin.has => Matches(kind, Ahead', FirstValues', excused')
    <3>1. SUFFICES ASSUME Opened, ~plugin.has
                   PROVE  Matches(kind, Ahead', FirstValues', excused')
      OBVIOUS
    <3>2. r.drv = NoDriver
      BY <2>1, <3>1
    <3>3. Ahead' = Ahead /\ hw' = hw /\ excused \subseteq excused'
      BY <1>8, <1>11, <3>2 DEF PushesTo
    <3>4. FirstValues' = FirstValues
      BY <1>0, <3>3 DEF FirstValues, AutoFirst
    <3>5. Matches(kind, Ahead, FirstValues, excused)
      BY <1>6, <1>7, <3>1 DEF FollowInv, Follows
    <3>6. QED BY <3>3, <3>4, <3>5, MatchesLess
  <2>7. ASSUME ~Opened, plugin.has, plugin.open
        PROVE  Matches(kind, Ahead', plugin, excused' \cup Pushed')
    <3>1. r.drv = current
      BY <2>4, <2>7
    <3>2. r.drv # NoDriver /\ Matches(kind, Ahead, plugin, excused \cup {r.key})
      BY <1>6, <1>7, <2>5, <2>7, <3>1 DEF FollowInv, Follows
    <3>3. /\ (r.key = "auto" /\ ~r.val) \/ (r.key = "exposure" /\ plugin.auto)
                => "exposure" \in unsettled
          /\ r.key = "exposure" /\ plugin.auto => kind # "aravis"
      BY <1>10, <1>14, <2>9, <3>2
    <3>4. excused \ {r.key} \subseteq excused'
          /\ ("auto" \in excused => "auto" \in excused') /\ unsettled \subseteq excused'
      BY <1>11
    <3>5. CASE r.key = "fps"
      <4>1. /\ kind # "rpi_img" => Ahead'.hw.fps = plugin.fps
            /\ Ahead'.hw.auto = Ahead.hw.auto /\ Ahead'.hw.exposure = Ahead.hw.exposure
        BY <1>7, <1>8, <2>4, <3>1, <3>5 DEF PushesTo
      <4>2. QED BY <3>2, <3>4, <3>5, <4>1 DEF Matches
    <3>6. CASE r.key # "fps" /\ kind = "virtual"
      <4>1. Ahead'.hw.fps = Ahead.hw.fps
        BY <1>8, <3>6 DEF PushesTo
      <4>2. QED BY <3>2, <3>4, <3>6, <4>1 DEF Matches
    <3>7. CASE r.key # "fps" /\ kind # "virtual"
      <4>1. PICK e \in Entries : e.key = r.key /\ e.val = r.val /\ Changed(kind, Ahead, e, Ahead')
        BY <1>7, <1>8, <2>1, <3>1, <3>2, <3>7 DEF PushesTo
      <4>2. Ahead'.hw.fps = Ahead.hw.fps
        BY <1>8, <3>7 DEF PushesTo
      <4>3. "fps" \notin excused' => "fps" \notin excused \cup {r.key}
        BY <3>4, <3>7
      <4>4. CASE r.key = "auto"
        <5>1. Ahead'.hw.auto = r.val /\ r.val = plugin.auto
          BY <2>4, <4>1, <4>4 DEF Changed
        <5>2. ~plugin.auto => "exposure" \in excused'
          BY <3>3, <3>4, <4>4, <5>1
        <5>3. QED BY <3>2, <4>2, <4>3, <5>1, <5>2 DEF Matches
      <4>5. CASE r.key = "exposure"
        <5>1. Ahead \in States /\ (kind # "aravis" => Ahead.auto = Ahead.hw.auto)
          BY <1>6, <1>7, AheadTyped
        <5>2. Ahead.auto \in BOOLEAN /\ Ahead.hw.auto \in BOOLEAN /\ plugin.auto \in BOOLEAN
          BY <1>0, <5>1 DEF States, Registers, Plugins
        <5>3. "auto" \notin excused' => Ahead.hw.auto = plugin.auto
          BY <3>2, <3>4, <3>7, <4>5 DEF Matches
        <5>4. CASE plugin.auto
          <6>1. kind # "aravis"
            BY <3>3, <4>5, <5>4
          <6>2. "auto" \notin excused' => Ahead' = Ahead
            BY <4>1, <4>5, <5>1, <5>2, <5>3, <5>4, <6>1 DEF Changed
          <6>3. QED BY <3>2, <4>2, <4>3, <5>3, <5>4, <6>2 DEF Matches
        <5>5. CASE ~plugin.auto
          <6>1. "auto" \notin excused' => ~Ahead.auto \/ kind = "aravis"
            BY <5>1, <5>2, <5>3, <5>5
          <6>2. r.val \in Levels /\ plugin.exposure = r.val
            BY <1>2, <2>4, <4>5
          <6>3. "auto" \notin excused' => /\ Ahead'.hw.auto = FALSE
                                          /\ Ahead'.hw.exposure = plugin.exposure
            BY <4>1, <4>5, <6>1, <6>2 DEF Changed, Take, Levels, Unset
          <6>4. QED BY <3>2, <4>2, <4>3, <5>2, <5>5, <6>3 DEF Matches
        <5>6. QED BY <5>2, <5>4, <5>5
      <4>6. QED BY <1>2, <3>7, <4>4, <4>5 DEF Keys
    <3>8. QED BY <3>5, <3>6, <3>7
  <2>8. QED BY <1>0, <2>6, <2>7 DEF Follows, Opened, At
<1>15. QED BY <1>13, <1>14

LEMMA FollowStep == DriverInv /\ DriverTypes /\ FollowInv /\ [Next]_vars => FollowInv'
<1> SUFFICES ASSUME DriverInv, DriverTypes, FollowInv, [Next]_vars PROVE FollowInv'
  OBVIOUS
<1>1. ASSUME NEW d \in Drivers,
             \/ RunBegin(d) \/ RunRaises(d) \/ LoopHead(d)
             \/ ReadFrame(d) \/ ReadFails(d) \/ ReadNothing(d) \/ ReadRaises(d)
             \/ Report(d) \/ Release(d) \/ Forget(d)
      PROVE  FollowInv'
  BY <1>1, ThreadFollows, LoopFollows
<1>2. ASSUME NEW s \in Setters,
             SetField(s) \/ SetPush(s) \/ \E m \in Messages : SetBegin(s, m[1], m[2])
      PROVE  FollowInv'
  BY <1>2, BeginFollows, FieldFollows, PushFollows
<1>3. QED BY <1>1, <1>2, CloseFollows, OutsideFollows, OpenFollows, NotifyFollows DEF Next, Open

LEMMA AlwaysFollows == Spec => []FollowInv
BY FollowInit, FollowStep, Inductive, AlwaysTyped, PTL DEF Spec
-----------------------------------------------------------------------------
\* The device a thread reads is its own: no other driver has taken it.  Threads whose
\* join timed out keep their device until they end.  Model-checked by the run driver.
THEOREM ReadsOwn == Spec => []ReadsOwnDevice
<1>1. DriverInv => ReadsOwnDevice
  BY DEF DriverInv, Held, Holding, ReadsOwnDevice
<1> QED BY <1>1, Inductive, PTL

\* Once a camera is closed and no handler is at work, the device is free unless a
\* close gave up on its thread.  Model-checked by the run driver.
THEOREM GivenBack == Spec => []ClosedReleased
<1>1. DriverInv => ClosedReleased
  BY DriverAssumption DEF DriverInv, Shape, Held, Holding, Owned, Live, ClosedReleased
<1> QED BY <1>1, Inductive, PTL

\* The state has the shape of the code's fields, and a queue holds a key once, whatever
\* messages, closes and losses overlap.  Model-checked by the run driver.
THEOREM DriverTyped == Spec => []TypeOK
<1>1. DriverInv /\ DriverTypes => TypeOK
  <2>1. ASSUME DriverInv, DriverTypes
        PROVE  TypeOK
    <3>1. ASSUME NEW d \in Drivers
          PROVE  /\ drv[d].pc \in {"none", "begin", "loop", "read", "report", "release", "dead"}
                 /\ drv[d].fails \in 0..FailLimit /\ drv[d].init \in Levels
                 /\ \A i, j \in DOMAIN drv[d].pending :
                      drv[d].pending[i].key = drv[d].pending[j].key => i = j
      <4>1. drv[d] \in DrvStates
        BY <2>1 DEF DriverTypes
      <4>2. drv[d].pending \in Queues
        BY <4>1 DEF DrvStates
      <4>3. QED BY <4>1, <4>2 DEF DrvStates, Queues, Once
    <3>2. ASSUME NEW t \in Tasks
          PROVE  /\ task[t].pc \in Pcs /\ task[t].then \in {"idle", "lookup"}
                 /\ task[t].drv \in Drivers \cup {NoDriver}
      BY <2>1 DEF DriverInv, Shape, TaskStates
    <3>3. ASSUME NEW s \in Setters
          PROVE  set[s].pc \in {"idle", "field", "push"}
      BY <2>1 DEF DriverTypes, SetStates, SetPcs
    <3>4. QED BY <2>1, <3>1, <3>2, <3>3 DEF TypeOK, DriverTypes, DriverInv, Shape, Plugins
  <2>2. QED BY <2>1
<1>2. QED BY <1>1, Inductive, AlwaysTyped, PTL

\* With nothing under way the registers of an open camera are what BasicParams shows,
\* whatever sequence of settings, closes, reopens, native modes and losses led there,
\* but for the keys excused (basic.py: "so the hardware matches what the user set").
\* Model-checked by the run driver.
THEOREM RegistersFollow == Spec => []HwFollowsPlugin
<1>1. DriverInv /\ DriverTypes /\ FollowInv => HwFollowsPlugin
  <2> SUFFICES ASSUME DriverInv, DriverTypes, FollowInv,
                      current # NoDriver, drv[current].pc = "read", drv[current].pending = <<>>,
                      \A t \in Tasks : At(t, "idle"), \A s \in Setters : set[s].pc = "idle",
                      plugin.has, plugin.open
               PROVE  /\ HasFps /\ "fps" \notin excused => hw.fps = plugin.fps
                      /\ kind # "virtual" =>
                           /\ "auto" \notin excused => hw.auto = plugin.auto
                           /\ {"auto", "exposure"} \cap excused = {} /\ ~plugin.auto
                                => hw.exposure = plugin.exposure
    BY DEF HwFollowsPlugin
  <2>1. ~Opened /\ Acquiring(current) /\ Pushed = {}
    BY DEF Opened, At, Tasks, Acquiring, Pushed
  <2>2. Ahead = [hw |-> hw, auto |-> drv[current].auto]
    BY EffectEmpty DEF Ahead
  <2>3. Ahead.hw = hw
    BY <2>2
  <2>4. Matches(kind, Ahead, plugin, excused \cup Pushed)
    BY <2>1 DEF FollowInv, Follows
  <2>5. excused \cup Pushed = excused
    BY <2>1
  <2>6. QED BY <2>3, <2>4, <2>5 DEF Matches, HasFps
<1>2. QED BY <1>1, Inductive, AlwaysTyped, AlwaysFollows, PTL
=============================================================================

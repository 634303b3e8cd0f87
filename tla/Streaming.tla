----------------------------- MODULE Streaming -----------------------------
(***************************************************************************)
(* The JPEG streams: one push thread per open camera, started by            *)
(* camera.opened and stopped by camera.pre_close, that offers the newest     *)
(* frame to every viewer who is not paused, has announced a size and whose   *)
(* send queue is not backed up.  Sources: streaming.py, the per-viewer       *)
(* stream settings of state/session.py, the bus handlers of app.py and the   *)
(* order of events in open_camera and _close_camera_internal.                *)
(*                                                                          *)
(* The events are handled on the thread that opens or closes, outside the    *)
(* registry's lock: a close can overtake the camera.opened of the opening it *)
(* closes, and two openings of one camera can be announced together.         *)
(***************************************************************************)
EXTENDS Naturals

CONSTANTS Cams, Sids, None,
          Openers,     \* threads that may be in open_camera at once
          NThreads,    \* bound: push threads alive or in the table at once
          MaxCleaning, \* bound: closes of one camera with their clean-up to come
          MaxDepth,    \* _MAX_QUEUE_DEPTH
          MaxOthers    \* bound: packets that are not frames waiting for a client

ASSUME StreamingAssumption == /\ NThreads \in Nat /\ MaxDepth \in Nat \ {0} /\ MaxOthers \in Nat
                              /\ MaxCleaning \in Nat
                              /\ None \notin Cams \cup Sids

Threads  == 1..NThreads
NoThread == 0

VARIABLES
  live,      \* cam_reg._cameras
  shot,      \* cameras with a display frame
  opener,    \* threads in open_camera: [pc, cam, thread]
  closer,    \* per camera: how far its close is
  cleaning,  \* per camera: closes that are over but for SessionStore.on_camera_closed
  streams,   \* StreamManager._streams
  thr,       \* the push threads: [pc, cam, running, todo, to]
  viewers, gone,    \* connected sids, and those that have left
  sizes, paused,    \* _stream_sizes, _stream_paused: sets of <<cam, sid>>
  frames, others,   \* packets in each client's engineio queue
  \* history, for the properties only
  late,      \* settings that arrived for a closed camera or a viewer who had left
  orphans,   \* threads replaced in the table before they were started
  stranded   \* cameras announced while their thread was on its way out

vars     == <<live, shot, opener, closer, cleaning, streams, thr, viewers, gone, sizes,
              paused, frames, others, late, orphans, stranded>>
camera   == <<live, shot, opener, closer, cleaning>>
settings == <<sizes, paused, late>>
clients  == <<viewers, gone, sizes, paused, frames, others, late>>
history  == <<orphans, stranded>>

IdleOpener == [pc |-> "idle", cam |-> None, thread |-> NoThread]
Unused     == [pc |-> "unused", cam |-> None, running |-> FALSE, todo |-> {}, to |-> None]

\* Thread.is_alive(): started and not yet returned.
IsAlive(t) == thr[t].pc \in {"sleep", "push", "send", "leave"}
Opening(c) == \E o \in Openers : opener[o].cam = c
Of(pairs, c) == {p \in pairs : p[1] = c}
By(pairs, s) == {p \in pairs : p[2] = s}

Opens   == [pc : {"idle", "check", "announce", "start"}, cam : Cams \cup {None},
            thread : Threads \cup {NoThread}]
Objects == [pc : {"unused", "new", "sleep", "push", "send", "leave", "ended"},
            cam : Cams \cup {None}, running : BOOLEAN,
            todo : SUBSET Sids, to : Sids \cup {None}]

TypeOK ==
  /\ live \subseteq Cams /\ shot \subseteq live
  /\ opener \in [Openers -> Opens]
  /\ closer \in [Cams -> {"idle", "tell", "join"}] /\ cleaning \in [Cams -> Nat]
  /\ streams \in [Cams -> Threads \cup {NoThread}]
  /\ thr \in [Threads -> Objects]
  /\ viewers \cup gone \subseteq Sids /\ viewers \cap gone = {}
  /\ sizes \cup paused \cup late \subseteq Cams \X Sids
  /\ frames \in [Sids -> Nat] /\ others \in [Sids -> 0..MaxOthers]
  /\ orphans \subseteq Threads /\ stranded \subseteq Cams

Init ==
  /\ live = {} /\ shot = {} /\ streams = [c \in Cams |-> NoThread]
  /\ opener = [o \in Openers |-> IdleOpener]
  /\ closer = [c \in Cams |-> "idle"] /\ cleaning = [c \in Cams |-> 0]
  /\ thr = [t \in Threads |-> Unused]
  /\ viewers = {} /\ gone = {} /\ sizes = {} /\ paused = {}
  /\ frames = [s \in Sids |-> 0] /\ others = [s \in Sids |-> 0]
  /\ late = {} /\ orphans = {} /\ stranded = {}
-----------------------------------------------------------------------------
(* Opening and closing a camera, as far as the streams see it. *)

OpenCheck(o, c) ==
  /\ opener[o].pc = "idle" /\ c \notin live
  /\ opener' = [opener EXCEPT ![o] = [IdleOpener EXCEPT !.pc = "check", !.cam = c]]
  /\ UNCHANGED <<live, shot, closer, cleaning, streams, thr, clients, history>>

\* The driver is entered in the table; the check is not repeated.
OpenInsert(o) ==
  /\ opener[o].pc = "check"
  /\ live' = live \cup {opener[o].cam}
  /\ opener' = [opener EXCEPT ![o].pc = "announce"]
  /\ UNCHANGED <<shot, closer, cleaning, streams, thr, clients, history>>

FirstFrame(c) ==
  /\ c \in live \ shot
  /\ shot' = shot \cup {c}
  /\ UNCHANGED <<live, opener, closer, cleaning, streams, thr, clients, history>>

\* A thread that has returned is forgotten once the table no longer holds it.
Recycled(ths, table) ==
  [t \in Threads |-> IF ths[t].pc = "ended" /\ \A c \in Cams : table[c] # t
                     THEN Unused ELSE ths[t]]

\* add_stream, under the manager's lock: the thread is made, not yet started.
AddStream(o) ==
  LET c == opener[o].cam
      old == streams[c]
      t == CHOOSE n \in Threads : thr[n].pc = "unused"
  IN  /\ opener[o].pc = "announce"
      /\ IF old # NoThread /\ IsAlive(old)
         THEN /\ opener' = [opener EXCEPT ![o] = IdleOpener]
              /\ stranded' = IF thr[old].pc = "leave" THEN stranded \cup {c} ELSE stranded
              /\ UNCHANGED <<streams, thr, orphans>>
         ELSE /\ \E n \in Threads : thr[n].pc = "unused"
              /\ opener' = [opener EXCEPT ![o] = [@ EXCEPT !.pc = "start", !.thread = t]]
              /\ streams' = [streams EXCEPT ![c] = t]
              /\ thr' = Recycled([thr EXCEPT ![t] = [Unused EXCEPT !.pc = "new", !.cam = c,
                                                                   !.running = TRUE]], streams')
              /\ orphans' = IF old # NoThread /\ thr[old].pc = "new"
                            THEN orphans \cup {old} ELSE orphans
              /\ stranded' = stranded \ {c}
      /\ UNCHANGED <<live, shot, closer, cleaning, clients>>

StartStream(o) ==
  /\ opener[o].pc = "start"
  /\ thr' = [thr EXCEPT ![opener[o].thread].pc = "sleep"]
  /\ opener' = [opener EXCEPT ![o] = IdleOpener]
  /\ UNCHANGED <<live, shot, closer, cleaning, streams, clients, history>>

\* The guard of _close_camera_internal.  An earlier close of the camera may not have
\* called on_camera_closed yet.
CloseBegin(c) ==
  /\ closer[c] = "idle" /\ c \in live /\ cleaning[c] < MaxCleaning
  /\ closer' = [closer EXCEPT ![c] = "tell"]
  /\ UNCHANGED <<live, shot, opener, cleaning, streams, thr, clients, history>>

\* A removal that stops the thread and leaves it in the table.
RemoveStreamKeeps(c) ==
  /\ closer[c] = "tell"
  /\ closer' = [closer EXCEPT ![c] = "join"]
  /\ thr' = IF streams[c] = NoThread THEN thr
            ELSE [thr EXCEPT ![streams[c]].running = FALSE]
  /\ UNCHANGED <<live, shot, opener, cleaning, streams, clients, history>>

\* camera.pre_close: the thread is taken out of the table and told to stop.
RemoveStream(c) ==
  LET t == streams[c]
  IN  /\ closer[c] = "tell"
      /\ closer' = [closer EXCEPT ![c] = "join"]
      /\ streams' = [streams EXCEPT ![c] = NoThread]
      /\ thr' = Recycled(IF t = NoThread THEN thr ELSE [thr EXCEPT ![t].running = FALSE],
                         streams')
      /\ UNCHANGED <<live, shot, opener, cleaning, clients, history>>

\* The threads are joined and the camera leaves the tables and the closing set: from
\* here on it can be opened and closed again.
Pop(c) ==
  /\ closer[c] = "join"
  /\ closer' = [closer EXCEPT ![c] = "idle"]
  /\ cleaning' = [cleaning EXCEPT ![c] = @ + 1]
  /\ live' = live \ {c} /\ shot' = shot \ {c}
  /\ UNCHANGED <<opener, streams, thr, clients, history>>

\* SessionStore.on_camera_closed, called after the registry's lock is released: by then
\* the camera may be open again, and what its new viewers have set goes too.
OnCameraClosed(c) ==
  /\ cleaning[c] > 0
  /\ cleaning' = [cleaning EXCEPT ![c] = @ - 1]
  /\ sizes' = sizes \ Of(sizes, c) /\ paused' = paused \ Of(paused, c)
  /\ late' = late \ Of(late, c)
  /\ UNCHANGED <<live, shot, opener, closer, streams, thr, viewers, gone, frames, others, history>>
-----------------------------------------------------------------------------
(* The push thread. *)

\* No look at the flag after the sleep.
TickIgnoresStop(t) ==
  /\ thr[t].pc = "sleep"
  /\ thr' = [thr EXCEPT ![t] =
       CASE viewers = {}           -> @
         [] viewers # {} /\ thr[t].cam \notin live -> [@ EXCEPT !.pc = "leave"]
         [] OTHER -> IF thr[t].cam \in shot THEN [@ EXCEPT !.pc = "push", !.todo = viewers]
                     ELSE @]
  /\ UNCHANGED <<camera, streams, clients, history>>

\* One turn of the loop up to the list of viewers.
Tick(t) ==
  /\ thr[t].pc = "sleep"
  /\ thr' = Recycled([thr EXCEPT ![t] =
       CASE ~thr[t].running        -> [@ EXCEPT !.pc = "ended"]
         [] thr[t].running /\ viewers = {} -> @
         [] thr[t].running /\ viewers # {} /\ thr[t].cam \notin live -> [@ EXCEPT !.pc = "leave"]
         [] OTHER -> IF thr[t].cam \in shot THEN [@ EXCEPT !.pc = "push", !.todo = viewers]
                     ELSE @], streams)
  /\ orphans' = {n \in orphans : thr'[n].pc # "unused"}
  /\ UNCHANGED <<camera, streams, clients, stranded>>

\* A frame is emitted however full the queue is.
OfferAlways(t, s) ==
  LET wanted == <<thr[t].cam, s>> \in sizes \ paused
  IN  /\ thr[t].pc = "push" /\ s \in thr[t].todo
      /\ thr' = [thr EXCEPT ![t] = [@ EXCEPT !.todo = thr[t].todo \ {s},
                                             !.to = IF wanted THEN s ELSE None,
                                             !.pc = IF wanted THEN "send" ELSE "push"]]
      /\ UNCHANGED <<camera, streams, clients, history>>

\* _client_queue_depth: a client's packets wait in one queue, whatever sent them.
Depth(s) == frames[s] + others[s]

\* The next viewer: skipped when paused, backed up or without a size.
Offer(t, s) ==
  LET wanted == /\ <<thr[t].cam, s>> \notin paused
                /\ Depth(s) < MaxDepth
                /\ <<thr[t].cam, s>> \in sizes
  IN  /\ thr[t].pc = "push" /\ s \in thr[t].todo
      /\ thr' = [thr EXCEPT ![t] = [@ EXCEPT !.todo = thr[t].todo \ {s},
                                             !.to = IF wanted THEN s ELSE None,
                                             !.pc = IF wanted THEN "send" ELSE "push"]]
      /\ UNCHANGED <<camera, streams, clients, history>>

\* The frame is encoded and emitted; the emit to a client that is gone does nothing.
Emit(t) ==
  /\ thr[t].pc = "send"
  /\ frames' = IF thr[t].to \in viewers THEN [frames EXCEPT ![thr[t].to] = @ + 1] ELSE frames
  /\ thr' = [thr EXCEPT ![t] = [@ EXCEPT !.pc = "push", !.to = None]]
  /\ UNCHANGED <<camera, streams, viewers, gone, settings, others, history>>

NextTurn(t) ==
  /\ thr[t].pc = "push" /\ thr[t].todo = {}
  /\ thr' = [thr EXCEPT ![t].pc = "sleep"]
  /\ UNCHANGED <<camera, streams, clients, history>>

\* The thread that found no driver returns; it stays in the table.
Leave(t) ==
  /\ thr[t].pc = "leave"
  /\ thr' = Recycled([thr EXCEPT ![t].pc = "ended"], streams)
  /\ orphans' = {n \in orphans : thr'[n].pc # "unused"}
  /\ UNCHANGED <<camera, streams, clients, stranded>>
-----------------------------------------------------------------------------
(* The clients: every message is handled on a thread of its own, in any order. *)

Connect(s) ==
  /\ s \notin viewers \cup gone
  /\ viewers' = viewers \cup {s}
  /\ UNCHANGED <<camera, streams, thr, gone, settings, frames, others, history>>

\* The pauses of a viewer who leaves are kept.
DisconnectKeepsPauses(s) ==
  /\ s \in viewers
  /\ viewers' = viewers \ {s} /\ gone' = gone \cup {s}
  /\ sizes' = sizes \ By(sizes, s)
  /\ frames' = [frames EXCEPT ![s] = 0] /\ others' = [others EXCEPT ![s] = 0]
  /\ late' = late \ By(late, s)
  /\ UNCHANGED <<camera, streams, thr, paused, history>>

\* remove_viewer; the socket's queue goes with it.
Disconnect(s) ==
  /\ s \in viewers
  /\ viewers' = viewers \ {s} /\ gone' = gone \cup {s}
  /\ sizes' = sizes \ By(sizes, s) /\ paused' = paused \ By(paused, s)
  /\ frames' = [frames EXCEPT ![s] = 0] /\ others' = [others EXCEPT ![s] = 0]
  /\ late' = late \ By(late, s)
  /\ UNCHANGED <<camera, streams, thr, history>>

\* A setting for a closed camera or by a viewer who has left is stored all the same.
Noted(p) == late' = IF p[1] \in live /\ p[2] \in viewers THEN late ELSE late \cup {p}

SetStreamSize(s, c) ==
  /\ s \in viewers \cup gone
  /\ sizes' = sizes \cup {<<c, s>>} /\ Noted(<<c, s>>)
  /\ UNCHANGED <<camera, streams, thr, viewers, gone, paused, frames, others, history>>

SetStreamPaused(s, c, on) ==
  /\ s \in viewers \cup gone
  /\ paused' = IF on THEN paused \cup {<<c, s>>} ELSE paused \ {<<c, s>>}
  /\ Noted(<<c, s>>)
  /\ UNCHANGED <<camera, streams, thr, viewers, gone, sizes, frames, others, history>>

\* state, status and plugin messages share the client's queue.
OtherPacket(s) ==
  /\ s \in viewers /\ others[s] < MaxOthers
  /\ others' = [others EXCEPT ![s] = @ + 1]
  /\ UNCHANGED <<camera, streams, thr, viewers, gone, settings, frames, history>>

Drain(s) ==
  /\ \/ frames[s] > 0 /\ frames' = [frames EXCEPT ![s] = @ - 1] /\ others' = others
     \/ others[s] > 0 /\ others' = [others EXCEPT ![s] = @ - 1] /\ frames' = frames
  /\ UNCHANGED <<camera, streams, thr, viewers, gone, settings, history>>
-----------------------------------------------------------------------------
OpenerStep(o) == OpenInsert(o) \/ AddStream(o) \/ StartStream(o)
CloserStep(c) == RemoveStream(c) \/ Pop(c)
ThreadStep(t) == Tick(t) \/ (\E s \in Sids : Offer(t, s)) \/ Emit(t) \/ NextTurn(t) \/ Leave(t)
ClientStep(s) == \/ Connect(s) \/ Disconnect(s) \/ OtherPacket(s) \/ Drain(s)
                 \/ \E c \in Cams : \/ SetStreamSize(s, c)
                                    \/ \E on \in BOOLEAN : SetStreamPaused(s, c, on)

Next ==
  \/ \E o \in Openers : OpenerStep(o) \/ \E c \in Cams : OpenCheck(o, c)
  \/ \E c \in Cams : \/ CloserStep(c) \/ OnCameraClosed(c)
                     \/ CloseBegin(c) \/ FirstFrame(c)
  \/ \E t \in Threads : ThreadStep(t)
  \/ \E s \in Sids : ClientStep(s)

Spec == Init /\ [][Next]_vars

\* A thread that is started is scheduled: the push threads and the threads in
\* open_camera and _close_camera_internal go on.  Clients owe nothing.
FairSpec == /\ Spec
            /\ \A t \in Threads : WF_vars(ThreadStep(t))
            /\ \A o \in Openers : WF_vars(OpenerStep(o))
            /\ \A c \in Cams : WF_vars(CloserStep(c)) /\ WF_vars(OnCameraClosed(c))
-----------------------------------------------------------------------------
(* Properties. *)

\* Back-pressure (streaming.py, "bounding latency to ~1-2 frames per client"): the
\* streams check and fill one queue without a lock, so a client waits for one frame
\* less than the threshold and one more for every push thread, however slow it is.
FramesBounded == \A s \in Sids : frames[s] <= MaxDepth - 1 + NThreads

\* StreamManager: a push thread that has not been told to stop is the one in the
\* table, where the close of its camera finds it; only a thread replaced before it was
\* started, by a second announcement of the same camera, is out of reach.
OneStream == \A t \in Threads :
  (thr[t].running /\ thr[t].pc # "ended") => (streams[thr[t].cam] = t \/ t \in orphans)

\* Once camera.opened has been handled an open camera has a live thread that has not
\* been told to stop, whatever closes and openings of it came before; except when the
\* announcement found a thread that had seen no driver and was about to return.
OpenStreamed == \A c \in live :
  (closer[c] = "idle" /\ ~Opening(c) /\ c \notin stranded)
    => streams[c] # NoThread /\ IsAlive(streams[c]) /\ thr[streams[c]].running

\* No stream is out of reach and no open camera without one, whatever the order of
\* announcements and closes.
StreamPerCamera == OneStream /\ OpenStreamed

\* on_camera_closed and remove_viewer leave no setting behind: one that is stored for
\* a closed camera or a viewer who left arrived after the clean-up had run.
NoLeftovers == \A p \in sizes \cup paused :
  \/ p \in late
  \/ p[2] \in viewers /\ (p[1] \in live \/ cleaning[p[1]] > 0)

\* A push thread that was told to stop ends, and so does one whose camera was closed
\* before it was announced, as long as somebody watches.
StreamsEnd == \A t \in Threads :
  (IsAlive(t) /\ (~thr[t].running \/ (viewers # {} /\ thr[t].cam \notin live)))
    ~> (~IsAlive(t) \/ (thr[t].running /\ (viewers = {} \/ thr[t].cam \in live)))
=============================================================================

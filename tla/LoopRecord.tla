----------------------------- MODULE LoopRecord -----------------------------
(***************************************************************************)
(* Loop recording of one camera: plugins/looprecord/basic.py.  The plugin  *)
(* (class LoopRecord) is called by handler threads, by the threads that    *)
(* open and close the camera and by the pipeline thread; each recording    *)
(* has an encoder thread (_EncoderThread) that writes one ffmpeg process   *)
(* per chunk and calls back into the plugin.                               *)
(*                                                                         *)
(* A chunk file is named after the second in which it was started, so a    *)
(* path is the value of the clock then.  Code under one `with self._lock`  *)
(* is one action.                                                          *)
(***************************************************************************)
EXTENDS Naturals, FiniteSets, SequencesExt

CONSTANTS
  Encoders,     \* encoder threads alive or referenced at once (bound)
  Callers,      \* threads inside a plugin method at once (bound)
  NoEncoder, NoPath,
  QueueSize,    \* ENCODER_QUEUE_SIZE
  RingSizes,    \* values ceil(loop_min / chunk_min) may take
  MaxClock,     \* last second of the behaviour (bound)
  Faults        \* which failures may happen

AllFaults == {"diskFull", "brokenPipe", "joinTimeout", "removeFails"}

ASSUME LoopAssumption ==
  /\ NoEncoder \notin Encoders /\ MaxClock \in Nat /\ NoPath \notin 0..MaxClock
  /\ QueueSize \in Nat \ {0}
  /\ RingSizes # {} /\ RingSizes \subseteq Nat \ {0}
  /\ Faults \subseteq AllFaults

VARIABLES
  clock,        \* time.time() in whole seconds
  camera,       \* whether the camera is open: _driver is set
  known,        \* _cam_w # 0: some on_camera_open has been heard
  recording,    \* _recording
  encoder,      \* _encoder
  chunks,       \* _chunks
  max_chunks,   \* _max_chunks
  idle,         \* history: plugin.idle was signalled since a recording last ended
  broke,        \* history: the pipe of the recording's encoder broke
  disk,         \* the chunk files in _output_dir
  stuck,        \* history: those whose removal failed, which the ring has dropped
  enc,          \* the encoder threads
  call,         \* what each caller is executing
  clash         \* history: a recording overlapped a rescan, an encoder that ended
                \* late cleared its successor, or a chunk took the name of another

plugin == <<known, recording, encoder, chunks, max_chunks>>
ends   == <<idle, broke>>
files  == <<disk, stuck>>
vars   == <<clock, camera, plugin, ends, files, enc, call, clash>>

Paths == 0..MaxClock

-----------------------------------------------------------------------------
(* Encoder threads and callers.                                            *)

EncPCs == {"none", "first_chunk", "loop", "write", "rotate", "chunk_done",
           "next_chunk", "on_stop", "mark_idle", "close_final"}
Encoder == [pc : EncPCs, running : BOOLEAN, q : 0..QueueSize,
            path : Paths \cup {NoPath}]
NoThread == [pc |-> "none", running |-> FALSE, q |-> 0, path |-> NoPath]

CallPCs == {"return", "read_ring", "scan", "publish", "take", "stop", "join", "idle"}
Call == [pc : CallPCs, encoder : Encoders \cup {NoEncoder},
         ring : RingSizes \cup {0}, valid : Seq(Paths)]

Alive(e)   == enc[e].pc # "none"
Writing(e) == Alive(e) /\ enc[e].path # NoPath
Scanning   == \E t \in Callers : call[t].pc \in {"read_ring", "scan", "publish"}
Unused     == {e \in Encoders : /\ ~Alive(e) /\ encoder # e
                                /\ \A t \in Callers : call[t].encoder # e}

TypeOK ==
  /\ clock \in Paths /\ camera \in BOOLEAN /\ known \in BOOLEAN
  /\ recording \in BOOLEAN /\ encoder \in Encoders \cup {NoEncoder}
  /\ chunks \in Seq(Paths) /\ max_chunks \in RingSizes /\ idle \in BOOLEAN
  /\ broke \in BOOLEAN /\ disk \subseteq Paths /\ stuck \subseteq disk
  /\ enc \in [Encoders -> Encoder] /\ call \in [Callers -> Call] /\ clash \in BOOLEAN

Init ==
  /\ clock = 0 /\ disk \in SUBSET {0} /\ stuck = {} /\ broke = FALSE
  /\ camera = FALSE /\ known = FALSE
  /\ recording = FALSE /\ encoder = NoEncoder /\ chunks = <<>>
  /\ max_chunks \in RingSizes /\ idle = TRUE /\ clash = FALSE
  /\ enc = [e \in Encoders |-> NoThread]
  /\ call = [t \in Callers |-> [pc |-> "return", encoder |-> NoEncoder,
                                ring |-> 0, valid |-> <<>>]]

At(t, l)    == call[t].pc = l
Goto(t, l)  == call' = [call EXCEPT ![t].pc = l]
Return(t)   == call' = [call EXCEPT ![t] = [@ EXCEPT !.pc = "return", !.encoder = NoEncoder,
                                                     !.ring = 0, !.valid = <<>>]]
EncAt(e, l) == enc[e].pc = l
EncGoto(e, l) == enc' = [enc EXCEPT ![e].pc = l]

-----------------------------------------------------------------------------
(* The plugin: start, stop and parameters.                                 *)

\* _do_start, one critical section.  The camera need not be open: only the
\* frame size an earlier on_camera_open has left is asked for.
DoStart(t) ==
  /\ At(t, "return") /\ ~recording /\ known
  /\ \E e \in Unused :
       /\ enc' = [enc EXCEPT ![e] = [NoThread EXCEPT !.pc = "first_chunk",
                                                     !.running = TRUE]]
       /\ encoder' = e
  /\ recording' = TRUE /\ broke' = FALSE
  /\ clash' = (clash \/ Scanning)
  /\ UNCHANGED <<clock, camera, known, chunks, max_chunks, idle, files, call>>

\* _do_stop: the critical section, then stop(), join() and _mark_idle().
Take(t) ==
  /\ recording
  /\ call' = [call EXCEPT ![t] = [@ EXCEPT !.pc = "stop", !.encoder = encoder]]
  /\ encoder' = NoEncoder /\ recording' = FALSE /\ idle' = FALSE /\ broke' = FALSE
  /\ UNCHANGED <<clock, camera, known, chunks, max_chunks, files, enc, clash>>

\* A viewer asks for it.
StopRequest(t) == At(t, "return") /\ Take(t)

\* on_camera_close has seen a recording: it may have ended since.
CloseStops(t) ==
  /\ At(t, "take")
  /\ \/ Take(t)
     \/ ~recording /\ Return(t)
        /\ UNCHANGED <<clock, camera, plugin, ends, files, enc, clash>>

\* Mutant: _do_stop only waits for the thread.
StopOnlyJoins(t) ==
  /\ At(t, "stop")
  /\ Goto(t, "join")
  /\ UNCHANGED <<clock, camera, plugin, ends, files, enc, clash>>

StopEncoder(t) ==
  /\ At(t, "stop")
  /\ enc' = [enc EXCEPT ![call[t].encoder].running = FALSE]
  /\ Goto(t, "join")
  /\ UNCHANGED <<clock, camera, plugin, ends, files, clash>>

JoinEncoder(t) ==
  /\ At(t, "join")
  /\ ~Alive(call[t].encoder) \/ "joinTimeout" \in Faults
  /\ Goto(t, "idle")
  /\ UNCHANGED <<clock, camera, plugin, ends, files, enc, clash>>

MarkIdle(t) ==
  /\ At(t, "idle")
  /\ idle' = TRUE
  /\ Return(t)
  /\ UNCHANGED <<clock, camera, plugin, broke, files, enc, clash>>

\* handle_set_param: refused while recording.
SetLoop(t, n) ==
  /\ At(t, "return") /\ ~recording
  /\ max_chunks' = n
  /\ UNCHANGED <<clock, camera, known, recording, encoder, chunks, ends, files,
                 enc, call, clash>>

-----------------------------------------------------------------------------
(* The plugin: the camera opens and closes, frames arrive.                 *)

OnCameraOpen(t) ==
  /\ At(t, "return") /\ ~camera
  /\ camera' = TRUE /\ known' = TRUE
  /\ Goto(t, "read_ring")
  /\ clash' = (clash \/ Scanning \/ \E e \in Encoders : Alive(e))
  /\ UNCHANGED <<clock, recording, encoder, chunks, max_chunks, ends, files, enc>>

\* _scan_existing_chunks reads the ring size, lists the files, deletes the
\* stale ones and those beyond the ring, and publishes the rest.
ReadRing(t) ==
  /\ At(t, "read_ring")
  /\ call' = [call EXCEPT ![t] = [@ EXCEPT !.pc = "scan", !.ring = max_chunks]]
  /\ UNCHANGED <<clock, camera, plugin, ends, files, enc, clash>>

\* sorted(glob(..)): names are times, so the oldest file comes first.
Sorted(fs) ==
  LET n == Cardinality(fs)
  IN  CHOOSE s \in [1..n -> fs] :
        /\ ToSet(s) = fs
        /\ \A i, j \in 1..n : i < j => s[i] < s[j]

\* os.remove may fail: the files it leaves behind.
Left(fs) == IF "removeFails" \in Faults THEN SUBSET (fs \cap disk) ELSE {{}}

\* A file is stale when it was last written before the loop window; one that is
\* being written never is, since a chunk is shorter than the window.  A file that
\* cannot be deleted is not kept in the ring either.
Scan(t) ==
  /\ At(t, "scan")
  /\ \E stale \in SUBSET {f \in disk : f < clock /\ \A e \in Encoders : enc[e].path # f} :
       LET all   == Sorted(disk \ stale)
           extra == IF Len(all) > call[t].ring THEN Len(all) - call[t].ring ELSE 0
           valid == SubSeq(all, extra + 1, Len(all))
       IN  /\ \A f \in stale, g \in disk \ stale : f < g
           /\ stuck' \in Left(disk \ ToSet(valid))
           /\ disk' = ToSet(valid) \cup stuck'
           /\ call' = [call EXCEPT ![t] = [@ EXCEPT !.pc = "publish", !.valid = valid]]
  /\ UNCHANGED <<clock, camera, plugin, ends, enc, clash>>

Publish(t) ==
  /\ At(t, "publish")
  /\ chunks' = call[t].valid
  /\ Return(t)
  /\ UNCHANGED <<clock, camera, known, recording, encoder, max_chunks, ends,
                 files, enc, clash>>

OnCameraClose(t) ==
  /\ At(t, "return") /\ camera
  /\ camera' = FALSE
  /\ IF recording THEN Goto(t, "take") ELSE UNCHANGED call
  /\ UNCHANGED <<clock, plugin, ends, files, enc, clash>>

\* Mutant: the queue has no bound.
OnFrameUnbounded ==
  /\ camera /\ recording /\ encoder # NoEncoder
  /\ enc' = [enc EXCEPT ![encoder].q = @ + 1]
  /\ UNCHANGED <<clock, camera, plugin, ends, files, call, clash>>

\* on_frame: push drops the frame if the queue is full.  Frames come from the
\* pipeline of an open camera.
OnFrame ==
  /\ camera /\ recording /\ encoder # NoEncoder
  /\ enc[encoder].q < QueueSize
  /\ enc' = [enc EXCEPT ![encoder].q = @ + 1]
  /\ UNCHANGED <<clock, camera, plugin, ends, files, call, clash>>

-----------------------------------------------------------------------------
(* The encoder thread.                                                     *)

\* _start_chunk starts ffmpeg, which creates (or overwrites) the file.
StartChunk(e) ==
  /\ enc[e].pc \in {"first_chunk", "next_chunk"}
  /\ enc' = [enc EXCEPT ![e] = [@ EXCEPT !.pc = "loop", !.path = clock]]
  /\ disk' = disk \cup {clock}
  /\ clash' = (clash \/ clock \in disk)
  /\ UNCHANGED <<clock, camera, plugin, ends, stuck, call>>

\* Mutant: the thread that cannot start a chunk just ends.
StartChunkFailsSilent(e) ==
  /\ enc[e].pc \in {"first_chunk", "next_chunk"} /\ "diskFull" \in Faults
  /\ EncGoto(e, "close_final")
  /\ UNCHANGED <<clock, camera, plugin, ends, files, call, clash>>

\* The disk is full (or ffmpeg has gone): the plugin is told.
StartChunkFails(e) ==
  /\ enc[e].pc \in {"first_chunk", "next_chunk"} /\ "diskFull" \in Faults
  /\ EncGoto(e, "on_stop")
  /\ UNCHANGED <<clock, camera, plugin, ends, files, call, clash>>

\* _on_encoder_stop, then the end of run(): no chunk is open.
OnEncoderStop(e) ==
  /\ EncAt(e, "on_stop")
  /\ encoder' = NoEncoder /\ recording' = FALSE /\ idle' = FALSE /\ broke' = FALSE
  /\ EncGoto(e, "mark_idle")
  /\ clash' = (clash \/ encoder \notin {e, NoEncoder})
  /\ UNCHANGED <<clock, camera, known, chunks, max_chunks, files, call>>

EncoderMarksIdle(e) ==
  /\ EncAt(e, "mark_idle")
  /\ idle' = TRUE
  /\ enc' = [enc EXCEPT ![e] = NoThread]
  /\ UNCHANGED <<clock, camera, plugin, broke, files, call, clash>>

\* Mutant: the flag is looked at only when a frame has come.
LoopHeadWaits(e) ==
  /\ EncAt(e, "loop")
  /\ \/ enc[e].q > 0 /\ ~enc[e].running /\ EncGoto(e, "close_final")
     \/ /\ enc[e].running /\ enc[e].q > 0
        /\ enc' = [enc EXCEPT ![e] = [@ EXCEPT !.pc = "write", !.q = enc[e].q - 1]]
     \/ /\ enc[e].q = 0 /\ clock > enc[e].path
        /\ EncGoto(e, "rotate")
  /\ UNCHANGED <<clock, camera, plugin, ends, files, call, clash>>

\* The head of the loop: stop() was called, or a frame or a timeout comes.
LoopHead(e) ==
  /\ EncAt(e, "loop")
  /\ \/ ~enc[e].running /\ EncGoto(e, "close_final")
     \/ /\ enc[e].running /\ enc[e].q > 0
        /\ enc' = [enc EXCEPT ![e] = [@ EXCEPT !.pc = "write", !.q = enc[e].q - 1]]
     \/ /\ enc[e].running /\ enc[e].q = 0 /\ clock > enc[e].path
        /\ EncGoto(e, "rotate")
  /\ UNCHANGED <<clock, camera, plugin, ends, files, call, clash>>

\* The frame is written; when the chunk is old enough it is rotated.
Write(e) ==
  /\ EncAt(e, "write")
  /\ \/ EncGoto(e, "loop")
     \/ clock > enc[e].path /\ EncGoto(e, "rotate")
  /\ UNCHANGED <<clock, camera, plugin, ends, files, call, clash>>

\* ffmpeg has died: the loop is left without telling the plugin.
PipeBreaks(e) ==
  /\ EncAt(e, "write") /\ "brokenPipe" \in Faults
  /\ EncGoto(e, "close_final")
  /\ broke' = (broke \/ encoder = e)
  /\ UNCHANGED <<clock, camera, plugin, idle, files, call, clash>>

\* Mutant: the files beyond the ring are forgotten but not deleted.
ChunkDoneKeepsFiles(e) ==
  LET all   == IF enc[e].path \in disk THEN Append(chunks, enc[e].path) ELSE chunks
      extra == IF Len(all) > max_chunks THEN Len(all) - max_chunks ELSE 0
  IN  /\ chunks' = SubSeq(all, extra + 1, Len(all))
      /\ UNCHANGED files

\* _on_chunk_done: append, then delete the oldest beyond the ring.  They leave the
\* ring whether they can be deleted or not.
ChunkDone(e) ==
  LET all   == IF enc[e].path \in disk THEN Append(chunks, enc[e].path) ELSE chunks
      extra == IF enc[e].path \in disk /\ Len(all) > max_chunks
               THEN Len(all) - max_chunks ELSE 0
      old   == ToSet(SubSeq(all, 1, extra))
  IN  /\ chunks' = SubSeq(all, extra + 1, Len(all))
      /\ \E left \in Left(old) : /\ disk' = disk \ (old \ left)
                                 /\ stuck' = (stuck \ old) \cup left

\* _rotate: ffmpeg is closed, the chunk is handed over, the next one started.
Rotate(e) ==
  /\ EncAt(e, "rotate")
  /\ ChunkDone(e)
  /\ enc' = [enc EXCEPT ![e] = [@ EXCEPT !.pc = "next_chunk", !.path = NoPath]]
  /\ UNCHANGED <<clock, camera, known, recording, encoder, max_chunks, ends, call, clash>>

\* _close_chunk(final=True), the end of run().
CloseFinal(e) ==
  /\ EncAt(e, "close_final")
  /\ ChunkDone(e)
  /\ enc' = [enc EXCEPT ![e] = NoThread]
  /\ UNCHANGED <<clock, camera, known, recording, encoder, max_chunks, ends, call, clash>>

Tick == /\ clock < MaxClock
        /\ clock' = clock + 1
        /\ UNCHANGED <<camera, plugin, ends, files, enc, call, clash>>

-----------------------------------------------------------------------------

Request(t) == \/ DoStart(t) \/ StopRequest(t) \/ OnCameraOpen(t) \/ OnCameraClose(t)
              \/ \E n \in RingSizes : SetLoop(t, n)
CallStep(t) == \/ CloseStops(t) \/ StopEncoder(t) \/ JoinEncoder(t) \/ MarkIdle(t)
               \/ ReadRing(t) \/ Scan(t) \/ Publish(t)
EncoderStep(e) == \/ StartChunk(e) \/ StartChunkFails(e) \/ OnEncoderStop(e)
                  \/ EncoderMarksIdle(e) \/ LoopHead(e) \/ Write(e) \/ PipeBreaks(e)
                  \/ Rotate(e) \/ CloseFinal(e)

Next == \/ \E t \in Callers : Request(t) \/ CallStep(t)
        \/ \E e \in Encoders : EncoderStep(e)
        \/ OnFrame \/ Tick

Spec == Init /\ [][Next]_vars

\* Started threads are scheduled and ffmpeg takes its input.
Fairness == /\ \A t \in Callers : WF_vars(CallStep(t))
            /\ \A e \in Encoders : WF_vars(EncoderStep(e))
FairSpec == Spec /\ Fairness

-----------------------------------------------------------------------------

\* is_busy() keeps the camera open only while an encoder is there to end it
\* ("Called from encoder thread on unexpected stop (disk full / ffmpeg error)",
\* basic.py:505).
BusyMeansEncoding == recording => encoder # NoEncoder /\ Alive(encoder)

\* Nothing in the code excludes the three overlaps that set clash, and each
\* can break one of the next two properties.  The properties below say nothing of
\* what follows one: runs stop there (MCLoopRecord).

\* An encoder that nobody has told to stop is the one _do_stop would take, so a
\* recording cannot run on for ever behind the plugin's back.
BeingStopped(e) == \E t \in Callers : At(t, "stop") /\ call[t].encoder = e
Ending(e)       == enc[e].pc \in {"on_stop", "mark_idle", "close_final"}
NoOrphanEncoder ==
  \A e \in Encoders : Alive(e) /\ enc[e].running
                       => clash \/ encoder = e \/ BeingStopped(e) \/ Ending(e)

\* Once the camera has been opened, the ring lists every chunk file exactly once,
\* but for the one being written and those that could not be deleted, and nothing
\* else: no other file is left behind and none is deleted while it is wanted.
RingMatchesDisk ==
  ~clash /\ known /\ ~Scanning =>
    /\ \A i, j \in 1..Len(chunks) : chunks[i] = chunks[j] => i = j
    /\ disk \ stuck = ToSet(chunks) \cup {enc[e].path : e \in {d \in Encoders : Writing(d)}}

\* A recording is over when it was stopped, or when its encoder has ended by itself.
\* Either way the plugin is no longer busy and signals plugin.idle, which lets the
\* camera close, or records again.  An encoder whose pipe broke ends without a word:
\* this says nothing of it, and BusyMeansEncoding shows what follows.
Over == ~recording \/ ~Alive(encoder)
EveryEndSignalled == Over /\ ~broke ~> (idle /\ ~recording) \/ ~Over \/ broke \/ clash

\* An encoder that was told to stop ends, even after its join has timed out.
StoppedEnds ==
  \A e \in Encoders : Alive(e) /\ ~enc[e].running ~> ~Alive(e) \/ clash
=============================================================================

--------------------------- MODULE PluginPipeline ---------------------------
(***************************************************************************)
(* The plugin instances of one camera: adding and removing them, the order  *)
(* and mode of the pipeline, what they hear of the camera, the two-phase    *)
(* run of a frame, and a photo request.  Sources: plugins/registry.py,      *)
(* plugins/runner.py, plugins/photo/basic.py and the handlers of app.py     *)
(* that call them.                                                          *)
(*                                                                          *)
(* The registry's lock protects its tables only.  Plugins are called from a *)
(* snapshot, by the thread that opens the camera, the one that closes it,   *)
(* the pipeline thread and the admins' handlers, in any interleaving.       *)
(***************************************************************************)
EXTENDS Naturals, SequencesExt

CONSTANTS Photo,     \* key of the single-instance plugin (BasicPhoto)
          Texts,     \* keys of the multi-instance one, in order (OverlayText, .._2)
          Admins,    \* concurrent add and remove handlers
          MaxAdds    \* bound: instances ever made

ASSUME PipelineAssumption == /\ MaxAdds \in Nat
                             /\ Texts \in Seq(Range(Texts)) /\ Len(Texts) >= MaxAdds
                             /\ \A m, n \in DOMAIN Texts : Texts[m] = Texts[n] => m = n
                             /\ Photo \notin Range(Texts)

VARIABLES
  local,     \* _local[cam_id]: key -> instance
  pipeline,  \* _pipeline[cam_id]: sequence of [key, mode]
  inst,      \* the instances made so far
  infos,     \* cam_id is in _cam_infos
  closing,   \* a close is under way
  opener,    \* the thread in open_camera: [pc, todo]
  closer,    \* the thread in _close_camera_internal: [pc, todo]
  adm,       \* the admins' handlers: [pc, id]
  frame      \* the pipeline thread: [pc, todo, ran, moved]

vars    == <<local, pipeline, inst, infos, closing, opener, closer, adm, frame>>
tables  == <<local, pipeline>>
camera  == <<infos, closing, opener, closer>>

Keys  == {Photo} \cup Range(Texts)
Modes == {"pipeline", "display"}
Ids   == DOMAIN inst

NoFrame == [pc |-> "idle", todo |-> <<>>, ran |-> [i \in 1..MaxAdds |-> 0], moved |-> {}]
Moved(ids) == frame' = IF frame.pc = "idle" THEN frame ELSE [frame EXCEPT !.moved = @ \cup ids]

\* The elements of s that are in T, in their order; s itself when nothing is dropped.
Kept(s, T) ==
  LET upto[i \in 0..Len(s)] == IF i = 0 THEN <<>>
                               ELSE IF s[i] \in T THEN Append(upto[i - 1], s[i])
                               ELSE upto[i - 1]
  IN  IF \A i \in DOMAIN s : s[i] \in T THEN s ELSE upto[Len(s)]

Entries(keys) == [key : keys, mode : Modes]
KeysOf(seq)   == {seq[i].key : i \in DOMAIN seq}

\* iter_pipeline, iter_instances: instances in pipeline order, with their mode.
Listed == LET present == Kept(pipeline, Entries(DOMAIN local))
          IN  [i \in DOMAIN present |-> [id |-> local[present[i].key],
                                         mode |-> present[i].mode]]
Instances     == LET all == Listed IN [i \in DOMAIN all |-> all[i].id]
OfMode(m)     == LET some == Kept(Listed, [id : Ids, mode : {m}])
                 IN  [i \in DOMAIN some |-> some[i].id]

\* on_camera_open: late when the camera is already on its way out.
HearOpen(i)  == [inst EXCEPT ![i] = [@ EXCEPT !.open = TRUE, !.late = closing \/ ~infos]]
HearClose(i) == [inst EXCEPT ![i] = [@ EXCEPT !.open = FALSE, !.late = FALSE]]
-----------------------------------------------------------------------------
(* add_plugin, remove_plugin. *)

\* The first key of a multi-instance plugin that is not taken.
FreeKey(used) == Texts[CHOOSE n \in DOMAIN Texts :
                         /\ Texts[n] \notin used
                         /\ \A k \in 1..(n - 1) : Texts[k] \in used]

\* Under the lock: the instance, its key and its place at the end.
Add(a, multiple) ==
  LET key == IF multiple THEN FreeKey(DOMAIN local) ELSE Photo
      id  == Len(inst) + 1
  IN /\ adm[a].pc = "idle" /\ Len(inst) < MaxAdds
     /\ ~multiple => Photo \notin DOMAIN local
     /\ local' = [k \in DOMAIN local \cup {key} |-> IF k = key THEN id ELSE local[k]]
     /\ pipeline' = Append(pipeline, [key |-> key, mode |-> "pipeline"])
     /\ inst' = Append(inst, [photo |-> ~multiple, open |-> FALSE, late |-> FALSE,
                              pending |-> FALSE])
     /\ Moved({id})
     /\ adm' = [adm EXCEPT ![a] = [pc |-> "tell", id |-> id]]
     /\ UNCHANGED camera

\* (mutant: the new plugin waits for the next open)
AddTellsNobody(a) ==
  /\ adm[a].pc = "tell"
  /\ adm' = [adm EXCEPT ![a] = [pc |-> "idle", id |-> 0]]
  /\ UNCHANGED <<tables, inst, camera, frame>>

\* Outside the lock: the camera's info is there from open to the end of close.
AddTells(a) ==
  /\ adm[a].pc = "tell"
  /\ inst' = IF infos THEN HearOpen(adm[a].id) ELSE inst
  /\ adm' = [adm EXCEPT ![a] = [pc |-> "idle", id |-> 0]]
  /\ UNCHANGED <<tables, camera, frame>>

TakeOut(a, key) ==
  /\ adm[a].pc = "idle" /\ key \in DOMAIN local
  /\ local' = [k \in DOMAIN local \ {key} |-> local[k]]
  /\ pipeline' = Kept(pipeline, Entries(Keys \ {key}))
  /\ adm' = [adm EXCEPT ![a] = [pc |-> "unload", id |-> local[key]]]
  /\ UNCHANGED <<inst, camera, frame>>

RemoveTells(a) ==
  /\ adm[a].pc = "unload"
  /\ inst' = HearClose(adm[a].id)
  /\ adm' = [adm EXCEPT ![a] = [pc |-> "idle", id |-> 0]]
  /\ UNCHANGED <<tables, camera, frame>>
-----------------------------------------------------------------------------
(* reorder_plugins, set_plugin_mode: a browser's view may be stale. *)

\* (mutant: the client's list is the new order)
NamedOnly(names) ==
  LET known == Kept(names, KeysOf(pipeline))
  IN  [i \in DOMAIN known |-> pipeline[CHOOSE j \in DOMAIN pipeline :
                                         pipeline[j].key = known[i]]]

\* The named entries that exist, in the client's order, then the rest in theirs.
Reordered(names) ==
  LET known == Kept(names, KeysOf(pipeline))
  IN  [i \in DOMAIN known |-> pipeline[CHOOSE j \in DOMAIN pipeline :
                                         pipeline[j].key = known[i]]]
      \o Kept(pipeline, Entries(Keys \ Range(names)))

\* The orders a browser sends: what it shows was once a pipeline, so no name twice (the
\* code does not check, and would list such an entry twice).
Orders == {names \in SetToAllKPermutations(Keys) : Len(names) <= MaxAdds}

Reorder(names) ==
  /\ pipeline' = Reordered(names)
  /\ UNCHANGED <<local, inst, camera, adm, frame>>

SetMode(key, mode) ==
  /\ key \in DOMAIN local
  /\ \E i \in DOMAIN pipeline : pipeline[i].key = key /\ pipeline[i].mode # mode
  /\ pipeline' = [i \in DOMAIN pipeline |->
                    IF pipeline[i].key = key THEN [pipeline[i] EXCEPT !.mode = mode]
                    ELSE pipeline[i]]
  /\ Moved({local[key]})
  /\ UNCHANGED <<local, inst, camera, adm>>
-----------------------------------------------------------------------------
(* What the plugins hear of the camera. *)

\* open_camera: the tables, and the frames that come from now on.
OpenInsert ==
  /\ opener.pc = "idle" /\ ~infos
  /\ infos' = TRUE /\ opener' = [opener EXCEPT !.pc = "list"]
  /\ UNCHANGED <<tables, inst, closing, closer, adm, frame>>

\* notify_camera_open, by camera.opened.
OpenList ==
  /\ opener.pc = "list"
  /\ opener' = [pc |-> "tell", todo |-> Instances]
  /\ UNCHANGED <<tables, inst, infos, closing, closer, adm, frame>>

OpenTell ==
  /\ opener.pc = "tell"
  /\ IF opener.todo = <<>>
     THEN opener' = [pc |-> "idle", todo |-> <<>>] /\ UNCHANGED inst
     ELSE /\ inst' = HearOpen(Head(opener.todo))
          /\ opener' = [opener EXCEPT !.todo = Tail(@)]
  /\ UNCHANGED <<tables, infos, closing, closer, adm, frame>>

\* _close_camera_internal: its guard, then notify_camera_close.
CloseList ==
  /\ infos /\ ~closing /\ closer.pc = "idle"
  /\ closing' = TRUE
  /\ closer' = [pc |-> "tell", todo |-> Instances]
  /\ UNCHANGED <<tables, inst, infos, opener, adm, frame>>

CloseTell ==
  /\ closer.pc = "tell"
  /\ IF closer.todo = <<>>
     THEN closer' = [closer EXCEPT !.pc = "join"] /\ UNCHANGED inst
     ELSE /\ inst' = HearClose(Head(closer.todo))
          /\ closer' = [closer EXCEPT !.todo = Tail(@)]
  /\ UNCHANGED <<tables, infos, closing, opener, adm, frame>>

\* The camera leaves the tables; a last frame may outlive the join.
CloseRemove ==
  /\ closer.pc = "join"
  /\ infos' = FALSE /\ closing' = FALSE
  /\ closer' = [pc |-> "idle", todo |-> <<>>]
  /\ UNCHANGED <<tables, inst, opener, adm, frame>>
-----------------------------------------------------------------------------
(* process_frame_for_camera, and BasicPhoto's part in it. *)

FrameBegin ==
  /\ frame.pc = "idle" /\ infos
  /\ frame' = [frame EXCEPT !.pc = "pipeline", !.todo = OfMode("pipeline")]
  /\ UNCHANGED <<tables, inst, camera, adm>>

\* (mutant: the photo stays pending)
RunAgain ==
  LET i == Head(frame.todo)
  IN /\ frame.todo # <<>>
     /\ frame' = [frame EXCEPT !.todo = Tail(@), !.ran[i] = @ + 1]
     /\ UNCHANGED <<tables, inst, camera, adm>>

\* One plugin's on_frame; a pending photo is taken.
RunPlugin ==
  LET i == Head(frame.todo)
  IN /\ frame.todo # <<>>
     /\ frame' = [frame EXCEPT !.todo = Tail(@), !.ran[i] = @ + 1]
     /\ inst' = [inst EXCEPT ![i].pending = FALSE]
     /\ UNCHANGED <<tables, camera, adm>>

\* (mutant: the second phase runs whoever is listed)
DisplayAll ==
  /\ frame.pc = "pipeline" /\ frame.todo = <<>>
  /\ frame' = [frame EXCEPT !.pc = "display", !.todo = Instances]
  /\ UNCHANGED <<tables, inst, camera, adm>>

\* The second phase lists the pipeline anew.
DisplayPhase ==
  /\ frame.pc = "pipeline" /\ frame.todo = <<>>
  /\ frame' = [frame EXCEPT !.pc = "display", !.todo = OfMode("display")]
  /\ UNCHANGED <<tables, inst, camera, adm>>

FrameEnd ==
  /\ frame.pc = "display" /\ frame.todo = <<>>
  /\ frame' = NoFrame
  /\ UNCHANGED <<tables, inst, camera, adm>>

\* dispatch_action: the first plugin that knows "take_photo", open camera or not.
TakePhoto ==
  /\ Photo \in DOMAIN local
  /\ inst' = [inst EXCEPT ![local[Photo]].pending = TRUE]
  /\ UNCHANGED <<tables, camera, adm, frame>>
-----------------------------------------------------------------------------
Init ==
  /\ local = [k \in {} |-> 0] /\ pipeline = <<>> /\ inst = <<>>
  /\ infos = FALSE /\ closing = FALSE
  /\ opener = [pc |-> "idle", todo |-> <<>>] /\ closer = [pc |-> "idle", todo |-> <<>>]
  /\ adm = [a \in Admins |-> [pc |-> "idle", id |-> 0]]
  /\ frame = NoFrame

Process == FrameBegin \/ RunPlugin \/ DisplayPhase \/ FrameEnd

Next ==
  \/ \E a \in Admins : \/ \E multiple \in BOOLEAN : Add(a, multiple)
                       \/ \E key \in Keys : TakeOut(a, key)
                       \/ AddTells(a) \/ RemoveTells(a)
  \/ \E names \in Orders : Reorder(names)
  \/ \E key \in Keys, mode \in Modes : SetMode(key, mode)
  \/ OpenInsert \/ OpenList \/ OpenTell \/ CloseList \/ CloseTell \/ CloseRemove
  \/ Process \/ TakePhoto

Spec == Init /\ [][Next]_vars

\* Frames keep coming while the camera is open.
FairSpec == Spec /\ WF_vars(Process)
-----------------------------------------------------------------------------
(* Properties. *)

Quiet == opener.pc = "idle" /\ closer.pc = "idle" /\ \A a \in Admins : adm[a].pc = "idle"

\* The state has the shape of the code's; a plugin sees a frame at most twice.
TypeOK ==
  /\ DOMAIN local \subseteq Keys /\ \A k \in DOMAIN local : local[k] \in Ids
  /\ \A i \in DOMAIN pipeline : pipeline[i] \in Entries(Keys)
  /\ infos \in BOOLEAN /\ closing \in BOOLEAN
  /\ opener.pc \in {"idle", "list", "tell"} /\ closer.pc \in {"idle", "tell", "join"}
  /\ \A a \in Admins : adm[a].pc \in {"idle", "tell", "unload"}
  /\ frame.pc \in {"idle"} \cup Modes /\ frame.moved \subseteq 1..MaxAdds
  /\ \A i \in 1..MaxAdds : frame.ran[i] \in 0..2

\* Every instance has exactly one place in the pipeline and every place an
\* instance, whatever stale order a browser sends and whoever adds meanwhile.
PipelineListsAll ==
  /\ KeysOf(pipeline) = DOMAIN local
  /\ Len(pipeline) = Cardinality(DOMAIN local)
  /\ \A k, l \in DOMAIN local : local[k] = local[l] => k = l

OpenHeard == infos /\ ~closing => \A k \in DOMAIN local : inst[local[k]].open
CloseHeard == ~infos => \A k \in DOMAIN local : ~inst[local[k]].open \/ inst[local[k]].late

\* With no open, close, addition or removal under way, every plugin works for an
\* open camera, those added in the middle of its opening too, and none for a closed
\* one, unless it was told of the open when the close had already begun (add_plugin
\* finds the info of a closing camera; camera.opened overtaken by a close).
HearsCamera == Quiet => OpenHeard /\ CloseHeard

\* A frame passes every plugin exactly once, in one of the two phases, unless the
\* plugin was added, removed or changed its mode while the frame was processed.
OncePerFrame ==
  frame.pc = "display" /\ frame.todo = <<>> =>
    \A k \in DOMAIN local : local[k] \in frame.moved \/ frame.ran[local[k]] = 1

\* A photo asked of a plugin that stays is taken from the next frames, unless the
\* camera closes or the plugin changes its mode in the middle of every frame.
PhotoTaken ==
  \A i \in 1..MaxAdds :
    (i \in Ids /\ inst[i].pending)
      ~> \/ i \notin Ids \/ ~inst[i].pending \/ i \notin Range(local) \/ ~infos \/ closing
         \/ i \in frame.moved
=============================================================================

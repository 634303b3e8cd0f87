------------------------- MODULE MotionDetectProofs -------------------------
(***************************************************************************)
(* For any number of callers, requests and failures: detection follows its  *)
(* switch unless two calls overlapped, the zones in memory are those of the *)
(* file, and triggers are a cooldown apart.                                 *)
(***************************************************************************)
EXTENDS MotionDetect, TLAPS

Selves == [enabled : BOOLEAN, running : BOOLEAN, stop_evt : BOOLEAN, mog2 : BOOLEAN,
           thread : Detectors \cup {NoThread}]

\* What a caller, a detector and the plugin's attributes may become.
LEMMA CallMoves ==
  ASSUME NEW c \in Call
  PROVE  /\ NoCall \in Call /\ NoCall.op = "none" /\ NoCall.pc = "return"
         /\ \A l \in CallPCs : [c EXCEPT !.pc = l] \in Call
         /\ \A l \in CallPCs, o \in Ops : [c EXCEPT !.op = o, !.pc = l] \in Call
         /\ \A l \in CallPCs, d \in Detectors \cup {NoThread} :
              [c EXCEPT !.pc = l, !.thread = d] \in Call
         /\ \A l \in CallPCs, z \in ZoneLists : [c EXCEPT !.pc = l, !.zones = z] \in Call
<1>1. NoCall \in Call /\ NoCall.op = "none" /\ NoCall.pc = "return"
  BY DEF Call, NoCall, CallPCs, Ops, ZoneLists
<1>2. ASSUME NEW l \in CallPCs
      PROVE  /\ [c EXCEPT !.pc = l] \in Call
             /\ \A o \in Ops : [c EXCEPT !.op = o, !.pc = l] \in Call
             /\ \A d \in Detectors \cup {NoThread} : [c EXCEPT !.pc = l, !.thread = d] \in Call
             /\ \A z \in ZoneLists : [c EXCEPT !.pc = l, !.zones = z] \in Call
  BY DEF Call
<1> QED BY <1>1, <1>2

LEMMA DetMoves ==
  ASSUME NEW d \in Detector
  PROVE  /\ NewDet \in Detector
         /\ \A l \in DetPCs : [d EXCEPT !.pc = l] \in Detector
         /\ \A l \in DetPCs : [NewDet EXCEPT !.pc = l] \in Detector
         /\ \A n \in 0..MaxTime : [d EXCEPT !.pc = "sample", !.now = n] \in Detector
<1>1. 0 \in 0..MaxTime
  BY MotionAssumption
<1> QED BY <1>1 DEF Detector, NewDet, DetPCs

LEMMA SelfMoves ==
  ASSUME NEW s \in Selves
  PROVE  /\ \A a \in {"enabled", "running", "stop_evt", "mog2"}, b \in BOOLEAN :
              [s EXCEPT ![a] = b] \in Selves
         /\ \A d \in Detectors \cup {NoThread} : [s EXCEPT !.thread = d] \in Selves
         /\ [s EXCEPT !["thread"] = NoThread] \in Selves
BY DEF Selves

LEMMA MoveTypes ==
  ASSUME TypeOK, NEW t \in Callers, NEW from, NEW to \in CallPCs, Move(t, from, to)
  PROVE  call' \in [Callers -> Call]
<1>1. call[t] \in Call /\ call \in [Callers -> Call]
  BY DEF TypeOK
<1> QED BY <1>1, CallMoves DEF Move

LEMMA AssignTypes ==
  ASSUME TypeOK, NEW t \in Callers, NEW from, NEW to \in CallPCs,
         NEW a \in {"running", "stop_evt", "mog2"}, NEW b \in BOOLEAN,
         Assign(t, from, to, a, b)
  PROVE  TypeOK'
<1>1. self \in Selves
  BY DEF TypeOK, Selves
<1>2. self' \in Selves
  BY <1>1, SelfMoves DEF Assign
<1>3. call' \in [Callers -> Call]
  BY MoveTypes DEF Assign
<1> QED BY <1>2, <1>3 DEF Assign, TypeOK, Selves, env, trigger, saved, history

LEMMA LocalTypes ==
  ASSUME TypeOK, call' \in [Callers -> Call], Local
  PROVE  TypeOK'
BY DEF TypeOK, Local, env, trigger, saved, history

LEMMA JoinTypes ==
  ASSUME TypeOK, call' \in [Callers -> Call], NEW d, Join(d)
  PROVE  TypeOK'
<1>1. late' \in BOOLEAN
  BY DEF Join, TypeOK
<1> QED BY <1>1 DEF TypeOK, Join, env, trigger, saved

LEMMA RequestTypes ==
  ASSUME TypeOK, NEW t \in Callers, Request(t)
  PROVE  TypeOK'
<1>0. call[t] \in Call /\ call \in [Callers -> Call] /\ self \in Selves
  BY DEF TypeOK, Selves
<1>1. ASSUME NEW op \in Ops, NEW l \in CallPCs, Begin(t, op, l)
      PROVE  /\ call' \in [Callers -> Call] /\ requests' \in 0..MaxRequests
             /\ overlap' \in BOOLEAN /\ zone_clash' \in BOOLEAN
             /\ UNCHANGED <<clock, last_trigger, pending_photo, file, det, late>>
  <2>1. [call[t] EXCEPT !.op = op, !.pc = l] \in Call
    BY <1>0, CallMoves
  <2>2. call' = [call EXCEPT ![t] = [call[t] EXCEPT !.op = op, !.pc = l]]
    BY <1>0, <1>1 DEF Begin, Call
  <2>3. requests' \in 0..MaxRequests
    BY <1>1, MotionAssumption DEF Begin, TypeOK
  <2> QED BY <1>0, <1>1, <2>1, <2>2, <2>3 DEF Begin, TypeOK, trigger
<1>2. CASE Enable(t)
  <2>1. self' \in Selves
    BY <1>0, <1>2 DEF Enable, Selves
  <2> QED BY <1>1, <1>2, <2>1 DEF Enable, TypeOK, Selves, CallPCs, Ops
<1>3. CASE Disable(t)
  <2>1. self' \in Selves
    BY <1>0, <1>3 DEF Disable, Selves
  <2> QED BY <1>1, <1>3, <2>1 DEF Disable, TypeOK, Selves, CallPCs, Ops
<1>4. CASE SaveZones(t)
  BY <1>1, <1>4 DEF SaveZones, TypeOK, CallPCs, Ops
<1>5. CASE OnCameraOpen(t)
  BY <1>1, <1>5 DEF OnCameraOpen, TypeOK, CallPCs, Ops
<1>6. CASE OnCameraClose(t)
  BY <1>1, <1>6 DEF OnCameraClose, TypeOK, CallPCs, Ops
<1>7. CASE Remove(t)
  BY <1>1, <1>7 DEF Remove, TypeOK, CallPCs, Ops
<1> QED BY <1>2, <1>3, <1>4, <1>5, <1>6, <1>7 DEF Request

LEMMA CallTypes ==
  ASSUME TypeOK, NEW t \in Callers, CallStep(t)
  PROVE  TypeOK'
<1>0. /\ call[t] \in Call /\ call \in [Callers -> Call] /\ self \in Selves
      /\ self.thread \in Detectors \cup {NoThread} /\ NoThread \in Detectors \cup {NoThread}
  BY DEF TypeOK, Selves
<1>1. /\ NoCall \in Call
      /\ \A l \in CallPCs : [call[t] EXCEPT !.pc = l] \in Call
      /\ \A l \in CallPCs, d \in Detectors \cup {NoThread} :
           [call[t] EXCEPT !.pc = l, !.thread = d] \in Call
      /\ \A l \in CallPCs, z \in ZoneLists : [call[t] EXCEPT !.pc = l, !.zones = z] \in Call
      /\ \A l \in CallPCs, o \in Ops : [call[t] EXCEPT !.op = o, !.pc = l] \in Call
  BY <1>0, CallMoves
<1>2. ASSUME NEW c \in Call, call' = [call EXCEPT ![t] = c]
      PROVE  call' \in [Callers -> Call]
  BY <1>0, <1>2
<1>3. CASE StartCheck(t)
  <2>1. call' \in [Callers -> Call]
    <3>1. CASE Move(t, "start_check", "return")
      BY <3>1, MoveTypes DEF CallPCs
    <3>2. CASE call' = [call EXCEPT ![t] = [@ EXCEPT !.pc = "start_join",
                                                     !.thread = self.thread]]
      <4>1. call' = [call EXCEPT ![t] = [call[t] EXCEPT !.pc = "start_join", !.thread = self.thread]]
        BY <1>0, <3>2 DEF Call
      <4> QED BY <1>0, <1>1, <1>2, <4>1 DEF CallPCs
    <3> QED BY <1>3, <3>1, <3>2 DEF StartCheck
  <2> QED BY <1>3, <2>1, LocalTypes DEF StartCheck
<1>4. CASE StartJoin(t)
  <2>1. call' = [call EXCEPT ![t] = [call[t] EXCEPT !.pc = "clear_stop", !.thread = NoThread]]
    BY <1>0, <1>4 DEF StartJoin, Call
  <2> QED BY <1>0, <1>1, <1>2, <1>4, <2>1, JoinTypes DEF StartJoin, CallPCs
<1>5. CASE ClearStop(t) \/ MakeModel(t) \/ SetRunning(t) \/ ClearRunning(t) \/ SetStop(t)
  BY <1>5, AssignTypes DEF ClearStop, MakeModel, SetRunning, ClearRunning, SetStop, CallPCs
<1>6. CASE NewThread(t)
  <2>1. PICK d \in Detectors : /\ det' = [det EXCEPT ![d].pc = "new"]
                               /\ self' = [self EXCEPT !.thread = d]
    BY <1>6 DEF NewThread
  <2>2. self' \in Selves
    BY <1>0, <2>1, SelfMoves
  <2>3. det' = [det EXCEPT ![d] = [det[d] EXCEPT !.pc = "new"]] /\ det[d] \in Detector
    BY <2>1 DEF TypeOK, Detector
  <2>4. det' \in [Detectors -> Detector]
    BY <2>3, DetMoves DEF TypeOK, DetPCs
  <2>5. call' \in [Callers -> Call]
    BY <1>6, MoveTypes DEF NewThread, CallPCs
  <2> QED BY <1>6, <2>2, <2>4, <2>5 DEF NewThread, TypeOK, Selves, env, trigger, saved,
                                        history
<1>7. CASE StartThread(t)
  <2>1. det' \in [Detectors -> Detector]
    <3>1. CASE self.thread # NoThread /\ det[self.thread].pc = "new"
      <4> DEFINE d == self.thread
      <4>1. det' = [det EXCEPT ![d] = [det[d] EXCEPT !.pc = "head"]]
            /\ d \in Detectors /\ det[d] \in Detector
        BY <1>0, <1>7, <3>1 DEF StartThread, TypeOK, Detector
      <4> HIDE DEF d
      <4> QED BY <4>1, DetMoves DEF TypeOK, DetPCs
    <3>2. CASE ~(self.thread # NoThread /\ det[self.thread].pc = "new")
      BY <1>7, <3>2 DEF StartThread, TypeOK
    <3> QED BY <3>1, <3>2
  <2>2. call' \in [Callers -> Call]
    BY <1>7, MoveTypes DEF StartThread, CallPCs
  <2> QED BY <1>7, <2>1, <2>2 DEF StartThread, TypeOK, env, trigger, saved, history
<1>8. CASE ReadThread(t)
  <2>1. call' = [call EXCEPT ![t] = [call[t] EXCEPT !.pc = "null_thread", !.thread = self.thread]]
    BY <1>0, <1>8 DEF ReadThread, Call
  <2> QED BY <1>0, <1>1, <1>2, <1>8, <2>1, LocalTypes DEF ReadThread, CallPCs
<1>9. CASE NullThread(t)
  <2>1. self' \in Selves
    BY <1>0, <1>9, SelfMoves DEF NullThread, Assign
  <2>2. call' \in [Callers -> Call]
    BY <1>9, MoveTypes DEF NullThread, Assign, CallPCs
  <2> QED BY <1>9, <2>1, <2>2 DEF NullThread, Assign, TypeOK, Selves, env, trigger, saved,
                                  history
<1>10. CASE StopJoin(t)
  <2>1. \E c \in Call : call' = [call EXCEPT ![t] = c]
    <3>1. CASE call[t].op = "unload"
      BY <1>1, <1>10, <3>1 DEF StopJoin, Stopped
    <3>2. CASE call[t].op = "disable"
      BY <1>0, <1>1, <1>10, <3>2 DEF StopJoin, Stopped, CallPCs
    <3>3. CASE call[t].op \notin {"unload", "disable"}
      BY <1>0, <1>1, <1>10, <3>3 DEF StopJoin, Stopped, CallPCs
    <3> QED BY <3>1, <3>2, <3>3
  <2> QED BY <1>2, <1>10, <2>1, JoinTypes DEF StopJoin
<1>11. CASE MarkIdle(t)
  <2>1. CASE Move(t, "mark_idle", "return") /\ UNCHANGED cam
    <3>1. call' \in [Callers -> Call]
      BY <2>1, MoveTypes DEF CallPCs
    <3> QED BY <1>11, <2>1, <3>1 DEF MarkIdle, TypeOK, trigger, saved, history
  <2>2. CASE /\ At(t, "mark_idle") /\ cam = "open" /\ cam' = "closing"
             /\ call' = [call EXCEPT ![t] = [@ EXCEPT !.op = "close", !.pc = "clear_running"]]
    <3>1. call' = [call EXCEPT ![t] = [call[t] EXCEPT !.op = "close", !.pc = "clear_running"]]
      BY <1>0, <2>2 DEF Call
    <3>2. call' \in [Callers -> Call]
      BY <1>1, <1>2, <3>1 DEF CallPCs, Ops
    <3> QED BY <1>11, <2>2, <3>2 DEF MarkIdle, TypeOK, trigger, saved, history
  <2> QED BY <1>11, <2>1, <2>2 DEF MarkIdle
<1>12. CASE DropModel(t)
  <2>1. self' \in Selves
    BY <1>0, <1>12, SelfMoves DEF DropModel, Selves
  <2>2. call' \in [Callers -> Call] /\ cam' \in {"none", "open", "closing", "closed"}
    <3>1. CASE Move(t, "drop_model", "return") /\ cam' = "closed"
      BY <3>1, MoveTypes DEF CallPCs
    <3>2. CASE /\ UNCHANGED cam
               /\ call' = [call EXCEPT ![t] = [@ EXCEPT !.op = "unload", !.pc = "clear_running"]]
      <4>1. call' = [call EXCEPT ![t] = [call[t] EXCEPT !.op = "unload", !.pc = "clear_running"]]
        BY <1>0, <3>2 DEF Call
      <4> QED BY <1>1, <1>2, <3>2, <4>1 DEF CallPCs, Ops, TypeOK
    <3> QED BY <1>12, <3>1, <3>2 DEF DropModel
  <2> QED BY <1>12, <2>1, <2>2 DEF DropModel, TypeOK, Selves, trigger, saved, history
<1>13. CASE ReadZones(t)
  <2>1. \E c \in Call : call' = [call EXCEPT ![t] = c]
    <3>1. CASE file \in ZoneLists
      BY <1>1, <1>13, <3>1 DEF ReadZones, CallPCs
    <3>2. CASE file \notin ZoneLists /\ self.enabled
      BY <1>1, <1>13, <3>2 DEF ReadZones, CallPCs
    <3>3. CASE file \notin ZoneLists /\ ~self.enabled
      BY <1>1, <1>13, <3>3 DEF ReadZones
    <3> QED BY <3>1, <3>2, <3>3
  <2> QED BY <1>2, <1>13, <2>1, LocalTypes DEF ReadZones
<1>14. CASE PutZones(t)
  <2>1. [NoCall EXCEPT !.pc = "start_check", !.op = "open"] \in Call
    BY DEF NoCall, Call, CallPCs, Ops, ZoneLists
  <2>2. call' \in [Callers -> Call]
    BY <1>0, <1>1, <1>14, <2>1 DEF PutZones
  <2>3. call[t].zones \in ZoneLists
    BY <1>0 DEF Call
  <2> QED BY <1>14, <2>2, <2>3 DEF PutZones, TypeOK, env, trigger, history
<1>15. CASE CopyZones(t)
  <2>1. \E c \in Call : call' = [call EXCEPT ![t] = c]
    <3>1. CASE cam = "none"
      BY <1>1, <1>15, <3>1 DEF CopyZones
    <3>2. CASE cam # "none"
      BY <1>1, <1>15, <3>2 DEF CopyZones, CallPCs, TypeOK
    <3> QED BY <3>1, <3>2
  <2> QED BY <1>2, <1>15, <2>1, LocalTypes DEF CopyZones
<1>16. CASE Truncate(t)
  <2>1. call' \in [Callers -> Call]
    BY <1>16, MoveTypes DEF Truncate, CallPCs
  <2> QED BY <1>16, <2>1 DEF Truncate, TypeOK, env, trigger, history
<1>17. CASE WriteZones(t)
  <2>1. call' \in [Callers -> Call]
    BY <1>17, MoveTypes DEF WriteZones, CallPCs
  <2>2. call[t].zones \in ZoneLists
    BY <1>0 DEF Call
  <2> QED BY <1>17, <2>1, <2>2 DEF WriteZones, TypeOK, env, trigger, history
<1> QED BY <1>3, <1>4, <1>5, <1>6, <1>7, <1>8, <1>9, <1>10, <1>11, <1>12, <1>13, <1>14,
           <1>15,
           <1>16, <1>17 DEF CallStep

LEMMA DetTypes ==
  ASSUME TypeOK, NEW d \in Detectors, DetStep(d)
  PROVE  TypeOK'
<1>0. det[d] \in Detector /\ det \in [Detectors -> Detector] /\ clock \in 0..MaxTime
      /\ det[d].now \in 0..MaxTime
  BY DEF TypeOK, Detector
<1>1. ASSUME NEW l \in DetPCs, DetGoto(d, l)
      PROVE  det' \in [Detectors -> Detector]
  BY <1>0, <1>1, DetMoves DEF DetGoto
<1>2. CASE Head(d)
  <2>1. det' \in [Detectors -> Detector]
    <3>1. CASE self.running /\ ~self.stop_evt
      <4>1. det' = [det EXCEPT ![d] = [det[d] EXCEPT !.pc = "sample", !.now = clock]]
        BY <1>0, <1>2, <3>1 DEF Head, Detector
      <4> QED BY <1>0, <4>1, DetMoves
    <3>2. CASE ~(self.running /\ ~self.stop_evt)
      BY <1>1, <1>2, <3>2 DEF Head, DetPCs
    <3> QED BY <3>1, <3>2
  <2> QED BY <1>2, <2>1 DEF Head, DetLocal, TypeOK, env, trigger, saved, history
<1>3. CASE Sample(d) \/ Detect(d) \/ DetectRaises(d)
  <2>1. det' \in [Detectors -> Detector]
    BY <1>1, <1>3 DEF Sample, Detect, DetectRaises, DetPCs
  <2> QED BY <1>3, <2>1 DEF Sample, Detect, DetectRaises, DetLocal, TypeOK, env, trigger, saved, history
<1>4. CASE Trigger(d) \/ Pend(d)
  <2>1. det' \in [Detectors -> Detector]
    BY <1>1, <1>4 DEF Trigger, Pend, DetPCs
  <2> QED BY <1>0, <1>4, <2>1 DEF Trigger, Pend, TypeOK, env, saved, history
<1> QED BY <1>2, <1>3, <1>4 DEF DetStep

LEMMA TypesHold == TypeOK /\ [Next]_vars => TypeOK'
<1> SUFFICES ASSUME TypeOK, [Next]_vars PROVE TypeOK'
  OBVIOUS
<1>1. CASE OnFrame \/ UNCHANGED vars
  BY <1>1 DEF OnFrame, vars, TypeOK, env, trigger, saved, history
<1>2. CASE Tick
  BY <1>2, MotionAssumption DEF Tick, TypeOK, env, saved, history
<1> QED BY <1>1, <1>2, RequestTypes, CallTypes, DetTypes DEF Next

LEMMA InitTypes == Init => TypeOK
<1> SUFFICES ASSUME Init PROVE TypeOK
  OBVIOUS
<1>1. NewDet \in Detector
  BY MotionAssumption DEF NewDet, Detector, DetPCs
<1>2. NoCall \in Call
  BY DEF NoCall, Call, CallPCs, Ops, ZoneLists
<1>3. det \in [Detectors -> Detector] /\ call \in [Callers -> Call]
  BY <1>1, <1>2 DEF Init
<1>4. self \in Selves
  BY DEF Init, Selves
<1>5. /\ clock \in 0..MaxTime /\ last_trigger \in 0..MaxTime /\ requests \in 0..MaxRequests
      /\ file \in ZoneLists \cup {"absent", "broken"}
  BY MotionAssumption DEF Init
<1> QED BY <1>3, <1>4, <1>5 DEF Init, TypeOK, Selves, ZoneLists

\* The plugin's state has the types the code gives it.
THEOREM MotionTypes == Spec => []TypeOK
BY InitTypes, TypesHold, PTL DEF Spec
-----------------------------------------------------------------------------
(* The zones in memory and the zones file.                                 *)

FilePCs == {"read_zones", "put_zones", "copy_zones", "truncate", "write_zones"}

\* What a call that reads or writes the file knows, being the only one.
ZoneStage(c) ==
  /\ c.pc \in {"read_zones", "put_zones"} => c.op = "open"
  /\ c.pc \in {"copy_zones", "truncate", "write_zones"} => c.op = "save"
  /\ c.pc = "put_zones"   => c.zones = file /\ file \in ZoneLists
  /\ c.pc = "truncate"    => c.zones = zones
  /\ c.pc = "write_zones" => c.zones = zones /\ file = "broken"

ZonesSame == cam # "none" /\ file \in ZoneLists => zones = file

ZoneInv ==
  /\ TypeOK
  /\ \A t \in Callers : /\ call[t].pc \in FilePCs => call[t].op \in FileOps
                        /\ call[t].op = "close" => cam # "none"
  /\ ~zone_clash =>
       /\ \A t, u \in Callers : call[t].op \in FileOps /\ call[u].op \in FileOps => t = u
       /\ \A t \in Callers : ZoneStage(call[t])
       /\ (\A t \in Callers : call[t].pc \notin FilePCs) => ZonesSame

\* A statement moves its caller only.
LEMMA MoveFacts ==
  ASSUME TypeOK, NEW t \in Callers, NEW from, NEW to, Move(t, from, to)
  PROVE  /\ call[t].pc = from /\ \A u \in Callers \ {t} : call'[u] = call[u]
         /\ to = "return" => call'[t].pc = "return" /\ call'[t].op = "none"
         /\ to # "return" => /\ call'[t].pc = to /\ call'[t].op = call[t].op
                             /\ call'[t].zones = call[t].zones
<1>1. call[t] \in Call /\ call \in [Callers -> Call]
  BY DEF TypeOK
<1> QED BY <1>1 DEF Move, At, NoCall, Call

\* The statements that start and stop detection.
StartPCs == {"start_check", "start_join", "clear_stop", "make_model",
             "set_running", "new_thread", "start_thread"}
StopPCs  == {"clear_running", "set_stop", "read_thread", "null_thread", "stop_join"}

Switching(t) ==
  \/ StartCheck(t) \/ StartJoin(t) \/ ClearStop(t) \/ MakeModel(t) \/ SetRunning(t)
  \/ NewThread(t) \/ StartThread(t)
  \/ ClearRunning(t) \/ SetStop(t) \/ ReadThread(t) \/ NullThread(t) \/ StopJoin(t)
  \/ MarkIdle(t) \/ DropModel(t)

SwitchPCs == StartPCs \cup StopPCs \cup {"mark_idle", "drop_model"}

LEMMA SwitchingFacts ==
  ASSUME TypeOK, NEW t \in Callers, Switching(t)
  PROVE  /\ call[t].pc \in SwitchPCs /\ call'[t].pc \in SwitchPCs \cup {"return"}
         /\ \A u \in Callers \ {t} : call'[u] = call[u]
         /\ call'[t].op \in {call[t].op, "none", "close", "unload"}
         /\ call'[t].op = "close" => call[t].op = "close" \/ cam = "open"
         /\ UNCHANGED <<zones, file, removed, overlap, zone_clash>>
         /\ cam' = cam \/ (cam = "open" /\ cam' = "closing")
                       \/ (call[t].op = "close" /\ cam' = "closed")
<1>0. call[t] \in Call /\ call \in [Callers -> Call]
  BY DEF TypeOK
<1> USE DEF SwitchPCs, StartPCs, StopPCs
<1>1. CASE ClearStop(t) \/ MakeModel(t) \/ SetRunning(t) \/ ClearRunning(t) \/ SetStop(t) \/ NullThread(t)
  BY <1>1, MoveFacts DEF ClearStop, MakeModel, SetRunning, ClearRunning, SetStop,
                         NullThread, Assign,
                         env, saved, history
<1>2. CASE StartCheck(t)
  <2>1. CASE self.running
    BY <1>2, <2>1, MoveFacts DEF StartCheck, Local, env, saved, history
  <2>2. CASE ~self.running
    <3>1. /\ call' = [call EXCEPT ![t] = [call[t] EXCEPT !.pc = "start_join",
                                                        !.thread = self.thread]]
          /\ call[t].pc = "start_check" /\ UNCHANGED <<env, saved, history>>
      BY <1>2, <2>2 DEF StartCheck, Local, At
    <3>2. call'[t].pc = "start_join" /\ call'[t].op = call[t].op
          /\ \A u \in Callers \ {t} : call'[u] = call[u]
      BY <1>0, <3>1 DEF Call
    <3> QED BY <3>1, <3>2 DEF env, saved, history
  <2> QED BY <2>1, <2>2
<1>3. CASE StartJoin(t) \/ ReadThread(t)
  <2>1. UNCHANGED <<env, saved, overlap, zone_clash>>
    BY <1>3 DEF StartJoin, ReadThread, Local, Join, history
  <2>2. CASE StartJoin(t)
    <3>1. call[t].pc = "start_join" /\ call'[t].pc = "clear_stop" /\ call'[t].op = call[t].op
          /\ \A u \in Callers \ {t} : call'[u] = call[u]
      BY <1>0, <2>2 DEF StartJoin, At, Call
    <3> QED BY <2>1, <3>1 DEF env, saved
  <2>3. CASE ReadThread(t)
    <3>1. call[t].pc = "read_thread" /\ call'[t].pc = "null_thread" /\ call'[t].op = call[t].op
          /\ \A u \in Callers \ {t} : call'[u] = call[u]
      BY <1>0, <2>3 DEF ReadThread, At, Call
    <3> QED BY <2>1, <3>1 DEF env, saved
  <2> QED BY <1>3, <2>2, <2>3
<1>4. CASE NewThread(t) \/ StartThread(t)
  BY <1>4, MoveFacts DEF NewThread, StartThread, env, saved, history
<1>5. CASE StopJoin(t)
  <2>1. UNCHANGED <<env, saved, overlap, zone_clash>> /\ call[t].pc = "stop_join"
    BY <1>5 DEF StopJoin, Join, At
  <2>2. /\ \A u \in Callers \ {t} : call'[u] = call[u]
        /\ call'[t].pc \in SwitchPCs \cup {"return"} /\ call'[t].op \in {call[t].op, "none"}
    BY <1>0, <1>5 DEF StopJoin, Stopped, Call, NoCall
  <2> QED BY <2>1, <2>2 DEF env, saved, NoCall
<1>6. CASE MarkIdle(t)
  <2>1. CASE Move(t, "mark_idle", "return") /\ UNCHANGED cam
    BY <1>6, <2>1, MoveFacts DEF MarkIdle, saved, history
  <2>2. CASE /\ At(t, "mark_idle") /\ cam = "open" /\ cam' = "closing"
             /\ call' = [call EXCEPT ![t] = [@ EXCEPT !.op = "close", !.pc = "clear_running"]]
    BY <1>0, <1>6, <2>2 DEF MarkIdle, saved, history, Call, At
  <2> QED BY <1>6, <2>1, <2>2 DEF MarkIdle
<1>7. CASE DropModel(t)
  <2>1. CASE call[t].op = "close" /\ Move(t, "drop_model", "return") /\ cam' = "closed"
    BY <1>7, <2>1, MoveFacts DEF DropModel, saved, history
  <2>2. CASE /\ call[t].op = "remove" /\ UNCHANGED cam
             /\ call' = [call EXCEPT ![t] = [@ EXCEPT !.op = "unload", !.pc = "clear_running"]]
    BY <1>0, <1>7, <2>2 DEF DropModel, saved, history, Call, At
  <2> QED BY <1>7, <2>1, <2>2 DEF DropModel
<1> QED BY <1>1, <1>2, <1>3, <1>4, <1>5, <1>6, <1>7 DEF Switching

\* A request finds its caller free.
LEMMA BeginFacts ==
  ASSUME TypeOK, NEW t \in Callers, NEW op, NEW l, Begin(t, op, l)
  PROVE  /\ call[t].pc = "return" /\ call'[t].op = op /\ call'[t].pc = l /\ ~removed
         /\ \A u \in Callers \ {t} : call'[u] = call[u]
         /\ UNCHANGED <<file, det>>
         /\ overlap' = (overlap \/ (op \in SwitchOps /\ Busy(SwitchOps)))
         /\ zone_clash' = (zone_clash \/ (op \in FileOps /\ Busy(FileOps)))
<1>1. call[t] \in Call /\ call \in [Callers -> Call]
  BY DEF TypeOK
<1> QED BY <1>1 DEF Begin, At, Call

\* A step of a call that is not at the file changes neither the zones nor the file.
LEMMA ZoneAside ==
  ASSUME ZoneInv, TypeOK', NEW t \in Callers, call[t].pc \notin FilePCs, call'[t].pc \notin FilePCs,
         \A u \in Callers \ {t} : call'[u] = call[u],
         call'[t].op \in FileOps => call[t].op \in FileOps,
         call'[t].op = "close" => cam' # "none",
         UNCHANGED <<zones, file, zone_clash>>, cam = "none" <=> cam' = "none"
  PROVE  ZoneInv'
<1>1. \A u \in Callers : /\ call'[u].pc \in FilePCs => call'[u].op \in FileOps
                         /\ call'[u].op = "close" => cam' # "none"
  BY DEF ZoneInv
<1>2. ASSUME ~zone_clash
      PROVE  /\ \A u, v \in Callers : call'[u].op \in FileOps /\ call'[v].op \in FileOps => u = v
             /\ \A u \in Callers : ZoneStage(call[u])'
             /\ (\A u \in Callers : call'[u].pc \notin FilePCs) => ZonesSame'
  <2>1. ZoneStage(call[t])'
    BY DEF ZoneStage, FilePCs
  <2>2. \A u \in Callers \ {t} : ZoneStage(call[u])'
    BY <1>2 DEF ZoneInv, ZoneStage
  <2>3. (\A u \in Callers : call'[u].pc \notin FilePCs) => ZonesSame'
    BY <1>2 DEF ZoneInv, ZonesSame
  <2> QED BY <1>2, <2>1, <2>2, <2>3 DEF ZoneInv
<1> QED BY <1>1, <1>2 DEF ZoneInv

\* A step of the call that is at the file, or comes to it.
LEMMA ZoneOwn ==
  ASSUME ZoneInv, TypeOK', NEW t \in Callers,
         ~zone_clash' => ~zone_clash /\ \A u \in Callers \ {t} : call[u].op \notin FileOps,
         \A u \in Callers \ {t} : call'[u] = call[u],
         call'[t].pc \in FilePCs => call'[t].op \in FileOps,
         call'[t].op # "close", cam' # "none" \/ cam' = cam,
         ~zone_clash' => ZoneStage(call[t])' /\ (call'[t].pc \notin FilePCs => ZonesSame')
  PROVE  ZoneInv'
<1>1. \A u \in Callers : /\ call'[u].pc \in FilePCs => call'[u].op \in FileOps
                         /\ call'[u].op = "close" => cam' # "none"
  BY DEF ZoneInv
<1>2. ASSUME ~zone_clash'
      PROVE  /\ \A u, v \in Callers : call'[u].op \in FileOps /\ call'[v].op \in FileOps => u = v
             /\ \A u \in Callers : ZoneStage(call[u])'
             /\ (\A u \in Callers : call'[u].pc \notin FilePCs) => ZonesSame'
  <2>1. \A u \in Callers \ {t} : call'[u].pc \notin FilePCs
    BY <1>2 DEF ZoneInv
  <2>2. \A u \in Callers \ {t} : ZoneStage(call[u])'
    BY <2>1 DEF ZoneStage, FilePCs
  <2> QED BY <1>2, <2>2
<1> QED BY <1>1, <1>2 DEF ZoneInv

LEMMA ZoneHolds == ZoneInv /\ [Next]_vars => ZoneInv'
<1> SUFFICES ASSUME ZoneInv, [Next]_vars PROVE ZoneInv'
  OBVIOUS
<1>0. TypeOK /\ TypeOK'
  BY TypesHold DEF ZoneInv
<1>1. ASSUME UNCHANGED <<cam, call, zones, file, zone_clash>>
      PROVE  ZoneInv'
  BY <1>0, <1>1 DEF ZoneInv, ZoneStage, ZonesSame
<1>2. CASE OnFrame \/ Tick \/ UNCHANGED vars
  BY <1>1, <1>2 DEF OnFrame, Tick, vars, env, saved, history
<1>3. ASSUME NEW d \in Detectors, DetStep(d)
      PROVE  ZoneInv'
  BY <1>1, <1>3 DEF DetStep, Head, Sample, Detect, DetectRaises, Trigger, Pend, DetLocal, env, saved,
                    history
<1>4. ASSUME NEW t \in Callers, Switching(t)
      PROVE  ZoneInv'
  <2>1. call[t].pc \notin FilePCs /\ call'[t].pc \notin FilePCs
    BY <1>0, <1>4, SwitchingFacts DEF SwitchPCs, StartPCs, StopPCs, FilePCs
  <2>2. call[t].op = "close" => cam # "none"
    BY DEF ZoneInv
  <2> QED BY <1>0, <1>4, <2>1, <2>2, SwitchingFacts, ZoneAside DEF FileOps
<1>5. ASSUME NEW t \in Callers, Enable(t) \/ Disable(t) \/ OnCameraClose(t) \/ Remove(t)
      PROVE  ZoneInv'
  <2>1. PICK op, l : /\ Begin(t, op, l) /\ op \in {"enable", "disable", "close", "remove"}
                     /\ l \in {"start_check", "clear_running"} /\ zones' = zones
                     /\ cam' = cam \/ (cam = "open" /\ cam' = "closing")
                     /\ op = "close" => cam' = "closing"
    BY <1>5 DEF Enable, Disable, OnCameraClose, Remove
  <2>2. call[t].pc \notin FilePCs /\ call'[t].pc \notin FilePCs /\ call'[t].op \notin FileOps
    BY <1>0, <2>1, BeginFacts DEF FilePCs, FileOps
  <2>3. /\ \A u \in Callers \ {t} : call'[u] = call[u]
        /\ UNCHANGED <<zones, file, zone_clash>>
        /\ call'[t].op = "close" => cam' = "closing"
    BY <1>0, <2>1, BeginFacts DEF FileOps, TypeOK
  <2>4. cam = "none" <=> cam' = "none"
    BY <2>1
  <2> QED BY <1>0, <2>2, <2>3, <2>4, ZoneAside
<1>6. ASSUME NEW t \in Callers, OnCameraOpen(t) \/ SaveZones(t)
      PROVE  ZoneInv'
  <2>1. PICK op, l : /\ Begin(t, op, l) /\ op \in FileOps /\ op # "close"
                     /\ \/ l = "read_zones" /\ op = "open"
                        \/ l = "copy_zones" /\ op = "save"
                     /\ cam' # "none" \/ cam' = cam
    BY <1>6 DEF OnCameraOpen, SaveZones, FileOps
  <2>2. ~zone_clash' => ~zone_clash /\ \A u \in Callers : call[u].op \notin FileOps
    BY <1>0, <2>1, BeginFacts DEF Busy
  <2>3. call'[t].pc \in FilePCs /\ call'[t].op \in FileOps /\ ZoneStage(call[t])'
    BY <1>0, <2>1, BeginFacts DEF FilePCs, FileOps, ZoneStage
  <2> QED BY <1>0, <2>1, <2>2, <2>3, BeginFacts, ZoneOwn
<1>7. ASSUME NEW t \in Callers,
             ReadZones(t) \/ PutZones(t) \/ CopyZones(t) \/ Truncate(t) \/ WriteZones(t)
      PROVE  ZoneInv'
  <2>0. call[t] \in Call /\ call \in [Callers -> Call] /\ call[t].zones \in ZoneLists
    BY <1>0 DEF TypeOK, Call
  <2>1. call[t].pc \in FilePCs /\ UNCHANGED <<zone_clash, cam>>
    BY <1>7 DEF ReadZones, PutZones, CopyZones, Truncate, WriteZones, Local, Move, At,
                FilePCs,
                env, history
  <2>2. ~zone_clash => /\ \A u \in Callers \ {t} : call[u].op \notin FileOps
                       /\ ZoneStage(call[t])
    BY <2>1 DEF ZoneInv
  <2>3. SUFFICES
          /\ \A u \in Callers \ {t} : call'[u] = call[u]
          /\ call'[t].pc \in FilePCs => call'[t].op \in FileOps
          /\ call'[t].op # "close"
          /\ ~zone_clash => ZoneStage(call[t])' /\ (call'[t].pc \notin FilePCs => ZonesSame')
    BY <1>0, <2>1, <2>2, ZoneOwn
  <2>4. call[t].op \in FileOps
    BY <2>1 DEF ZoneInv
  <2>5. CASE ReadZones(t)
    <3>1. UNCHANGED <<cam, zones, file>> /\ call[t].pc = "read_zones"
      BY <2>5 DEF ReadZones, Local, At, env, saved
    <3>2. CASE file \in ZoneLists
      BY <2>0, <2>2, <2>4, <2>5, <3>1, <3>2 DEF ReadZones, Call, ZoneStage, FilePCs, FileOps
    <3>3. CASE file \notin ZoneLists
      BY <2>0, <2>2, <2>4, <2>5, <3>1, <3>3 DEF ReadZones, Call, NoCall, ZoneStage,
                                                ZonesSame, FilePCs, FileOps
    <3> QED BY <3>2, <3>3
  <2>6. CASE PutZones(t)
    BY <2>0, <2>2, <2>4, <2>6 DEF PutZones, At, Call, NoCall, ZoneStage, ZonesSame,
                                  FilePCs, FileOps
  <2>7. CASE CopyZones(t)
    BY <2>0, <2>2, <2>4, <2>7 DEF CopyZones, At, Local, saved, env, Call, NoCall, ZoneStage,
                                  ZonesSame, FilePCs, FileOps
  <2>8. CASE Truncate(t)
    <3>1. /\ \A u \in Callers \ {t} : call'[u] = call[u]
          /\ call'[t].pc = "write_zones" /\ call'[t].op = call[t].op /\ call'[t].zones = call[t].zones
          /\ file' = "broken" /\ zones' = zones /\ call[t].pc = "truncate"
      BY <1>0, <2>8, MoveFacts DEF Truncate
    <3> QED BY <2>2, <2>4, <3>1 DEF ZoneStage, FilePCs, FileOps
  <2>9. CASE WriteZones(t)
    <3>1. /\ \A u \in Callers \ {t} : call'[u] = call[u]
          /\ call'[t].pc = "return" /\ call'[t].op = "none" /\ call[t].pc = "write_zones"
          /\ file' \in {call[t].zones, "broken"} /\ zones' = zones
      BY <1>0, <2>9, MoveFacts DEF WriteZones
    <3> QED BY <2>2, <3>1 DEF ZoneStage, ZonesSame, FilePCs, FileOps, ZoneLists
  <2> QED BY <1>7, <2>5, <2>6, <2>7, <2>8, <2>9
<1> QED BY <1>2, <1>3, <1>4, <1>5, <1>6, <1>7 DEF Next, Request, CallStep, Switching

\* The zones in memory are those of the file when nobody loads or saves, unless two
\* such calls overlapped or a write failed.  Model-checked by the run motion.
THEOREM ZonesAgree == Spec => []ZonesKept
<1>1. Init => ZoneInv
  <2>1. ASSUME Init PROVE ZoneInv
    <3>1. \A t \in Callers : call[t].pc = "return" /\ call[t].op = "none"
      BY <2>1 DEF Init, NoCall
    <3> QED BY <2>1, <3>1, InitTypes DEF Init, ZoneInv, ZoneStage, ZonesSame, FilePCs,
                                         FileOps
  <2> QED BY <2>1
<1>2. ZoneInv => ZonesKept
  BY DEF ZoneInv, ZonesKept, ZonesSame, Busy
<1> QED BY <1>1, <1>2, ZoneHolds, PTL DEF Spec
-----------------------------------------------------------------------------
(* Detection and its switch.                                               *)

\* Where a call of each kind can be.
Place(c) == CASE c.op = "none"    -> c.pc = "return"
              [] c.op = "save"    -> c.pc \in {"copy_zones", "truncate", "write_zones"}
              [] c.op = "enable"  -> c.pc \in StartPCs
              [] c.op = "open"    -> c.pc \in StartPCs \cup {"read_zones", "put_zones"}
              [] c.op = "disable" -> c.pc \in StopPCs \cup {"mark_idle"}
              [] c.op = "unload"  -> c.pc \in StopPCs
              [] OTHER            -> c.pc \in StopPCs \cup {"drop_model"}

Sound == /\ removed \/ ~self.enabled => ~self.running
         /\ self.running => self.mog2 /\ self.thread \in Live \cup Raised /\ ~self.stop_evt
Quiet == Sound /\ (self.enabled /\ cam = "open" /\ ~removed => self.running)

\* What the only call that starts or stops detection has done so far.
Stage(c) ==
  /\ c.op \in {"enable", "open"} => ~removed
  /\ c.op \in {"enable", "open"} /\ c.pc \in StartPCs => self.enabled
  /\ c.op = "disable" => ~self.enabled
  /\ c.op = "close" => cam # "open"
  /\ c.op \in {"remove", "unload"} => removed
  /\ c.pc \in {"read_zones", "put_zones", "start_check"} => Sound
  /\ c.pc \in {"start_join", "clear_stop", "make_model", "set_running", "set_stop",
               "read_thread", "null_thread", "stop_join", "mark_idle", "drop_model"}
       => ~self.running
  /\ c.pc \in {"make_model", "set_running", "new_thread", "start_thread"} => ~self.stop_evt
  /\ c.pc \in {"set_running", "new_thread", "start_thread"} => self.mog2
  /\ c.pc \in {"new_thread", "start_thread"} => self.running
  /\ c.pc = "start_thread" => self.thread # NoThread /\ det[self.thread].pc = "new"

SwitchInv ==
  /\ TypeOK
  /\ \A t \in Callers : Place(call[t])
  /\ ~overlap =>
       /\ \A t, u \in Callers : call[t].op \in SwitchOps /\ call[u].op \in SwitchOps => t = u
       /\ \A t \in Callers : call[t].op \in SwitchOps => Stage(call[t])
       /\ ~Busy(SwitchOps) => Quiet

\* Another call than the only switching one leaves detection alone.
LEMMA SwitchAside ==
  ASSUME SwitchInv, TypeOK', NEW t \in Callers, \A u \in Callers \ {t} : call'[u] = call[u],
         call[t].op \notin SwitchOps, call'[t].op \notin SwitchOps, Place(call'[t]),
         UNCHANGED <<cam, removed, self, det, overlap>>
  PROVE  SwitchInv'
<1>1. \A u \in Callers : Place(call'[u])
  BY DEF SwitchInv
<1>2. ASSUME ~overlap
      PROVE  /\ \A u, v \in Callers : call'[u].op \in SwitchOps /\ call'[v].op \in SwitchOps => u = v
             /\ \A u \in Callers : call'[u].op \in SwitchOps => Stage(call[u])'
             /\ ~Busy(SwitchOps)' => Quiet'
  <2>1. \A u \in Callers : call'[u].op \in SwitchOps => call'[u] = call[u] /\ call[u].op \in SwitchOps
    OBVIOUS
  <2>2. \A u \in Callers : call'[u].op \in SwitchOps => Stage(call[u])'
    BY <1>2, <2>1 DEF SwitchInv, Stage, Sound, Live, Raised
  <2>3. ~Busy(SwitchOps)' => ~Busy(SwitchOps)
    BY DEF Busy
  <2> QED BY <1>2, <2>1, <2>2, <2>3 DEF SwitchInv, Quiet, Sound, Live, Raised
<1> QED BY <1>1, <1>2 DEF SwitchInv

\* A step of the only switching call, or its beginning.
LEMMA SwitchOwn ==
  ASSUME SwitchInv, TypeOK', NEW t \in Callers, \A u \in Callers \ {t} : call'[u] = call[u],
         Place(call'[t]),
         ~overlap' => /\ ~overlap /\ \A u \in Callers \ {t} : call[u].op \notin SwitchOps
                      /\ call'[t].op \in SwitchOps => Stage(call[t])'
                      /\ call'[t].op \notin SwitchOps => Quiet'
  PROVE  SwitchInv'
<1>1. \A u \in Callers : Place(call'[u])
  BY DEF SwitchInv
<1>2. ~overlap' => /\ \A u, v \in Callers : call'[u].op \in SwitchOps /\ call'[v].op \in SwitchOps => u = v
                   /\ \A u \in Callers : call'[u].op \in SwitchOps => Stage(call[u])'
                   /\ ~Busy(SwitchOps)' => Quiet'
  BY DEF Busy
<1> QED BY <1>1, <1>2 DEF SwitchInv

\* A detector's step ends none that is to run.
LEMMA SwitchDetector ==
  ASSUME SwitchInv, TypeOK', NEW d \in Detectors, DetStep(d)
  PROVE  SwitchInv'
<1>0. TypeOK /\ det[d] \in Detector /\ det \in [Detectors -> Detector]
  BY DEF SwitchInv, TypeOK
<1>1. /\ UNCHANGED <<cam, removed, self, call, overlap>>
      /\ det[d].pc \notin {"unused", "new"} /\ \A e \in Detectors \ {d} : det'[e] = det[e]
  BY <1>0 DEF DetStep, Head, Sample, Detect, DetectRaises, Trigger, Pend, DetAt, DetGoto,
              DetLocal, env, saved, history
<1>2. self.running /\ ~self.stop_evt => det'[d].pc \notin {"unused", "new", "ended"}
  <2>1. CASE Head(d)
    <3>1. CASE self.running /\ ~self.stop_evt
      <4>1. det' = [det EXCEPT ![d] = [det[d] EXCEPT !.pc = "sample", !.now = clock]]
        BY <2>1, <3>1 DEF Head
      <4> QED BY <1>0, <4>1 DEF Detector
    <3>2. CASE ~(self.running /\ ~self.stop_evt)
      BY <3>2
    <3> QED BY <3>1, <3>2
  <2>2. CASE Sample(d) \/ Detect(d) \/ DetectRaises(d) \/ Trigger(d) \/ Pend(d)
    BY <1>0, <2>2 DEF Sample, Detect, DetectRaises, Trigger, Pend, DetGoto, Detector, NewDet
  <2> QED BY <2>1, <2>2 DEF DetStep
<1>3. Sound => Sound'
  BY <1>1, <1>2 DEF Sound, Live, Raised
<1>4. self.thread # NoThread => self.thread \in Detectors
  BY <1>0 DEF TypeOK
<1>5. \A u \in Callers : Stage(call[u]) => Stage(call[u])'
  BY <1>1, <1>3, <1>4 DEF Stage
<1>6. Quiet => Quiet'
  BY <1>1, <1>3 DEF Quiet
<1> QED BY <1>1, <1>5, <1>6 DEF SwitchInv, Busy

LEMMA SwitchRequest ==
  ASSUME SwitchInv, TypeOK', NEW t \in Callers, Request(t)
  PROVE  SwitchInv'
<1>0. TypeOK /\ self \in Selves
  BY DEF SwitchInv, TypeOK, Selves
<1>1. CASE SaveZones(t)
  <2>1. /\ Begin(t, "save", "copy_zones") /\ UNCHANGED <<cam, removed, self>>
    BY <1>1 DEF SaveZones
  <2>2. call[t].op = "none"
    <3>1. call[t].pc = "return" /\ Place(call[t]) /\ call[t].op \in Ops
      BY <1>0, <2>1, BeginFacts DEF SwitchInv, TypeOK, Call
    <3> QED BY <3>1 DEF Place, StartPCs, StopPCs, Ops
  <2>3. Place(call'[t]) /\ call'[t].op = "save" /\ \A u \in Callers \ {t} : call'[u] = call[u]
    BY <1>0, <2>1, BeginFacts DEF Place
  <2>4. UNCHANGED <<det, overlap>>
    BY <1>0, <2>1, BeginFacts DEF SwitchOps, TypeOK
  <2> QED BY <2>1, <2>2, <2>3, <2>4, SwitchAside DEF SwitchOps
<1>2. ASSUME NEW op \in SwitchOps, NEW l, Begin(t, op, l)
      PROVE  /\ \A u \in Callers \ {t} : call'[u] = call[u]
             /\ ~overlap' => ~overlap /\ Quiet /\ \A u \in Callers : call[u].op \notin SwitchOps
             /\ call'[t].op = op /\ call'[t].pc = l /\ ~removed /\ det' = det
  <2>1. ~overlap' => ~overlap /\ ~Busy(SwitchOps)
    BY <1>0, <1>2, BeginFacts
  <2> QED BY <1>0, <1>2, <2>1, BeginFacts DEF SwitchInv, Busy
<1> USE DEF StartPCs, StopPCs
<1>3. CASE Enable(t)
  <2>1. Begin(t, "enable", "start_check") /\ UNCHANGED <<cam, removed>>
        /\ self' = [self EXCEPT !.enabled = TRUE] /\ "enable" \in SwitchOps
    BY <1>3 DEF Enable, SwitchOps, Ops
  <2>2. ~overlap' => Stage(call[t])'
    BY <1>0, <1>2, <2>1 DEF Stage, Quiet, Sound, Live, Raised, Selves
  <2>3. Place(call'[t])
    BY <1>2, <2>1 DEF Place
  <2> QED BY <1>2, <2>1, <2>2, <2>3, SwitchOwn
<1>4. CASE Disable(t)
  <2>1. Begin(t, "disable", "clear_running") /\ UNCHANGED <<cam, removed>>
        /\ self' = [self EXCEPT !.enabled = FALSE] /\ "disable" \in SwitchOps
    BY <1>4 DEF Disable, SwitchOps, Ops
  <2>2. ~overlap' => Stage(call[t])'
    BY <1>0, <1>2, <2>1 DEF Stage, Selves
  <2>3. Place(call'[t])
    BY <1>2, <2>1 DEF Place
  <2> QED BY <1>2, <2>1, <2>2, <2>3, SwitchOwn
<1>5. CASE OnCameraOpen(t)
  <2>1. Begin(t, "open", "read_zones") /\ UNCHANGED <<removed, self>> /\ "open" \in SwitchOps
    BY <1>5 DEF OnCameraOpen, SwitchOps, Ops
  <2>2. ~overlap' => Stage(call[t])'
    BY <1>0, <1>2, <2>1 DEF Stage, Quiet, Sound, Live, Raised
  <2>3. Place(call'[t])
    BY <1>2, <2>1 DEF Place
  <2> QED BY <1>2, <2>1, <2>2, <2>3, SwitchOwn
<1>6. CASE OnCameraClose(t)
  <2>1. Begin(t, "close", "clear_running") /\ cam' = "closing" /\ "close" \in SwitchOps
    BY <1>6 DEF OnCameraClose, SwitchOps, Ops
  <2>2. ~overlap' => Stage(call[t])'
    BY <1>0, <1>2, <2>1 DEF Stage
  <2>3. Place(call'[t])
    BY <1>2, <2>1 DEF Place
  <2> QED BY <1>2, <2>1, <2>2, <2>3, SwitchOwn
<1>7. CASE Remove(t)
  <2>1. Begin(t, "remove", "clear_running") /\ removed' /\ "remove" \in SwitchOps
    BY <1>7 DEF Remove, SwitchOps, Ops
  <2>2. ~overlap' => Stage(call[t])'
    BY <1>0, <1>2, <2>1 DEF Stage
  <2>3. Place(call'[t])
    BY <1>2, <2>1 DEF Place
  <2> QED BY <1>2, <2>1, <2>2, <2>3, SwitchOwn
<1> QED BY <1>1, <1>3, <1>4, <1>5, <1>6, <1>7 DEF Request

\* A call goes through its own part of the code.
LEMMA PlaceFacts ==
  ASSUME NEW c, NEW e, c.op \in Ops, Place(c)
  PROVE  /\ c.pc \in StartPCs => c.op \in {"enable", "open"}
         /\ c.pc \in StopPCs => c.op \in {"disable", "close", "remove", "unload"}
         /\ e.op = c.op /\ c.pc \in StartPCs /\ e.pc \in StartPCs => Place(e)
         /\ e.op = c.op /\ c.pc \in StopPCs /\ e.pc \in StopPCs => Place(e)
         /\ e.op = "none" /\ e.pc = "return" => Place(e)
<1> USE DEF StartPCs, StopPCs, Ops
<1>1. c.pc \in StartPCs => c.op \in {"enable", "open"}
  BY DEF Place
<1>2. c.pc \in StopPCs => c.op \in {"disable", "close", "remove", "unload"}
  BY DEF Place
<1>3. e.op \in {"enable", "open"} /\ e.pc \in StartPCs => Place(e)
  BY DEF Place
<1>4. e.op \in {"disable", "close", "remove", "unload"} /\ e.pc \in StopPCs => Place(e)
  BY DEF Place
<1>5. e.op = "none" /\ e.pc = "return" => Place(e)
  BY DEF Place
<1> HIDE DEF StartPCs, StopPCs, Ops
<1> QED BY <1>1, <1>2, <1>3, <1>4, <1>5

\* A step of a call that starts or stops detection.
LEMMA SwitchCall ==
  ASSUME SwitchInv, TypeOK', NEW t \in Callers,
         Switching(t) \/ ReadZones(t) \/ PutZones(t)
  PROVE  SwitchInv'
<1>0. /\ TypeOK /\ call[t] \in Call /\ call \in [Callers -> Call] /\ call[t].op \in Ops
      /\ self \in Selves /\ det \in [Detectors -> Detector] /\ NoThread \notin Detectors
      /\ self.thread \in Detectors \cup {NoThread} /\ Place(call[t])
  BY DEF SwitchInv, TypeOK, Selves, Call, NoThread, Detectors
<1> DEFINE c == call[t]
<1> USE DEF StartPCs, StopPCs
<1>1. /\ c.pc \in StartPCs \cup StopPCs \cup {"mark_idle", "drop_model", "read_zones", "put_zones"}
      /\ \A u \in Callers \ {t} : call'[u] = call[u]
      /\ UNCHANGED <<overlap, removed>>
  <2>1. CASE Switching(t)
    BY <1>0, <2>1, SwitchingFacts DEF SwitchPCs
  <2>2. CASE ReadZones(t) \/ PutZones(t)
    BY <1>0, <2>2 DEF ReadZones, PutZones, At, Local, env, history
  <2> QED BY <2>1, <2>2
<1>2. c.op \in SwitchOps /\ c.op # "save" /\ c.op # "none"
  BY <1>0, <1>1 DEF Place, SwitchOps
<1>3. ~overlap => Stage(c) /\ \A u \in Callers \ {t} : call[u].op \notin SwitchOps
  BY <1>2 DEF SwitchInv
<1>4. SUFFICES
        /\ Place(call'[t])
        /\ ~overlap => /\ call'[t].op \in SwitchOps => Stage(call[t])'
                       /\ call'[t].op \notin SwitchOps => Quiet'
  BY <1>1, <1>3, SwitchOwn
<1>5. ASSUME NEW l, NEW m, Move(t, l, m)
      PROVE  /\ c.pc = l
             /\ m = "return" => call'[t].pc = "return" /\ call'[t].op = "none"
             /\ m # "return" => call'[t].pc = m /\ call'[t].op = c.op
  BY <1>0, <1>5, MoveFacts
<1>6. "none" \notin SwitchOps
  BY DEF SwitchOps
<1>p. /\ c.pc \in StartPCs => c.op \in {"enable", "open"}
      /\ c.pc \in StopPCs => c.op \in {"disable", "close", "remove", "unload"}
      /\ call'[t].op = c.op /\ c.pc \in StartPCs /\ call'[t].pc \in StartPCs => Place(call'[t])
      /\ call'[t].op = c.op /\ c.pc \in StopPCs /\ call'[t].pc \in StopPCs => Place(call'[t])
      /\ call'[t].op = "none" /\ call'[t].pc = "return" => Place(call'[t])
  BY <1>0, PlaceFacts
<1>7. CASE StartCheck(t)
  <2>1. CASE self.running
    <3>1. call'[t].pc = "return" /\ call'[t].op = "none" /\ c.pc = "start_check"
      BY <1>0, <1>7, <2>1, MoveFacts DEF StartCheck
    <3>2. UNCHANGED <<cam, removed, self, det>>
      BY <1>7 DEF StartCheck, Local, env
    <3> QED BY <1>2, <1>3, <1>6, <1>p, <2>1, <3>1, <3>2 DEF Stage, Quiet, Sound, Live, Raised
  <2>2. CASE ~self.running
    <3>1. call'[t].pc = "start_join" /\ call'[t].op = c.op /\ c.pc = "start_check"
      BY <1>0, <1>7, <2>2 DEF StartCheck, At, Call
    <3>2. UNCHANGED <<cam, removed, self, det>>
      BY <1>7 DEF StartCheck, Local, env
    <3> QED BY <1>2, <1>3, <1>p, <2>2, <3>1, <3>2 DEF Stage
  <2> QED BY <2>1, <2>2
<1>8. CASE StartJoin(t)
  <2>1. call'[t].pc = "clear_stop" /\ call'[t].op = c.op /\ c.pc = "start_join"
    BY <1>0, <1>8 DEF StartJoin, At, Call
  <2>2. UNCHANGED <<cam, removed, self, det>>
    BY <1>8 DEF StartJoin, Join, env
  <2> QED BY <1>2, <1>3, <1>p, <2>1, <2>2 DEF Stage
<1>10. CASE ClearStop(t)
  <2>1. /\ call'[t].pc = "make_model" /\ call'[t].op = c.op /\ c.pc = "clear_stop"
        /\ UNCHANGED <<cam, removed, det>> /\ self' = [self EXCEPT !["stop_evt"] = FALSE]
    BY <1>5, <1>10 DEF ClearStop, Assign, env
  <2> QED BY <1>0, <1>2, <1>3, <1>p, <2>1 DEF Stage, Selves
<1>11. CASE MakeModel(t)
  <2>1. /\ call'[t].pc = "set_running" /\ call'[t].op = c.op /\ c.pc = "make_model"
        /\ UNCHANGED <<cam, removed, det>> /\ self' = [self EXCEPT !["mog2"] = TRUE]
    BY <1>5, <1>11 DEF MakeModel, Assign, env
  <2> QED BY <1>0, <1>2, <1>3, <1>p, <2>1 DEF Stage, Selves
<1>12. CASE SetRunning(t)
  <2>1. /\ call'[t].pc = "new_thread" /\ call'[t].op = c.op /\ c.pc = "set_running"
        /\ UNCHANGED <<cam, removed, det>> /\ self' = [self EXCEPT !["running"] = TRUE]
    BY <1>5, <1>12 DEF SetRunning, Assign, env
  <2> QED BY <1>0, <1>2, <1>3, <1>p, <2>1 DEF Stage, Selves
<1>13. CASE NewThread(t)
  <2>1. /\ call'[t].pc = "start_thread" /\ call'[t].op = c.op /\ c.pc = "new_thread"
        /\ UNCHANGED <<cam, removed>>
    BY <1>5, <1>13 DEF NewThread, env
  <2>2. PICK d \in Detectors : /\ det' = [det EXCEPT ![d].pc = "new"]
                               /\ self' = [self EXCEPT !.thread = d]
    BY <1>13 DEF NewThread
  <2>3. self'.thread # NoThread /\ det'[self'.thread].pc = "new"
        /\ \A a \in {"enabled", "running", "stop_evt", "mog2"} : self'[a] = self[a]
    BY <1>0, <2>2 DEF Selves, Detector
  <2> QED BY <1>2, <1>3, <1>p, <2>1, <2>3 DEF Stage
<1>14. CASE StartThread(t)
  <2>1. /\ call'[t].pc = "return" /\ call'[t].op = "none" /\ c.pc = "start_thread"
        /\ UNCHANGED <<cam, removed, self>>
    BY <1>5, <1>14 DEF StartThread, env
  <2>2. ASSUME ~overlap
        PROVE  Quiet'
    <3>1. Stage(c) /\ self.thread \in Detectors /\ det[self.thread].pc = "new"
      BY <1>0, <1>3, <2>1, <2>2 DEF Stage
    <3>2. det'[self.thread].pc = "head"
      BY <1>0, <1>14, <3>1 DEF StartThread, Detector
    <3>3. self.thread \in Live'
      BY <3>1, <3>2 DEF Live
    <3>4. self.running /\ self.mog2 /\ ~self.stop_evt /\ self.enabled /\ ~removed
      BY <1>0, <1>1, <1>2, <2>1, <3>1 DEF Stage, Place
    <3> QED BY <2>1, <3>3, <3>4 DEF Quiet, Sound
  <2> QED BY <1>6, <2>1, <2>2 DEF Place
<1>15. CASE ClearRunning(t)
  <2>1. /\ call'[t].pc = "set_stop" /\ call'[t].op = c.op /\ c.pc = "clear_running"
        /\ UNCHANGED <<cam, removed, det>> /\ self' = [self EXCEPT !["running"] = FALSE]
    BY <1>5, <1>15 DEF ClearRunning, Assign, env
  <2> QED BY <1>0, <1>2, <1>3, <1>p, <2>1 DEF Stage, Selves
<1>16. CASE SetStop(t)
  <2>1. /\ call'[t].pc = "read_thread" /\ call'[t].op = c.op /\ c.pc = "set_stop"
        /\ UNCHANGED <<cam, removed, det>> /\ self' = [self EXCEPT !["stop_evt"] = TRUE]
    BY <1>5, <1>16 DEF SetStop, Assign, env
  <2> QED BY <1>0, <1>2, <1>3, <1>p, <2>1 DEF Stage, Selves
<1>17. CASE ReadThread(t)
  <2>1. call'[t].pc = "null_thread" /\ call'[t].op = c.op /\ c.pc = "read_thread"
    BY <1>0, <1>17 DEF ReadThread, At, Call
  <2>2. UNCHANGED <<cam, removed, self, det>>
    BY <1>17 DEF ReadThread, Local, env
  <2> QED BY <1>2, <1>3, <1>p, <2>1, <2>2 DEF Stage
<1>18. CASE NullThread(t)
  <2>1. /\ call'[t].pc = "stop_join" /\ call'[t].op = c.op /\ c.pc = "null_thread"
        /\ UNCHANGED <<cam, removed, det>> /\ self' = [self EXCEPT !["thread"] = NoThread]
    BY <1>5, <1>18 DEF NullThread, Assign, env
  <2> QED BY <1>0, <1>2, <1>3, <1>p, <2>1 DEF Stage, Selves
<1>19. CASE StopJoin(t)
  <2>1. UNCHANGED <<cam, removed, self, det>> /\ c.pc = "stop_join"
    BY <1>19 DEF StopJoin, Join, At, env
  <2>2. \/ c.op = "unload" /\ call'[t].pc = "return" /\ call'[t].op = "none"
        \/ c.op = "disable" /\ call'[t].pc = "mark_idle" /\ call'[t].op = c.op
        \/ c.op \notin {"unload", "disable"} /\ call'[t].pc = "drop_model" /\ call'[t].op = c.op
    BY <1>0, <1>19 DEF StopJoin, Stopped, Call, NoCall
  <2> QED BY <1>0, <1>2, <1>3, <1>6, <2>1, <2>2 DEF Place, Stage, Quiet, Sound, Live, Raised, Ops
<1>20. CASE MarkIdle(t)
  <2>1. UNCHANGED <<removed, self, det>> /\ c.pc = "mark_idle" /\ c.op = "disable"
    BY <1>0, <1>2, <1>20 DEF MarkIdle, Move, At, Place, Ops
  <2>2. CASE Move(t, "mark_idle", "return") /\ UNCHANGED cam
    <3>1. call'[t].pc = "return" /\ call'[t].op = "none"
      BY <1>5, <2>2
    <3> QED BY <1>2, <1>3, <1>6, <2>1, <2>2, <3>1 DEF Place, Stage, Quiet, Sound, Live, Raised
  <2>3. CASE /\ At(t, "mark_idle") /\ cam = "open" /\ cam' = "closing"
             /\ call' = [call EXCEPT ![t] = [@ EXCEPT !.op = "close", !.pc = "clear_running"]]
    <3>1. call'[t].pc = "clear_running" /\ call'[t].op = "close"
      BY <1>0, <2>3 DEF Call
    <3>2. Place(call'[t])
      BY <3>1 DEF Place
    <3> QED BY <1>6, <2>1, <2>3, <3>1, <3>2 DEF Stage, SwitchOps, Ops
  <2> QED BY <1>20, <2>2, <2>3 DEF MarkIdle
<1>21. CASE DropModel(t)
  <2>1. /\ UNCHANGED <<removed, det>> /\ c.pc = "drop_model"
        /\ self' = [self EXCEPT !.mog2 = FALSE]
    BY <1>21 DEF DropModel, At
  <2>2. ~overlap => ~self'.running /\ self'.enabled = self.enabled
    BY <1>0, <1>3, <2>1 DEF Stage, Selves
  <2>3. CASE c.op = "close" /\ Move(t, "drop_model", "return") /\ cam' = "closed"
    <3>1. call'[t].pc = "return" /\ call'[t].op = "none"
      BY <1>5, <2>3
    <3> QED BY <1>6, <2>2, <2>3, <3>1 DEF Place, Quiet, Sound
  <2>4. CASE /\ c.op = "remove" /\ UNCHANGED cam
             /\ call' = [call EXCEPT ![t] = [@ EXCEPT !.op = "unload", !.pc = "clear_running"]]
    <3>1. call'[t].pc = "clear_running" /\ call'[t].op = "unload"
      BY <1>0, <2>4 DEF Call
    <3>2. Place(call'[t])
      BY <3>1 DEF Place
    <3> QED BY <1>2, <1>3, <2>1, <2>4, <3>1, <3>2 DEF Stage, SwitchOps, Ops
  <2> QED BY <1>21, <2>3, <2>4 DEF DropModel
<1>22. CASE ReadZones(t)
  <2>1. UNCHANGED <<cam, removed, self, det>> /\ c.pc = "read_zones" /\ c.op = "open"
    BY <1>0, <1>2, <1>22 DEF ReadZones, Local, At, env, Place, Ops
  <2>2. \/ call'[t].pc = "put_zones" /\ call'[t].op = c.op
        \/ self.enabled /\ call'[t].pc = "start_check" /\ call'[t].op = c.op
        \/ ~self.enabled /\ call'[t].pc = "return" /\ call'[t].op = "none"
    <3>1. CASE file \in ZoneLists
      BY <1>0, <1>22, <3>1 DEF ReadZones, Call
    <3>2. CASE file \notin ZoneLists
      BY <1>0, <1>22, <3>2 DEF ReadZones, Call, NoCall
    <3> QED BY <3>1, <3>2
  <2>3. Place(call'[t])
    BY <2>1, <2>2 DEF Place
  <2> QED BY <1>2, <1>3, <1>6, <2>1, <2>2, <2>3 DEF Stage, Quiet, Sound, Live, Raised
<1>23. CASE PutZones(t)
  <2>1. UNCHANGED <<cam, removed, self, det>> /\ c.pc = "put_zones" /\ c.op = "open"
    BY <1>0, <1>2, <1>23 DEF PutZones, At, env, Place, Ops
  <2>2. \/ self.enabled /\ call'[t].pc = "start_check" /\ call'[t].op = "open"
        \/ ~self.enabled /\ call'[t].pc = "return" /\ call'[t].op = "none"
    BY <1>0, <1>23 DEF PutZones, NoCall
  <2>3. Place(call'[t])
    BY <2>1, <2>2 DEF Place
  <2> QED BY <1>2, <1>3, <1>6, <2>1, <2>2, <2>3 DEF Stage, Quiet, Sound, Live, Raised
<1> QED BY <1>7, <1>8, <1>10, <1>11, <1>12, <1>13, <1>14, <1>15, <1>16, <1>17, <1>18,
           <1>19, <1>20,
           <1>21, <1>22, <1>23 DEF Switching

LEMMA SwitchHolds == SwitchInv /\ [Next]_vars => SwitchInv'
<1> SUFFICES ASSUME SwitchInv, [Next]_vars PROVE SwitchInv'
  OBVIOUS
<1>0. TypeOK /\ TypeOK'
  BY TypesHold DEF SwitchInv
<1>1. CASE OnFrame \/ Tick \/ UNCHANGED vars
  <2>1. UNCHANGED <<cam, removed, self, det, call, overlap>>
    BY <1>1 DEF OnFrame, Tick, vars, env, history
  <2> QED BY <1>0, <2>1 DEF SwitchInv, Stage, Quiet, Sound, Live, Raised, Busy
<1>2. ASSUME NEW t \in Callers, CopyZones(t) \/ Truncate(t) \/ WriteZones(t)
      PROVE  SwitchInv'
  <2>0. call[t] \in Call /\ call \in [Callers -> Call] /\ call[t].op \in Ops /\ Place(call[t])
    BY <1>0 DEF SwitchInv, TypeOK, Call
  <2>1. /\ call[t].pc \in {"copy_zones", "truncate", "write_zones"}
        /\ UNCHANGED <<cam, removed, self, det, overlap>>
    BY <1>2 DEF CopyZones, Truncate, WriteZones, Local, Move, At, env, history
  <2>2. call[t].op = "save"
    BY <2>0, <2>1 DEF Place, StartPCs, StopPCs, Ops
  <2>3. /\ \A u \in Callers \ {t} : call'[u] = call[u]
        /\ \/ call'[t].op = "save" /\ call'[t].pc \in {"truncate", "write_zones"}
           \/ call'[t].op = "none" /\ call'[t].pc = "return"
    <3>1. CASE CopyZones(t)
      BY <2>0, <2>2, <3>1 DEF CopyZones, Call, NoCall
    <3>2. CASE Truncate(t) \/ WriteZones(t)
      BY <1>0, <2>2, <3>2, MoveFacts DEF Truncate, WriteZones
    <3> QED BY <1>2, <3>1, <3>2
  <2> QED BY <1>0, <2>1, <2>2, <2>3, SwitchAside DEF SwitchOps, Place
<1> QED BY <1>0, <1>1, <1>2, SwitchRequest, SwitchCall, SwitchDetector
        DEF Next, CallStep, Switching

\* Detection runs exactly when it should while nobody switches it, unless two calls
\* that start or stop it overlapped.  Model-checked by the run motion.
THEOREM SwitchObeyed == Spec => []DetectionFollowsSwitch
<1>1. Init => SwitchInv
  <2>1. ASSUME Init PROVE SwitchInv
    <3>1. \A t \in Callers : call[t].pc = "return" /\ call[t].op = "none"
      BY <2>1 DEF Init, NoCall
    <3>2. ~self.running /\ ~self.enabled
      BY <2>1 DEF Init
    <3> QED BY <2>1, <3>1, <3>2, InitTypes DEF SwitchInv, Place, Quiet, Sound, SwitchOps
  <2> QED BY <2>1
<1>2. SwitchInv => DetectionFollowsSwitch
  BY DEF SwitchInv, DetectionFollowsSwitch, Quiet, Sound
<1> QED BY <1>1, <1>2, SwitchHolds, PTL DEF Spec
-----------------------------------------------------------------------------
(* Triggers are a cooldown apart.                                          *)

\* The live detector, if there is one, is the plugin's thread, or the one the only
\* switching call took from it and is joining; a start has none when it makes its own.
SingleStage(c) ==
  /\ c.pc \in {"start_join", "null_thread"} => c.thread = self.thread
  /\ c.pc \in {"clear_stop", "make_model", "set_running", "new_thread", "start_thread"}
       => Live = {}
  /\ c.pc = "stop_join" => Live \subseteq {c.thread}
  /\ c.pc # "stop_join" => Live \subseteq {self.thread}

Single == /\ ~Busy(SwitchOps) => Live \subseteq {self.thread}
          /\ \A t \in Callers : call[t].op \in SwitchOps => SingleStage(call[t])

\* A detector that decided to trigger does so a cooldown after the last one.
Timed == \A d \in Detectors : det[d].pc = "trigger" => det[d].now >= last_trigger + Cooldown

TriggerInv == SwitchInv /\ (~overlap /\ ~late => Single /\ Timed)

LEMMA SingleLive ==
  ASSUME TriggerInv, ~overlap, ~late
  PROVE  \A d, e \in Live : d = e
<1>1. CASE Busy(SwitchOps)
  BY <1>1 DEF TriggerInv, Single, SingleStage, Busy
<1>2. CASE ~Busy(SwitchOps)
  BY <1>2 DEF TriggerInv, Single
<1> QED BY <1>1, <1>2

\* A step of the only switching call, or its beginning, that starts no trigger.
LEMMA SingleOwn ==
  ASSUME TriggerInv, SwitchInv', NEW t \in Callers, \A u \in Callers \ {t} : call'[u] = call[u],
         last_trigger' = last_trigger,
         \A d \in Detectors : det'[d].pc = "trigger" => det'[d] = det[d],
         ~overlap' => ~overlap /\ \A u \in Callers \ {t} : call[u].op \notin SwitchOps,
         ~late' => ~late,
         ~overlap' /\ ~late' => /\ call'[t].op \in SwitchOps => SingleStage(call[t])'
                                /\ call'[t].op \notin SwitchOps => Live' \subseteq {self'.thread}
  PROVE  TriggerInv'
<1>1. ASSUME ~overlap', ~late'
      PROVE  Single' /\ Timed'
  <2>1. Timed'
    BY <1>1 DEF TriggerInv, Timed
  <2>2. \A u \in Callers : call'[u].op \in SwitchOps => u = t
    BY <1>1
  <2> QED BY <1>1, <2>1, <2>2 DEF Single, Busy
<1> QED BY <1>1 DEF TriggerInv

\* A step that is none of theirs.
LEMMA SingleAside ==
  ASSUME TriggerInv, SwitchInv', UNCHANGED <<self, det, overlap, late, last_trigger>>,
         \A u \in Callers : \/ call'[u] = call[u]
                            \/ call[u].op \notin SwitchOps /\ call'[u].op \notin SwitchOps
  PROVE  TriggerInv'
<1>1. ASSUME ~overlap, ~late
      PROVE  Single' /\ Timed'
  <2>1. Single /\ Timed /\ Live' = Live
    BY <1>1 DEF TriggerInv, Live
  <2>2. Timed' /\ (~Busy(SwitchOps)' => ~Busy(SwitchOps))
    BY <2>1 DEF Timed, Busy
  <2>3. \A u \in Callers : call'[u].op \in SwitchOps => SingleStage(call[u])'
    BY <2>1 DEF Single, SingleStage
  <2> QED BY <2>1, <2>2, <2>3 DEF Single
<1> QED BY <1>1 DEF TriggerInv

LEMMA TriggerRequest ==
  ASSUME TriggerInv, SwitchInv', NEW t \in Callers, Request(t)
  PROVE  TriggerInv' /\ last_trigger' = last_trigger
<1>0. TypeOK /\ self \in Selves
  BY DEF TriggerInv, SwitchInv, TypeOK, Selves
<1>1. PICK op, l : /\ Begin(t, op, l) /\ l \notin {"start_join", "null_thread", "clear_stop",
                        "make_model", "set_running", "new_thread", "start_thread", "stop_join"}
                   /\ op \in SwitchOps \/ (op = "save" /\ self' = self)
                   /\ self'.thread = self.thread
  BY <1>0 DEF Request, Enable, Disable, SaveZones, OnCameraOpen, OnCameraClose, Remove,
              SwitchOps, Ops, Selves
<1>2. /\ call[t].pc = "return" /\ call'[t].op = op /\ call'[t].pc = l
      /\ \A u \in Callers \ {t} : call'[u] = call[u]
      /\ UNCHANGED <<det, late, last_trigger>>
      /\ overlap' = (overlap \/ (op \in SwitchOps /\ Busy(SwitchOps)))
  BY <1>0, <1>1, BeginFacts DEF Begin, trigger
<1>3. call[t].op \notin SwitchOps
  BY <1>2 DEF TriggerInv, SwitchInv, Place, StartPCs, StopPCs, SwitchOps, Ops
<1>4. CASE op = "save" /\ self' = self
  <2>1. overlap' = overlap
    BY <1>0, <1>2, <1>4 DEF SwitchOps, TypeOK
  <2>2. \A u \in Callers : \/ call'[u] = call[u]
                           \/ call[u].op \notin SwitchOps /\ call'[u].op \notin SwitchOps
    BY <1>2, <1>3, <1>4 DEF SwitchOps
  <2> QED BY <1>2, <1>4, <2>1, <2>2, SingleAside
<1>5. CASE op \in SwitchOps
  <2>1. ~overlap' /\ ~late' => Live' \subseteq {self'.thread}
    BY <1>1, <1>2, <1>5 DEF TriggerInv, Single, Live
  <2>2. ~overlap' => ~overlap /\ \A u \in Callers : call[u].op \notin SwitchOps
    BY <1>2, <1>5 DEF Busy
  <2>3. ~overlap' /\ ~late' => SingleStage(call[t])'
    BY <1>1, <1>2, <2>1 DEF SingleStage
  <2> QED BY <1>2, <1>5, <2>1, <2>2, <2>3, SingleOwn
<1> QED BY <1>1, <1>2, <1>4, <1>5

LEMMA TriggerCall ==
  ASSUME TriggerInv, SwitchInv', NEW t \in Callers,
         Switching(t) \/ ReadZones(t) \/ PutZones(t)
  PROVE  TriggerInv' /\ last_trigger' = last_trigger
<1>0. /\ TypeOK /\ call[t] \in Call /\ call \in [Callers -> Call] /\ call[t].op \in Ops
      /\ self \in Selves /\ det \in [Detectors -> Detector] /\ NoThread \notin Detectors
      /\ Place(call[t]) /\ SwitchInv
  BY DEF TriggerInv, SwitchInv, TypeOK, Selves, Call, NoThread, Detectors
<1> DEFINE c == call[t]
<1>1. /\ c.pc \in SwitchPCs \cup {"read_zones", "put_zones"}
      /\ \A u \in Callers \ {t} : call'[u] = call[u]
      /\ overlap' = overlap
  <2>1. CASE Switching(t)
    BY <1>0, <2>1, SwitchingFacts
  <2>2. CASE ReadZones(t) \/ PutZones(t)
    BY <1>0, <2>2 DEF ReadZones, PutZones, At, Local, history
  <2> QED BY <2>1, <2>2
<1>2. c.op \in SwitchOps
  BY <1>0, <1>1 DEF Place, SwitchOps, SwitchPCs, StartPCs, StopPCs
<1>3. ~overlap => \A u \in Callers \ {t} : call[u].op \notin SwitchOps
  BY <1>0, <1>2 DEF SwitchInv
<1>4. ~overlap /\ ~late => SingleStage(c)
  BY <1>2 DEF TriggerInv, Single
<1>z. ASSUME ReadZones(t) \/ PutZones(t)
      PROVE  /\ c.pc \in {"read_zones", "put_zones"}
             /\ call'[t].pc \in {"return", "put_zones", "start_check"}
             /\ call'[t].op \in {c.op, "none", "open"}
  <2>1. CASE PutZones(t)
    BY <1>0, <2>1 DEF PutZones, At, Call, NoCall
  <2>2. CASE ReadZones(t) /\ file \in ZoneLists
    BY <1>0, <2>2 DEF ReadZones, At, Call
  <2>3. CASE ReadZones(t) /\ file \notin ZoneLists
    BY <1>0, <2>3 DEF ReadZones, At, Call, NoCall
  <2> QED BY <1>z, <2>1, <2>2, <2>3
<1>5. SUFFICES
        /\ last_trigger' = last_trigger /\ (~late' => ~late)
        /\ \A d \in Detectors : det'[d].pc = "trigger" => det'[d] = det[d]
        /\ ~overlap /\ ~late' => SingleStage(call[t])' /\ (call'[t].pc = "return" => Live' \subseteq {self'.thread})
  <2>1. call'[t].op \notin SwitchOps => call'[t].pc = "return"
    <3>1. TypeOK' /\ Place(call'[t]) /\ call'[t].op \in Ops /\ call'[t].op # "save"
      <4>1. TypeOK' /\ Place(call'[t]) /\ call'[t].op \in Ops
        BY DEF SwitchInv, TypeOK, Call
      <4>2. call'[t].op # "save"
        <5>1. CASE Switching(t)
          BY <1>0, <1>2, <5>1, SwitchingFacts DEF SwitchOps
        <5>2. CASE ReadZones(t) \/ PutZones(t)
          BY <1>0, <1>2, <1>z, <5>2 DEF SwitchOps
        <5> QED BY <5>1, <5>2
      <4> QED BY <4>1, <4>2
    <3> QED BY <3>1 DEF Place, SwitchOps
  <2>2. call'[t].pc = "return" /\ ~overlap /\ ~late' => Live' \subseteq {self'.thread}
    BY <1>5
  <2> QED BY <1>1, <1>3, <1>5, <2>1, <2>2, SingleOwn
<1>6. ASSUME NEW l, NEW m, Move(t, l, m)
      PROVE  /\ c.pc = l /\ (m = "return" => call'[t].pc = "return") /\ (m # "return" => call'[t].pc = m)
             /\ m # "return" => call'[t].thread = c.thread
  BY <1>0, <1>6 DEF Move, At, NoCall, Call
<1> USE <1>0, <1>4
<1>7. CASE StartCheck(t)
  <2>1. UNCHANGED <<self, det, late, last_trigger>> /\ c.pc = "start_check"
    BY <1>7 DEF StartCheck, Local, history, trigger, At
  <2>2. \/ call'[t].pc = "return"
        \/ call'[t].pc = "start_join" /\ call'[t].thread = self.thread
    <3>1. CASE self.running
      BY <1>6, <1>7, <3>1 DEF StartCheck
    <3>2. CASE ~self.running
      BY <1>7, <3>2 DEF StartCheck, Call
    <3> QED BY <3>1, <3>2
  <2> QED BY <2>1, <2>2 DEF SingleStage, Live
<1>8. CASE StartJoin(t)
  <2>1. /\ UNCHANGED <<self, det, last_trigger>> /\ c.pc = "start_join"
        /\ late' = (late \/ c.thread \in Live) /\ call'[t].pc = "clear_stop"
    BY <1>8 DEF StartJoin, Join, trigger, At, Call
  <2> QED BY <2>1 DEF SingleStage, Live
<1>9. CASE ClearStop(t) \/ MakeModel(t) \/ SetRunning(t)
  <2>1. UNCHANGED <<det, late, last_trigger>> /\ self'.thread = self.thread
    BY <1>9 DEF ClearStop, MakeModel, SetRunning, Assign, history, trigger, Selves
  <2>2. \/ c.pc = "clear_stop" /\ call'[t].pc = "make_model"
        \/ c.pc = "make_model" /\ call'[t].pc = "set_running"
        \/ c.pc = "set_running" /\ call'[t].pc = "new_thread"
    BY <1>6, <1>9 DEF ClearStop, MakeModel, SetRunning, Assign
  <2> QED BY <2>1, <2>2 DEF SingleStage, Live
<1>10. CASE NewThread(t)
  <2>1. /\ UNCHANGED <<late, last_trigger>> /\ c.pc = "new_thread" /\ call'[t].pc = "start_thread"
    BY <1>6, <1>10 DEF NewThread, history, trigger
  <2>2. PICK d \in Detectors : det[d].pc = "unused" /\ det' = [det EXCEPT ![d].pc = "new"]
    BY <1>10 DEF NewThread
  <2>3. det'[d].pc = "new" /\ \A e \in Detectors \ {d} : det'[e] = det[e]
    BY <2>2 DEF Detector
  <2>4. Live' = Live
    BY <2>2, <2>3 DEF Live
  <2> QED BY <2>1, <2>3, <2>4 DEF SingleStage
<1>11. CASE StartThread(t)
  <2>1. /\ UNCHANGED <<late, last_trigger, self>> /\ c.pc = "start_thread" /\ call'[t].pc = "return"
    BY <1>6, <1>11 DEF StartThread, history, trigger
  <2>2. CASE self.thread # NoThread /\ det[self.thread].pc = "new"
    <3> DEFINE d == self.thread
    <3>1. d \in Detectors /\ det' = [det EXCEPT ![d].pc = "head"]
      BY <1>11, <2>2 DEF StartThread, TypeOK
    <3> HIDE DEF d
    <3>2. det'[d].pc = "head" /\ \A e \in Detectors \ {d} : det'[e] = det[e]
      BY <3>1 DEF Detector
    <3>3. Live = {} => Live' \subseteq {d}
      BY <3>2 DEF Live
    <3> QED BY <2>1, <3>2, <3>3 DEF SingleStage, d
  <2>3. CASE ~(self.thread # NoThread /\ det[self.thread].pc = "new")
    <3>1. det' = det
      BY <1>11, <2>3 DEF StartThread
    <3> QED BY <2>1, <3>1 DEF SingleStage, Live
  <2> QED BY <2>2, <2>3
<1>12. CASE ClearRunning(t) \/ SetStop(t)
  <2>1. UNCHANGED <<det, late, last_trigger>> /\ self'.thread = self.thread
    BY <1>12 DEF ClearRunning, SetStop, Assign, history, trigger, Selves
  <2>2. \/ c.pc = "clear_running" /\ call'[t].pc = "set_stop"
        \/ c.pc = "set_stop" /\ call'[t].pc = "read_thread"
    BY <1>6, <1>12 DEF ClearRunning, SetStop, Assign
  <2> QED BY <2>1, <2>2 DEF SingleStage, Live
<1>13. CASE ReadThread(t)
  <2>1. /\ UNCHANGED <<self, det, late, last_trigger>> /\ c.pc = "read_thread"
        /\ call'[t].pc = "null_thread" /\ call'[t].thread = self.thread
    BY <1>13 DEF ReadThread, Local, history, trigger, At, Call
  <2> QED BY <2>1 DEF SingleStage, Live
<1>14. CASE NullThread(t)
  <2>1. /\ UNCHANGED <<det, late, last_trigger>> /\ c.pc = "null_thread"
        /\ call'[t].pc = "stop_join" /\ call'[t].thread = c.thread
    BY <1>6, <1>14 DEF NullThread, Assign, history, trigger
  <2> QED BY <2>1 DEF SingleStage, Live
<1>15. CASE StopJoin(t)
  <2>1. /\ UNCHANGED <<self, det, last_trigger>> /\ c.pc = "stop_join"
        /\ late' = (late \/ c.thread \in Live)
    BY <1>15 DEF StopJoin, Join, trigger, At
  <2>2. call'[t].pc \in {"return", "mark_idle", "drop_model"}
    BY <1>15 DEF StopJoin, Stopped, Call, NoCall
  <2>3. ~overlap /\ ~late' => Live' = {}
    BY <2>1 DEF SingleStage, Live
  <2> QED BY <2>1, <2>2, <2>3 DEF SingleStage
<1>16. CASE MarkIdle(t) \/ DropModel(t)
  <2>1. UNCHANGED <<det, late, last_trigger>> /\ self'.thread = self.thread
    BY <1>16 DEF MarkIdle, DropModel, history, trigger, Selves
  <2>2. c.pc \in {"mark_idle", "drop_model"} /\ call'[t].pc \in {"return", "clear_running"}
    BY <1>6, <1>16 DEF MarkIdle, DropModel, At, Call
  <2> QED BY <2>1, <2>2 DEF SingleStage, Live
<1>17. CASE ReadZones(t) \/ PutZones(t)
  <2>1. UNCHANGED <<self, det, late, last_trigger>>
    BY <1>17 DEF ReadZones, PutZones, Local, history, trigger
  <2>2. c.pc \in {"read_zones", "put_zones"} /\ call'[t].pc \in {"return", "put_zones", "start_check"}
    BY <1>z, <1>17
  <2> QED BY <2>1, <2>2 DEF SingleStage, Live
<1> QED BY <1>7, <1>8, <1>9, <1>10, <1>11, <1>12, <1>13, <1>14, <1>15, <1>16, <1>17 DEF Switching

LEMMA TriggerDetector ==
  ASSUME TriggerInv, SwitchInv', NEW d \in Detectors, DetStep(d)
  PROVE  /\ TriggerInv'
         /\ ~overlap /\ ~late /\ last_trigger' # last_trigger =>
              last_trigger' >= last_trigger + Cooldown
<1>0. /\ det[d] \in Detector /\ det[d].now \in Nat /\ clock \in 0..MaxTime
      /\ det \in [Detectors -> Detector] /\ Cooldown \in Nat /\ last_trigger \in Nat
  BY MotionAssumption DEF TriggerInv, SwitchInv, TypeOK, Detector
<1>1. d \in Live /\ UNCHANGED <<self, call, overlap, late>>
  BY DEF DetStep, Head, Sample, Detect, DetectRaises, Trigger, Pend, DetAt, DetLocal, history,
         Live
<1>2. \A e \in Detectors \ {d} : det'[e] = det[e]
  BY <1>0 DEF DetStep, Head, Sample, Detect, DetectRaises, Trigger, Pend, DetGoto
<1>3. Live' \subseteq Live
  BY <1>1, <1>2 DEF Live
<1>4. Single => Single'
  BY <1>1, <1>3 DEF Single, SingleStage, Busy
<1>5. CASE Trigger(d)
  <2>1. last_trigger' = det[d].now /\ det[d].pc = "trigger" /\ det'[d].pc = "pend"
    BY <1>0, <1>5 DEF Trigger, DetAt, DetGoto, Detector
  <2>2. ASSUME ~overlap, ~late
        PROVE  Timed' /\ det[d].now >= last_trigger + Cooldown
    <3>1. det[d].now >= last_trigger + Cooldown
      BY <2>1, <2>2 DEF TriggerInv, Timed
    <3>2. \A e \in Detectors : det'[e].pc # "trigger"
      BY <1>1, <1>2, <2>1, <2>2, SingleLive DEF Live
    <3> QED BY <3>1, <3>2 DEF Timed
  <2> QED BY <1>1, <1>4, <2>1, <2>2 DEF TriggerInv
<1>6. CASE ~Trigger(d)
  <2>1. last_trigger' = last_trigger
    BY <1>6 DEF DetStep, Head, Sample, Detect, DetectRaises, Pend, DetLocal, trigger
  <2>2. det'[d].pc = "trigger" => det'[d].now >= last_trigger + Cooldown
    <3>1. CASE Head(d) \/ Sample(d) \/ Pend(d) \/ DetectRaises(d)
      BY <1>0, <3>1 DEF Head, Sample, Pend, DetectRaises, DetGoto, Detector, NewDet
    <3>2. CASE Detect(d)
      BY <1>0, <3>2 DEF Detect, DetGoto, Detector, NewDet
    <3> QED BY <1>6, <3>1, <3>2 DEF DetStep
  <2>3. Timed => Timed'
    BY <1>2, <2>1, <2>2 DEF Timed
  <2> QED BY <1>1, <1>4, <2>1, <2>3 DEF TriggerInv
<1> QED BY <1>5, <1>6

LEMMA TriggerHolds ==
  TriggerInv /\ [Next]_vars =>
    /\ TriggerInv'
    /\ [~overlap /\ ~late /\ last_trigger' # last_trigger =>
          last_trigger' >= last_trigger + Cooldown]_vars
<1> SUFFICES ASSUME TriggerInv, [Next]_vars
             PROVE  /\ TriggerInv'
                    /\ ~overlap /\ ~late /\ last_trigger' # last_trigger =>
                         last_trigger' >= last_trigger + Cooldown
  OBVIOUS
<1>0. SwitchInv /\ SwitchInv' /\ TypeOK
  BY SwitchHolds DEF TriggerInv, SwitchInv
<1>1. CASE OnFrame \/ Tick \/ UNCHANGED vars
  <2>1. UNCHANGED <<self, det, call, overlap, late, last_trigger>>
    BY <1>1 DEF OnFrame, Tick, vars, trigger, history
  <2> QED BY <1>0, <2>1, SingleAside
<1>2. ASSUME NEW t \in Callers, CopyZones(t) \/ Truncate(t) \/ WriteZones(t)
      PROVE  TriggerInv' /\ last_trigger' = last_trigger
  <2>0. call[t] \in Call /\ call \in [Callers -> Call] /\ call[t].op \in Ops /\ Place(call[t])
    BY <1>0 DEF SwitchInv, TypeOK, Call
  <2>1. /\ call[t].pc \in {"copy_zones", "truncate", "write_zones"}
        /\ UNCHANGED <<self, det, overlap, late, last_trigger>>
    BY <1>2 DEF CopyZones, Truncate, WriteZones, Local, Move, At, trigger, history
  <2>2. call[t].op = "save"
    BY <2>0, <2>1 DEF Place, StartPCs, StopPCs, Ops
  <2>3. /\ \A u \in Callers \ {t} : call'[u] = call[u]
        /\ call'[t].op \in {"save", "none"}
    <3>1. CASE CopyZones(t)
      BY <2>0, <2>2, <3>1 DEF CopyZones, Call, NoCall
    <3>2. CASE Truncate(t) \/ WriteZones(t)
      BY <1>0, <2>2, <3>2, MoveFacts DEF Truncate, WriteZones
    <3> QED BY <1>2, <3>1, <3>2
  <2>4. \A u \in Callers : \/ call'[u] = call[u]
                           \/ call[u].op \notin SwitchOps /\ call'[u].op \notin SwitchOps
    BY <2>2, <2>3 DEF SwitchOps
  <2> QED BY <1>0, <2>1, <2>4, SingleAside
<1>3. ASSUME NEW t \in Callers, Request(t) \/ CallStep(t)
      PROVE  TriggerInv' /\ last_trigger' = last_trigger
  BY <1>0, <1>2, <1>3, TriggerRequest, TriggerCall DEF CallStep, Switching
<1> QED BY <1>0, <1>1, <1>3, TriggerDetector DEF Next

\* Two triggers are a cooldown apart, across stops and starts, unless a join gave up
\* on a live detector or two calls that start or stop detection overlapped.
\* Model-checked by the run motion.
THEOREM Cooldowns == Spec => TriggersApart
<1>1. Init => TriggerInv
  <2>1. ASSUME Init PROVE TriggerInv
    <3>1. SwitchInv /\ \A t \in Callers : call[t].op = "none"
      <4>1. \A t \in Callers : call[t].pc = "return" /\ call[t].op = "none"
        BY <2>1 DEF Init, NoCall
      <4>2. ~self.running /\ ~self.enabled
        BY <2>1 DEF Init
      <4> QED BY <2>1, <4>1, <4>2, InitTypes DEF SwitchInv, Place, Quiet, Sound, SwitchOps
    <3>2. Live = {} /\ Timed
      BY <2>1 DEF Init, Live, Timed, NewDet
    <3> QED BY <3>1, <3>2 DEF TriggerInv, Single, SwitchOps
  <2> QED BY <2>1
<1> QED BY <1>1, TriggerHolds, PTL DEF Spec, TriggersApart
=============================================================================

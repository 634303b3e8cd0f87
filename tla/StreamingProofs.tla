-------------------------- MODULE StreamingProofs --------------------------
(***************************************************************************)
(* For any cameras, viewers, openings and closes: a push thread that has not *)
(* been told to stop is the one its camera's close will find, an open camera *)
(* has one, no setting outlives its camera or viewer, and a client's queue   *)
(* is bounded.                                                              *)
(***************************************************************************)
EXTENDS Streaming, FiniteSetTheorems, TLAPS

\* An announcement has a camera, and a thread once it has made one.
Openings ==
  \A o \in Openers : /\ opener[o].pc # "idle" => opener[o].cam \in Cams
                     /\ opener[o].pc = "start" => opener[o].thread \in Threads

\* The table holds threads of the camera it lists them under that have not been told
\* to stop.
Table ==
  /\ \A c \in Cams : streams[c] # NoThread =>
       /\ thr[streams[c]].cam = c /\ thr[streams[c]].running
       /\ thr[streams[c]].pc # "unused"
  /\ \A t \in Threads : thr[t].pc = "unused" => ~thr[t].running
  /\ \A t \in Threads : thr[t].pc = "send" => thr[t].to \in Sids

\* A thread that has been made but not started is in the hands of one announcement.
Starting ==
  /\ \A o \in Openers : opener[o].pc = "start" => thr[opener[o].thread].pc = "new"
  /\ \A t \in Threads : thr[t].pc = "new" =>
       \E o \in Openers : /\ opener[o].pc = "start" /\ opener[o].thread = t
                          /\ opener[o].cam = thr[t].cam
  /\ \A o, p \in Openers : opener[o].pc = "start" /\ opener[p].pc = "start"
                             /\ opener[o].thread = opener[p].thread => o = p

\* An open camera that is neither closing nor yet to be announced is listed with a
\* thread that has not begun to leave.
Announced ==
  \A c \in live :
    \/ closer[c] \in {"tell", "join"} \/ c \in stranded
    \/ \E o \in Openers : opener[o].pc = "announce" /\ opener[o].cam = c
    \/ streams[c] # NoThread /\ thr[streams[c]].pc \in {"new", "sleep", "push", "send"}

\* The clients a thread is about to send a frame to.
Sending(s) == {t \in Threads : thr[t].pc = "send" /\ thr[t].to = s}
Queued     == \A s \in Sids : frames[s] + Cardinality(Sending(s)) <= MaxDepth - 1 + NThreads

Types  == TypeOK /\ Openings /\ Table
Safety == Types /\ Starting /\ OneStream /\ Announced
-----------------------------------------------------------------------------
(* What the steps do to the threads. *)

LEMMA ObjectTypes ==
  /\ Unused \in Objects /\ Unused.pc = "unused" /\ ~Unused.running
  /\ IdleOpener \in Opens /\ IdleOpener.pc = "idle"
BY DEF Unused, Objects, IdleOpener, Opens

\* Forgetting the ended threads changes no other.
LEMMA Recycling ==
  ASSUME NEW ths \in [Threads -> Objects], NEW table
  PROVE  /\ Recycled(ths, table) \in [Threads -> Objects]
         /\ \A t \in Threads :
              \/ Recycled(ths, table)[t] = ths[t]
              \/ /\ ths[t].pc = "ended" /\ \A c \in Cams : table[c] # t
                 /\ Recycled(ths, table)[t] = Unused
BY ObjectTypes DEF Recycled

\* A stream is added: a thread that was not in use, nothing else but recycling.
LEMMA Adding ==
  ASSUME Types, NEW o \in Openers, AddStream(o)
  PROVE  \/ /\ streams[opener[o].cam] # NoThread /\ IsAlive(streams[opener[o].cam])
            /\ opener' = [opener EXCEPT ![o] = IdleOpener]
            /\ stranded' = IF thr[streams[opener[o].cam]].pc = "leave"
                           THEN stranded \cup {opener[o].cam} ELSE stranded
            /\ UNCHANGED <<streams, thr, orphans>>
         \/ /\ ~(streams[opener[o].cam] # NoThread /\ IsAlive(streams[opener[o].cam]))
            /\ orphans' = IF streams[opener[o].cam] # NoThread
                             /\ thr[streams[opener[o].cam]].pc = "new"
                          THEN orphans \cup {streams[opener[o].cam]} ELSE orphans
            /\ stranded' = stranded \ {opener[o].cam}
            /\ thr' \in [Threads -> Objects]
            /\ \E t \in Threads :
                 /\ thr[t].pc = "unused"
                 /\ opener' = [opener EXCEPT ![o] = [opener[o] EXCEPT !.pc = "start", !.thread = t]]
                 /\ streams' = [streams EXCEPT ![opener[o].cam] = t]
                 /\ thr'[t].pc = "new" /\ thr'[t].cam = opener[o].cam /\ thr'[t].running
                 /\ \A n \in Threads \ {t} :
                      \/ thr'[n] = thr[n]
                      \/ /\ thr[n].pc = "ended" /\ \A c \in Cams : streams'[c] # n
                         /\ thr'[n] = Unused
<1> DEFINE c   == opener[o].cam
           old == streams[c]
           t   == CHOOSE n \in Threads : thr[n].pc = "unused"
           new == [Unused EXCEPT !.pc = "new", !.cam = c, !.running = TRUE]
           ths == [thr EXCEPT ![t] = new]
<1>1. CASE old # NoThread /\ IsAlive(old)
  BY <1>1 DEF AddStream
<1>2. CASE ~(old # NoThread /\ IsAlive(old))
  <2>1. t \in Threads /\ thr[t].pc = "unused"
    BY <1>2 DEF AddStream
  <2>2. c \in Cams /\ opener[o].pc = "announce"
    BY DEF AddStream, Types, Openings
  <2>3. new \in Objects /\ new.pc = "new" /\ new.cam = c /\ new.running
    BY <2>2 DEF Unused, Objects
  <2>4. ths \in [Threads -> Objects] /\ ths[t] = new /\ \A n \in Threads \ {t} : ths[n] = thr[n]
    <3> HIDE DEF t, new
    <3> QED BY <2>1, <2>3 DEF Types, TypeOK
  <2>5. thr' = Recycled(ths, streams') /\ streams' = [streams EXCEPT ![c] = t]
    BY <1>2 DEF AddStream
  <2>6. opener' = [opener EXCEPT ![o] = [opener[o] EXCEPT !.pc = "start", !.thread = t]]
    <3>1. opener' = [opener EXCEPT ![o] = [@ EXCEPT !.pc = "start", !.thread = t]]
      BY <1>2 DEF AddStream
    <3> HIDE DEF t
    <3> QED BY <3>1 DEF Types, TypeOK, Opens
  <2>7. /\ stranded' = stranded \ {c}
        /\ orphans' = IF old # NoThread /\ thr[old].pc = "new" THEN orphans \cup {old} ELSE orphans
    BY <1>2 DEF AddStream
  <2> HIDE DEF t, new, ths
  <2>8. thr' \in [Threads -> Objects] /\ thr'[t] = new
    BY <2>1, <2>3, <2>4, <2>5, Recycling
  <2>9. \A n \in Threads \ {t} : \/ thr'[n] = thr[n]
                                 \/ /\ thr[n].pc = "ended" /\ \A d \in Cams : streams'[d] # n
                                    /\ thr'[n] = Unused
    <3>1. \A n \in Threads : thr'[n] = IF ths[n].pc = "ended" /\ \A d \in Cams : streams'[d] # n
                                       THEN Unused ELSE ths[n]
      BY <2>5 DEF Recycled
    <3> QED BY <2>4, <3>1
  <2> QED BY <1>2, <2>1, <2>3, <2>6, <2>5, <2>7, <2>8, <2>9
<1> QED BY <1>1, <1>2

\* A stream is removed: its thread is told to stop, nothing else but recycling.
LEMMA Removing ==
  ASSUME Types, NEW c \in Cams, RemoveStream(c)
  PROVE  /\ thr' \in [Threads -> Objects]
         /\ streams' = [streams EXCEPT ![c] = NoThread]
         /\ \A n \in Threads :
              \/ thr'[n] = thr[n] /\ streams[c] # n
              \/ /\ n = streams[c] /\ ~thr'[n].running
                 /\ thr'[n].pc = thr[n].pc /\ thr'[n].cam = thr[n].cam
                 /\ thr'[n].to = thr[n].to
              \/ /\ thr[n].pc = "ended" /\ \A d \in Cams : streams'[d] # n
                 /\ thr'[n] = Unused
<1> DEFINE ths == IF streams[c] = NoThread THEN thr
                  ELSE [thr EXCEPT ![streams[c]].running = FALSE]
<1>1. thr \in [Threads -> Objects] /\ streams \in [Cams -> Threads \cup {NoThread}]
  BY DEF Types, TypeOK
<1>2. /\ ths \in [Threads -> Objects]
      /\ \A n \in Threads : IF n = streams[c] THEN ths[n] = [thr[n] EXCEPT !.running = FALSE]
                             ELSE ths[n] = thr[n]
  <2>1. NoThread \notin Threads
    BY StreamingAssumption DEF NoThread, Threads
  <2> QED BY <1>1, <2>1 DEF Objects
<1>3. thr' = Recycled(ths, streams') /\ streams' = [streams EXCEPT ![c] = NoThread]
  BY DEF RemoveStream
<1> HIDE DEF ths
<1>4. thr' \in [Threads -> Objects]
  BY <1>2, <1>3, Recycling
<1>5. \A n \in Threads : \/ thr'[n] = ths[n]
                         \/ /\ ths[n].pc = "ended" /\ \A d \in Cams : streams'[d] # n
                            /\ thr'[n] = Unused
  <2>1. \A n \in Threads : thr'[n] = IF ths[n].pc = "ended" /\ \A d \in Cams : streams'[d] # n
                                     THEN Unused ELSE ths[n]
    BY <1>3 DEF Recycled
  <2> QED BY <2>1
<1>6. \A n \in Threads : [thr[n] EXCEPT !.running = FALSE].pc = thr[n].pc
  BY <1>1 DEF Objects
<1>7. \A n \in Threads : n = streams[c] =>
         ~ths[n].running /\ ths[n].pc = thr[n].pc /\ ths[n].cam = thr[n].cam /\ ths[n].to = thr[n].to
  BY <1>1, <1>2 DEF Objects
<1> QED BY <1>2, <1>3, <1>4, <1>5, <1>7

\* A turn of a thread and its return change that thread only, and forget it if it is
\* out of the table.
LEMMA Turning ==
  ASSUME Types, NEW t \in Threads, Tick(t) \/ Leave(t)
  PROVE  /\ thr' \in [Threads -> Objects]
         /\ \A n \in Threads \ {t} :
              \/ thr'[n] = thr[n]
              \/ /\ thr[n].pc = "ended" /\ \A c \in Cams : streams[c] # n
                 /\ thr'[n] = Unused
         /\ \/ /\ thr'[t].running = thr[t].running /\ thr'[t].cam = thr[t].cam
               /\ \/ Tick(t) /\ thr'[t].pc = "ended" /\ ~thr[t].running
                  \/ Leave(t) /\ thr'[t].pc = "ended"
                  \/ Tick(t) /\ thr'[t].pc = "leave" /\ thr[t].cam \notin live
                  \/ Tick(t) /\ thr'[t].pc \in {"sleep", "push"}
            \/ thr'[t] = Unused /\ \A c \in Cams : streams[c] # t
         /\ orphans' = {n \in orphans : thr'[n].pc # "unused"}
         /\ thr[t].pc \in {"sleep", "leave"}
         /\ UNCHANGED <<streams, opener, closer, live, stranded>>
<1> DEFINE r   == IF Leave(t) THEN [thr[t] EXCEPT !.pc = "ended"]
                  ELSE CASE ~thr[t].running -> [thr[t] EXCEPT !.pc = "ended"]
                         [] thr[t].running /\ viewers = {} -> thr[t]
                         [] thr[t].running /\ viewers # {} /\ thr[t].cam \notin live
                              -> [thr[t] EXCEPT !.pc = "leave"]
                         [] OTHER -> IF thr[t].cam \in shot
                                     THEN [thr[t] EXCEPT !.pc = "push", !.todo = viewers]
                                     ELSE thr[t]
           ths == [thr EXCEPT ![t] = r]
<1>1. thr \in [Threads -> Objects] /\ thr[t] \in Objects /\ viewers \subseteq Sids
  BY DEF Types, TypeOK
<1>0. Tick(t) => ~Leave(t)
  BY DEF Tick, Leave
<1>2. /\ r \in Objects /\ r.running = thr[t].running /\ r.cam = thr[t].cam
      /\ \/ Tick(t) /\ r.pc = "ended" /\ ~thr[t].running
         \/ Leave(t) /\ r.pc = "ended"
         \/ Tick(t) /\ r.pc = "leave" /\ thr[t].cam \notin live
         \/ Tick(t) /\ r.pc \in {"sleep", "push"}
  <2>1. CASE Leave(t)
    BY <1>1, <2>1 DEF Objects, Leave
  <2>2. CASE Tick(t)
    BY <1>0, <1>1, <2>2 DEF Objects, Tick
  <2> QED BY <2>1, <2>2
<1>3. thr' = Recycled(ths, streams)
  <2>1. CASE Leave(t)
    <3>1. [thr EXCEPT ![t].pc = "ended"] = ths
      BY <2>1
    <3> QED BY <2>1, <3>1 DEF Leave
  <2>2. CASE Tick(t)
    BY <1>0, <2>2 DEF Tick
  <2> QED BY <2>1, <2>2
<1> HIDE DEF r
<1>4. ths \in [Threads -> Objects] /\ ths[t] = r /\ \A n \in Threads \ {t} : ths[n] = thr[n]
  BY <1>1, <1>2
<1> HIDE DEF ths
<1>5. thr' \in [Threads -> Objects]
  BY <1>3, <1>4, Recycling
<1>6. \A n \in Threads : \/ thr'[n] = ths[n]
                         \/ /\ ths[n].pc = "ended" /\ \A c \in Cams : streams[c] # n
                            /\ thr'[n] = Unused
  BY <1>3, <1>4, Recycling
<1>7. /\ orphans' = {n \in orphans : thr'[n].pc # "unused"}
      /\ thr[t].pc \in {"sleep", "leave"}
      /\ UNCHANGED <<streams, opener, closer, live, stranded>>
  BY DEF Tick, Leave, camera
<1> QED BY <1>2, <1>4, <1>5, <1>6, <1>7
-----------------------------------------------------------------------------
(* Types. *)

LEMMA InitTypes == Init => Types
BY ObjectTypes, StreamingAssumption
   DEF Init, Types, TypeOK, Openings, Table, Unused, IdleOpener, NoThread

\* A step that leaves the table alone and moves one thread that is in use.
LEMMA Stepping ==
  ASSUME Types, NEW t \in Threads, NEW r \in Objects, thr' = [thr EXCEPT ![t] = r],
         r.cam = thr[t].cam, r.running = thr[t].running, r.pc # "unused", thr[t].pc # "unused",
         r.pc = "send" => r.to \in Sids, UNCHANGED streams
  PROVE  thr' \in [Threads -> Objects] /\ Table'
<1>1. thr' \in [Threads -> Objects] /\ thr'[t] = r /\ \A n \in Threads \ {t} : thr'[n] = thr[n]
  BY DEF Types, TypeOK
<1>2. \A c \in Cams : streams[c] \in Threads \cup {NoThread}
  BY DEF Types, TypeOK
<1> QED BY <1>1, <1>2 DEF Types, Table

LEMMA StepTypes == Types /\ [Next]_vars => Types'
<1> SUFFICES ASSUME Types, [Next]_vars PROVE Types'
  OBVIOUS
<1>t. /\ thr \in [Threads -> Objects] /\ streams \in [Cams -> Threads \cup {NoThread}]
      /\ opener \in [Openers -> Opens] /\ NoThread \notin Threads
  BY StreamingAssumption DEF Types, TypeOK, NoThread, Threads
<1>1. ASSUME NEW o \in Openers, NEW c \in Cams, OpenCheck(o, c) PROVE Types'
  <2>1. [IdleOpener EXCEPT !.pc = "check", !.cam = c] \in Opens
    BY DEF IdleOpener, Opens
  <2> QED BY <1>1, <1>t, <2>1 DEF OpenCheck, Types, TypeOK, Openings, Table, clients,
                                  history, Opens
<1>2. ASSUME NEW o \in Openers, OpenInsert(o) PROVE Types'
  BY <1>2, <1>t DEF OpenInsert, Types, TypeOK, Openings, Table, clients, history, Opens
<1>3. ASSUME NEW o \in Openers, AddStream(o) PROVE Types'
  <2>0. opener[o].cam \in Cams /\ opener[o].pc = "announce"
    BY <1>3 DEF AddStream, Types, Openings
  <2> DEFINE c   == opener[o].cam
             old == streams[c]
  <2>1. CASE /\ opener' = [opener EXCEPT ![o] = IdleOpener]
             /\ stranded' = IF thr[old].pc = "leave" THEN stranded \cup {c} ELSE stranded
             /\ UNCHANGED <<streams, thr, orphans>>
    BY <1>3, <1>t, <2>0, <2>1, ObjectTypes
       DEF AddStream, Types, TypeOK, Openings, Table, clients
  <2>2. ASSUME NEW t \in Threads, thr[t].pc = "unused", thr' \in [Threads -> Objects],
               opener' = [opener EXCEPT ![o] = [opener[o] EXCEPT !.pc = "start", !.thread = t]],
               streams' = [streams EXCEPT ![c] = t],
               thr'[t].pc = "new", thr'[t].cam = c, thr'[t].running,
               \A n \in Threads \ {t} :
                 \/ thr'[n] = thr[n]
                 \/ /\ thr[n].pc = "ended" /\ \A d \in Cams : streams'[d] # n
                    /\ thr'[n] = Unused,
               orphans' = (IF old # NoThread /\ thr[old].pc = "new"
                           THEN orphans \cup {old} ELSE orphans),
               stranded' = stranded \ {c}
        PROVE  Types'
    <3>1. opener' \in [Openers -> Opens] /\ Openings'
      <4> DEFINE r == [opener[o] EXCEPT !.pc = "start", !.thread = t]
      <4>1. r \in Opens /\ r.pc = "start" /\ r.thread = t /\ r.cam = c
        BY <1>t DEF Opens
      <4>2. opener' = [opener EXCEPT ![o] = r]
        BY <2>2
      <4> HIDE DEF r
      <4> QED BY <1>t, <2>0, <4>1, <4>2 DEF Types, Openings
    <3>2. orphans' \subseteq Threads /\ stranded' \subseteq Cams
      BY <1>t, <2>0, <2>2 DEF Types, TypeOK
    <3>3. streams' \in [Cams -> Threads \cup {NoThread}] /\ streams'[c] = t
          /\ \A d \in Cams \ {c} : streams'[d] = streams[d]
      BY <1>t, <2>0, <2>2
    <3>4. \A d \in Cams : streams'[d] # NoThread =>
            thr'[streams'[d]].cam = d /\ thr'[streams'[d]].running /\ thr'[streams'[d]].pc # "unused"
      <4>1. ASSUME NEW d \in Cams \ {c}, streams[d] # NoThread
            PROVE  /\ streams[d] \in Threads \ {t} /\ thr[streams[d]].cam = d
                   /\ thr[streams[d]].running /\ thr[streams[d]].pc # "unused"
        BY <1>t, <2>2, <4>1 DEF Types, Table
      <4>2. ASSUME NEW d \in Cams \ {c}, streams[d] # NoThread
            PROVE  thr'[streams[d]] = thr[streams[d]]
        BY <2>2, <3>3, <4>1, <4>2
      <4> QED BY <2>2, <3>3, <4>1, <4>2
    <3>5. \A n \in Threads : /\ thr'[n].pc = "unused" => ~thr'[n].running
                             /\ thr'[n].pc = "send" => thr'[n].to \in Sids
      BY <2>2, ObjectTypes DEF Types, Table
    <3> QED BY <1>3, <2>2, <3>1, <3>2, <3>3, <3>4, <3>5 DEF AddStream, Types, TypeOK,
                                                            Table, clients
  <2> QED BY <1>3, <2>1, <2>2, Adding
<1>4. ASSUME NEW o \in Openers, StartStream(o) PROVE Types'
  <2> DEFINE t == opener[o].thread
             r == [thr[t] EXCEPT !.pc = "sleep"]
  <2>1. t \in Threads
    BY <1>4 DEF StartStream, Types, Openings
  <2>2. r \in Objects /\ r.cam = thr[t].cam /\ r.running = thr[t].running /\ r.pc = "sleep"
    BY <1>t, <2>1 DEF Objects
  <2> QED BY <1>4, <1>t, <2>1, <2>2, ObjectTypes
             DEF StartStream, Types, TypeOK, Openings, Table, clients, history
<1>5. ASSUME NEW c \in Cams, CloseBegin(c) PROVE Types'
  BY <1>5, <1>t DEF CloseBegin, Types, TypeOK, Openings, Table, clients, history
<1>6. ASSUME NEW c \in Cams, RemoveStream(c) PROVE Types'
  <2>1. Table'
    BY <1>6, <1>t, Removing, ObjectTypes DEF Types, Table
  <2> QED BY <1>6, <1>t, <2>1, Removing DEF RemoveStream, Types, TypeOK, Openings,
                                            clients, history
<1>7. ASSUME NEW c \in Cams, Pop(c) \/ OnCameraClosed(c) \/ FirstFrame(c) PROVE Types'
  BY <1>7, <1>t DEF Pop, OnCameraClosed, FirstFrame, Types, TypeOK, Openings, Table,
                    clients, history, Of
<1>8. ASSUME NEW t \in Threads, Tick(t) \/ Leave(t) PROVE Types'
  <2>1. Table'
    BY <1>8, <1>t, Turning, ObjectTypes DEF Types, Table
  <2>2. orphans' \subseteq Threads
    BY <1>8, Turning DEF Types, TypeOK
  <2> QED BY <1>8, <2>1, <2>2, Turning DEF Tick, Leave, Types, TypeOK, Openings, camera,
                                           clients
<1>9. ASSUME NEW t \in Threads, NEW s \in Sids, Offer(t, s) PROVE Types'
  <2>1. PICK p \in {"push", "send"}, n \in Sids \cup {None} :
             /\ p = "send" => n \in Sids
             /\ thr' = [thr EXCEPT ![t] = [thr[t] EXCEPT !.todo = thr[t].todo \ {s}, !.to = n, !.pc = p]]
    <3> DEFINE wanted == /\ <<thr[t].cam, s>> \notin paused
                         /\ Depth(s) < MaxDepth
                         /\ <<thr[t].cam, s>> \in sizes
               n == IF wanted THEN s ELSE None
               p == IF wanted THEN "send" ELSE "push"
    <3>1. p \in {"push", "send"} /\ n \in Sids \cup {None} /\ (p = "send" => n \in Sids)
      OBVIOUS
    <3>2. thr' = [thr EXCEPT ![t] = [thr[t] EXCEPT !.todo = thr[t].todo \ {s}, !.to = n, !.pc = p]]
      BY <1>9 DEF Offer
    <3> QED BY <3>1, <3>2
  <2> DEFINE r == [thr[t] EXCEPT !.todo = thr[t].todo \ {s}, !.to = n, !.pc = p]
  <2>2. /\ r \in Objects /\ r.cam = thr[t].cam /\ r.running = thr[t].running
        /\ r.pc = p /\ r.to = n
    BY <1>t DEF Objects
  <2>3. thr[t].pc = "push" /\ UNCHANGED streams
    BY <1>9 DEF Offer
  <2> HIDE DEF r
  <2>4. thr' \in [Threads -> Objects] /\ Table'
    BY <2>1, <2>2, <2>3, Stepping DEF r
  <2> QED BY <1>9, <2>4 DEF Offer, Types, TypeOK, Openings, camera, clients, history
<1>10. ASSUME NEW t \in Threads, Emit(t) \/ NextTurn(t) PROVE Types'
  <2>1. PICK p \in {"push", "sleep"}, n \in Sids \cup {None} :
             thr' = [thr EXCEPT ![t] = [thr[t] EXCEPT !.pc = p, !.to = n]]
    <3>1. CASE Emit(t)
      BY <1>t, <3>1 DEF Emit
    <3>2. CASE NextTurn(t)
      <4>1. [thr[t] EXCEPT !.pc = "sleep"] = [thr[t] EXCEPT !.pc = "sleep", !.to = thr[t].to]
        BY <1>t DEF Objects
      <4>2. thr[t].to \in Sids \cup {None}
        BY <1>t DEF Objects
      <4> QED BY <1>t, <3>2, <4>1, <4>2 DEF NextTurn
    <3> QED BY <1>10, <3>1, <3>2
  <2> DEFINE r == [thr[t] EXCEPT !.pc = p, !.to = n]
  <2>2. r \in Objects /\ r.cam = thr[t].cam /\ r.running = thr[t].running /\ r.pc = p
    BY <1>t DEF Objects
  <2>3. thr[t].pc \in {"send", "push"} /\ UNCHANGED streams
    BY <1>10 DEF Emit, NextTurn
  <2> HIDE DEF r
  <2>4. thr' \in [Threads -> Objects] /\ Table'
    BY <2>1, <2>2, <2>3, Stepping DEF r
  <2>5. frames' \in [Sids -> Nat]
    BY <1>10 DEF Emit, NextTurn, clients, Types, TypeOK
  <2> QED BY <1>10, <2>4, <2>5 DEF Emit, NextTurn, Types, TypeOK, Openings, camera,
                                   clients, settings,
                                   history
<1>11. ASSUME NEW s \in Sids, Connect(s) \/ Disconnect(s) \/ OtherPacket(s) \/ Drain(s) PROVE Types'
  BY <1>11, <1>t, StreamingAssumption
     DEF Connect, Disconnect, OtherPacket, Drain, Types, TypeOK, Openings, Table, camera,
     settings,
         history, By
<1>12. ASSUME NEW s \in Sids, NEW c \in Cams, NEW on \in BOOLEAN,
              SetStreamSize(s, c) \/ SetStreamPaused(s, c, on)
       PROVE  Types'
  BY <1>12 DEF SetStreamSize, SetStreamPaused, Noted, Types, TypeOK, Openings, Table,
               camera, history
<1>13. CASE UNCHANGED vars
  BY <1>13 DEF vars, Types, TypeOK, Openings, Table
<1> QED BY <1>1, <1>2, <1>3, <1>4, <1>5, <1>6, <1>7, <1>8, <1>9, <1>10, <1>11, <1>12, <1>13
           DEF Next, OpenerStep, CloserStep, ThreadStep, ClientStep
-----------------------------------------------------------------------------
(* The settings and the queues. *)

\* on_camera_closed and remove_viewer leave no setting behind but those that arrive
\* after them, whichever threads interleave (session.py).
THEOREM SettingsEnd == Spec => []NoLeftovers
<1>1. Init => NoLeftovers
  BY DEF Init, NoLeftovers
<1>2. Types /\ NoLeftovers /\ [Next]_vars => NoLeftovers'
  <2> SUFFICES ASSUME Types, NoLeftovers, [Next]_vars PROVE NoLeftovers'
    OBVIOUS
  <2>t. /\ sizes \subseteq Cams \X Sids /\ paused \subseteq Cams \X Sids
        /\ cleaning \in [Cams -> Nat]
    BY DEF Types, TypeOK
  <2>1. ASSUME NEW c \in Cams, Pop(c) \/ CloseBegin(c) \/ RemoveStream(c) PROVE NoLeftovers'
    BY <2>t, <2>1 DEF Pop, CloseBegin, RemoveStream, NoLeftovers, clients
  <2>2. ASSUME NEW c \in Cams, OnCameraClosed(c) PROVE NoLeftovers'
    BY <2>t, <2>2 DEF OnCameraClosed, NoLeftovers, Of
  <2>3. ASSUME NEW s \in Sids, NEW c \in Cams, NEW on \in BOOLEAN,
               SetStreamSize(s, c) \/ SetStreamPaused(s, c, on)
        PROVE  NoLeftovers'
    BY <2>t, <2>3 DEF SetStreamSize, SetStreamPaused, Noted, NoLeftovers, camera
  <2>4. ASSUME NEW s \in Sids, Connect(s) \/ Disconnect(s) \/ OtherPacket(s) \/ Drain(s)
        PROVE  NoLeftovers'
    BY <2>t, <2>4 DEF Connect, Disconnect, OtherPacket, Drain, NoLeftovers, camera,
                      settings, By
  <2>5. CASE UNCHANGED <<viewers, sizes, paused, late, cleaning>> /\ live \subseteq live'
    BY <2>5 DEF NoLeftovers
  <2>6. ASSUME NEW o \in Openers, OpenerStep(o) \/ \E c \in Cams : OpenCheck(o, c)
        PROVE  NoLeftovers'
    BY <2>5, <2>6 DEF OpenerStep, OpenCheck, OpenInsert, AddStream, StartStream, clients
  <2>7. ASSUME NEW t \in Threads, ThreadStep(t) PROVE NoLeftovers'
    BY <2>5, <2>7 DEF ThreadStep, Tick, Offer, Emit, NextTurn, Leave, camera, clients,
                      settings
  <2>8. ASSUME NEW c \in Cams, FirstFrame(c) PROVE NoLeftovers'
    BY <2>5, <2>8 DEF FirstFrame, clients
  <2>9. CASE UNCHANGED vars
    BY <2>5, <2>9 DEF vars
  <2> QED BY <2>1, <2>2, <2>3, <2>4, <2>6, <2>7, <2>8, <2>9 DEF Next, CloserStep, ClientStep
<1> QED BY <1>1, <1>2, InitTypes, StepTypes, PTL DEF Spec

\* The state has the shape of the code's.
THEOREM StreamTypes == Spec => []TypeOK
<1>1. Types => TypeOK
  BY DEF Types
<1> QED BY <1>1, InitTypes, StepTypes, PTL DEF Spec
LEMMA SendingFinite ==
  \A s \in Sids : /\ IsFiniteSet(Sending(s)) /\ Cardinality(Sending(s)) \in Nat
                  /\ Cardinality(Sending(s)) <= NThreads
<1>1. IsFiniteSet(Threads) /\ Cardinality(Threads) = NThreads
  <2>1. NThreads \in Nat /\ 1 \in Int /\ NThreads \in Int
    BY StreamingAssumption
  <2>2. IsFiniteSet(1..NThreads) /\ Cardinality(1..NThreads) = IF 1 > NThreads THEN 0 ELSE NThreads - 1 + 1
    BY <2>1, FS_Interval
  <2> QED BY <2>1, <2>2 DEF Threads
<1>2. \A s \in Sids : Sending(s) \subseteq Threads
  BY DEF Sending
<1> QED BY <1>1, <1>2, FS_Subset, FS_CardinalityType

\* A step that lets nobody begin to send and no queue grow.
LEMMA NobodyBegins ==
  ASSUME Types, Types', Queued,
         \A t \in Threads : thr'[t].pc = "send" => thr[t].pc = "send" /\ thr'[t].to = thr[t].to,
         \A s \in Sids : frames'[s] <= frames[s]
  PROVE  Queued'
<1> SUFFICES ASSUME NEW s \in Sids
             PROVE  frames'[s] + Cardinality(Sending(s))' <= MaxDepth - 1 + NThreads
  BY DEF Queued
<1>1. Sending(s)' \subseteq Sending(s)
  BY DEF Sending
<1>2. Cardinality(Sending(s)') <= Cardinality(Sending(s)) /\ Cardinality(Sending(s)') \in Nat
  BY <1>1, SendingFinite, FS_Subset, FS_CardinalityType
<1>3. frames[s] \in Nat /\ frames'[s] \in Nat /\ MaxDepth \in Nat /\ NThreads \in Nat
  BY StreamingAssumption DEF Types, TypeOK
<1> QED BY <1>2, <1>3, SendingFinite DEF Queued

\* An offer is made when the queue is short; all threads may make one at once.
LEMMA OfferQueued ==
  ASSUME Types, Types', Queued, NEW t \in Threads, NEW s \in Sids, Offer(t, s)
  PROVE  Queued'
<1>t. frames' = frames /\ frames \in [Sids -> Nat] /\ others \in [Sids -> 0..MaxOthers]
  BY DEF Offer, clients, Types, TypeOK
<1>n. MaxDepth \in Nat \ {0} /\ NThreads \in Nat /\ MaxOthers \in Nat
  BY StreamingAssumption
<1>1. CASE thr'[t].pc = "send"
  <2>1. thr'[t].to = s /\ frames[s] + others[s] < MaxDepth /\ \A n \in Threads \ {t} : thr'[n] = thr[n]
    <3> DEFINE wanted == /\ <<thr[t].cam, s>> \notin paused
                         /\ Depth(s) < MaxDepth
                         /\ <<thr[t].cam, s>> \in sizes
               n == IF wanted THEN s ELSE None
               p == IF wanted THEN "send" ELSE "push"
    <3>1. thr' = [thr EXCEPT ![t] = [thr[t] EXCEPT !.todo = thr[t].todo \ {s}, !.to = n, !.pc = p]]
      BY DEF Offer
    <3>2. thr \in [Threads -> Objects]
      BY DEF Types, TypeOK
    <3> HIDE DEF n, p
    <3>3. thr'[t].pc = p /\ thr'[t].to = n /\ \A u \in Threads \ {t} : thr'[u] = thr[u]
      BY <3>1, <3>2 DEF Objects
    <3>4. wanted
      BY <1>1, <3>3 DEF p
    <3> QED BY <3>3, <3>4 DEF n, Depth
  <2>2. ASSUME NEW r \in Sids \ {s} PROVE Sending(r)' = Sending(r)
    BY <2>1 DEF Sending, Offer
  <2>3. Cardinality(Sending(s)') \in Nat /\ Cardinality(Sending(s)') <= NThreads
    <3>1. IsFiniteSet(Threads) /\ Cardinality(Threads) = NThreads
      <4>1. IsFiniteSet(1..NThreads)
            /\ Cardinality(1..NThreads) = IF 1 > NThreads THEN 0 ELSE NThreads - 1 + 1
        BY <1>n, FS_Interval
      <4> QED BY <1>n, <4>1 DEF Threads
    <3>2. Sending(s)' \subseteq Threads
      BY DEF Sending
    <3> QED BY <3>1, <3>2, FS_Subset, FS_CardinalityType
  <2>4. frames[s] \in Nat /\ others[s] \in Nat
    BY <1>t, <1>n
  <2>5. frames'[s] + Cardinality(Sending(s))' <= MaxDepth - 1 + NThreads
    BY <1>t, <1>n, <2>1, <2>3, <2>4
  <2>6. ASSUME NEW r \in Sids PROVE frames'[r] + Cardinality(Sending(r))' <= MaxDepth - 1 + NThreads
    <3>1. CASE r = s
      BY <2>5, <3>1
    <3>2. CASE r # s
      BY <1>t, <2>2, <3>2 DEF Queued
    <3> QED BY <3>1, <3>2
  <2> QED BY <2>6 DEF Queued
<1>2. CASE thr'[t].pc # "send"
  <2>1. \A n \in Threads \ {t} : thr'[n] = thr[n]
    BY DEF Offer, Types, TypeOK
  <2>2. \A r \in Sids : frames'[r] <= frames[r]
    BY <1>t
  <2> QED BY <1>2, <2>1, <2>2, NobodyBegins
<1> QED BY <1>1, <1>2

\* A frame that is emitted moves from its thread to the client's queue.
LEMMA EmitQueued ==
  ASSUME Types, Types', Queued, NEW t \in Threads, Emit(t)
  PROVE  Queued'
<1>1. thr[t].pc = "send" /\ thr[t].to \in Sids /\ thr'[t].pc = "push"
      /\ \A n \in Threads \ {t} : thr'[n] = thr[n]
  BY DEF Emit, Types, TypeOK, Table, Objects
<1>n. MaxDepth \in Nat /\ NThreads \in Nat /\ frames \in [Sids -> Nat]
  BY StreamingAssumption DEF Types, TypeOK
<1> SUFFICES ASSUME NEW s \in Sids
             PROVE  frames'[s] + Cardinality(Sending(s))' <= MaxDepth - 1 + NThreads
  BY DEF Queued
<1>2. CASE s = thr[t].to
  <2>1. Sending(s)' = Sending(s) \ {t} /\ t \in Sending(s)
    BY <1>1, <1>2 DEF Sending
  <2>2. Cardinality(Sending(s)') = Cardinality(Sending(s)) - 1
    BY <2>1, SendingFinite, FS_RemoveElement
  <2>3. frames'[s] = frames[s] \/ frames'[s] = frames[s] + 1
    BY <1>n, <1>2 DEF Emit
  <2> QED BY <1>n, <2>2, <2>3, SendingFinite DEF Queued
<1>3. CASE s # thr[t].to
  <2>1. Sending(s)' = Sending(s)
    BY <1>1, <1>3 DEF Sending
  <2>2. frames'[s] = frames[s]
    BY <1>n, <1>3 DEF Emit
  <2> QED BY <2>1, <2>2 DEF Queued
<1> QED BY <1>2, <1>3

\* However slow a client is, its queue holds one frame less than the threshold and one
\* more for each push thread (streaming.py checks and fills it without a lock).
THEOREM QueuesBounded == Spec => []FramesBounded
<1>1. Init => Queued
  <2> SUFFICES ASSUME Init, NEW s \in Sids
               PROVE  frames[s] + Cardinality(Sending(s)) <= MaxDepth - 1 + NThreads
    BY DEF Queued
  <2>1. frames[s] = 0 /\ MaxDepth \in Nat \ {0} /\ NThreads \in Nat
    BY StreamingAssumption DEF Init
  <2> QED BY <2>1, SendingFinite
<1>2. Types /\ Types' /\ Queued /\ [Next]_vars => Queued'
  <2> SUFFICES ASSUME Types, Types', Queued, [Next]_vars PROVE Queued'
    OBVIOUS
  <2>t. thr \in [Threads -> Objects] /\ frames \in [Sids -> Nat]
    BY DEF Types, TypeOK
  <2>1. CASE UNCHANGED <<thr, frames>>
    BY <2>t, <2>1, NobodyBegins
  <2>2. ASSUME NEW o \in Openers, AddStream(o) PROVE Queued'
    <3>1. \A n \in Threads : thr'[n] = thr[n] \/ thr'[n].pc # "send"
      BY <2>2, Adding, ObjectTypes
    <3>2. frames' = frames
      BY <2>2 DEF AddStream, clients
    <3> QED BY <2>t, <3>1, <3>2, NobodyBegins
  <2>3. ASSUME NEW o \in Openers, StartStream(o) PROVE Queued'
    <3>1. \A n \in Threads : thr'[n] = thr[n] \/ thr'[n].pc # "send"
      BY <2>t, <2>3 DEF StartStream, Objects
    <3>2. frames' = frames
      BY <2>3 DEF StartStream, clients
    <3> QED BY <2>t, <3>1, <3>2, NobodyBegins
  <2>4. ASSUME NEW c \in Cams, RemoveStream(c) PROVE Queued'
    <3>1. \A n \in Threads : \/ thr'[n].pc = thr[n].pc /\ thr'[n].to = thr[n].to
                             \/ thr'[n].pc # "send"
      BY <2>4, Removing, ObjectTypes
    <3>2. frames' = frames
      BY <2>4 DEF RemoveStream, clients
    <3> QED BY <2>t, <3>1, <3>2, NobodyBegins
  <2>5. ASSUME NEW t \in Threads, Tick(t) \/ Leave(t) PROVE Queued'
    <3>1. \A n \in Threads : thr'[n] = thr[n] \/ thr'[n].pc # "send"
      BY <2>5, Turning, ObjectTypes
    <3>2. frames' = frames
      BY <2>5 DEF Tick, Leave, clients
    <3> QED BY <2>t, <3>1, <3>2, NobodyBegins
  <2>6. ASSUME NEW t \in Threads, NextTurn(t) PROVE Queued'
    <3>1. \A n \in Threads : thr'[n] = thr[n] \/ thr'[n].pc # "send"
      BY <2>t, <2>6 DEF NextTurn, Objects
    <3>2. frames' = frames
      BY <2>6 DEF NextTurn, clients
    <3> QED BY <2>t, <3>1, <3>2, NobodyBegins
  <2>7. ASSUME NEW s \in Sids, Disconnect(s) \/ Drain(s) PROVE Queued'
    BY <2>t, <2>7, NobodyBegins DEF Disconnect, Drain
  <2>8. ASSUME NEW s \in Sids, \/ Connect(s) \/ OtherPacket(s)
                               \/ \E c \in Cams : \/ SetStreamSize(s, c)
                                                  \/ \E on \in BOOLEAN : SetStreamPaused(s, c, on)
        PROVE  Queued'
    BY <2>1, <2>8 DEF Connect, OtherPacket, SetStreamSize, SetStreamPaused
  <2>9. ASSUME NEW o \in Openers, OpenInsert(o) \/ \E c \in Cams : OpenCheck(o, c) PROVE Queued'
    BY <2>1, <2>9 DEF OpenInsert, OpenCheck, clients
  <2>10. ASSUME NEW c \in Cams, Pop(c) \/ OnCameraClosed(c) \/ CloseBegin(c) \/ FirstFrame(c)
         PROVE  Queued'
    BY <2>1, <2>10 DEF Pop, OnCameraClosed, CloseBegin, FirstFrame, clients
  <2>11. CASE UNCHANGED vars
    BY <2>1, <2>11 DEF vars
  <2> QED BY <2>2, <2>3, <2>4, <2>5, <2>6, <2>7, <2>8, <2>9, <2>10, <2>11, OfferQueued,
             EmitQueued
             DEF Next, OpenerStep, CloserStep, ThreadStep, ClientStep
<1>3. Types /\ Queued => FramesBounded
  <2> SUFFICES ASSUME Types, Queued, NEW s \in Sids PROVE frames[s] <= MaxDepth - 1 + NThreads
    BY DEF FramesBounded
  <2>1. frames[s] \in Nat /\ MaxDepth \in Nat /\ NThreads \in Nat
    BY StreamingAssumption DEF Types, TypeOK
  <2> QED BY <2>1, SendingFinite DEF Queued
<1> QED BY <1>1, <1>2, <1>3, InitTypes, StepTypes, PTL DEF Spec
-----------------------------------------------------------------------------
(* The stream of a camera. *)

LEMMA InitSafe == Init => Safety
<1> SUFFICES ASSUME Init PROVE Safety
  OBVIOUS
<1>1. Types
  BY InitTypes
<1>2. \A t \in Threads : thr[t] = Unused
  BY DEF Init
<1>3. \A o \in Openers : opener[o] = IdleOpener
  BY DEF Init
<1>4. live = {}
  BY DEF Init
<1> QED BY <1>1, <1>2, <1>3, <1>4, ObjectTypes DEF Safety, Starting, OneStream, Announced

\* A step that leaves the openings and the table alone and moves one started thread.
LEMMA MovingSafe ==
  ASSUME Safety, Types', NEW t \in Threads,
         thr'[t].pc \in {"sleep", "push", "send"}, thr[t].pc \in {"sleep", "push", "send"},
         thr'[t].running = thr[t].running, thr'[t].cam = thr[t].cam,
         \A n \in Threads \ {t} : thr'[n] = thr[n],
         UNCHANGED <<live, opener, closer, streams, orphans, stranded>>
  PROVE  Safety'
<1>t. streams \in [Cams -> Threads \cup {NoThread}] /\ live \subseteq Cams
      /\ \A o \in Openers : opener[o].pc = "start" => opener[o].thread \in Threads
  BY DEF Safety, Types, TypeOK, Openings
<1>1. Starting'
  BY <1>t DEF Safety, Starting
<1>2. OneStream'
  BY DEF Safety, OneStream
<1>3. Announced'
  BY <1>t DEF Safety, Announced
<1> QED BY <1>1, <1>2, <1>3 DEF Safety

\* A step that leaves openings, closes, table and threads alone.
LEMMA StillSafe ==
  ASSUME Safety, Types', UNCHANGED <<live, opener, closer, streams, thr, orphans, stranded>>
  PROVE  Safety'
BY DEF Safety, Starting, OneStream, Announced

LEMMA AddSafe ==
  ASSUME Safety, Types', NEW o \in Openers, AddStream(o)
  PROVE  Safety'
<1> DEFINE c   == opener[o].cam
           old == streams[c]
<1>t. /\ streams \in [Cams -> Threads \cup {NoThread}] /\ live \subseteq Cams
      /\ opener \in [Openers -> Opens] /\ NoThread \notin Threads
      /\ \A p \in Openers : opener[p].pc = "start" => opener[p].thread \in Threads
  BY StreamingAssumption DEF Safety, Types, TypeOK, Openings, NoThread, Threads
<1>0. c \in Cams /\ opener[o].pc = "announce" /\ UNCHANGED <<live, closer>>
  BY DEF AddStream, Safety, Types, Openings
<1>1. CASE /\ old # NoThread /\ IsAlive(old)
           /\ opener' = [opener EXCEPT ![o] = IdleOpener]
           /\ stranded' = IF thr[old].pc = "leave" THEN stranded \cup {c} ELSE stranded
           /\ UNCHANGED <<streams, thr, orphans>>
  <2>1. opener'[o].pc = "idle" /\ \A p \in Openers \ {o} : opener'[p] = opener[p]
    BY <1>t, <1>1, ObjectTypes
  <2>2. Starting'
    BY <1>0, <1>1, <2>1 DEF Safety, Starting
  <2>3. OneStream'
    BY <1>1 DEF Safety, OneStream
  <2>4. Announced'
    BY <1>t, <1>0, <1>1, <2>1 DEF Safety, Announced, IsAlive
  <2> QED BY <2>2, <2>3, <2>4 DEF Safety
<1>2. ASSUME NEW t \in Threads, ~(old # NoThread /\ IsAlive(old)),
             thr[t].pc = "unused", thr' \in [Threads -> Objects],
             opener' = [opener EXCEPT ![o] = [opener[o] EXCEPT !.pc = "start", !.thread = t]],
             streams' = [streams EXCEPT ![c] = t],
             thr'[t].pc = "new", thr'[t].cam = c, thr'[t].running,
             \A n \in Threads \ {t} :
               \/ thr'[n] = thr[n]
               \/ /\ thr[n].pc = "ended" /\ \A d \in Cams : streams'[d] # n
                  /\ thr'[n] = Unused,
             orphans' = (IF old # NoThread /\ thr[old].pc = "new"
                         THEN orphans \cup {old} ELSE orphans),
             stranded' = stranded \ {c}
      PROVE  Safety'
  <2> DEFINE r == [opener[o] EXCEPT !.pc = "start", !.thread = t]
  <2>1. r.pc = "start" /\ r.thread = t /\ r.cam = c
    BY <1>t DEF Opens
  <2>2. opener' = [opener EXCEPT ![o] = r]
    BY <1>2
  <2> HIDE DEF r
  <2>3. opener'[o] = r /\ \A p \in Openers \ {o} : opener'[p] = opener[p]
    BY <1>t, <2>2
  <2>4. streams'[c] = t /\ \A d \in Cams \ {c} : streams'[d] = streams[d]
    BY <1>t, <1>0, <1>2
  <2>5. \A n \in Threads : thr[n].pc # "ended" /\ n # t => thr'[n] = thr[n]
    BY <1>2
  <2>6. \A n \in Threads \ {t} : thr'[n].pc = "new" => thr'[n] = thr[n]
    BY <1>2, ObjectTypes
  <2>7. Starting'
    <3>1. \A p \in Openers : opener'[p].pc = "start" => thr'[opener'[p].thread].pc = "new"
      BY <1>t, <1>2, <2>1, <2>3, <2>5 DEF Safety, Starting
    <3>2. \A n \in Threads : thr'[n].pc = "new" =>
            \E p \in Openers : /\ opener'[p].pc = "start" /\ opener'[p].thread = n
                               /\ opener'[p].cam = thr'[n].cam
      <4> SUFFICES ASSUME NEW n \in Threads, thr'[n].pc = "new"
                   PROVE  \E p \in Openers : /\ opener'[p].pc = "start" /\ opener'[p].thread = n
                                             /\ opener'[p].cam = thr'[n].cam
        OBVIOUS
      <4>1. CASE n = t
        BY <1>2, <2>1, <2>3, <4>1
      <4>2. CASE n # t
        <5>1. thr'[n] = thr[n]
          BY <2>6, <4>2
        <5>2. PICK p \in Openers : /\ opener[p].pc = "start" /\ opener[p].thread = n
                                   /\ opener[p].cam = thr[n].cam
          BY <5>1 DEF Safety, Starting
        <5> QED BY <1>0, <2>3, <5>1, <5>2
      <4> QED BY <4>1, <4>2
    <3>3. \A p \in Openers \ {o} : opener'[p].pc = "start" => opener'[p].thread # t
      BY <1>2, <2>3 DEF Safety, Starting
    <3>4. \A p, q \in Openers : opener'[p].pc = "start" /\ opener'[q].pc = "start"
                                 /\ opener'[p].thread = opener'[q].thread => p = q
      BY <2>1, <2>3, <3>3 DEF Safety, Starting
    <3> QED BY <3>1, <3>2, <3>4 DEF Starting
  <2>8. OneStream'
    <3> SUFFICES ASSUME NEW n \in Threads, thr'[n].running, thr'[n].pc # "ended"
                 PROVE  streams'[thr'[n].cam] = n \/ n \in orphans'
      BY DEF OneStream
    <3>1. CASE n = t
      BY <1>2, <2>4, <3>1
    <3>2. CASE n # t
      <4>1. thr'[n] = thr[n]
        BY <1>2, <3>2, ObjectTypes
      <4>2. streams[thr[n].cam] = n \/ n \in orphans
        BY <4>1 DEF Safety, OneStream
      <4>3. thr[n].pc # "unused"
        BY <4>1 DEF Safety, Types, Table
      <4>4. CASE n \in orphans
        BY <1>2, <4>4
      <4>5. CASE streams[thr[n].cam] = n /\ thr[n].cam = c
        <5>1. old = n /\ old # NoThread /\ ~IsAlive(n)
          BY <1>t, <1>2, <4>5
        <5>2. thr[n].pc = "new"
          <6>1. thr[n] \in Objects
            BY DEF Safety, Types, TypeOK
          <6> QED BY <4>1, <4>3, <5>1, <6>1 DEF IsAlive, Objects
        <5> QED BY <1>2, <5>1, <5>2
      <4>6. CASE streams[thr[n].cam] = n /\ thr[n].cam # c
        <5>1. thr[n].cam \in Cams \/ thr[n].cam = None
          BY DEF Safety, Types, TypeOK, Objects
        <5>2. streams'[thr[n].cam] = streams[thr[n].cam]
          BY <1>t, <1>2, <4>6
        <5> QED BY <4>1, <4>6, <5>2
      <4> QED BY <4>2, <4>4, <4>5, <4>6
    <3> QED BY <3>1, <3>2
  <2>9. Announced'
    <3> SUFFICES ASSUME NEW d \in live
                 PROVE  \/ closer[d] \in {"tell", "join"} \/ d \in stranded'
                        \/ \E p \in Openers : opener'[p].pc = "announce" /\ opener'[p].cam = d
                        \/ /\ streams'[d] # NoThread
                           /\ thr'[streams'[d]].pc \in {"new", "sleep", "push", "send"}
      BY <1>0 DEF Announced
    <3>1. CASE d = c
      BY <1>t, <1>2, <2>4, <3>1
    <3>2. CASE d # c
      <4>1. streams'[d] = streams[d]
        BY <1>t, <2>4, <3>2
      <4>2. \A p \in Openers : opener[p].pc = "announce" /\ opener[p].cam = d
                               => opener'[p] = opener[p]
        BY <2>3, <3>2
      <4>3. streams[d] # NoThread /\ thr[streams[d]].pc \in {"new", "sleep", "push", "send"}
              => thr'[streams[d]] = thr[streams[d]]
        BY <1>t, <1>2, <2>5
      <4> QED BY <1>2, <3>2, <4>1, <4>2, <4>3 DEF Safety, Announced
    <3> QED BY <3>1, <3>2
  <2> QED BY <2>7, <2>8, <2>9 DEF Safety
<1>3. Types
  BY DEF Safety
<1> QED BY <1>1, <1>2, <1>3, Adding

LEMMA RemoveSafe ==
  ASSUME Safety, Types', NEW c \in Cams, RemoveStream(c)
  PROVE  Safety'
<1>t. /\ streams \in [Cams -> Threads \cup {NoThread}] /\ live \subseteq Cams
      /\ closer \in [Cams -> {"idle", "tell", "join"}] /\ Types /\ NoThread \notin Threads
      /\ \A o \in Openers : opener[o].pc = "start" => opener[o].thread \in Threads
  BY StreamingAssumption DEF Safety, Types, TypeOK, Openings, NoThread, Threads
<1>1. UNCHANGED <<live, opener, orphans, stranded>> /\ closer' = [closer EXCEPT ![c] = "join"]
  BY DEF RemoveStream, history
<1>2. \A n \in Threads : /\ thr[n].pc = "new" => thr'[n].pc = "new" /\ thr'[n].cam = thr[n].cam
                         /\ thr'[n].pc = "new" => thr[n].pc = "new" /\ thr'[n].cam = thr[n].cam
  BY <1>t, Removing, ObjectTypes
<1>3. Starting'
  BY <1>t, <1>1, <1>2 DEF Safety, Starting
<1>4. \A n \in Threads : thr'[n].running => thr'[n] = thr[n] /\ streams[c] # n
  BY <1>t, Removing, ObjectTypes
<1>5. \A d \in Cams \ {c} : streams'[d] = streams[d]
  BY <1>t, Removing
<1>6. streams' = [streams EXCEPT ![c] = NoThread]
  BY <1>t, Removing
<1>7. OneStream'
  <2> SUFFICES ASSUME NEW n \in Threads, thr'[n].running, thr'[n].pc # "ended"
               PROVE  streams'[thr'[n].cam] = n \/ n \in orphans'
    BY DEF OneStream
  <2>1. thr'[n] = thr[n] /\ (streams[thr[n].cam] = n \/ n \in orphans)
    BY <1>4 DEF Safety, OneStream
  <2>2. CASE n \in orphans
    BY <1>1, <2>2
  <2>3. CASE streams[thr[n].cam] = n
    <3>1. thr[n].cam # c
      BY <1>4, <2>3
    <3>2. streams'[thr[n].cam] = streams[thr[n].cam]
      BY <1>t, <1>6, <3>1
    <3> QED BY <2>1, <2>3, <3>2
  <2> QED BY <2>1, <2>2, <2>3
<1>8. Announced'
  <2> SUFFICES ASSUME NEW d \in live
               PROVE  \/ closer'[d] \in {"tell", "join"} \/ d \in stranded'
                      \/ \E p \in Openers : opener'[p].pc = "announce" /\ opener'[p].cam = d
                      \/ /\ streams'[d] # NoThread
                         /\ thr'[streams'[d]].pc \in {"new", "sleep", "push", "send"}
    BY <1>1 DEF Announced
  <2>1. CASE d = c
    BY <1>t, <1>1, <2>1
  <2>2. CASE d # c
    <3>1. streams'[d] = streams[d] /\ closer'[d] = closer[d]
      BY <1>t, <1>1, <1>5, <2>2
    <3>2. streams[d] # NoThread /\ thr[streams[d]].pc \in {"new", "sleep", "push", "send"}
            => thr'[streams[d]].pc = thr[streams[d]].pc
      BY <1>t, Removing
    <3> QED BY <1>1, <3>1, <3>2 DEF Safety, Announced
  <2> QED BY <2>1, <2>2
<1> QED BY <1>3, <1>7, <1>8 DEF Safety

LEMMA TurnSafe ==
  ASSUME Safety, Types', NEW t \in Threads, Tick(t) \/ Leave(t)
  PROVE  Safety'
<1>t. /\ streams \in [Cams -> Threads \cup {NoThread}] /\ live \subseteq Cams /\ Types
      /\ NoThread \notin Threads
      /\ \A o \in Openers : opener[o].pc = "start" => opener[o].thread \in Threads
  BY StreamingAssumption DEF Safety, Types, TypeOK, Openings, NoThread, Threads
<1>1. UNCHANGED <<streams, opener, closer, live, stranded>> /\ thr[t].pc \in {"sleep", "leave"}
      /\ orphans' = {n \in orphans : thr'[n].pc # "unused"}
  BY DEF Tick, Leave, camera
<1>2. thr'[t].pc # "new"
  BY <1>t, Turning, ObjectTypes
<1>3. \A n \in Threads \ {t} : \/ thr'[n] = thr[n]
                               \/ thr[n].pc = "ended" /\ thr'[n] = Unused
  BY <1>t, Turning
<1>4. Starting'
  BY <1>t, <1>1, <1>2, <1>3, ObjectTypes DEF Safety, Starting
<1>5. OneStream'
  <2> SUFFICES ASSUME NEW n \in Threads, thr'[n].running, thr'[n].pc # "ended"
               PROVE  streams'[thr'[n].cam] = n \/ n \in orphans'
    BY DEF OneStream
  <2>1. thr[n].running /\ thr[n].cam = thr'[n].cam /\ thr[n].pc # "ended"
    <3>1. CASE n = t
      BY <1>t, <1>1, <3>1, Turning, ObjectTypes
    <3>2. CASE n # t
      BY <1>3, <3>2, ObjectTypes
    <3> QED BY <3>1, <3>2
  <2>2. thr'[n].pc # "unused"
    BY DEF Types, Table
  <2> QED BY <1>1, <2>1, <2>2 DEF Safety, OneStream
<1>6. Announced'
  <2> SUFFICES ASSUME NEW d \in live, streams[d] # NoThread,
                      thr[streams[d]].pc \in {"new", "sleep", "push", "send"}
               PROVE  thr'[streams[d]].pc \in {"new", "sleep", "push", "send"}
    BY <1>1 DEF Safety, Announced
  <2>1. streams[d] \in Threads /\ thr[streams[d]].cam = d /\ thr[streams[d]].running
    BY <1>t DEF Types, Table
  <2>2. CASE streams[d] = t
    <3>1. ~Leave(t)
      BY <2>2 DEF Leave
    <3> QED BY <1>t, <2>1, <2>2, <3>1, Turning
  <2>3. CASE streams[d] # t
    BY <1>3, <2>1, <2>3
  <2> QED BY <2>2, <2>3
<1> QED BY <1>4, <1>5, <1>6 DEF Safety

LEMMA StepSafe == Safety /\ [Next]_vars => Safety'
<1> SUFFICES ASSUME Safety, [Next]_vars PROVE Safety'
  OBVIOUS
<1>t. /\ Types /\ Types' /\ thr \in [Threads -> Objects] /\ live \subseteq Cams
      /\ opener \in [Openers -> Opens] /\ streams \in [Cams -> Threads \cup {NoThread}]
      /\ closer \in [Cams -> {"idle", "tell", "join"}]
  BY StepTypes DEF Safety, Types, TypeOK
<1>1. ASSUME NEW o \in Openers, NEW c \in Cams, OpenCheck(o, c) PROVE Safety'
  <2>1. [IdleOpener EXCEPT !.pc = "check", !.cam = c].pc = "check"
    BY DEF IdleOpener
  <2>2. opener'[o].pc = "check" /\ opener[o].pc = "idle" /\ \A p \in Openers \ {o} : opener'[p] = opener[p]
    BY <1>1, <1>t, <2>1 DEF OpenCheck
  <2>3. UNCHANGED <<live, closer, streams, thr, orphans, stranded>>
    BY <1>1 DEF OpenCheck, history
  <2>4. Starting'
    BY <2>2, <2>3 DEF Safety, Starting
  <2> QED BY <1>t, <2>2, <2>3, <2>4 DEF Safety, OneStream, Announced
<1>2. ASSUME NEW o \in Openers, OpenInsert(o) PROVE Safety'
  <2>1. /\ opener'[o].pc = "announce" /\ opener[o].pc = "check" /\ opener'[o].cam = opener[o].cam
        /\ \A p \in Openers \ {o} : opener'[p] = opener[p]
    BY <1>2, <1>t DEF OpenInsert, Opens
  <2>2. live' = live \cup {opener[o].cam} /\ UNCHANGED <<closer, streams, thr, orphans, stranded>>
    BY <1>2 DEF OpenInsert, history
  <2>3. Starting'
    BY <2>1, <2>2 DEF Safety, Starting
  <2>4. Announced'
    BY <2>1, <2>2 DEF Safety, Announced
  <2> QED BY <1>t, <2>2, <2>3, <2>4 DEF Safety, OneStream
<1>4. ASSUME NEW o \in Openers, StartStream(o) PROVE Safety'
  <2> DEFINE t == opener[o].thread
  <2>1. t \in Threads /\ thr[t].pc = "new" /\ opener[o].pc = "start"
    BY <1>4 DEF StartStream, Safety, Types, Openings, Starting
  <2>2. /\ thr'[t].pc = "sleep" /\ thr'[t].cam = thr[t].cam /\ thr'[t].running = thr[t].running
        /\ \A n \in Threads \ {t} : thr'[n] = thr[n]
    BY <1>4, <1>t, <2>1 DEF StartStream, Objects
  <2>3. opener'[o].pc = "idle" /\ \A p \in Openers \ {o} : opener'[p] = opener[p]
    BY <1>4, <1>t, ObjectTypes DEF StartStream
  <2>4. UNCHANGED <<live, closer, streams, orphans, stranded>>
    BY <1>4 DEF StartStream, history
  <2>5. \A p \in Openers \ {o} : opener[p].pc = "start" => opener[p].thread # t /\ opener[p].thread \in Threads
    BY <2>1 DEF Safety, Types, Openings, Starting
  <2>6. Starting'
    <3>1. \A p \in Openers : opener'[p].pc = "start" => thr'[opener'[p].thread].pc = "new"
      BY <2>2, <2>3, <2>5 DEF Safety, Starting
    <3>2. ASSUME NEW n \in Threads, thr'[n].pc = "new"
          PROVE  \E p \in Openers : /\ opener'[p].pc = "start" /\ opener'[p].thread = n
                                    /\ opener'[p].cam = thr'[n].cam
      <4>1. n # t /\ thr'[n] = thr[n]
        BY <2>2, <3>2
      <4>2. PICK p \in Openers : /\ opener[p].pc = "start" /\ opener[p].thread = n
                                 /\ opener[p].cam = thr[n].cam
        BY <3>2, <4>1 DEF Safety, Starting
      <4>3. p # o
        BY <4>1, <4>2
      <4> QED BY <2>3, <4>1, <4>2, <4>3
    <3>3. \A p, q \in Openers : opener'[p].pc = "start" /\ opener'[q].pc = "start"
                                 /\ opener'[p].thread = opener'[q].thread => p = q
      BY <2>3 DEF Safety, Starting
    <3> QED BY <3>1, <3>2, <3>3 DEF Starting
  <2>7. OneStream'
    BY <2>1, <2>2, <2>4 DEF Safety, OneStream
  <2>8. Announced'
    <3> SUFFICES ASSUME NEW d \in live
                 PROVE  \/ closer[d] \in {"tell", "join"} \/ d \in stranded
                        \/ \E p \in Openers : opener'[p].pc = "announce" /\ opener'[p].cam = d
                        \/ /\ streams[d] # NoThread
                           /\ thr'[streams[d]].pc \in {"new", "sleep", "push", "send"}
      BY <2>4 DEF Announced
    <3>1. \A p \in Openers : opener[p].pc = "announce" => opener'[p] = opener[p]
      BY <2>1, <2>3
    <3>2. streams[d] # NoThread /\ thr[streams[d]].pc \in {"new", "sleep", "push", "send"}
            => thr'[streams[d]].pc \in {"new", "sleep", "push", "send"}
      BY <1>t, <2>2
    <3> QED BY <3>1, <3>2 DEF Safety, Announced
  <2> QED BY <1>t, <2>6, <2>7, <2>8 DEF Safety
<1>5. ASSUME NEW c \in Cams, CloseBegin(c) \/ Pop(c) \/ OnCameraClosed(c) PROVE Safety'
  <2>1. /\ UNCHANGED <<opener, streams, thr, orphans, stranded>>
        /\ closer' \in [Cams -> {"idle", "tell", "join"}]
        /\ \A d \in Cams \ {c} : closer'[d] = closer[d]
        /\ \/ closer'[c] = "tell" /\ live' = live
           \/ live' = live \ {c}
           \/ closer' = closer /\ live' = live
    BY <1>5, <1>t DEF CloseBegin, Pop, OnCameraClosed, clients, history
  <2>2. Starting' /\ OneStream'
    BY <2>1 DEF Safety, Starting, OneStream
  <2>3. Announced'
    BY <1>t, <2>1 DEF Safety, Announced
  <2> QED BY <1>t, <2>2, <2>3 DEF Safety
<1>6. ASSUME NEW t \in Threads, \/ Emit(t) \/ NextTurn(t) \/ \E s \in Sids : Offer(t, s)
      PROVE  Safety'
  <2>1. /\ thr'[t].pc \in {"sleep", "push", "send"} /\ thr[t].pc \in {"sleep", "push", "send"}
        /\ thr'[t].running = thr[t].running /\ thr'[t].cam = thr[t].cam
        /\ \A n \in Threads \ {t} : thr'[n] = thr[n]
    <3>1. CASE Emit(t)
      BY <1>t, <3>1 DEF Emit, Objects
    <3>2. CASE NextTurn(t)
      BY <1>t, <3>2 DEF NextTurn, Objects
    <3>3. ASSUME NEW s \in Sids, Offer(t, s)
          PROVE  /\ thr'[t].pc \in {"push", "send"} /\ thr[t].pc = "push"
                 /\ thr'[t].running = thr[t].running /\ thr'[t].cam = thr[t].cam
                 /\ \A n \in Threads \ {t} : thr'[n] = thr[n]
      BY <1>t, <3>3 DEF Offer, Objects
    <3> QED BY <1>6, <3>1, <3>2, <3>3
  <2>2. UNCHANGED <<live, opener, closer, streams, orphans, stranded>>
    BY <1>6 DEF Emit, NextTurn, Offer, camera, history
  <2> QED BY <1>t, <2>1, <2>2, MovingSafe
<1>7. ASSUME NEW s \in Sids, ClientStep(s) PROVE Safety'
  BY <1>7, <1>t, StillSafe
     DEF ClientStep, Connect, Disconnect, OtherPacket, Drain, SetStreamSize,
     SetStreamPaused,
         camera, history
<1>8. ASSUME NEW c \in Cams, FirstFrame(c) PROVE Safety'
  BY <1>8, <1>t, StillSafe DEF FirstFrame, history
<1>9. CASE UNCHANGED vars
  BY <1>9, <1>t, StillSafe DEF vars
<1> QED BY <1>t, <1>1, <1>2, <1>4, <1>5, <1>6, <1>7, <1>8, <1>9, AddSafe, RemoveSafe,
           TurnSafe
           DEF Next, OpenerStep, CloserStep, ThreadStep

\* StreamManager under any order of announcements and closes: no thread that runs on is
\* out of the close's reach, and an open camera that has been announced has its stream,
\* but for the two exceptions the properties name.
THEOREM StreamsFollowCameras == Spec => []StreamPerCamera
<1>1. Safety => OneStream /\ OpenStreamed
  <2> SUFFICES ASSUME Safety PROVE OpenStreamed
    BY DEF Safety
  <2> SUFFICES ASSUME NEW c \in live, closer[c] = "idle", ~Opening(c), c \notin stranded
               PROVE  streams[c] # NoThread /\ IsAlive(streams[c]) /\ thr[streams[c]].running
    BY DEF OpenStreamed
  <2>1. c \in Cams /\ streams[c] \in Threads \cup {NoThread}
    BY DEF Safety, Types, TypeOK
  <2>2. streams[c] # NoThread /\ thr[streams[c]].pc \in {"new", "sleep", "push", "send"}
    BY DEF Safety, Announced, Opening
  <2>3. thr[streams[c]].cam = c /\ thr[streams[c]].running
    BY <2>1, <2>2 DEF Safety, Types, Table
  <2>4. thr[streams[c]].pc # "new"
    BY <2>1, <2>2, <2>3 DEF Safety, Starting, Opening
  <2> QED BY <2>2, <2>3, <2>4 DEF IsAlive
<1> QED BY <1>1, InitSafe, StepSafe, PTL DEF Spec, StreamPerCamera
=============================================================================

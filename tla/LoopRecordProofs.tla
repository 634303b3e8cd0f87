-------------------------- MODULE LoopRecordProofs --------------------------
(***************************************************************************)
(* For any number of callers, encoders and files: every running encoder can *)
(* be stopped through the plugin, and the ring lists the files on the disk,  *)
(* unless one of the overlaps recorded in clash has happened.               *)
(***************************************************************************)
EXTENDS LoopRecord, FiniteSetTheorems, SequenceTheorems, WellFoundedInduction, TLAPS

-----------------------------------------------------------------------------
(* Sequences of files.                                                     *)

\* Every set of numbers has a least one: induction in a form without predicates.
LEMMA LeastNumber ==
  ASSUME NEW T, T \subseteq Nat, T # {}
  PROVE  \E x \in T : \A y \in T : x <= y
<1> DEFINE R == OpToRel(<, Nat)
<1>1. IsWellFoundedOn(R, Nat)
  BY NatLessThanWellFounded
<1>2. \A y, x \in Nat : y < x => <<y, x>> \in R
  BY DEF OpToRel
<1> HIDE DEF R
<1>3. PICK x \in T : \A y \in T : ~ (<<y, x>> \in R)
  BY <1>1, WFMin
<1>4. ASSUME NEW y \in T
      PROVE  x <= y
  <2>1. x \in Nat /\ y \in Nat
    OBVIOUS
  <2>2. ~ (y < x)
    BY <1>2, <1>3, <2>1
  <2>3. QED BY <2>1, <2>2
<1>5. QED BY <1>4

Lists(s, S) ==
  LET n == Cardinality(S)
  IN  /\ s \in [1..n -> S]
      /\ ToSet(s) = S
      /\ \A i, j \in 1..n : i < j => s[i] < s[j]

\* A finite set of numbers can be listed in order.
LEMMA ListingExists ==
  ASSUME NEW S, S \subseteq Nat, IsFiniteSet(S)
  PROVE  \E s : Lists(s, S)
<1> DEFINE Unlisted(X) == X \subseteq Nat /\ IsFiniteSet(X) /\ ~ \E s : Lists(s, X)
           Bad == {n \in Nat : \E X \in SUBSET Nat : Unlisted(X) /\ Cardinality(X) = n}
<1>1. SUFFICES ASSUME Bad # {}
               PROVE  FALSE
  BY FS_CardinalityType
<1>2. PICK n \in Bad : \A m \in Bad : n <= m
  BY <1>1, LeastNumber
<1>3. PICK X \in SUBSET Nat : Unlisted(X) /\ Cardinality(X) = n
  OBVIOUS
<1>4. X # {}
  <2>1. SUFFICES ASSUME X = {}
                 PROVE  Lists(<<>>, X)
    BY <1>3
  <2>2. n = 0
    BY <1>3, <2>1, FS_EmptySet
  <2>3. QED BY <1>3, <2>1, <2>2 DEF Lists, ToSet
<1>5. PICK x \in X : \A y \in X : x <= y
  BY <1>4, LeastNumber
<1>6. IsFiniteSet(X \ {x}) /\ Cardinality(X \ {x}) = n - 1 /\ n \in Nat \ {0}
  BY <1>3, <1>4, FS_RemoveElement, FS_EmptySet, FS_CardinalityType
<1>7. PICK t : Lists(t, X \ {x})
  <2>1. n - 1 \notin Bad
    BY <1>2, <1>6
  <2>2. QED BY <1>6, <2>1
<1> DEFINE s == [i \in 1..n |-> IF i = 1 THEN x ELSE t[i - 1]]
<1>8. t \in [1..(n - 1) -> X \ {x}] /\ ToSet(t) = X \ {x}
      /\ \A i, j \in 1..(n - 1) : i < j => t[i] < t[j]
  BY <1>6, <1>7 DEF Lists
<1>9. \A i \in 1..n : s[i] = IF i = 1 THEN x ELSE t[i - 1]
  OBVIOUS
<1>10. s \in [1..n -> X]
  BY <1>8
<1>11. ToSet(s) = X
  <2>1. ASSUME NEW y \in X
        PROVE  \E i \in 1..n : s[i] = y
    <3>1. CASE y = x
      BY <1>6, <1>9, <3>1
    <3>2. CASE y # x
      <4>1. PICK i \in 1..(n - 1) : t[i] = y
        BY <1>8, <3>2 DEF ToSet
      <4>2. i + 1 \in 1..n /\ s[i + 1] = y
        BY <1>6, <1>9, <4>1
      <4>3. QED BY <4>2
    <3>3. QED BY <3>1, <3>2
  <2>2. DOMAIN s = 1..n /\ ToSet(s) = {s[i] : i \in 1..n}
    BY <1>10 DEF ToSet
  <2>3. \A i \in 1..n : s[i] \in X
    BY <1>10
  <2> HIDE DEF s
  <2>4. QED BY <2>1, <2>2, <2>3
<1>12. ASSUME NEW i \in 1..n, NEW j \in 1..n, i < j
       PROVE  s[i] < s[j]
  <2>1. j - 1 \in 1..(n - 1) /\ s[j] = t[j - 1]
    BY <1>6, <1>9, <1>12
  <2>2. CASE i = 1
    <3>1. t[j - 1] \in X \ {x} /\ s[i] = x
      BY <1>8, <1>9, <2>1, <2>2
    <3>2. x \in Nat /\ t[j - 1] \in Nat /\ x <= t[j - 1] /\ x # t[j - 1]
      BY <1>5, <3>1
    <3>3. QED BY <2>1, <3>1, <3>2
  <2>3. CASE i # 1
    <3>1. i - 1 \in 1..(n - 1) /\ s[i] = t[i - 1] /\ i - 1 < j - 1
      BY <1>6, <1>9, <1>12, <2>3
    <3>2. QED BY <1>8, <2>1, <3>1
  <2>4. QED BY <2>2, <2>3
<1>13. Lists(s, X)
  BY <1>3, <1>10, <1>11, <1>12 DEF Lists
<1>14. QED BY <1>3, <1>13

LEMMA SortedLists ==
  ASSUME NEW S, S \subseteq Nat, IsFiniteSet(S)
  PROVE  Sorted(S) \in Seq(S) /\ Lists(Sorted(S), S)
<1>1. Lists(Sorted(S), S)
  BY ListingExists DEF Lists, Sorted
<1>2. Cardinality(S) \in Nat
  BY FS_CardinalityType
<1>3. QED BY <1>1, <1>2, SeqDef DEF Lists

\* The steps leave the files, and the record of a recording's end, alone as pairs.
USE DEF files, ends

Distinct(s) == \A i, j \in 1..Len(s) : s[i] = s[j] => i = j

-----------------------------------------------------------------------------
(* The inductive invariant.                                                *)

\* An encoder has a file open exactly in the statements between start and close.
Stages ==
  \A e \in Encoders :
    enc[e].path # NoPath <=> enc[e].pc \in {"loop", "write", "rotate", "close_final"}

\* The plugin lets go of its encoder when a recording ends, and has none before
\* the camera was opened once.
Held == /\ ~recording => encoder = NoEncoder
        /\ ~known => ~Scanning /\ \A e \in Encoders : ~Alive(e)

\* The files but for those that could not be deleted.
Wanted == disk \ stuck

\* One caller at a time rebuilds the ring, nobody records meanwhile, and what it is
\* about to publish is what it has left on the disk on purpose.
ScanAlone ==
  /\ Scanning => \A e \in Encoders : ~Alive(e)
  /\ \A t, u \in Callers :
       call[t].pc \in {"read_ring", "scan", "publish"}
         /\ call[u].pc \in {"read_ring", "scan", "publish"} => t = u
  /\ \A t \in Callers :
       At(t, "publish") => Distinct(call[t].valid) /\ Wanted = ToSet(call[t].valid)

\* A file being written is on the disk, is nobody else's, and is not in the ring yet.
OwnFiles ==
  \A e \in Encoders : Writing(e) =>
    /\ enc[e].path \in Wanted /\ enc[e].path \notin ToSet(chunks)
    /\ \A d \in Encoders : Writing(d) /\ enc[d].path = enc[e].path => d = e

Written == {enc[e].path : e \in {d \in Encoders : Writing(d)}}

Ring == known /\ ~Scanning => Distinct(chunks) /\ Wanted = ToSet(chunks) \cup Written

RingInv == ~clash => ScanAlone /\ OwnFiles /\ Ring
LoopInv == TypeOK /\ Stages /\ Held /\ RingInv /\ NoOrphanEncoder

-----------------------------------------------------------------------------
(* Types.                                                                  *)

Callables == Encoders \cup {NoEncoder}

LEMMA PathTypes ==
  /\ Paths \subseteq Nat /\ NoPath \notin Paths /\ MaxClock \in Nat /\ QueueSize \in Nat \ {0}
  /\ \A S \in SUBSET Paths : IsFiniteSet(S)
<1>1. MaxClock \in Nat /\ QueueSize \in Nat \ {0} /\ NoPath \notin Paths
  BY LoopAssumption DEF Paths
<1>2. Paths \subseteq Nat
  BY <1>1 DEF Paths
<1>3. IsFiniteSet(Paths)
  BY <1>1, FS_Interval DEF Paths
<1>4. QED BY <1>1, <1>2, <1>3, FS_Subset

\* The listing of the files on the disk, cut to the ring.
LEMMA Cut ==
  ASSUME NEW S \in SUBSET Paths, NEW k \in Nat
  PROVE  LET listed == Sorted(S)
             extra == IF Len(listed) > k THEN Len(listed) - k ELSE 0
         IN  /\ SubSeq(listed, extra + 1, Len(listed)) \in Seq(Paths)
             /\ Distinct(SubSeq(listed, extra + 1, Len(listed)))
<1> DEFINE listed == Sorted(S)
           extra == IF Len(listed) > k THEN Len(listed) - k ELSE 0
<1>1. listed \in Seq(Paths) /\ Lists(listed, S) /\ Cardinality(S) \in Nat
  BY SortedLists, PathTypes, SeqMonotonic, FS_CardinalityType
<1>2. Len(listed) = Cardinality(S)
  BY <1>1 DEF Lists
<1>3. \A i, j \in 1..Len(listed) : i < j => listed[i] < listed[j]
  BY <1>1, <1>2 DEF Lists
<1>4. \A i, j \in 1..Len(listed) : listed[i] = listed[j] => i = j
  <2>1. SUFFICES ASSUME NEW i \in 1..Len(listed), NEW j \in 1..Len(listed),
                        listed[i] = listed[j], i < j
                 PROVE  FALSE
    BY <1>1
  <2>2. listed[i] \in Nat /\ listed[i] < listed[j]
    <3>1. listed[i] \in Paths /\ listed[i] < listed[j]
      BY <1>1, <1>3, <2>1
    <3>2. QED BY <3>1, PathTypes
  <2>3. QED BY <2>1, <2>2
<1> HIDE DEF listed
<1>5. extra \in 0..Len(listed)
  BY <1>1
<1> HIDE DEF extra
<1> DEFINE kept == SubSeq(listed, extra + 1, Len(listed))
<1>6. /\ kept \in Seq(Paths) /\ Len(kept) = Len(listed) - extra
      /\ \A i \in 1..Len(kept) : kept[i] = listed[extra + i]
  BY <1>1, <1>5
<1>7. Distinct(kept)
  BY <1>1, <1>4, <1>5, <1>6 DEF Distinct
<1>8. QED BY <1>6, <1>7 DEF listed, extra

LEMMA RingTypes ==
  ASSUME TypeOK, NEW e \in Encoders, ChunkDone(e)
  PROVE  chunks' \in Seq(Paths) /\ disk' \subseteq Paths /\ stuck' \subseteq disk'
<1> DEFINE all == IF enc[e].path \in disk THEN Append(chunks, enc[e].path) ELSE chunks
           extra == IF enc[e].path \in disk /\ Len(all) > max_chunks
                    THEN Len(all) - max_chunks ELSE 0
<1>1. all \in Seq(Paths) /\ max_chunks \in Nat
  BY LoopAssumption DEF TypeOK
<1> HIDE DEF all
<1>2. extra \in 0..Len(all)
  BY <1>1
<1> HIDE DEF extra
<1>3. SubSeq(all, extra + 1, Len(all)) \in Seq(Paths)
  BY <1>1, <1>2
<1>4. chunks' \in Seq(Paths)
  BY <1>3 DEF ChunkDone, all, extra
<1>5. \A fs, left : left \in Left(fs) => left \subseteq fs \cap disk
  BY DEF Left
<1>6. PICK old, left : /\ left \subseteq old \cap disk /\ disk' = disk \ (old \ left)
                       /\ stuck' = (stuck \ old) \cup left
  BY <1>5 DEF ChunkDone
<1>7. QED BY <1>4, <1>6 DEF TypeOK

\* What a caller and an encoder may become.
LEMMA CallMoves ==
  ASSUME NEW c \in Call, NEW l \in CallPCs
  PROVE  /\ [c EXCEPT !.pc = l] \in Call
         /\ \A d \in Callables : [c EXCEPT !.pc = l, !.encoder = d] \in Call
         /\ \A n \in RingSizes : [c EXCEPT !.pc = l, !.ring = n] \in Call
         /\ \A v \in Seq(Paths) : [c EXCEPT !.pc = l, !.valid = v] \in Call
         /\ [c EXCEPT !.pc = "return", !.encoder = NoEncoder, !.ring = 0,
                      !.valid = <<>>] \in Call
<1>1. <<>> \in Seq(Paths) /\ "return" \in CallPCs
  BY DEF CallPCs
<1> HIDE DEF CallPCs
<1>2. QED BY <1>1 DEF Call, Callables

LEMMA EncoderMoves ==
  ASSUME NEW r \in Encoder, NEW l \in EncPCs
  PROVE  /\ [r EXCEPT !.pc = l] \in Encoder
         /\ [r EXCEPT !.running = FALSE] \in Encoder
         /\ \A n \in 0..QueueSize : [r EXCEPT !.q = n] \in Encoder
         /\ \A n \in 0..QueueSize : [r EXCEPT !.pc = l, !.q = n] \in Encoder
         /\ \A p \in Paths \cup {NoPath} : [r EXCEPT !.pc = l, !.path = p] \in Encoder
BY DEF Encoder

LEMMA NewThreads ==
  /\ NoThread \in Encoder
  /\ [NoThread EXCEPT !.pc = "first_chunk", !.running = TRUE] \in Encoder
<1>1. "none" \in EncPCs /\ "first_chunk" \in EncPCs /\ 0 \in 0..QueueSize
  BY PathTypes DEF EncPCs
<1>2. NoThread \in Encoder
  BY <1>1 DEF NoThread, Encoder
<1>3. [NoThread EXCEPT !.pc = "first_chunk", !.running = TRUE] \in Encoder
  BY <1>1, <1>2 DEF Encoder
<1>4. QED BY <1>2, <1>3

\* A step that moves one caller, or one encoder, and leaves the rest.
LEMMA CallMoved ==
  ASSUME TypeOK, NEW t \in Callers, NEW c \in Call, call' = [call EXCEPT ![t] = c]
  PROVE  call' \in [Callers -> Call]
BY DEF TypeOK

LEMMA EncoderMoved ==
  ASSUME TypeOK, NEW e \in Encoders, NEW r \in Encoder, enc' = [enc EXCEPT ![e] = r]
  PROVE  enc' \in [Encoders -> Encoder]
BY DEF TypeOK

LEMMA GotoMoves ==
  ASSUME TypeOK, NEW t \in Callers, NEW l \in CallPCs, Goto(t, l)
  PROVE  call' \in [Callers -> Call]
BY CallMoves DEF TypeOK, Goto

LEMMA ReturnMoves ==
  ASSUME TypeOK, NEW t \in Callers, Return(t)
  PROVE  call' \in [Callers -> Call]
<1>1. "return" \in CallPCs
  BY DEF CallPCs
<1>2. QED BY <1>1, CallMoves DEF TypeOK, Return

LEMMA EncGotoMoves ==
  ASSUME TypeOK, NEW e \in Encoders, NEW l \in EncPCs, EncGoto(e, l)
  PROVE  enc' \in [Encoders -> Encoder]
BY EncoderMoves DEF TypeOK, EncGoto

LEMMA TakeMoves ==
  ASSUME TypeOK, NEW t \in Callers, Take(t)
  PROVE  TypeOK'
<1>1. "stop" \in CallPCs /\ encoder \in Callables
  BY DEF CallPCs, TypeOK, Callables
<1>2. call' \in [Callers -> Call]
  BY <1>1, CallMoves DEF TypeOK, Take
<1>3. QED BY <1>2 DEF TypeOK, Take

LEMMA InitTypes == Init => TypeOK
<1> SUFFICES ASSUME Init
             PROVE  TypeOK
  OBVIOUS
<1>1. <<>> \in Seq(Paths) /\ "return" \in CallPCs
  BY DEF CallPCs
<1>2. [pc |-> "return", encoder |-> NoEncoder, ring |-> 0, valid |-> <<>>] \in Call
  BY <1>1 DEF Call
<1>3. call \in [Callers -> Call] /\ enc \in [Encoders -> Encoder]
  BY <1>2, NewThreads DEF Init
<1>4. 0 \in Paths /\ <<>> \in Seq(Paths)
  BY PathTypes DEF Paths
<1>5. QED BY <1>3, <1>4 DEF Init, TypeOK

\* A scan leaves on the disk what it is about to publish.
LEMMA ScanResult ==
  ASSUME TypeOK, NEW t \in Callers, Scan(t)
  PROVE  \E valid \in Seq(Paths) :
           /\ Distinct(valid) /\ Wanted' = ToSet(valid)
           /\ disk' \subseteq Paths /\ stuck' \subseteq disk'
           /\ call' = [call EXCEPT ![t] = [@ EXCEPT !.pc = "publish", !.valid = valid]]
<1>1. PICK stale \in SUBSET disk :
        LET all   == Sorted(disk \ stale)
            extra == IF Len(all) > call[t].ring THEN Len(all) - call[t].ring ELSE 0
            valid == SubSeq(all, extra + 1, Len(all))
        IN  /\ stuck' \in Left(disk \ ToSet(valid)) /\ disk' = ToSet(valid) \cup stuck'
            /\ call' = [call EXCEPT ![t] = [@ EXCEPT !.pc = "publish", !.valid = valid]]
  BY DEF Scan
<1>2. call[t].ring \in Nat /\ disk \ stale \in SUBSET Paths
  <2>1. call[t].ring \in RingSizes \cup {0}
    BY DEF TypeOK, Call
  <2>2. RingSizes \cup {0} \subseteq Nat /\ disk \subseteq Paths
    BY LoopAssumption DEF TypeOK
  <2>3. QED BY <2>1, <2>2
<1>3. PICK valid \in Seq(Paths) :
        /\ Distinct(valid)
        /\ stuck' \in Left(disk \ ToSet(valid)) /\ disk' = ToSet(valid) \cup stuck'
        /\ call' = [call EXCEPT ![t] = [@ EXCEPT !.pc = "publish", !.valid = valid]]
  BY <1>1, <1>2, Cut
<1>4. stuck' \subseteq disk \ ToSet(valid)
  BY <1>3 DEF Left
<1>5. ToSet(valid) \subseteq Paths
  <2>1. \A i \in DOMAIN valid : valid[i] \in Paths
    BY <1>3
  <2>2. QED BY <2>1 DEF ToSet
<1>6. QED BY <1>3, <1>4, <1>5 DEF TypeOK, Wanted

LEMMA RequestTypes ==
  ASSUME TypeOK, NEW t \in Callers, Request(t)
  PROVE  TypeOK'
<1>1. CASE DoStart(t)
  BY <1>1, NewThreads DEF DoStart, Unused, TypeOK
<1>2. CASE StopRequest(t)
  BY <1>2, TakeMoves DEF StopRequest
<1>3. CASE OnCameraOpen(t)
  <2>1. "read_ring" \in CallPCs /\ Goto(t, "read_ring")
    BY <1>3 DEF OnCameraOpen, CallPCs
  <2>2. call' \in [Callers -> Call]
    BY <2>1, GotoMoves
  <2>3. QED BY <1>3, <2>2 DEF OnCameraOpen, TypeOK
<1>4. CASE OnCameraClose(t)
  <2>1. "take" \in CallPCs /\ (Goto(t, "take") \/ UNCHANGED call)
    BY <1>4 DEF OnCameraClose, CallPCs
  <2>2. call' \in [Callers -> Call]
    BY <2>1, GotoMoves DEF TypeOK
  <2>3. QED BY <1>4, <2>2 DEF OnCameraClose, TypeOK, plugin
<1>5. ASSUME NEW n \in RingSizes, SetLoop(t, n)
      PROVE  TypeOK'
  BY <1>5 DEF SetLoop, TypeOK
<1>6. QED BY <1>1, <1>2, <1>3, <1>4, <1>5 DEF Request

LEMMA CallTypes ==
  ASSUME TypeOK, NEW t \in Callers, CallStep(t)
  PROVE  TypeOK'
<1>1. CASE CloseStops(t)
  <2>1. CASE Take(t)
    BY <2>1, TakeMoves
  <2>2. CASE ~Take(t)
    <3>1. Return(t) /\ UNCHANGED <<clock, camera, plugin, ends, files, enc, clash>>
      BY <1>1, <2>2 DEF CloseStops
    <3>2. call' \in [Callers -> Call]
      BY <3>1, ReturnMoves
    <3>3. QED BY <3>1, <3>2 DEF TypeOK, plugin
  <2>3. QED BY <2>1, <2>2
<1>2. CASE StopEncoder(t)
  <2>1. "join" \in CallPCs /\ "none" \in EncPCs /\ Goto(t, "join")
    BY <1>2 DEF StopEncoder, CallPCs, EncPCs
  <2>2. call' \in [Callers -> Call]
    BY <2>1, GotoMoves
  <2>3. enc' \in [Encoders -> Encoder]
    BY <1>2, <2>1, EncoderMoves DEF StopEncoder, TypeOK
  <2>4. QED BY <1>2, <2>2, <2>3 DEF StopEncoder, TypeOK, plugin
<1>3. CASE JoinEncoder(t)
  <2>1. "idle" \in CallPCs /\ Goto(t, "idle")
    BY <1>3 DEF JoinEncoder, CallPCs
  <2>2. call' \in [Callers -> Call]
    BY <2>1, GotoMoves
  <2>3. QED BY <1>3, <2>2 DEF JoinEncoder, TypeOK, plugin
<1>4. CASE MarkIdle(t)
  <2>1. call' \in [Callers -> Call]
    BY <1>4, ReturnMoves DEF MarkIdle
  <2>2. QED BY <1>4, <2>1 DEF MarkIdle, TypeOK, plugin
<1>5. CASE ReadRing(t)
  <2>1. "scan" \in CallPCs /\ max_chunks \in RingSizes
    BY DEF CallPCs, TypeOK
  <2>2. call' \in [Callers -> Call]
    BY <1>5, <2>1, CallMoves DEF ReadRing, TypeOK
  <2>3. QED BY <1>5, <2>2 DEF ReadRing, TypeOK, plugin
<1>6. CASE Scan(t)
  <2>3. PICK valid \in Seq(Paths) :
          /\ disk' \subseteq Paths /\ stuck' \subseteq disk'
          /\ call' = [call EXCEPT ![t] = [@ EXCEPT !.pc = "publish", !.valid = valid]]
    BY <1>6, ScanResult
  <2>5. call' \in [Callers -> Call]
    <3>1. "publish" \in CallPCs
      BY DEF CallPCs
    <3>2. QED BY <2>3, <3>1, CallMoves DEF TypeOK
  <2>6. UNCHANGED <<clock, camera, plugin, ends, enc, clash>>
    BY <1>6 DEF Scan
  <2>7. QED BY <2>3, <2>5, <2>6 DEF plugin, TypeOK
<1>7. CASE Publish(t)
  <2>1. call' \in [Callers -> Call]
    BY <1>7, ReturnMoves DEF Publish
  <2>2. call[t].valid \in Seq(Paths)
    BY DEF TypeOK, Call
  <2>3. QED BY <1>7, <2>1, <2>2 DEF Publish, TypeOK
<1>8. QED BY <1>1, <1>2, <1>3, <1>4, <1>5, <1>6, <1>7 DEF CallStep

LEMMA EncoderTypes ==
  ASSUME TypeOK, NEW e \in Encoders, EncoderStep(e)
  PROVE  TypeOK'
<1>1. CASE StartChunk(e)
  <2>1. "loop" \in EncPCs /\ clock \in Paths
    BY DEF EncPCs, TypeOK
  <2>2. enc' \in [Encoders -> Encoder]
    BY <1>1, <2>1, EncoderMoves DEF StartChunk, TypeOK
  <2>3. QED BY <1>1, <2>2 DEF StartChunk, TypeOK, plugin
<1>2. ASSUME NEW l \in EncPCs, EncGoto(e, l), UNCHANGED <<clock, camera, max_chunks, chunks,
                                                           files, known, call>>,
             <<recording, encoder, idle, broke, clash>>'
               \in BOOLEAN \X Callables \X BOOLEAN \X BOOLEAN \X BOOLEAN
      PROVE  TypeOK'
  BY <1>2, EncGotoMoves DEF TypeOK, Callables
<1>3. <<recording, encoder, idle, broke, clash>>
        \in BOOLEAN \X Callables \X BOOLEAN \X BOOLEAN \X BOOLEAN
  BY DEF TypeOK, Callables
<1>4. CASE StartChunkFails(e)
  BY <1>2, <1>3, <1>4 DEF StartChunkFails, plugin, EncPCs
<1>5. CASE OnEncoderStop(e)
  BY <1>2, <1>3, <1>5 DEF OnEncoderStop, EncPCs, Callables
<1>6. CASE EncoderMarksIdle(e)
  BY <1>6, NewThreads DEF EncoderMarksIdle, plugin, TypeOK
<1>7. CASE LoopHead(e)
  <2>1. ASSUME enc[e].q > 0,
               enc' = [enc EXCEPT ![e] = [@ EXCEPT !.pc = "write", !.q = enc[e].q - 1]]
        PROVE  enc' \in [Encoders -> Encoder]
    <3>1. enc[e].q - 1 \in 0..QueueSize /\ "write" \in EncPCs
      BY <2>1, PathTypes DEF TypeOK, Encoder, EncPCs
    <3>2. QED BY <2>1, <3>1, EncoderMoves DEF TypeOK
  <2>2. enc' \in [Encoders -> Encoder]
    BY <1>7, <2>1, EncGotoMoves DEF LoopHead, EncPCs
  <2>3. QED BY <1>7, <2>2 DEF LoopHead, plugin, TypeOK
<1>8. CASE Write(e)
  BY <1>2, <1>3, <1>8 DEF Write, plugin, EncPCs
<1>9. CASE PipeBreaks(e)
  BY <1>2, <1>3, <1>9 DEF PipeBreaks, plugin, EncPCs
<1>10. CASE Rotate(e)
  <2>1. "next_chunk" \in EncPCs
    BY DEF EncPCs
  <2>2. enc' \in [Encoders -> Encoder]
    BY <1>10, <2>1, EncoderMoves DEF Rotate, TypeOK
  <2>3. QED BY <1>10, <2>2, RingTypes DEF Rotate, TypeOK
<1>11. CASE CloseFinal(e)
  BY <1>11, RingTypes, NewThreads DEF CloseFinal, TypeOK
<1>12. QED BY <1>1, <1>4, <1>5, <1>6, <1>7, <1>8, <1>9, <1>10, <1>11 DEF EncoderStep

LEMMA TypeStep == TypeOK /\ [Next]_vars => TypeOK'
<1> SUFFICES ASSUME TypeOK, [Next]_vars
             PROVE  TypeOK'
  OBVIOUS
<1>1. CASE OnFrame
  <2>1. enc[encoder].q + 1 \in 0..QueueSize /\ "none" \in EncPCs
    BY <1>1, PathTypes DEF OnFrame, TypeOK, Encoder, EncPCs
  <2>2. enc' \in [Encoders -> Encoder]
    BY <1>1, <2>1, EncoderMoves DEF OnFrame, TypeOK
  <2>3. QED BY <1>1, <2>2 DEF OnFrame, plugin, TypeOK
<1>2. CASE Tick
  BY <1>2, PathTypes DEF Tick, plugin, TypeOK, Paths
<1>3. CASE UNCHANGED vars
  BY <1>3 DEF vars, plugin, TypeOK
<1>4. QED BY <1>1, <1>2, <1>3, RequestTypes, CallTypes, EncoderTypes DEF Next

\* The state has the shape of the code's, and no queue exceeds its size.
THEOREM LoopTypes == Spec => []TypeOK
BY InitTypes, TypeStep, PTL DEF Spec

-----------------------------------------------------------------------------
(* Control: where encoders and callers are.                                *)

LEMMA StagesStep ==
  ASSUME TypeOK, Stages, [Next]_vars
  PROVE  Stages'
<1> USE DEF Stages, TypeOK, Encoder
<1>1. ASSUME NEW t \in Callers, DoStart(t)
      PROVE  Stages'
  BY <1>1 DEF DoStart, Unused, NoThread
<1>2. ASSUME NEW t \in Callers, StopRequest(t)
      PROVE  Stages'
  BY <1>2 DEF StopRequest, Take
<1>3. ASSUME NEW t \in Callers, OnCameraOpen(t)
      PROVE  Stages'
  BY <1>3 DEF OnCameraOpen, Goto
<1>4. ASSUME NEW t \in Callers, OnCameraClose(t)
      PROVE  Stages'
  BY <1>4 DEF OnCameraClose, Goto, plugin
<1>5. ASSUME NEW t \in Callers, \E n \in RingSizes : SetLoop(t, n)
      PROVE  Stages'
  BY <1>5 DEF SetLoop
<1>6. ASSUME NEW t \in Callers, CloseStops(t)
      PROVE  Stages'
  BY <1>6 DEF CloseStops, Take, Return, plugin
<1>7. ASSUME NEW t \in Callers, StopEncoder(t)
      PROVE  Stages'
  BY <1>7 DEF StopEncoder, Goto, plugin
<1>8. ASSUME NEW t \in Callers, JoinEncoder(t)
      PROVE  Stages'
  BY <1>8 DEF JoinEncoder, Goto, plugin
<1>9. ASSUME NEW t \in Callers, MarkIdle(t)
      PROVE  Stages'
  BY <1>9 DEF MarkIdle, Return, plugin
<1>10. ASSUME NEW t \in Callers, ReadRing(t)
      PROVE  Stages'
  BY <1>10 DEF ReadRing, plugin
<1>11. ASSUME NEW t \in Callers, Scan(t)
      PROVE  Stages'
  BY <1>11 DEF Scan, plugin
<1>12. ASSUME NEW t \in Callers, Publish(t)
      PROVE  Stages'
  BY <1>12 DEF Publish, Return
<1>13. ASSUME NEW e \in Encoders, StartChunk(e)
      PROVE  Stages'
  <2>1. clock \in Paths /\ NoPath \notin Paths
    BY PathTypes
  <2>2. QED BY <1>13, <2>1 DEF StartChunk, plugin
<1>14. ASSUME NEW e \in Encoders, StartChunkFails(e)
      PROVE  Stages'
  BY <1>14 DEF StartChunkFails, EncGoto, plugin
<1>15. ASSUME NEW e \in Encoders, OnEncoderStop(e)
      PROVE  Stages'
  BY <1>15 DEF OnEncoderStop, EncGoto, EncAt
<1>16. ASSUME NEW e \in Encoders, EncoderMarksIdle(e)
      PROVE  Stages'
  BY <1>16 DEF EncoderMarksIdle, EncAt, NoThread, plugin
<1>17. ASSUME NEW e \in Encoders, LoopHead(e)
      PROVE  Stages'
  <2>1. ASSUME NEW l \in {"rotate", "close_final"}, EncGoto(e, l)
        PROVE  Stages'
    BY <1>17, <2>1 DEF LoopHead, EncGoto, EncAt, plugin
  <2>2. CASE enc' = [enc EXCEPT ![e] = [@ EXCEPT !.pc = "write", !.q = enc[e].q - 1]]
    BY <1>17, <2>2 DEF LoopHead, EncAt, plugin
  <2>3. QED BY <1>17, <2>1, <2>2 DEF LoopHead
<1>18. ASSUME NEW e \in Encoders, Write(e)
      PROVE  Stages'
  BY <1>18 DEF Write, EncGoto, EncAt, plugin
<1>19. ASSUME NEW e \in Encoders, PipeBreaks(e)
      PROVE  Stages'
  BY <1>19 DEF PipeBreaks, EncGoto, EncAt, plugin
<1>20. ASSUME NEW e \in Encoders, Rotate(e)
      PROVE  Stages'
  BY <1>20 DEF Rotate, EncAt
<1>21. ASSUME NEW e \in Encoders, CloseFinal(e)
      PROVE  Stages'
  BY <1>21 DEF CloseFinal, EncAt, NoThread
<1>22. CASE OnFrame
  BY <1>22 DEF OnFrame, plugin
<1>23. CASE Tick
  BY <1>23 DEF Tick, plugin
<1>24. CASE UNCHANGED vars
  BY <1>24 DEF vars, plugin
<1>25. QED
  BY <1>1, <1>2, <1>3, <1>4, <1>5, <1>6, <1>7, <1>8, <1>9, <1>10, <1>11, <1>12,
     <1>13, <1>14, <1>15, <1>16, <1>17, <1>18, <1>19, <1>20, <1>21, <1>22, <1>23, <1>24
  DEF Next, Request, CallStep, EncoderStep

LEMMA HeldStep ==
  ASSUME TypeOK, Held, [Next]_vars
  PROVE  Held'
<1> USE DEF Held, TypeOK, Alive, Scanning,
            Call, Encoder, At
<1>1. ASSUME NEW t \in Callers, DoStart(t)
      PROVE  Held'
  BY <1>1 DEF DoStart, Unused, NoThread
<1>2. ASSUME NEW t \in Callers, StopRequest(t)
      PROVE  Held'
  BY <1>2 DEF StopRequest, Take
<1>3. ASSUME NEW t \in Callers, OnCameraOpen(t)
      PROVE  Held'
  BY <1>3 DEF OnCameraOpen, Goto
<1>4. ASSUME NEW t \in Callers, OnCameraClose(t)
      PROVE  Held'
  BY <1>4 DEF OnCameraClose, Goto, plugin
<1>5. ASSUME NEW t \in Callers, \E n \in RingSizes : SetLoop(t, n)
      PROVE  Held'
  BY <1>5 DEF SetLoop
<1>6. ASSUME NEW t \in Callers, CloseStops(t)
      PROVE  Held'
  <2>1. CASE Take(t)
    BY <2>1 DEF Take
  <2>2. CASE Return(t) /\ UNCHANGED <<clock, camera, plugin, ends, files, enc, clash>>
    BY <2>2 DEF Return, plugin
  <2>3. QED BY <1>6, <2>1, <2>2 DEF CloseStops
<1>7. ASSUME NEW t \in Callers, StopEncoder(t)
      PROVE  Held'
  BY <1>7 DEF StopEncoder, Goto, plugin
<1>8. ASSUME NEW t \in Callers, JoinEncoder(t)
      PROVE  Held'
  BY <1>8 DEF JoinEncoder, Goto, plugin
<1>9. ASSUME NEW t \in Callers, MarkIdle(t)
      PROVE  Held'
  BY <1>9 DEF MarkIdle, Return, plugin
<1>10. ASSUME NEW t \in Callers, ReadRing(t)
      PROVE  Held'
  BY <1>10 DEF ReadRing, plugin
<1>11. ASSUME NEW t \in Callers, Scan(t)
      PROVE  Held'
  BY <1>11 DEF Scan, plugin
<1>12. ASSUME NEW t \in Callers, Publish(t)
      PROVE  Held'
  BY <1>12 DEF Publish, Return
<1>13. ASSUME NEW e \in Encoders, StartChunk(e)
      PROVE  Held'
  BY <1>13 DEF StartChunk, plugin
<1>14. ASSUME NEW e \in Encoders, StartChunkFails(e)
      PROVE  Held'
  BY <1>14 DEF StartChunkFails, EncGoto, plugin
<1>15. ASSUME NEW e \in Encoders, OnEncoderStop(e)
      PROVE  Held'
  BY <1>15 DEF OnEncoderStop, EncGoto, EncAt
<1>16. ASSUME NEW e \in Encoders, EncoderMarksIdle(e)
      PROVE  Held'
  BY <1>16 DEF EncoderMarksIdle, EncAt, NoThread, plugin
<1>17. ASSUME NEW e \in Encoders, LoopHead(e)
      PROVE  Held'
  BY <1>17 DEF LoopHead, EncGoto, EncAt, plugin
<1>18. ASSUME NEW e \in Encoders, Write(e)
      PROVE  Held'
  BY <1>18 DEF Write, EncGoto, EncAt, plugin
<1>19. ASSUME NEW e \in Encoders, PipeBreaks(e)
      PROVE  Held'
  BY <1>19 DEF PipeBreaks, EncGoto, EncAt, plugin
<1>20. ASSUME NEW e \in Encoders, Rotate(e)
      PROVE  Held'
  BY <1>20 DEF Rotate, EncAt
<1>21. ASSUME NEW e \in Encoders, CloseFinal(e)
      PROVE  Held'
  BY <1>21 DEF CloseFinal, EncAt, NoThread
<1>22. CASE OnFrame
  BY <1>22 DEF OnFrame, plugin
<1>23. CASE Tick
  BY <1>23 DEF Tick, plugin
<1>24. CASE UNCHANGED vars
  BY <1>24 DEF vars, plugin
<1>25. QED
  BY <1>1, <1>2, <1>3, <1>4, <1>5, <1>6, <1>7, <1>8, <1>9, <1>10, <1>11, <1>12,
     <1>13, <1>14, <1>15, <1>16, <1>17, <1>18, <1>19, <1>20, <1>21, <1>22, <1>23, <1>24
  DEF Next, Request, CallStep, EncoderStep

LEMMA OrphanStep ==
  ASSUME TypeOK, Held, NoOrphanEncoder, [Next]_vars
  PROVE  NoOrphanEncoder'
<1> USE DEF Held, NoOrphanEncoder, BeingStopped, Ending, TypeOK, Alive, Call, Encoder, At
<1>1. ASSUME NEW t \in Callers, DoStart(t)
      PROVE  NoOrphanEncoder'
  <2>1. PICK d \in Encoders : encoder' = d /\ enc' = [enc EXCEPT ![d] = enc'[d]]
    BY <1>1 DEF DoStart, Unused
  <2>2. encoder = NoEncoder /\ UNCHANGED call /\ (clash => clash')
    BY <1>1 DEF DoStart
  <2>3. QED BY <2>1, <2>2, LoopAssumption
<1>2. ASSUME NEW t \in Callers, StopRequest(t)
      PROVE  NoOrphanEncoder'
  BY <1>2 DEF StopRequest, Take
<1>3. ASSUME NEW t \in Callers, OnCameraOpen(t)
      PROVE  NoOrphanEncoder'
  BY <1>3 DEF OnCameraOpen, Goto
<1>4. ASSUME NEW t \in Callers, OnCameraClose(t)
      PROVE  NoOrphanEncoder'
  BY <1>4 DEF OnCameraClose, Goto, plugin
<1>5. ASSUME NEW t \in Callers, \E n \in RingSizes : SetLoop(t, n)
      PROVE  NoOrphanEncoder'
  BY <1>5 DEF SetLoop
<1>6. ASSUME NEW t \in Callers, CloseStops(t)
      PROVE  NoOrphanEncoder'
  <2>1. CASE Take(t)
    BY <1>6, <2>1 DEF CloseStops, Take
  <2>2. CASE Return(t) /\ UNCHANGED <<clock, camera, plugin, ends, files, enc, clash>>
    BY <1>6, <2>2 DEF CloseStops, Return, plugin
  <2>3. QED BY <1>6, <2>1, <2>2 DEF CloseStops
<1>7. ASSUME NEW t \in Callers, StopEncoder(t)
      PROVE  NoOrphanEncoder'
  BY <1>7 DEF StopEncoder, Goto, plugin
<1>8. ASSUME NEW t \in Callers, JoinEncoder(t)
      PROVE  NoOrphanEncoder'
  BY <1>8 DEF JoinEncoder, Goto, plugin
<1>9. ASSUME NEW t \in Callers, MarkIdle(t)
      PROVE  NoOrphanEncoder'
  BY <1>9 DEF MarkIdle, Return, plugin
<1>10. ASSUME NEW t \in Callers, ReadRing(t)
      PROVE  NoOrphanEncoder'
  BY <1>10 DEF ReadRing, plugin
<1>11. ASSUME NEW t \in Callers, Scan(t)
      PROVE  NoOrphanEncoder'
  BY <1>11 DEF Scan, plugin
<1>12. ASSUME NEW t \in Callers, Publish(t)
      PROVE  NoOrphanEncoder'
  BY <1>12 DEF Publish, Return
<1>13. ASSUME NEW e \in Encoders, StartChunk(e)
      PROVE  NoOrphanEncoder'
  BY <1>13 DEF StartChunk, plugin
<1>14. ASSUME NEW e \in Encoders, StartChunkFails(e)
      PROVE  NoOrphanEncoder'
  BY <1>14 DEF StartChunkFails, EncGoto, plugin
<1>15. ASSUME NEW e \in Encoders, OnEncoderStop(e)
      PROVE  NoOrphanEncoder'
  BY <1>15 DEF OnEncoderStop, EncGoto, EncAt
<1>16. ASSUME NEW e \in Encoders, EncoderMarksIdle(e)
      PROVE  NoOrphanEncoder'
  BY <1>16 DEF EncoderMarksIdle, EncAt, NoThread, plugin
<1>17. ASSUME NEW e \in Encoders, LoopHead(e)
      PROVE  NoOrphanEncoder'
  BY <1>17 DEF LoopHead, EncGoto, EncAt, plugin
<1>18. ASSUME NEW e \in Encoders, Write(e)
      PROVE  NoOrphanEncoder'
  <2>1. ASSUME NEW l \in {"loop", "rotate"}, EncGoto(e, l)
        PROVE  NoOrphanEncoder'
    BY <1>18, <2>1 DEF Write, EncGoto, EncAt, plugin
  <2>2. QED BY <1>18, <2>1 DEF Write
<1>19. ASSUME NEW e \in Encoders, PipeBreaks(e)
      PROVE  NoOrphanEncoder'
  BY <1>19 DEF PipeBreaks, EncGoto, EncAt, plugin
<1>20. ASSUME NEW e \in Encoders, Rotate(e)
      PROVE  NoOrphanEncoder'
  BY <1>20 DEF Rotate, EncAt
<1>21. ASSUME NEW e \in Encoders, CloseFinal(e)
      PROVE  NoOrphanEncoder'
  BY <1>21 DEF CloseFinal, EncAt, NoThread
<1>22. CASE OnFrame
  BY <1>22 DEF OnFrame, plugin
<1>23. CASE Tick
  BY <1>23 DEF Tick, plugin
<1>24. CASE UNCHANGED vars
  BY <1>24 DEF vars, plugin
<1>25. QED
  BY <1>1, <1>2, <1>3, <1>4, <1>5, <1>6, <1>7, <1>8, <1>9, <1>10, <1>11, <1>12,
     <1>13, <1>14, <1>15, <1>16, <1>17, <1>18, <1>19, <1>20, <1>21, <1>22, <1>23, <1>24
  DEF Next, Request, CallStep, EncoderStep

-----------------------------------------------------------------------------
(* Data: the ring and the disk.                                            *)

\* A finished chunk goes to the end of the ring; what drops out of the ring is
\* deleted if it can be, and nothing else is.
LEMMA ChunkHandedOver ==
  ASSUME TypeOK, NEW e \in Encoders, ChunkDone(e), Distinct(chunks),
         enc[e].path \in Wanted, enc[e].path \notin ToSet(chunks)
  PROVE  /\ Distinct(chunks')
         /\ \E gone \in SUBSET (ToSet(chunks) \cup {enc[e].path}) :
              /\ Wanted' = Wanted \ gone
              /\ ToSet(chunks') = (ToSet(chunks) \cup {enc[e].path}) \ gone
<1> DEFINE n   == Len(chunks) + 1
           all == Append(chunks, enc[e].path)
<1>1. enc[e].path \in Paths /\ chunks \in Seq(Paths) /\ max_chunks \in Nat
  BY LoopAssumption DEF TypeOK, Wanted
<1>2. n \in Nat \ {0} /\ all \in Seq(Paths) /\ Len(all) = n
  BY <1>1
<1>3. \A i \in 1..n : all[i] = IF i = n THEN enc[e].path ELSE chunks[i]
  BY <1>1
<1>4. \A i \in 1..(n - 1) : chunks[i] \in ToSet(chunks)
  BY <1>1 DEF ToSet
<1>5. \A i, j \in 1..n : all[i] = all[j] => i = j
  BY <1>1, <1>3, <1>4 DEF Distinct
<1>6. {all[i] : i \in 1..n} = ToSet(chunks) \cup {enc[e].path}
  <2>1. ToSet(chunks) = {chunks[i] : i \in 1..(n - 1)}
    BY <1>1 DEF ToSet
  <2>2. QED BY <1>2, <1>3, <2>1
<1> HIDE DEF all
<1> DEFINE extra == IF n > max_chunks THEN n - max_chunks ELSE 0
           kept  == SubSeq(all, extra + 1, n)
           old   == SubSeq(all, 1, extra)
<1>7. chunks' = kept /\ Wanted' = Wanted \ ToSet(old)
  <2>1. enc[e].path \in disk
    BY DEF Wanted
  <2>2. chunks' = kept /\ \E left \in Left(ToSet(old)) : /\ disk' = disk \ (ToSet(old) \ left)
                                                      /\ stuck' = (stuck \ ToSet(old)) \cup left
    BY <1>2, <2>1 DEF ChunkDone, all
  <2> HIDE DEF kept, old, extra
  <2>3. QED BY <2>2 DEF Left, Wanted
<1>8. extra \in 0..n
  BY <1>1, <1>2
<1> HIDE DEF n, extra
<1>9. /\ kept \in Seq(Paths) /\ Len(kept) = n - extra
      /\ \A i \in 1..(n - extra) : kept[i] = all[extra + i]
  BY <1>2, <1>8
<1>10. /\ old \in Seq(Paths) /\ Len(old) = extra
       /\ \A i \in 1..extra : old[i] = all[i]
  BY <1>2, <1>8
<1> HIDE DEF kept, old
<1>11. Distinct(kept)
  BY <1>2, <1>5, <1>8, <1>9 DEF Distinct
<1>12. ToSet(old) = {all[i] : i \in 1..extra}
  BY <1>10 DEF ToSet
<1>13. ToSet(kept) = {all[i] : i \in (extra + 1)..n}
  <2>1. ToSet(kept) = {all[extra + i] : i \in 1..(n - extra)}
    BY <1>9 DEF ToSet
  <2>2. ASSUME NEW i \in (extra + 1)..n
        PROVE  i - extra \in 1..(n - extra) /\ extra + (i - extra) = i
    BY <1>2, <1>8
  <2>3. \A i \in 1..(n - extra) : extra + i \in (extra + 1)..n
    BY <1>2, <1>8
  <2>4. QED BY <2>1, <2>2, <2>3
<1>14. 1..n = 1..extra \cup (extra + 1)..n
  BY <1>2, <1>8
<1>15. ToSet(kept) = {all[i] : i \in 1..n} \ ToSet(old)
  <2>1. ASSUME NEW i \in 1..extra, NEW j \in (extra + 1)..n
        PROVE  all[i] # all[j]
    BY <1>2, <1>5, <1>8
  <2>2. QED BY <1>12, <1>13, <1>14, <2>1
<1>16. ToSet(old) \subseteq {all[i] : i \in 1..n}
  BY <1>12, <1>14
<1>17. QED BY <1>6, <1>7, <1>11, <1>15, <1>16

LEMMA ClashStays ==
  ASSUME TypeOK, [Next]_vars
  PROVE  clash => clash'
<1>1. ASSUME NEW t \in Callers, Request(t) \/ CallStep(t)
      PROVE  clash => clash'
  BY <1>1 DEF Request, CallStep, DoStart, StopRequest, Take, OnCameraOpen, OnCameraClose,
              SetLoop, CloseStops, StopEncoder, JoinEncoder, MarkIdle, ReadRing, Scan, Publish
<1>2. ASSUME NEW e \in Encoders, EncoderStep(e)
      PROVE  clash => clash'
  BY <1>2 DEF EncoderStep, StartChunk, StartChunkFails, OnEncoderStop, EncoderMarksIdle,
              LoopHead, Write, PipeBreaks, Rotate, CloseFinal
<1>3. QED BY <1>1, <1>2 DEF Next, OnFrame, Tick, vars

\* Steps that open and close no file leave the files to whom they belong.
LEMMA SameFiles ==
  ASSUME OwnFiles, UNCHANGED <<files, chunks>>,
         \A d \in Encoders : enc'[d].path = enc[d].path /\ (Alive(d)' <=> Alive(d))
  PROVE  OwnFiles' /\ Written' = Written
<1>1. /\ \A d \in Encoders : Writing(d)' <=> Writing(d)
      /\ Wanted' = Wanted
  BY DEF Writing, Wanted
<1>2. QED BY <1>1 DEF OwnFiles, Written

LEMMA LoopKeepsFiles ==
  ASSUME TypeOK, NEW e \in Encoders, LoopHead(e) \/ Write(e)
  PROVE  \A d \in Encoders : enc'[d].path = enc[d].path /\ (Alive(d)' <=> Alive(d))
<1>1. ASSUME NEW l \in {"loop", "rotate", "close_final"}, EncGoto(e, l), Alive(e)
      PROVE  \A d \in Encoders : enc'[d].path = enc[d].path /\ (Alive(d)' <=> Alive(d))
  BY <1>1 DEF TypeOK, Encoder, EncGoto, Alive
<1>2. CASE enc' = [enc EXCEPT ![e] = [@ EXCEPT !.pc = "write", !.q = enc[e].q - 1]] /\ Alive(e)
  BY <1>2 DEF TypeOK, Encoder, Alive
<1>3. Alive(e)
  BY DEF LoopHead, Write, EncAt, Alive
<1>4. QED BY <1>1, <1>2, <1>3 DEF LoopHead, Write

\* One encoder's file is closed: the others' remain.
LEMMA FileClosed ==
  ASSUME OwnFiles, NEW e \in Encoders, Writing(e), ~Writing(e)',
         \A d \in Encoders \ {e} : enc'[d].path = enc[d].path /\ (Alive(d)' <=> Alive(d))
  PROVE  Written' = Written \ {enc[e].path}
<1>1. \A d \in Encoders \ {e} : Writing(d)' <=> Writing(d)
  BY DEF Writing
<1>2. \A d \in Encoders \ {e} : Writing(d) => enc[d].path # enc[e].path
  BY DEF OwnFiles
<1>3. QED BY <1>1, <1>2 DEF Written

LEMMA FileOpened ==
  ASSUME NEW e \in Encoders, ~Writing(e), Writing(e)',
         \A d \in Encoders \ {e} : enc'[d] = enc[d]
  PROVE  Written' = Written \cup {enc'[e].path}
<1>1. \A d \in Encoders \ {e} : (Writing(d)' <=> Writing(d)) /\ enc'[d].path = enc[d].path
  BY DEF Writing, Alive
<1>2. QED BY <1>1 DEF Written

\* Under the invariant a chunk is handed over as ChunkHandedOver says.
LEMMA HandOver ==
  ASSUME TypeOK, Held, ScanAlone, OwnFiles, Ring, NEW e \in Encoders, Writing(e),
         ChunkDone(e), ~Writing(e)', UNCHANGED <<known, call>>,
         \A d \in Encoders \ {e} : enc'[d].path = enc[d].path /\ (Alive(d)' <=> Alive(d))
  PROVE  OwnFiles' /\ Ring'
<1>1. known /\ ~Scanning /\ ~Scanning'
  BY DEF Held, ScanAlone, Writing, Scanning
<1>2. /\ Distinct(chunks) /\ Wanted = ToSet(chunks) \cup Written
      /\ enc[e].path \in Wanted /\ enc[e].path \notin ToSet(chunks)
  BY <1>1 DEF Ring, OwnFiles
<1>3. PICK gone \in SUBSET (ToSet(chunks) \cup {enc[e].path}) :
        /\ Distinct(chunks')
        /\ Wanted' = Wanted \ gone
        /\ ToSet(chunks') = (ToSet(chunks) \cup {enc[e].path}) \ gone
  BY <1>2, ChunkHandedOver
<1>4. Written' = Written \ {enc[e].path} /\ enc[e].path \in Written
  BY FileClosed DEF Written
<1>5. \A d \in Encoders \ {e} : Writing(d)' <=> Writing(d)
  BY DEF Writing
<1>6. \A p \in Written' : p \notin ToSet(chunks) /\ p # enc[e].path
  BY <1>4 DEF Written, OwnFiles
<1>7. Wanted' = ToSet(chunks') \cup Written'
  BY <1>2, <1>3, <1>4, <1>6
<1>8. \A d \in Encoders : Writing(d)' => d # e /\ enc'[d].path \in Written'
  BY <1>5 DEF Written
<1>9. OwnFiles'
  BY <1>3, <1>5, <1>6, <1>7, <1>8 DEF OwnFiles
<1>10. QED BY <1>3, <1>7, <1>9 DEF Ring

LEMMA ScanStep ==
  ASSUME TypeOK, Stages, Held, ScanAlone, OwnFiles, Ring, ~clash', [Next]_vars
  PROVE  ScanAlone'
<1>0. UNCHANGED files => Wanted' = Wanted
  BY DEF Wanted
<1> USE <1>0 DEF ScanAlone, Held, TypeOK, Alive, Scanning,
            Call, Encoder, At
<1>1. ASSUME NEW t \in Callers, DoStart(t)
      PROVE  ScanAlone'
  BY <1>1 DEF DoStart, Unused, NoThread
<1>2. ASSUME NEW t \in Callers, StopRequest(t)
      PROVE  ScanAlone'
  BY <1>2 DEF StopRequest, Take
<1>3. ASSUME NEW t \in Callers, OnCameraOpen(t)
      PROVE  ScanAlone'
  BY <1>3 DEF OnCameraOpen, Goto
<1>4. ASSUME NEW t \in Callers, OnCameraClose(t)
      PROVE  ScanAlone'
  <2>1. CASE UNCHANGED call
    BY <1>4, <2>1 DEF OnCameraClose, plugin
  <2>2. CASE Goto(t, "take")
    BY <1>4, <2>2 DEF OnCameraClose, Goto, plugin
  <2>3. QED BY <1>4, <2>1, <2>2 DEF OnCameraClose
<1>5. ASSUME NEW t \in Callers, \E n \in RingSizes : SetLoop(t, n)
      PROVE  ScanAlone'
  BY <1>5 DEF SetLoop
<1>6. ASSUME NEW t \in Callers, CloseStops(t)
      PROVE  ScanAlone'
  <2>1. CASE Take(t)
    BY <2>1 DEF Take
  <2>2. CASE Return(t) /\ UNCHANGED <<clock, camera, plugin, ends, files, enc, clash>>
    BY <2>2 DEF Return, plugin
  <2>3. QED BY <1>6, <2>1, <2>2 DEF CloseStops
<1>7. ASSUME NEW t \in Callers, StopEncoder(t)
      PROVE  ScanAlone'
  BY <1>7 DEF StopEncoder, Goto, plugin
<1>8. ASSUME NEW t \in Callers, JoinEncoder(t)
      PROVE  ScanAlone'
  BY <1>8 DEF JoinEncoder, Goto, plugin
<1>9. ASSUME NEW t \in Callers, MarkIdle(t)
      PROVE  ScanAlone'
  BY <1>9 DEF MarkIdle, Return, plugin
<1>10. ASSUME NEW t \in Callers, ReadRing(t)
      PROVE  ScanAlone'
  BY <1>10 DEF ReadRing, plugin
<1>11. ASSUME NEW t \in Callers, Scan(t)
      PROVE  ScanAlone'
  <2>1. PICK valid \in Seq(Paths) :
          /\ Distinct(valid) /\ Wanted' = ToSet(valid)
          /\ call' = [call EXCEPT ![t] = [@ EXCEPT !.pc = "publish", !.valid = valid]]
    BY <1>11, ScanResult
  <2>2. At(t, "scan") /\ enc' = enc
    BY <1>11 DEF Scan
  <2>3. QED BY <2>1, <2>2
<1>12. ASSUME NEW t \in Callers, Publish(t)
      PROVE  ScanAlone'
  BY <1>12 DEF Publish, Return
<1>13. ASSUME NEW e \in Encoders, StartChunk(e)
      PROVE  ScanAlone'
  BY <1>13 DEF StartChunk, plugin
<1>14. ASSUME NEW e \in Encoders, StartChunkFails(e)
      PROVE  ScanAlone'
  BY <1>14 DEF StartChunkFails, EncGoto, plugin
<1>15. ASSUME NEW e \in Encoders, OnEncoderStop(e)
      PROVE  ScanAlone'
  BY <1>15 DEF OnEncoderStop, EncGoto, EncAt
<1>16. ASSUME NEW e \in Encoders, EncoderMarksIdle(e)
      PROVE  ScanAlone'
  BY <1>16 DEF EncoderMarksIdle, EncAt, NoThread, plugin
<1>17. ASSUME NEW e \in Encoders, LoopHead(e)
      PROVE  ScanAlone'
  BY <1>17 DEF LoopHead, EncGoto, EncAt, plugin
<1>18. ASSUME NEW e \in Encoders, Write(e)
      PROVE  ScanAlone'
  BY <1>18 DEF Write, EncGoto, EncAt, plugin
<1>19. ASSUME NEW e \in Encoders, PipeBreaks(e)
      PROVE  ScanAlone'
  BY <1>19 DEF PipeBreaks, EncGoto, EncAt, plugin
<1>20. ASSUME NEW e \in Encoders, Rotate(e)
      PROVE  ScanAlone'
  BY <1>20 DEF Rotate, EncAt
<1>21. ASSUME NEW e \in Encoders, CloseFinal(e)
      PROVE  ScanAlone'
  BY <1>21 DEF CloseFinal, EncAt, NoThread
<1>22. CASE OnFrame
  BY <1>22 DEF OnFrame, plugin
<1>23. CASE Tick
  BY <1>23 DEF Tick, plugin
<1>24. CASE UNCHANGED vars
  BY <1>24 DEF vars, plugin
<1>25. QED
  BY <1>1, <1>2, <1>3, <1>4, <1>5, <1>6, <1>7, <1>8, <1>9, <1>10, <1>11, <1>12,
     <1>13, <1>14, <1>15, <1>16, <1>17, <1>18, <1>19, <1>20, <1>21, <1>22, <1>23, <1>24
  DEF Next, Request, CallStep, EncoderStep

LEMMA FilesStep ==
  ASSUME TypeOK, Stages, Held, ScanAlone, OwnFiles, Ring, ~clash', [Next]_vars
  PROVE  OwnFiles'
<1>0. UNCHANGED files => Wanted' = Wanted
  BY DEF Wanted
<1> USE <1>0 DEF OwnFiles, ScanAlone, Ring, Stages, Held, TypeOK, Alive, Writing, Scanning,
            Call, Encoder, At
<1>1. ASSUME NEW t \in Callers, DoStart(t)
      PROVE  OwnFiles'
  BY <1>1 DEF DoStart, Unused, NoThread
<1>2. ASSUME NEW t \in Callers, StopRequest(t)
      PROVE  OwnFiles'
  BY <1>2 DEF StopRequest, Take
<1>3. ASSUME NEW t \in Callers, OnCameraOpen(t)
      PROVE  OwnFiles'
  BY <1>3 DEF OnCameraOpen, Goto
<1>4. ASSUME NEW t \in Callers, OnCameraClose(t)
      PROVE  OwnFiles'
  <2>1. CASE UNCHANGED call
    BY <1>4, <2>1 DEF OnCameraClose, plugin
  <2>2. CASE Goto(t, "take")
    BY <1>4, <2>2 DEF OnCameraClose, Goto, plugin
  <2>3. QED BY <1>4, <2>1, <2>2 DEF OnCameraClose
<1>5. ASSUME NEW t \in Callers, \E n \in RingSizes : SetLoop(t, n)
      PROVE  OwnFiles'
  BY <1>5 DEF SetLoop
<1>6. ASSUME NEW t \in Callers, CloseStops(t)
      PROVE  OwnFiles'
  <2>1. CASE Take(t)
    BY <1>6, <2>1 DEF CloseStops, Take
  <2>2. CASE Return(t) /\ UNCHANGED <<clock, camera, plugin, ends, files, enc, clash>>
    BY <1>6, <2>2 DEF CloseStops, Return, plugin
  <2>3. QED BY <1>6, <2>1, <2>2 DEF CloseStops
<1>7. ASSUME NEW t \in Callers, StopEncoder(t)
      PROVE  OwnFiles'
  BY <1>7 DEF StopEncoder, Goto, plugin
<1>8. ASSUME NEW t \in Callers, JoinEncoder(t)
      PROVE  OwnFiles'
  BY <1>8 DEF JoinEncoder, Goto, plugin
<1>9. ASSUME NEW t \in Callers, MarkIdle(t)
      PROVE  OwnFiles'
  BY <1>9 DEF MarkIdle, Return, plugin
<1>10. ASSUME NEW t \in Callers, ReadRing(t)
      PROVE  OwnFiles'
  BY <1>10 DEF ReadRing, plugin
<1>11. ASSUME NEW t \in Callers, Scan(t)
      PROVE  OwnFiles'
  BY <1>11 DEF Scan, plugin
<1>12. ASSUME NEW t \in Callers, Publish(t)
      PROVE  OwnFiles'
  BY <1>12 DEF Publish, Return
<1>13. ASSUME NEW e \in Encoders, StartChunk(e)
      PROVE  OwnFiles'
  <2>1. clock \notin Wanted /\ Wanted' = Wanted \cup {clock} /\ UNCHANGED <<chunks, known, call>>
    BY <1>13 DEF StartChunk, plugin, Wanted
  <2>2. QED BY <1>13, <2>1 DEF StartChunk, plugin
<1>14. ASSUME NEW e \in Encoders, StartChunkFails(e)
      PROVE  OwnFiles'
  BY <1>14 DEF StartChunkFails, EncGoto, plugin
<1>15. ASSUME NEW e \in Encoders, OnEncoderStop(e)
      PROVE  OwnFiles'
  BY <1>15 DEF OnEncoderStop, EncGoto, EncAt
<1>16. ASSUME NEW e \in Encoders, EncoderMarksIdle(e)
      PROVE  OwnFiles'
  BY <1>16 DEF EncoderMarksIdle, EncAt, NoThread, plugin
<1>17. ASSUME NEW e \in Encoders, LoopHead(e)
      PROVE  OwnFiles'
  <2>1. \A d \in Encoders : enc'[d].path = enc[d].path /\ (Alive(d)' <=> Alive(d))
    BY <1>17, LoopKeepsFiles
  <2>2. UNCHANGED <<files, chunks, known, call>>
    BY <1>17 DEF LoopHead, plugin
  <2>3. QED BY <2>1, <2>2, SameFiles
<1>18. ASSUME NEW e \in Encoders, Write(e)
      PROVE  OwnFiles'
  <2>1. \A d \in Encoders : enc'[d].path = enc[d].path /\ (Alive(d)' <=> Alive(d))
    BY <1>18, LoopKeepsFiles
  <2>2. UNCHANGED <<files, chunks, known, call>>
    BY <1>18 DEF Write, plugin
  <2>3. QED BY <2>1, <2>2, SameFiles
<1>19. ASSUME NEW e \in Encoders, PipeBreaks(e)
      PROVE  OwnFiles'
  BY <1>19 DEF PipeBreaks, EncGoto, EncAt, plugin
<1>20. ASSUME NEW e \in Encoders, Rotate(e)
      PROVE  OwnFiles'
  <2>1. Writing(e) /\ ~Writing(e)'
        /\ \A d \in Encoders \ {e} : enc'[d].path = enc[d].path /\ (Alive(d)' <=> Alive(d))
    BY <1>20 DEF Rotate, EncAt, Writing, Alive, Stages
  <2>2. ChunkDone(e) /\ UNCHANGED <<known, call>>
    BY <1>20 DEF Rotate
  <2>3. QED BY <2>1, <2>2, HandOver
<1>21. ASSUME NEW e \in Encoders, CloseFinal(e)
      PROVE  OwnFiles'
  <2>1. Writing(e) /\ ~Writing(e)'
        /\ \A d \in Encoders \ {e} : enc'[d].path = enc[d].path /\ (Alive(d)' <=> Alive(d))
    BY <1>21 DEF CloseFinal, EncAt, NoThread
  <2>2. ChunkDone(e) /\ UNCHANGED <<known, call>>
    BY <1>21 DEF CloseFinal
  <2>3. QED BY <2>1, <2>2, HandOver
<1>22. CASE OnFrame
  BY <1>22 DEF OnFrame, plugin
<1>23. CASE Tick
  BY <1>23 DEF Tick, plugin
<1>24. CASE UNCHANGED vars
  BY <1>24 DEF vars, plugin
<1>25. QED
  BY <1>1, <1>2, <1>3, <1>4, <1>5, <1>6, <1>7, <1>8, <1>9, <1>10, <1>11, <1>12,
     <1>13, <1>14, <1>15, <1>16, <1>17, <1>18, <1>19, <1>20, <1>21, <1>22, <1>23, <1>24
  DEF Next, Request, CallStep, EncoderStep

LEMMA RingStep ==
  ASSUME TypeOK, Stages, Held, ScanAlone, OwnFiles, Ring, ~clash', [Next]_vars
  PROVE  Ring'
<1>0. UNCHANGED files => Wanted' = Wanted
  BY DEF Wanted
<1> USE <1>0 DEF Ring, OwnFiles, ScanAlone, Stages, Held, TypeOK, Alive, Writing, Scanning,
            Call, Encoder, At, Written
<1>1. ASSUME NEW t \in Callers, DoStart(t)
      PROVE  Ring'
  BY <1>1 DEF DoStart, Unused, NoThread
<1>2. ASSUME NEW t \in Callers, StopRequest(t)
      PROVE  Ring'
  BY <1>2 DEF StopRequest, Take
<1>3. ASSUME NEW t \in Callers, OnCameraOpen(t)
      PROVE  Ring'
  BY <1>3 DEF OnCameraOpen, Goto
<1>4. ASSUME NEW t \in Callers, OnCameraClose(t)
      PROVE  Ring'
  <2>1. CASE UNCHANGED call
    BY <1>4, <2>1 DEF OnCameraClose, plugin
  <2>2. CASE Goto(t, "take")
    BY <1>4, <2>2 DEF OnCameraClose, Goto, plugin
  <2>3. QED BY <1>4, <2>1, <2>2 DEF OnCameraClose
<1>5. ASSUME NEW t \in Callers, \E n \in RingSizes : SetLoop(t, n)
      PROVE  Ring'
  BY <1>5 DEF SetLoop
<1>6. ASSUME NEW t \in Callers, CloseStops(t)
      PROVE  Ring'
  <2>1. CASE Take(t)
    BY <1>6, <2>1 DEF CloseStops, Take
  <2>2. CASE Return(t) /\ UNCHANGED <<clock, camera, plugin, ends, files, enc, clash>>
    BY <1>6, <2>2 DEF CloseStops, Return, plugin
  <2>3. QED BY <1>6, <2>1, <2>2 DEF CloseStops
<1>7. ASSUME NEW t \in Callers, StopEncoder(t)
      PROVE  Ring'
  BY <1>7 DEF StopEncoder, Goto, plugin
<1>8. ASSUME NEW t \in Callers, JoinEncoder(t)
      PROVE  Ring'
  BY <1>8 DEF JoinEncoder, Goto, plugin
<1>9. ASSUME NEW t \in Callers, MarkIdle(t)
      PROVE  Ring'
  BY <1>9 DEF MarkIdle, Return, plugin
<1>10. ASSUME NEW t \in Callers, ReadRing(t)
      PROVE  Ring'
  BY <1>10 DEF ReadRing, plugin
<1>11. ASSUME NEW t \in Callers, Scan(t)
      PROVE  Ring'
  BY <1>11 DEF Scan, plugin
<1>12. ASSUME NEW t \in Callers, Publish(t)
      PROVE  Ring'
  BY <1>12 DEF Publish, Return
<1>13. ASSUME NEW e \in Encoders, StartChunk(e)
      PROVE  Ring'
  <2>1. clock \notin Wanted /\ Wanted' = Wanted \cup {clock} /\ UNCHANGED <<chunks, known, call>>
    BY <1>13 DEF StartChunk, plugin, Wanted
  <2>2. ~Writing(e) /\ Writing(e)' /\ enc'[e].path = clock
    <3>1. enc[e].path = NoPath
      BY <1>13 DEF StartChunk
    <3>2. enc'[e].path = clock /\ enc'[e].pc = "loop"
      BY <1>13 DEF StartChunk
    <3>3. QED BY <3>1, <3>2, PathTypes
  <2>3. \A d \in Encoders \ {e} : enc'[d] = enc[d]
    BY <1>13 DEF StartChunk
  <2>4. Written' = Written \cup {clock}
    BY <2>2, <2>3, FileOpened
  <2>5. QED BY <2>1, <2>2, <2>3, <2>4
<1>14. ASSUME NEW e \in Encoders, StartChunkFails(e)
      PROVE  Ring'
  BY <1>14 DEF StartChunkFails, EncGoto, plugin
<1>15. ASSUME NEW e \in Encoders, OnEncoderStop(e)
      PROVE  Ring'
  BY <1>15 DEF OnEncoderStop, EncGoto, EncAt
<1>16. ASSUME NEW e \in Encoders, EncoderMarksIdle(e)
      PROVE  Ring'
  <2>1. \A d \in Encoders : enc'[d].path = enc[d].path /\ (Writing(d)' <=> Writing(d))
    BY <1>16 DEF EncoderMarksIdle, EncAt, NoThread
  <2>2. UNCHANGED <<files, chunks, known, call>>
    BY <1>16 DEF EncoderMarksIdle, plugin
  <2>3. Written' = Written
    BY <2>1 DEF Written
  <2>4. QED BY <2>2, <2>3
<1>17. ASSUME NEW e \in Encoders, LoopHead(e)
      PROVE  Ring'
  <2>1. \A d \in Encoders : enc'[d].path = enc[d].path /\ (Alive(d)' <=> Alive(d))
    BY <1>17, LoopKeepsFiles
  <2>2. UNCHANGED <<files, chunks, known, call>>
    BY <1>17 DEF LoopHead, plugin
  <2>3. QED BY <2>1, <2>2, SameFiles
<1>18. ASSUME NEW e \in Encoders, Write(e)
      PROVE  Ring'
  <2>1. \A d \in Encoders : enc'[d].path = enc[d].path /\ (Alive(d)' <=> Alive(d))
    BY <1>18, LoopKeepsFiles
  <2>2. UNCHANGED <<files, chunks, known, call>>
    BY <1>18 DEF Write, plugin
  <2>3. QED BY <2>1, <2>2, SameFiles
<1>19. ASSUME NEW e \in Encoders, PipeBreaks(e)
      PROVE  Ring'
  BY <1>19 DEF PipeBreaks, EncGoto, EncAt, plugin
<1>20. ASSUME NEW e \in Encoders, Rotate(e)
      PROVE  Ring'
  <2>1. Writing(e) /\ ~Writing(e)'
        /\ \A d \in Encoders \ {e} : enc'[d].path = enc[d].path /\ (Alive(d)' <=> Alive(d))
    BY <1>20 DEF Rotate, EncAt, Writing, Alive, Stages
  <2>2. ChunkDone(e) /\ UNCHANGED <<known, call>>
    BY <1>20 DEF Rotate
  <2>3. QED BY <2>1, <2>2, HandOver
<1>21. ASSUME NEW e \in Encoders, CloseFinal(e)
      PROVE  Ring'
  <2>1. Writing(e) /\ ~Writing(e)'
        /\ \A d \in Encoders \ {e} : enc'[d].path = enc[d].path /\ (Alive(d)' <=> Alive(d))
    BY <1>21 DEF CloseFinal, EncAt, NoThread
  <2>2. ChunkDone(e) /\ UNCHANGED <<known, call>>
    BY <1>21 DEF CloseFinal
  <2>3. QED BY <2>1, <2>2, HandOver
<1>22. CASE OnFrame
  BY <1>22 DEF OnFrame, plugin
<1>23. CASE Tick
  BY <1>23 DEF Tick, plugin
<1>24. CASE UNCHANGED vars
  BY <1>24 DEF vars, plugin
<1>25. QED
  BY <1>1, <1>2, <1>3, <1>4, <1>5, <1>6, <1>7, <1>8, <1>9, <1>10, <1>11, <1>12,
     <1>13, <1>14, <1>15, <1>16, <1>17, <1>18, <1>19, <1>20, <1>21, <1>22, <1>23, <1>24
  DEF Next, Request, CallStep, EncoderStep

-----------------------------------------------------------------------------
(* The theorems.                                                           *)

LEMMA LoopInit == Init => LoopInv
<1> SUFFICES ASSUME Init
             PROVE  LoopInv
  OBVIOUS
<1>1. TypeOK
  BY InitTypes
<1>2. /\ \A e \in Encoders : ~Alive(e) /\ enc[e].path = NoPath
      /\ \A t \in Callers : At(t, "return") /\ ~known
  BY DEF Init, Alive, NoThread, At
<1>3. Stages
  BY DEF Init, Stages, NoThread
<1>4. Held /\ ScanAlone /\ OwnFiles /\ Ring
  BY <1>2 DEF Held, ScanAlone, OwnFiles, Ring, Scanning, Writing, At, Init
<1>5. NoOrphanEncoder
  BY <1>2 DEF NoOrphanEncoder
<1>6. QED BY <1>1, <1>3, <1>4, <1>5 DEF LoopInv, RingInv

LEMMA LoopStep == LoopInv /\ [Next]_vars => LoopInv'
<1> SUFFICES ASSUME LoopInv, [Next]_vars
             PROVE  LoopInv'
  OBVIOUS
<1>1. TypeOK /\ Stages /\ Held /\ NoOrphanEncoder
  BY DEF LoopInv
<1>2. TypeOK' /\ Stages' /\ Held' /\ NoOrphanEncoder'
  BY <1>1, TypeStep, StagesStep, HeldStep, OrphanStep
<1>3. RingInv'
  <2>1. SUFFICES ASSUME ~clash'
                 PROVE  ScanAlone' /\ OwnFiles' /\ Ring'
    BY DEF RingInv
  <2>2. ScanAlone /\ OwnFiles /\ Ring
    BY <1>1, <2>1, ClashStays DEF LoopInv, RingInv
  <2>3. QED BY <1>1, <2>1, <2>2, ScanStep, FilesStep, RingStep
<1>4. QED BY <1>2, <1>3 DEF LoopInv

\* The inductive invariant holds for any number of callers, encoders and files.
THEOREM LoopInvariant == Spec => []LoopInv
BY LoopInit, LoopStep, PTL DEF Spec

\* A recording never runs on behind the plugin's back: an encoder nobody has told
\* to stop is the plugin's own, is being stopped, or is at its end.
THEOREM EncodersOwned == Spec => []NoOrphanEncoder
BY LoopInvariant, PTL DEF LoopInv

\* The ring lists every finished chunk file once, and the disk holds those, the ones
\* being written and the ones whose removal failed.
THEOREM RingIsDisk == Spec => []RingMatchesDisk
<1>1. LoopInv => RingMatchesDisk
  <2>1. SUFFICES ASSUME LoopInv, ~clash, known, ~Scanning
                 PROVE  /\ \A i, j \in 1..Len(chunks) : chunks[i] = chunks[j] => i = j
                        /\ disk \ stuck = ToSet(chunks)
                                  \cup {enc[e].path : e \in {d \in Encoders : Writing(d)}}
    BY DEF RingMatchesDisk
  <2>2. Ring
    BY <2>1 DEF LoopInv, RingInv
  <2>3. QED BY <2>1, <2>2 DEF Ring, Distinct, Written, Wanted
<1>2. QED BY <1>1, LoopInvariant, PTL

=============================================================================

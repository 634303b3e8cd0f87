------------------------ MODULE PluginPipelineProofs ------------------------
(***************************************************************************)
(* For any number of admins and plugins: the pipeline lists every instance  *)
(* once, the plugins hear what became of the camera, and a frame passes     *)
(* each of them once.                                                       *)
(***************************************************************************)
EXTENDS PluginPipeline, FiniteSetTheorems, SequenceTheorems, WellFoundedInduction, TLAPS

-----------------------------------------------------------------------------
(* Kept: the elements that stay, in their order.                           *)

\* Every set of numbers has a least one: induction in a form without predicates.
LEMMA LeastNumber ==
  ASSUME NEW T, T \subseteq Nat, T # {}
  PROVE  \E x \in T : \A y \in T : x <= y
<1> DEFINE R == OpToRel(<, Nat)
<1>1. IsWellFoundedOn(R, Nat)
  BY NatLessThanWellFounded
<1>2. \A y, x \in Nat : y < x => <<y, x>> \in R
  BY DEF OpToRel
<1> HIDE DEF R
<1>3. PICK x \in T : \A y \in T : ~ (<<y, x>> \in R)
  BY <1>1, WFMin
<1>4. ASSUME NEW y \in T
      PROVE  x <= y
  <2>1. x \in Nat /\ y \in Nat
    OBVIOUS
  <2>2. ~ (y < x)
    BY <1>2, <1>3, <2>1
  <2>3. QED BY <2>1, <2>2
<1>5. QED BY <1>4

LEMMA IsASequence ==
  ASSUME NEW S, NEW n \in Nat, NEW f \in [1..n -> S]
  PROVE  f \in Seq(S) /\ Len(f) = n /\ DOMAIN f = 1..n
<1>1. f \in Seq(S)
  BY SeqDef
<1>2. QED BY <1>1, LenProperties

LEMMA CountTo ==
  ASSUME NEW n \in Nat
  PROVE  IsFiniteSet(1..n) /\ Cardinality(1..n) = n
<1>1. 1 \in Int /\ n \in Int
  OBVIOUS
<1>2. IsFiniteSet(1..n) /\ Cardinality(1..n) = IF 1 > n THEN 0 ELSE n - 1 + 1
  BY ONLY <1>1, FS_Interval
<1>3. QED BY <1>2

Distinct(s) == \A i, j \in 1..Len(s) : s[i] = s[j] => i = j

\* What Kept has collected after i elements of s.
Collects(f, s, T, n) ==
  \A i \in 0..n : f[i] = IF i = 0 THEN <<>>
                         ELSE IF s[i] \in T THEN Append(f[i - 1], s[i])
                         ELSE f[i - 1]

LEMMA CollectorExists ==
  ASSUME NEW s, NEW T, NEW n \in Nat
  PROVE  \E f : f = [i \in 0..n |-> f[i]] /\ Collects(f, s, T, n)
<1> DEFINE Bad == {m \in Nat : ~ \E f : f = [i \in 0..m |-> f[i]] /\ Collects(f, s, T, m)}
<1>1. SUFFICES ASSUME Bad # {}
               PROVE  FALSE
  OBVIOUS
<1>2. PICK m \in Bad : \A l \in Bad : m <= l
  BY <1>1, LeastNumber
<1>3. m \in Nat /\ ~ \E f : f = [i \in 0..m |-> f[i]] /\ Collects(f, s, T, m)
  OBVIOUS
<1>4. CASE m = 0
  <2> DEFINE f == [i \in 0..0 |-> <<>>]
  <2>1. f = [i \in 0..0 |-> f[i]] /\ Collects(f, s, T, 0)
    BY DEF Collects
  <2>2. QED BY <1>3, <1>4, <2>1
<1>5. CASE m # 0
  <2>1. m - 1 \in Nat /\ m - 1 \notin Bad
    BY <1>2, <1>3, <1>5
  <2>2. PICK g : g = [i \in 0..(m - 1) |-> g[i]] /\ Collects(g, s, T, m - 1)
    BY <2>1
  <2> DEFINE last == IF s[m] \in T THEN Append(g[m - 1], s[m]) ELSE g[m - 1]
             f    == [i \in 0..m |-> IF i = m THEN last ELSE g[i]]
  <2>3. f = [i \in 0..m |-> f[i]]
    OBVIOUS
  <2>4. ASSUME NEW i \in 0..m
        PROVE  f[i] = IF i = 0 THEN <<>>
                      ELSE IF s[i] \in T THEN Append(f[i - 1], s[i])
                      ELSE f[i - 1]
    <3>1. CASE i = m
      <4>1. f[m] = last /\ m - 1 \in 0..m /\ m - 1 # m
        BY <1>3, <1>5
      <4>2. f[m - 1] = g[m - 1]
        BY <4>1
      <4>3. QED BY <1>5, <3>1, <4>1, <4>2
    <3>2. CASE i # m
      <4>1. i \in 0..(m - 1) /\ f[i] = g[i] /\ (i # 0 => i - 1 \in 0..m /\ i - 1 # m)
        BY <1>3, <3>2
      <4>2. i # 0 => f[i - 1] = g[i - 1]
        BY <4>1
      <4> HIDE DEF f
      <4>3. QED BY <2>2, <4>1, <4>2 DEF Collects
    <3>3. QED BY <3>1, <3>2
  <2> HIDE DEF f
  <2>5. Collects(f, s, T, m)
    BY <2>4 DEF Collects
  <2>6. QED BY <1>3, <2>3, <2>5
<1>6. QED BY <1>4, <1>5

\* pos places the elements of K among those of s up to n: each that is in T, once.
Picks(K, pos, s, T, n) ==
  /\ pos \in [1..Len(K) -> 1..n]
  /\ \A k \in 1..Len(K) : K[k] = s[pos[k]] /\ K[k] \in T
  /\ \A k, l \in 1..Len(K) : pos[k] = pos[l] => k = l
  /\ \A i \in 1..n : s[i] \in T => \E k \in 1..Len(K) : pos[k] = i

LEMMA PicksMore ==
  ASSUME NEW A, NEW s \in Seq(A), NEW T, NEW n \in 1..Len(s), NEW K \in Seq(A), NEW pos,
         Picks(K, pos, s, T, n - 1)
  PROVE  LET more == IF s[n] \in T THEN Append(K, s[n]) ELSE K
         IN  more \in Seq(A) /\ \E new : Picks(more, new, s, T, n)
<1>1. n \in Nat \ {0} /\ n \in 1..n /\ 1..(n - 1) \subseteq 1..n /\ n \notin 1..(n - 1)
      /\ Len(K) \in Nat /\ s[n] \in A
  <2>1. Len(s) \in Nat /\ Len(K) \in Nat /\ s \in [1..Len(s) -> A]
    BY SeqDef
  <2>2. QED BY <2>1
<1>2. CASE s[n] \notin T
  <2>1. Picks(K, pos, s, T, n)
    <3>1. ASSUME NEW i \in 1..n, s[i] \in T
          PROVE  i \in 1..(n - 1)
      BY <1>1, <1>2, <3>1
    <3>2. pos \in [1..Len(K) -> 1..n]
      BY <1>1 DEF Picks
    <3>3. QED BY <3>1, <3>2 DEF Picks
  <2>2. QED BY <1>2, <2>1
<1>3. CASE s[n] \in T
  <2> DEFINE more == Append(K, s[n])
             m    == Len(K) + 1
             new  == [k \in 1..m |-> IF k = m THEN n ELSE pos[k]]
  <2>1. more \in Seq(A) /\ Len(more) = m /\ more[m] = s[n]
        /\ \A k \in 1..Len(K) : more[k] = K[k]
    BY <1>1, AppendProperties
  <2>2. \A k \in 1..m : k = m \/ k \in 1..Len(K)
    BY <1>1
  <2>3. new[m] = n /\ \A k \in 1..Len(K) : new[k] = pos[k] /\ k # m /\ k \in 1..m
    BY <1>1
  <2>4. new \in [1..m -> 1..n]
    BY <1>1, <2>2 DEF Picks
  <2> HIDE DEF more, new
  <2>5. \A k \in 1..m : more[k] = s[new[k]] /\ more[k] \in T
    BY <1>3, <2>1, <2>2, <2>3 DEF Picks
  <2>6. ASSUME NEW k \in 1..m, NEW l \in 1..m, new[k] = new[l]
        PROVE  k = l
    <3>1. \A j \in 1..Len(K) : pos[j] \in 1..(n - 1)
      BY DEF Picks
    <3>2. \A j \in 1..Len(K) : new[j] # n
      BY <1>1, <2>3, <3>1
    <3>3. QED BY <2>2, <2>3, <2>6, <3>2 DEF Picks
  <2>7. ASSUME NEW i \in 1..n, s[i] \in T
        PROVE  \E k \in 1..m : new[k] = i
    <3>1. CASE i = n
      BY <1>1, <2>3, <3>1
    <3>2. CASE i # n
      <4>1. i \in 1..(n - 1)
        BY <1>1, <3>2
      <4>2. PICK k \in 1..Len(K) : pos[k] = i
        BY <2>7, <4>1 DEF Picks
      <4>3. QED BY <2>3, <4>2
    <3>3. QED BY <3>1, <3>2
  <2>8. Picks(more, new, s, T, n)
    BY <2>1, <2>4, <2>5, <2>6, <2>7 DEF Picks
  <2>9. QED BY <1>3, <2>1, <2>8 DEF more
<1>4. QED BY <1>2, <1>3

LEMMA KeptPicks ==
  ASSUME NEW A, NEW s \in Seq(A), NEW T
  PROVE  Kept(s, T) \in Seq(A) /\ \E pos : Picks(Kept(s, T), pos, s, T, Len(s))
<1> DEFINE IsUpTo(f) == f = [i \in 0..Len(s) |-> IF i = 0 THEN <<>>
                                ELSE IF s[i] \in T THEN Append(f[i - 1], s[i])
                                ELSE f[i - 1]]
           upto == CHOOSE f : IsUpTo(f)
<1>1. Len(s) \in Nat /\ DOMAIN s = 1..Len(s)
  BY LenProperties
<1>2. Collects(upto, s, T, Len(s))
  <2>1. PICK f : f = [i \in 0..Len(s) |-> f[i]] /\ Collects(f, s, T, Len(s))
    BY <1>1, CollectorExists
  <2> DEFINE e(i) == IF i = 0 THEN <<>>
                     ELSE IF s[i] \in T THEN Append(f[i - 1], s[i]) ELSE f[i - 1]
  <2>2. \A i \in 0..Len(s) : f[i] = e(i)
    BY <2>1 DEF Collects
  <2>3. [i \in 0..Len(s) |-> f[i]] = [i \in 0..Len(s) |-> e(i)]
    BY <2>2
  <2>4. IsUpTo(f)
    BY <2>1, <2>3
  <2>5. IsUpTo(upto)
    BY <2>4
  <2>6. \A i \in 0..Len(s) : upto[i] = IF i = 0 THEN <<>>
                                ELSE IF s[i] \in T THEN Append(upto[i - 1], s[i])
                                ELSE upto[i - 1]
    <3> HIDE DEF upto
    <3>1. QED BY <2>5
  <2>7. QED BY <2>6 DEF Collects
<1> DEFINE Done(n) == upto[n] \in Seq(A) /\ \E pos : Picks(upto[n], pos, s, T, n)
           Bad     == {n \in 0..Len(s) : ~ Done(n)}
<1> HIDE DEF upto
<1>3. \A n \in 0..Len(s) : Done(n)
  <2>1. SUFFICES ASSUME Bad # {}
                 PROVE  FALSE
    OBVIOUS
  <2>2. PICK n \in Bad : \A m \in Bad : n <= m
    <3>1. Bad \subseteq Nat
      BY <1>1
    <3> HIDE DEF Bad
    <3>2. QED BY <2>1, <3>1, LeastNumber
  <2>3. n \in 0..Len(s) /\ ~ Done(n)
    OBVIOUS
  <2>4. n # 0
    <3>1. SUFFICES ASSUME n = 0
                   PROVE  Done(0)
      BY <2>3
    <3>2. upto[0] = <<>> /\ Len(<<>>) = 0
      BY <1>1, <1>2 DEF Collects
    <3>3. <<>> \in Seq(A)
      OBVIOUS
    <3>4. Picks(<<>>, <<>>, s, T, 0)
      BY <3>2 DEF Picks
    <3>5. QED BY <3>2, <3>3, <3>4
  <2>5. n \in 1..Len(s) /\ n - 1 \in 0..Len(s) /\ ~ (n <= n - 1)
    BY <1>1, <2>3, <2>4
  <2>6. Done(n - 1)
    BY <2>2, <2>5
  <2>7. upto[n] = IF s[n] \in T THEN Append(upto[n - 1], s[n]) ELSE upto[n - 1]
    BY <1>2, <2>3, <2>4 DEF Collects
  <2>8. PICK pos : Picks(upto[n - 1], pos, s, T, n - 1)
    BY <2>6
  <2>9. Done(n)
    BY <2>5, <2>6, <2>7, <2>8, PicksMore
  <2>10. QED BY <2>3, <2>9
<1>4. CASE \A i \in DOMAIN s : s[i] \in T
  <2>1. Kept(s, T) = s
    BY <1>4 DEF Kept
  <2>2. Picks(s, [i \in 1..Len(s) |-> i], s, T, Len(s))
    BY <1>1, <1>4 DEF Picks
  <2>3. QED BY <2>1, <2>2
<1>5. CASE ~ \A i \in DOMAIN s : s[i] \in T
  <2>1. Kept(s, T) = upto[Len(s)]
    BY <1>5 DEF Kept, upto
  <2>2. Done(Len(s))
    BY <1>1, <1>3
  <2>3. QED BY <2>1, <2>2
<1>6. QED BY <1>4, <1>5

\* What is kept of s are the elements of s in T.
LEMMA KeptElements ==
  ASSUME NEW A, NEW s \in Seq(A), NEW T
  PROVE  /\ Kept(s, T) \in Seq(A)
         /\ \A i \in DOMAIN s : s[i] \in T => \E k \in DOMAIN Kept(s, T) : Kept(s, T)[k] = s[i]
         /\ \A k \in DOMAIN Kept(s, T) : \E i \in DOMAIN s : Kept(s, T)[k] = s[i] /\ s[i] \in T
<1>1. PICK pos : Kept(s, T) \in Seq(A) /\ Picks(Kept(s, T), pos, s, T, Len(s))
  BY KeptPicks
<1>2. DOMAIN s = 1..Len(s) /\ DOMAIN Kept(s, T) = 1..Len(Kept(s, T))
  BY <1>1, LenProperties
<1>3. QED BY <1>1, <1>2 DEF Picks

\* Elements told apart by f stay apart.
LEMMA KeptDistinct ==
  ASSUME NEW A, NEW s \in Seq(A), NEW T, NEW f,
         \A i, j \in DOMAIN s : f[s[i]] = f[s[j]] => i = j
  PROVE  LET K == Kept(s, T)
         IN  \A k, l \in DOMAIN K : f[K[k]] = f[K[l]] => k = l
<1>1. PICK pos : Kept(s, T) \in Seq(A) /\ Picks(Kept(s, T), pos, s, T, Len(s))
  BY KeptPicks
<1>2. DOMAIN s = 1..Len(s) /\ DOMAIN Kept(s, T) = 1..Len(Kept(s, T))
  BY <1>1, LenProperties
<1>3. \A k \in DOMAIN Kept(s, T) : pos[k] \in DOMAIN s /\ Kept(s, T)[k] = s[pos[k]]
  BY <1>1, <1>2 DEF Picks
<1>4. QED BY <1>1, <1>2, <1>3 DEF Picks
-----------------------------------------------------------------------------
(* The inductive invariant.                                                *)

Instance == [photo : BOOLEAN, open : BOOLEAN, late : BOOLEAN, pending : BOOLEAN]

TablesOK == /\ local \in [DOMAIN local -> Ids] /\ DOMAIN local \subseteq Keys
            /\ pipeline \in Seq(Entries(Keys))

MadeOK == inst \in Seq(Instance) /\ Len(inst) <= MaxAdds

ThreadsOK == /\ infos \in BOOLEAN /\ closing \in BOOLEAN
             /\ opener \in [pc : {"idle", "list", "tell"}, todo : Seq(Ids)]
             /\ closer \in [pc : {"idle", "tell", "join"}, todo : Seq(Ids)]
             /\ adm \in [Admins -> [pc : {"idle", "tell", "unload"}, id : Nat]]

FrameOK == frame \in [pc : {"idle"} \cup Modes, todo : Seq(Ids),
                      ran : [1..MaxAdds -> 0..2], moved : SUBSET (1..MaxAdds)]

Shape == TablesOK /\ MadeOK /\ ThreadsOK /\ FrameOK

\* Each key has one place, each place an instance of its own.
Places ==
  /\ \A i, j \in DOMAIN pipeline : pipeline[i].key = pipeline[j].key => i = j
  /\ KeysOf(pipeline) = DOMAIN local
  /\ \A k, l \in DOMAIN local : local[k] = local[l] => k = l

\* A plugin being told is one that was made, a plugin being unloaded is listed no more.
Told ==
  \A a \in Admins :
    /\ adm[a].pc # "idle" => adm[a].id \in Ids
    /\ adm[a].pc = "unload" => \A k \in DOMAIN local : local[k] # adm[a].id

Closing == (closing <=> closer.pc # "idle") /\ (closing => infos)

\* An open camera is known to a plugin or about to be told to it.
WillHearOpen ==
  infos /\ ~closing =>
    \A k \in DOMAIN local :
      \/ inst[local[k]].open
      \/ opener.pc = "list"
      \/ opener.pc = "tell" /\ local[k] \in Range(opener.todo)
      \/ \E a \in Admins : adm[a].pc = "tell" /\ adm[a].id = local[k]

\* So is a close, but for the plugins told of the open too late.
WillHearClose ==
  closing \/ ~infos =>
    \A k \in DOMAIN local :
      \/ ~inst[local[k]].open \/ inst[local[k]].late
      \/ closer.pc = "tell" /\ local[k] \in Range(closer.todo)

\* A phase runs a plugin once at most.
Runs ==
  /\ frame.pc = "idle" => frame = NoFrame
  /\ Distinct(frame.todo)
  /\ frame.pc = "pipeline" => /\ \A i \in 1..MaxAdds : frame.ran[i] <= 1
                              /\ \A i \in Range(frame.todo) : frame.ran[i] = 0
  /\ frame.pc = "display" => \A i \in Range(frame.todo) : frame.ran[i] <= 1

\* The plugins that stay have run, or are about to, in the phase of their mode.
Progress ==
  \A p \in DOMAIN pipeline :
    LET i    == local[pipeline[p].key]
        due  == frame.ran[i] = 0 /\ i \in Range(frame.todo)
        done == frame.ran[i] = 1 /\ i \notin Range(frame.todo)
        not  == frame.ran[i] = 0 /\ i \notin Range(frame.todo)
        here == pipeline[p].mode = frame.pc
    IN  i \notin frame.moved =>
          /\ frame.pc = "pipeline" => IF here THEN due \/ done ELSE not
          /\ frame.pc = "display"  => IF here THEN due \/ done ELSE done

PipeInv == /\ Shape /\ Places /\ Told
           /\ Closing /\ WillHearOpen /\ WillHearClose
           /\ Runs /\ Progress

-----------------------------------------------------------------------------
(* The listings, in a state of the invariant.                              *)

LEMMA InstDomain ==
  ASSUME Shape
  PROVE  Ids = 1..Len(inst) /\ Len(inst) \in Nat /\ Ids \subseteq 1..MaxAdds
<1>1. inst \in Seq(Instance)
  BY DEF Shape, MadeOK
<1>2. Ids = 1..Len(inst) /\ Len(inst) \in Nat
  BY <1>1, LenProperties DEF Ids
<1>3. Len(inst) <= MaxAdds /\ MaxAdds \in Nat
  BY PipelineAssumption DEF Shape, MadeOK
<1>4. QED BY <1>2, <1>3

LEMMA PipelineDomain ==
  ASSUME Shape
  PROVE  /\ DOMAIN pipeline = 1..Len(pipeline) /\ Len(pipeline) \in Nat
         /\ \A p \in DOMAIN pipeline : /\ pipeline[p] \in Entries(Keys)
                                       /\ pipeline[p].key \in Keys
                                       /\ pipeline[p].mode \in Modes
<1>1. pipeline \in Seq(Entries(Keys))
  BY DEF Shape, TablesOK
<1>2. DOMAIN pipeline = 1..Len(pipeline) /\ Len(pipeline) \in Nat
      /\ pipeline \in [1..Len(pipeline) -> Entries(Keys)]
  BY <1>1, LenProperties
<1>3. QED BY <1>2 DEF Entries

LEMMA Owned ==
  ASSUME Shape, Places, NEW p \in DOMAIN pipeline
  PROVE  pipeline[p].key \in DOMAIN local /\ local[pipeline[p].key] \in Ids
<1>1. pipeline[p].key \in DOMAIN local
  BY DEF Places, KeysOf
<1>2. QED BY <1>1 DEF Shape, TablesOK

LEMMA Listing ==
  ASSUME Shape, Places
  PROVE  /\ Listed \in Seq([id : Ids, mode : Modes])
         /\ DOMAIN Listed = DOMAIN pipeline
         /\ \A p \in DOMAIN pipeline : /\ Listed[p].id = local[pipeline[p].key]
                                       /\ Listed[p].mode = pipeline[p].mode
         /\ \A p, q \in DOMAIN pipeline : Listed[p].id = Listed[q].id => p = q
<1>1. ASSUME NEW p \in DOMAIN pipeline
      PROVE  pipeline[p] \in Entries(DOMAIN local)
  BY <1>1, Owned, PipelineDomain DEF Entries
<1>2. Kept(pipeline, Entries(DOMAIN local)) = pipeline
  BY <1>1 DEF Kept
<1>3. Listed = [p \in DOMAIN pipeline |-> [id |-> local[pipeline[p].key],
                                           mode |-> pipeline[p].mode]]
  BY <1>2 DEF Listed
<1>4. DOMAIN Listed = DOMAIN pipeline
      /\ \A p \in DOMAIN pipeline : /\ Listed[p].id = local[pipeline[p].key]
                                    /\ Listed[p].mode = pipeline[p].mode
                                    /\ Listed[p] \in [id : Ids, mode : Modes]
  BY <1>3, Owned, PipelineDomain
<1>5. Listed \in Seq([id : Ids, mode : Modes])
  <2>1. Listed \in [1..Len(pipeline) -> [id : Ids, mode : Modes]]
    BY <1>3, <1>4, PipelineDomain
  <2>2. QED BY <2>1, PipelineDomain, IsASequence
<1>6. \A p, q \in DOMAIN pipeline : Listed[p].id = Listed[q].id => p = q
  BY <1>4, Owned DEF Places
<1>7. QED BY <1>4, <1>5, <1>6

LEMMA ListsAll ==
  ASSUME Shape, Places
  PROVE  Instances \in Seq(Ids) /\ \A k \in DOMAIN local : local[k] \in Range(Instances)
<1>1. Instances = [p \in DOMAIN pipeline |-> Listed[p].id]
  BY Listing DEF Instances
<1>2. \A p \in DOMAIN pipeline : Instances[p] = local[pipeline[p].key]
  BY <1>1, Listing
<1>3. Instances \in Seq(Ids)
  <2>1. Instances \in [1..Len(pipeline) -> Ids]
    BY <1>1, <1>2, Owned, PipelineDomain
  <2>2. QED BY <2>1, PipelineDomain, IsASequence
<1>4. ASSUME NEW k \in DOMAIN local
      PROVE  local[k] \in Range(Instances)
  <2>1. PICK p \in DOMAIN pipeline : pipeline[p].key = k
    BY DEF Places, KeysOf
  <2>2. QED BY <1>1, <1>2, <2>1 DEF Range
<1>5. QED BY <1>3, <1>4

\* The plugins of a mode, each once.
LEMMA ListsMode ==
  ASSUME Shape, Places, NEW m \in Modes
  PROVE  /\ OfMode(m) \in Seq(Ids) /\ Distinct(OfMode(m))
         /\ \A p \in DOMAIN pipeline :
              local[pipeline[p].key] \in Range(OfMode(m)) <=> pipeline[p].mode = m
<1> DEFINE R    == [id : Ids, mode : Modes]
           some == Kept(Listed, [id : Ids, mode : {m}])
           ids  == [r \in R |-> r.id]
<1>1. /\ Listed \in Seq(R) /\ DOMAIN Listed = DOMAIN pipeline
      /\ \A p \in DOMAIN pipeline : /\ Listed[p].id = local[pipeline[p].key]
                                    /\ Listed[p].mode = pipeline[p].mode
                                    /\ Listed[p] \in R
      /\ \A p, q \in DOMAIN pipeline : Listed[p].id = Listed[q].id => p = q
  <2>1. Listed \in Seq(R) /\ DOMAIN Listed = DOMAIN pipeline
    BY Listing
  <2>2. Listed \in [1..Len(Listed) -> R] /\ DOMAIN Listed = 1..Len(Listed)
    BY <2>1, LenProperties
  <2>3. QED BY <2>1, <2>2, Listing
<1>2. /\ some \in Seq(R)
      /\ \A p \in DOMAIN Listed : Listed[p] \in [id : Ids, mode : {m}] =>
           \E k \in DOMAIN some : some[k] = Listed[p]
      /\ \A k \in DOMAIN some :
           \E p \in DOMAIN Listed : some[k] = Listed[p] /\ Listed[p] \in [id : Ids, mode : {m}]
  BY <1>1, KeptElements
<1>3. DOMAIN some = 1..Len(some) /\ Len(some) \in Nat /\ some \in [1..Len(some) -> R]
  BY <1>2, LenProperties
<1>4. OfMode(m) = [k \in 1..Len(some) |-> some[k].id]
  BY <1>3 DEF OfMode
<1>5. \A k, l \in DOMAIN some : some[k].id = some[l].id => k = l
  <2>1. \A p, q \in DOMAIN Listed : ids[Listed[p]] = ids[Listed[q]] => p = q
    BY <1>1
  <2>2. \A k, l \in DOMAIN some : ids[some[k]] = ids[some[l]] => k = l
    <3> HIDE DEF ids
    <3>1. QED BY <1>1, <2>1, KeptDistinct
  <2>3. QED BY <1>3, <2>2
<1> HIDE DEF some
<1>6. OfMode(m) \in [1..Len(some) -> Ids]
  BY <1>3, <1>4
<1>7. OfMode(m) \in Seq(Ids) /\ Len(OfMode(m)) = Len(some)
  BY <1>3, <1>6, IsASequence
<1>8. Distinct(OfMode(m))
  BY <1>3, <1>4, <1>5, <1>7 DEF Distinct
<1>9. ASSUME NEW p \in DOMAIN pipeline
      PROVE  local[pipeline[p].key] \in Range(OfMode(m)) <=> pipeline[p].mode = m
  <2>1. ASSUME local[pipeline[p].key] \in Range(OfMode(m))
        PROVE  pipeline[p].mode = m
    <3>1. PICK k \in 1..Len(some) : some[k].id = local[pipeline[p].key]
      BY <1>4, <2>1 DEF Range
    <3>2. PICK q \in DOMAIN pipeline : some[k] = Listed[q] /\ Listed[q].mode = m
      BY <1>1, <1>2, <1>3
    <3>3. q = p
      BY <1>1, <3>1, <3>2
    <3>4. QED BY <1>1, <3>2, <3>3
  <2>2. ASSUME pipeline[p].mode = m
        PROVE  local[pipeline[p].key] \in Range(OfMode(m))
    <3>1. Listed[p] \in [id : Ids, mode : {m}]
      BY <1>1, <2>2
    <3>2. PICK k \in 1..Len(some) : some[k] = Listed[p]
      BY <1>1, <1>2, <1>3, <3>1
    <3>3. OfMode(m)[k] = local[pipeline[p].key] /\ DOMAIN OfMode(m) = 1..Len(some)
      BY <1>1, <1>4, <3>2
    <3>4. QED BY <3>3 DEF Range
  <2>3. QED BY <2>1, <2>2
<1>10. QED BY <1>7, <1>8, <1>9
-----------------------------------------------------------------------------
(* The steps on the tables.                                                *)

\* There is a key left for a new instance: each instance has one.
LEMMA FreeKeyIsFree ==
  ASSUME Shape, Places, Len(inst) < MaxAdds
  PROVE  FreeKey(DOMAIN local) \in Range(Texts) \ DOMAIN local
<1> DEFINE Free == {n \in DOMAIN Texts : Texts[n] \notin DOMAIN local}
<1>1. /\ Len(Texts) \in Nat /\ DOMAIN Texts = 1..Len(Texts)
      /\ Len(inst) < Len(Texts) /\ Len(inst) \in Nat
  BY PipelineAssumption, LenProperties, InstDomain
<1>2. Free # {}
  <2>1. SUFFICES ASSUME \A n \in DOMAIN Texts : Texts[n] \in DOMAIN local
                 PROVE  FALSE
    OBVIOUS
  <2> DEFINE f == [n \in 1..Len(Texts) |-> local[Texts[n]]]
  <2>2. f \in [1..Len(Texts) -> 1..Len(inst)]
    BY <1>1, <2>1, InstDomain DEF Shape, TablesOK
  <2>3. IsFiniteSet(1..Len(Texts)) /\ Cardinality(1..Len(Texts)) = Len(Texts)
    BY <1>1, CountTo
  <2>4. IsFiniteSet(1..Len(inst)) /\ Cardinality(1..Len(inst)) = Len(inst)
    BY <1>1, CountTo
  <2>5. PICK m, n \in 1..Len(Texts) : m # n /\ f[m] = f[n]
    <3> HIDE DEF f
    <3>1. QED BY <1>1, <2>2, <2>3, <2>4, FS_PigeonHole
  <2>6. local[Texts[m]] = local[Texts[n]]
    BY <2>5
  <2>7. Texts[m] = Texts[n]
    BY <1>1, <2>1, <2>6 DEF Places
  <2>8. QED BY <1>1, <2>5, <2>7, PipelineAssumption
<1>3. PICK n \in Free : \A m \in Free : n <= m
  <2>1. Free \subseteq Nat
    BY <1>1
  <2> HIDE DEF Free
  <2>2. QED BY <1>2, <2>1, LeastNumber
<1>4. ASSUME NEW k \in 1..(n - 1)
      PROVE  Texts[k] \in DOMAIN local
  <2>1. k \in DOMAIN Texts /\ ~ (n <= k)
    BY <1>1
  <2>2. QED BY <1>3, <2>1
<1> DEFINE First(m) == Texts[m] \notin DOMAIN local
                       /\ \A k \in 1..(m - 1) : Texts[k] \in DOMAIN local
           c == CHOOSE m \in DOMAIN Texts : First(m)
<1>5. c \in DOMAIN Texts /\ First(c)
  <2>1. n \in DOMAIN Texts /\ First(n)
    BY <1>4
  <2> HIDE DEF First
  <2>2. QED BY <2>1
<1>6. FreeKey(DOMAIN local) = Texts[c]
  BY DEF FreeKey
<1> HIDE DEF c
<1>7. QED BY <1>5, <1>6 DEF Range

\* An instance is added with a key of its own, at the end of the pipeline.
LEMMA AddStep ==
  ASSUME Shape, Places, NEW a \in Admins, NEW multiple \in BOOLEAN, Add(a, multiple)
  PROVE  LET id == Len(inst) + 1
         IN  /\ TablesOK' /\ Places' /\ MadeOK'
             /\ Ids' = Ids \cup {id} /\ id \notin Ids /\ id \in 1..MaxAdds
             /\ \A i \in Ids : inst'[i] = inst[i]
             /\ ~inst'[id].open
             /\ \A k \in DOMAIN local' : \/ k \in DOMAIN local /\ local'[k] = local[k]
                                         \/ local'[k] = id
             /\ \A p \in DOMAIN pipeline' :
                  \/ p \in DOMAIN pipeline /\ pipeline'[p] = pipeline[p]
                     /\ local'[pipeline'[p].key] = local[pipeline[p].key]
                  \/ local'[pipeline'[p].key] = id
<1> DEFINE id  == Len(inst) + 1
           key == IF multiple THEN FreeKey(DOMAIN local) ELSE Photo
           e   == [key |-> key, mode |-> "pipeline"]
           r   == [photo |-> ~multiple, open |-> FALSE, late |-> FALSE, pending |-> FALSE]
<1>1. /\ Len(inst) < MaxAdds /\ (~multiple => Photo \notin DOMAIN local)
      /\ local' = [k \in DOMAIN local \cup {key} |-> IF k = key THEN id ELSE local[k]]
      /\ pipeline' = Append(pipeline, e)
      /\ inst' = Append(inst, r)
  BY DEF Add
<1>2. key \in Keys \ DOMAIN local
  <2>1. CASE multiple
    BY <1>1, <2>1, FreeKeyIsFree DEF Keys
  <2>2. CASE ~multiple
    BY <1>1, <2>2 DEF Keys
  <2>3. QED BY <2>1, <2>2
<1>3. inst \in Seq(Instance) /\ r \in Instance
  BY DEF Shape, MadeOK, Instance
<1>4. /\ inst' \in Seq(Instance) /\ Len(inst') = id
      /\ \A i \in 1..Len(inst) : inst'[i] = inst[i]
      /\ inst'[id] = r
  BY <1>1, <1>3, AppendProperties
<1>5. Ids = 1..Len(inst) /\ Len(inst) \in Nat /\ Ids' = 1..id /\ MaxAdds \in Nat
  <2>1. DOMAIN inst' = 1..id
    BY <1>4, LenProperties
  <2>2. QED BY <2>1, InstDomain, PipelineAssumption DEF Ids
<1>6. /\ Ids' = Ids \cup {id} /\ id \notin Ids /\ id \in 1..MaxAdds
      /\ \A i \in Ids : inst'[i] = inst[i]
      /\ ~inst'[id].open
  BY <1>1, <1>4, <1>5
<1>7. MadeOK'
  BY <1>1, <1>4, <1>5 DEF MadeOK
<1>8. pipeline \in Seq(Entries(Keys)) /\ e \in Entries(Keys)
  BY <1>2 DEF Shape, TablesOK, Entries, Modes
<1>9. /\ pipeline' \in Seq(Entries(Keys)) /\ Len(pipeline') = Len(pipeline) + 1
      /\ \A p \in DOMAIN pipeline : pipeline'[p] = pipeline[p]
      /\ pipeline'[Len(pipeline) + 1] = e
      /\ DOMAIN pipeline' = DOMAIN pipeline \cup {Len(pipeline) + 1}
      /\ Len(pipeline) + 1 \notin DOMAIN pipeline
  <2>1. DOMAIN pipeline = 1..Len(pipeline) /\ Len(pipeline) \in Nat
    BY PipelineDomain
  <2>2. /\ pipeline' \in Seq(Entries(Keys)) /\ Len(pipeline') = Len(pipeline) + 1
        /\ \A p \in 1..Len(pipeline) : pipeline'[p] = pipeline[p]
        /\ pipeline'[Len(pipeline) + 1] = e
    BY <1>1, <1>8, AppendProperties
  <2>3. DOMAIN pipeline' = 1..Len(pipeline')
    BY <2>2, LenProperties
  <2>4. QED BY <2>1, <2>2, <2>3
<1>10. /\ DOMAIN local' = DOMAIN local \cup {key} /\ local'[key] = id
       /\ \A k \in DOMAIN local : local'[k] = local[k] /\ local[k] \in Ids
  BY <1>1, <1>2 DEF Shape, TablesOK
<1>11. TablesOK'
  <2>1. local' = [k \in DOMAIN local' |-> local'[k]]
    BY <1>1
  <2>2. \A k \in DOMAIN local' : local'[k] \in Ids'
    BY <1>6, <1>10
  <2>3. DOMAIN local' \subseteq Keys
    BY <1>2, <1>10 DEF Shape, TablesOK
  <2>4. QED BY <1>9, <2>1, <2>2, <2>3 DEF TablesOK
<1>12. e.key = key /\ \A p \in DOMAIN pipeline : pipeline[p].key \in DOMAIN local
  BY Owned
<1> HIDE DEF e, key, r, id
<1>13. Places'
  <2>1. \A p, q \in DOMAIN pipeline' : pipeline'[p].key = pipeline'[q].key => p = q
    BY <1>2, <1>9, <1>12 DEF Places
  <2>2. \A k, l \in DOMAIN local' : local'[k] = local'[l] => k = l
    BY <1>2, <1>6, <1>10 DEF Places
  <2>3. {pipeline'[p].key : p \in DOMAIN pipeline'} = DOMAIN local'
    <3>1. {pipeline[p].key : p \in DOMAIN pipeline} = DOMAIN local
      BY DEF Places, KeysOf
    <3>2. QED BY <1>9, <1>10, <1>12, <3>1
  <2>4. QED BY <2>1, <2>2, <2>3 DEF Places, KeysOf
<1>14. \A k \in DOMAIN local' : \/ k \in DOMAIN local /\ local'[k] = local[k]
                                \/ local'[k] = id
  BY <1>10
<1>15. \A p \in DOMAIN pipeline' :
         \/ p \in DOMAIN pipeline /\ pipeline'[p] = pipeline[p]
            /\ local'[pipeline'[p].key] = local[pipeline[p].key]
         \/ local'[pipeline'[p].key] = id
  BY <1>9, <1>10, <1>12
<1>16. QED BY <1>6, <1>7, <1>11, <1>13, <1>14, <1>15 DEF id

\* What the steps that add nothing keep: every entry is one of before, with its instance,
\* unless the frame under way was told that it moved.
Carried ==
  \A p \in DOMAIN pipeline' :
    \E q \in DOMAIN pipeline :
      /\ pipeline'[p].key = pipeline[q].key
      /\ local'[pipeline'[p].key] = local[pipeline[q].key]
      /\ \/ pipeline'[p].mode = pipeline[q].mode
         \/ frame.pc # "idle" => local[pipeline[q].key] \in frame'.moved

LEMMA KeyFunction ==
  ASSUME Shape, Places
  PROVE  LET f == [e \in Entries(Keys) |-> e.key]
         IN  \A p, q \in DOMAIN pipeline : f[pipeline[p]] = f[pipeline[q]] => p = q
<1> DEFINE f == [e \in Entries(Keys) |-> e.key]
<1>1. \A p \in DOMAIN pipeline : f[pipeline[p]] = pipeline[p].key
  BY PipelineDomain
<1>2. QED BY <1>1 DEF Places

\* The entries whose key is in S are the ones kept.
LEMMA KeptEntries ==
  ASSUME Shape, Places, NEW S \in SUBSET Keys
  PROVE  LET K == Kept(pipeline, Entries(S))
         IN  /\ K \in Seq(Entries(Keys)) /\ DOMAIN K = 1..Len(K)
             /\ \A k, l \in DOMAIN K : K[k].key = K[l].key => k = l
             /\ \A p \in DOMAIN pipeline : pipeline[p].key \in S =>
                  \E k \in DOMAIN K : K[k] = pipeline[p]
             /\ \A k \in DOMAIN K : K[k].key \in S
                                    /\ \E p \in DOMAIN pipeline : K[k] = pipeline[p]
<1> DEFINE K == Kept(pipeline, Entries(S))
           f == [e \in Entries(Keys) |-> e.key]
<1>1. pipeline \in Seq(Entries(Keys))
  BY DEF Shape, TablesOK
<1>2. /\ K \in Seq(Entries(Keys))
      /\ \A p \in DOMAIN pipeline : pipeline[p] \in Entries(S) =>
           \E k \in DOMAIN K : K[k] = pipeline[p]
      /\ \A k \in DOMAIN K : \E p \in DOMAIN pipeline :
           K[k] = pipeline[p] /\ pipeline[p] \in Entries(S)
  BY <1>1, KeptElements
<1>3. \A k, l \in DOMAIN K : f[K[k]] = f[K[l]] => k = l
  <2>1. \A p, q \in DOMAIN pipeline : f[pipeline[p]] = f[pipeline[q]] => p = q
    BY KeyFunction
  <2> HIDE DEF f
  <2>2. QED BY <1>1, <2>1, KeptDistinct
<1>4. DOMAIN K = 1..Len(K) /\ K \in [1..Len(K) -> Entries(Keys)]
  BY <1>2, LenProperties
<1> HIDE DEF K
<1>5. \A k, l \in DOMAIN K : K[k].key = K[l].key => k = l
  BY <1>3, <1>4
<1>6. \A p \in DOMAIN pipeline : pipeline[p].key \in S => pipeline[p] \in Entries(S)
  BY PipelineDomain DEF Entries
<1>7. \A k \in DOMAIN K : K[k].key \in S /\ \E p \in DOMAIN pipeline : K[k] = pipeline[p]
  BY <1>2 DEF Entries
<1>8. QED BY <1>2, <1>4, <1>5, <1>6, <1>7 DEF K

LEMMA TakeOutStep ==
  ASSUME Shape, Places, NEW a \in Admins, NEW key \in Keys, TakeOut(a, key)
  PROVE  /\ TablesOK' /\ Places' /\ Carried
         /\ \A k \in DOMAIN local' : k \in DOMAIN local /\ local'[k] = local[k] /\ k # key
<1> DEFINE K == Kept(pipeline, Entries(Keys \ {key}))
<1>1. /\ key \in DOMAIN local /\ pipeline' = K /\ UNCHANGED <<inst, frame>>
      /\ local' = [k \in DOMAIN local \ {key} |-> local[k]]
  BY DEF TakeOut
<1>2. DOMAIN local' = DOMAIN local \ {key} /\ \A k \in DOMAIN local' : local'[k] = local[k]
  BY <1>1
<1>3. Keys \ {key} \in SUBSET Keys
  OBVIOUS
<1>4. /\ K \in Seq(Entries(Keys)) /\ DOMAIN K = 1..Len(K)
      /\ \A k, l \in DOMAIN K : K[k].key = K[l].key => k = l
      /\ \A p \in DOMAIN pipeline : pipeline[p].key \in Keys \ {key} =>
           \E k \in DOMAIN K : K[k] = pipeline[p]
      /\ \A k \in DOMAIN K : K[k].key \in Keys \ {key}
                             /\ \E p \in DOMAIN pipeline : K[k] = pipeline[p]
  BY <1>3, KeptEntries
<1> HIDE DEF K
<1>5. TablesOK'
  <2>1. local \in [DOMAIN local -> Ids] /\ DOMAIN local \subseteq Keys
    BY DEF Shape, TablesOK
  <2>2. local' \in [DOMAIN local' -> Ids'] /\ DOMAIN local' \subseteq Keys
    BY <1>1, <1>2, <2>1 DEF Ids
  <2>3. QED BY <1>1, <1>4, <2>2 DEF TablesOK
<1>6. {K[p].key : p \in DOMAIN K} = DOMAIN local'
  <2>1. {pipeline[p].key : p \in DOMAIN pipeline} = DOMAIN local
    BY DEF Places, KeysOf
  <2>2. \A p \in DOMAIN K : K[p].key \in DOMAIN local'
    BY <1>2, <1>4, <2>1
  <2>3. ASSUME NEW k \in DOMAIN local'
        PROVE  \E p \in DOMAIN K : K[p].key = k
    <3>1. PICK p \in DOMAIN pipeline : pipeline[p].key = k
      BY <1>2, <2>1
    <3>2. pipeline[p].key \in Keys \ {key}
      BY <1>2, <3>1, PipelineDomain
    <3>3. QED BY <1>4, <3>1, <3>2
  <2>4. QED BY <2>2, <2>3
<1>7. Places'
  BY <1>1, <1>2, <1>4, <1>6 DEF Places, KeysOf
<1>8. Carried
  <2>1. ASSUME NEW p \in DOMAIN K
        PROVE  local'[K[p].key] = local[K[p].key]
    BY <1>2, <1>6
  <2>2. ASSUME NEW p \in DOMAIN pipeline'
        PROVE  \E q \in DOMAIN pipeline :
                 /\ pipeline'[p].key = pipeline[q].key
                 /\ local'[pipeline'[p].key] = local[pipeline[q].key]
                 /\ pipeline'[p].mode = pipeline[q].mode
    <3>1. p \in DOMAIN K /\ pipeline'[p] = K[p]
      BY <1>1, <2>2
    <3>2. PICK q \in DOMAIN pipeline : K[p] = pipeline[q]
      BY <1>4, <3>1
    <3>3. QED BY <2>1, <3>1, <3>2
  <2>3. QED BY <2>2 DEF Carried
<1>9. QED BY <1>2, <1>5, <1>7, <1>8

LEMMA SetModeStep ==
  ASSUME Shape, Places, NEW key \in Keys, NEW mode \in Modes, SetMode(key, mode)
  PROVE  TablesOK' /\ Places' /\ Carried
<1>1. /\ key \in DOMAIN local /\ UNCHANGED <<local, inst>> /\ Moved({local[key]})
      /\ pipeline' = [p \in DOMAIN pipeline |->
                        IF pipeline[p].key = key THEN [pipeline[p] EXCEPT !.mode = mode]
                        ELSE pipeline[p]]
  BY DEF SetMode
<1>2. DOMAIN pipeline' = DOMAIN pipeline
  BY <1>1
<1>3. ASSUME NEW p \in DOMAIN pipeline
      PROVE  /\ pipeline'[p] \in Entries(Keys) /\ pipeline'[p].key = pipeline[p].key
             /\ pipeline[p].key # key => pipeline'[p] = pipeline[p]
  <2>1. pipeline[p] \in Entries(Keys)
    BY PipelineDomain
  <2>2. CASE pipeline[p].key = key
    <3>1. pipeline'[p] = [pipeline[p] EXCEPT !.mode = mode]
      BY <1>1, <2>2
    <3>2. QED BY <2>1, <2>2, <3>1 DEF Entries
  <2>3. CASE pipeline[p].key # key
    BY <1>1, <2>1, <2>3
  <2>4. QED BY <2>2, <2>3
<1>4. TablesOK'
  <2>1. pipeline' \in [1..Len(pipeline) -> Entries(Keys)]
    BY <1>1, <1>2, <1>3, PipelineDomain
  <2>2. pipeline' \in Seq(Entries(Keys))
    BY <2>1, PipelineDomain, IsASequence
  <2>3. QED BY <1>1, <2>2 DEF Shape, TablesOK, Ids
<1>5. Places'
  <2>1. \A p, q \in DOMAIN pipeline' : pipeline'[p].key = pipeline'[q].key => p = q
    BY <1>2, <1>3 DEF Places
  <2>2. {pipeline'[p].key : p \in DOMAIN pipeline'}
        = {pipeline[p].key : p \in DOMAIN pipeline}
    BY <1>2, <1>3
  <2>3. QED BY <1>1, <2>1, <2>2 DEF Places, KeysOf
<1>6. Carried
  <2>1. ASSUME frame.pc # "idle"
        PROVE  local[key] \in frame'.moved
    <3>1. frame' = [frame EXCEPT !.moved = @ \cup {local[key]}]
      BY <1>1, <2>1 DEF Moved
    <3>2. QED BY <3>1 DEF Shape, FrameOK
  <2>2. ASSUME NEW p \in DOMAIN pipeline
        PROVE  \/ pipeline'[p].mode = pipeline[p].mode
               \/ frame.pc # "idle" => local[pipeline[p].key] \in frame'.moved
    BY <1>3, <2>1
  <2>3. QED BY <1>1, <1>2, <1>3, <2>2 DEF Carried
<1>7. QED BY <1>4, <1>5, <1>6

LEMMA KeysFinite == IsFiniteSet(Keys)
<1>1. Len(Texts) \in Nat /\ DOMAIN Texts = 1..Len(Texts)
  BY PipelineAssumption, LenProperties
<1>2. IsFiniteSet(1..Len(Texts))
  BY <1>1, CountTo
<1>3. Texts \in Surjection(1..Len(Texts), Range(Texts))
  <2>1. Texts \in [1..Len(Texts) -> Range(Texts)]
    BY PipelineAssumption, LenProperties
  <2>2. \A x \in Range(Texts) : \E n \in 1..Len(Texts) : Texts[n] = x
    BY <1>1 DEF Range
  <2>3. QED BY <2>1, <2>2 DEF Surjection
<1>4. IsFiniteSet(Range(Texts))
  BY <1>2, <1>3, FS_Surjection
<1>5. QED BY <1>4, FS_AddElement, FS_Singleton, FS_Union DEF Keys

\* A browser sends a listing of keys, none twice.
LEMMA OrderIsListing ==
  ASSUME NEW names \in Orders
  PROVE  names \in Seq(Keys) /\ \A i, j \in DOMAIN names : names[i] = names[j] => i = j
<1>1. PICK S \in SUBSET Keys : names \in SetToSeqs(S)
  BY DEF Orders, SetToAllKPermutations
<1>2. IsFiniteSet(S)
  BY KeysFinite, FS_Subset
<1>3. Cardinality(S) \in Nat
  BY <1>2, FS_CardinalityType
<1>4. names \in [1..Cardinality(S) -> S]
      /\ \A i, j \in 1..Cardinality(S) : i # j => names[i] # names[j]
  BY <1>1 DEF SetToSeqs
<1>5. names \in [1..Cardinality(S) -> Keys]
  BY <1>4
<1>6. QED BY <1>3, <1>4, <1>5, IsASequence

\* The named entries and the others make up the pipeline.
LEMMA ReorderStep ==
  ASSUME Shape, Places, NEW names \in Orders, Reorder(names)
  PROVE  TablesOK' /\ Places' /\ Carried
<1> DEFINE known  == Kept(names, KeysOf(pipeline))
           at(i)  == CHOOSE j \in DOMAIN pipeline : pipeline[j].key = known[i]
           first  == [i \in DOMAIN known |-> pipeline[at(i)]]
           others == Kept(pipeline, Entries(Keys \ Range(names)))
<1>1. pipeline' = first \o others /\ UNCHANGED <<local, inst, frame>>
  BY DEF Reorder, Reordered
<1>2. names \in Seq(Keys) /\ \A i, j \in DOMAIN names : names[i] = names[j] => i = j
  BY OrderIsListing
<1>3. names \in [1..Len(names) -> Keys] /\ DOMAIN names = 1..Len(names)
  BY <1>2, LenProperties
<1>4. /\ known \in Seq(Keys)
      /\ \A i \in DOMAIN names : names[i] \in KeysOf(pipeline) =>
           \E k \in DOMAIN known : known[k] = names[i]
      /\ \A k \in DOMAIN known :
           \E i \in DOMAIN names : known[k] = names[i] /\ names[i] \in KeysOf(pipeline)
  BY <1>2, KeptElements
<1>5. DOMAIN known = 1..Len(known) /\ Len(known) \in Nat
  BY <1>4, LenProperties
<1>6. \A k, l \in DOMAIN known : known[k] = known[l] => k = l
  <2> DEFINE id == [x \in Keys |-> x]
  <2>1. \A i, j \in DOMAIN names : id[names[i]] = id[names[j]] => i = j
    BY <1>2, <1>3
  <2>2. \A k, l \in DOMAIN known : id[known[k]] = id[known[l]] => k = l
    <3> HIDE DEF id
    <3>1. QED BY <1>2, <2>1, KeptDistinct
  <2>3. \A k \in DOMAIN known : known[k] \in Keys
    BY <1>3, <1>4
  <2>4. QED BY <2>2, <2>3
<1>7. ASSUME NEW k \in DOMAIN known
      PROVE  at(k) \in DOMAIN pipeline /\ pipeline[at(k)].key = known[k]
             /\ known[k] \in Range(names)
  <2>1. PICK i \in DOMAIN names : known[k] = names[i] /\ names[i] \in KeysOf(pipeline)
    BY <1>4
  <2>2. \E j \in DOMAIN pipeline : pipeline[j].key = known[k]
    BY <2>1 DEF KeysOf
  <2>3. QED BY <2>1, <2>2 DEF Range
<1>8. DOMAIN first = 1..Len(known)
      /\ \A k \in 1..Len(known) : first[k] = pipeline[at(k)]
  BY <1>5
<1>9. first \in Seq(Entries(Keys)) /\ Len(first) = Len(known)
  <2>1. first \in [1..Len(known) -> Entries(Keys)]
    BY <1>5, <1>7, PipelineDomain
  <2> HIDE DEF first
  <2>2. QED BY <1>5, <2>1, IsASequence
<1>10. Keys \ Range(names) \in SUBSET Keys
  OBVIOUS
<1>11. /\ others \in Seq(Entries(Keys)) /\ DOMAIN others = 1..Len(others)
       /\ \A k, l \in DOMAIN others : others[k].key = others[l].key => k = l
       /\ \A p \in DOMAIN pipeline : pipeline[p].key \in Keys \ Range(names) =>
            \E k \in DOMAIN others : others[k] = pipeline[p]
       /\ \A k \in DOMAIN others : others[k].key \in Keys \ Range(names)
                                   /\ \E p \in DOMAIN pipeline : others[k] = pipeline[p]
  BY <1>10, KeptEntries
<1>12. Len(others) \in Nat
  BY <1>11, LenProperties
<1> DEFINE m == Len(known)
           n == Len(others)
<1> HIDE DEF known, at, first, others
<1>13. /\ pipeline' \in Seq(Entries(Keys)) /\ DOMAIN pipeline' = 1..(m + n)
       /\ \A p \in 1..(m + n) :
            pipeline'[p] = IF p <= m THEN first[p] ELSE others[p - m]
  <2>1. /\ first \o others \in Seq(Entries(Keys)) /\ Len(first \o others) = m + n
        /\ \A p \in 1..(m + n) :
             (first \o others)[p] = IF p <= m THEN first[p] ELSE others[p - m]
    <3>1. first \in Seq(Entries(Keys)) /\ others \in Seq(Entries(Keys))
      BY <1>9, <1>11
    <3>2. /\ first \o others \in Seq(Entries(Keys))
          /\ Len(first \o others) = Len(first) + Len(others)
          /\ \A p \in 1..(Len(first) + Len(others)) :
               (first \o others)[p] = IF p <= Len(first) THEN first[p]
                                      ELSE others[p - Len(first)]
      BY ONLY <3>1, ConcatProperties
    <3>3. QED BY <1>9, <3>2
  <2>2. DOMAIN (first \o others) = 1..(m + n)
    BY <2>1, LenProperties
  <2>3. QED BY <1>1, <2>1, <2>2
<1>14. ASSUME NEW p \in 1..(m + n)
       PROVE  \/ /\ p \in 1..m /\ pipeline'[p] = pipeline[at(p)] /\ at(p) \in DOMAIN pipeline
                 /\ pipeline'[p].key = known[p] /\ known[p] \in Range(names)
              \/ /\ p - m \in 1..n /\ pipeline'[p] = others[p - m] /\ p \notin 1..m
                 /\ pipeline'[p].key \notin Range(names)
  <2>1. CASE p <= m
    <3>1. p \in 1..m
      BY <1>5, <1>12, <2>1
    <3>2. QED BY <1>5, <1>7, <1>8, <1>13, <2>1, <3>1
  <2>2. CASE ~ (p <= m)
    <3>1. p - m \in 1..n /\ p \notin 1..m
      BY <1>5, <1>12, <2>2
    <3>2. QED BY <1>11, <1>13, <2>2, <3>1
  <2>3. QED BY <2>1, <2>2
<1>15. ASSUME NEW p \in DOMAIN pipeline'
       PROVE  \E q \in DOMAIN pipeline : pipeline'[p] = pipeline[q]
  <2>1. p \in 1..(m + n)
    BY <1>13
  <2>2. CASE p \in 1..m
    BY <1>14, <2>1, <2>2
  <2>3. CASE p \notin 1..m
    <3>1. p - m \in DOMAIN others /\ pipeline'[p] = others[p - m]
      BY <1>11, <1>14, <2>1, <2>3
    <3>2. QED BY <1>11, <3>1
  <2>4. QED BY <2>2, <2>3
<1>16. TablesOK'
  BY <1>1, <1>13 DEF Shape, TablesOK, Ids
<1>17. Carried
  <2>1. QED BY <1>1, <1>15 DEF Carried
<1>18. ASSUME NEW p \in DOMAIN pipeline', NEW q \in DOMAIN pipeline',
              pipeline'[p].key = pipeline'[q].key
       PROVE  p = q
  <2>1. p \in 1..(m + n) /\ q \in 1..(m + n)
    BY <1>13
  <2>2. CASE p \in 1..m /\ q \in 1..m
    BY <1>5, <1>6, <1>14, <1>18, <2>1, <2>2
  <2>3. CASE p \notin 1..m /\ q \notin 1..m
    <3>1. p - m = q - m
      BY <1>11, <1>14, <1>18, <2>1, <2>3
    <3>2. QED BY <1>5, <1>12, <2>1, <3>1
  <2>4. QED BY <1>14, <1>18, <2>1, <2>2, <2>3
<1>19. {pipeline'[p].key : p \in DOMAIN pipeline'} = {pipeline[p].key : p \in DOMAIN pipeline}
  <2>1. \A p \in DOMAIN pipeline' : \E q \in DOMAIN pipeline : pipeline'[p] = pipeline[q]
    BY <1>15
  <2>2. ASSUME NEW q \in DOMAIN pipeline
        PROVE  \E p \in DOMAIN pipeline' : pipeline'[p].key = pipeline[q].key
    <3>1. CASE pipeline[q].key \in Range(names)
      <4>1. PICK i \in DOMAIN names : names[i] = pipeline[q].key
        BY <3>1 DEF Range
      <4>2. PICK k \in 1..m : known[k] = pipeline[q].key
        BY <1>4, <1>5, <4>1 DEF KeysOf
      <4>3. k \in 1..(m + n) /\ k <= m
        BY <1>5, <1>12
      <4>4. QED BY <1>13, <1>14, <4>2, <4>3
    <3>2. CASE pipeline[q].key \notin Range(names)
      <4>1. PICK k \in 1..n : others[k] = pipeline[q]
        BY <1>11, <3>2, PipelineDomain
      <4>2. m + k \in 1..(m + n) /\ ~ (m + k <= m) /\ m + k - m = k
        BY <1>5, <1>12
      <4>3. pipeline'[m + k] = others[m + k - m]
        BY <1>13, <4>2
      <4>4. QED BY <1>13, <4>1, <4>2, <4>3
    <3>3. QED BY <3>1, <3>2
  <2>3. QED BY <2>1, <2>2
<1>20. Places'
  BY <1>1, <1>18, <1>19 DEF Places, KeysOf
<1>21. QED BY <1>16, <1>17, <1>20
-----------------------------------------------------------------------------
(* The steps on the instances and the threads.                             *)

LEMMA InstanceStep ==
  ASSUME Shape, NEW i \in Ids, NEW r \in Instance, inst' = [inst EXCEPT ![i] = r]
  PROVE  /\ MadeOK' /\ Ids' = Ids
         /\ inst'[i] = r /\ \A j \in Ids : j # i => inst'[j] = inst[j]
<1>1. inst \in Seq(Instance) /\ i \in 1..Len(inst)
  BY InstDomain DEF Shape, MadeOK
<1>2. /\ inst' \in Seq(Instance) /\ Len(inst') = Len(inst)
      /\ \A j \in 1..Len(inst) : inst'[j] = IF j = i THEN r ELSE inst[j]
  BY <1>1, ExceptSeq
<1>3. Ids' = 1..Len(inst) /\ Ids = 1..Len(inst)
  BY <1>2, LenProperties, InstDomain DEF Ids
<1>4. Len(inst) <= MaxAdds
  BY DEF Shape, MadeOK
<1>5. QED BY <1>1, <1>2, <1>3, <1>4 DEF MadeOK

LEMMA InstanceType ==
  ASSUME Shape, NEW i \in Ids
  PROVE  inst[i] \in Instance
<1>1. inst \in Seq(Instance) /\ i \in 1..Len(inst)
  BY InstDomain DEF Shape, MadeOK
<1>2. QED BY <1>1, ElementOfSeq

LEMMA HearOpenStep ==
  ASSUME Shape, NEW i \in Ids, inst' = HearOpen(i)
  PROVE  /\ MadeOK' /\ Ids' = Ids
         /\ inst'[i].open /\ inst'[i].late = (closing \/ ~infos)
         /\ \A j \in Ids : j # i => inst'[j] = inst[j]
<1> DEFINE r == [inst[i] EXCEPT !.open = TRUE, !.late = closing \/ ~infos]
<1>1. inst[i] \in Instance
  BY InstanceType
<1>2. r \in Instance /\ r.open = TRUE /\ r.late = (closing \/ ~infos)
  BY <1>1 DEF Instance
<1>3. inst' = [inst EXCEPT ![i] = r]
  BY DEF HearOpen
<1> HIDE DEF r
<1>4. QED BY <1>2, <1>3, InstanceStep

LEMMA HearCloseStep ==
  ASSUME Shape, NEW i \in Ids, inst' = HearClose(i)
  PROVE  /\ MadeOK' /\ Ids' = Ids /\ ~inst'[i].open
         /\ \A j \in Ids : j # i => inst'[j] = inst[j]
<1> DEFINE r == [inst[i] EXCEPT !.open = FALSE, !.late = FALSE]
<1>1. inst[i] \in Instance
  BY InstanceType
<1>2. r \in Instance /\ r.open = FALSE
  BY <1>1 DEF Instance
<1>3. inst' = [inst EXCEPT ![i] = r]
  BY DEF HearClose
<1> HIDE DEF r
<1>4. QED BY <1>2, <1>3, InstanceStep

\* A photo changes nothing of what a plugin has heard.
LEMMA PendingStep ==
  ASSUME Shape, NEW i \in Ids, NEW b \in BOOLEAN, inst' = [inst EXCEPT ![i].pending = b]
  PROVE  /\ MadeOK' /\ Ids' = Ids
         /\ \A j \in Ids : inst'[j].open = inst[j].open /\ inst'[j].late = inst[j].late
<1> DEFINE r == [inst[i] EXCEPT !.pending = b]
<1>1. inst[i] \in Instance
  BY InstanceType
<1>2. r \in Instance /\ r.open = inst[i].open /\ r.late = inst[i].late
  BY <1>1 DEF Instance
<1>3. inst' = [inst EXCEPT ![i] = r]
  OBVIOUS
<1> HIDE DEF r
<1>4. MadeOK' /\ Ids' = Ids /\ inst'[i] = r /\ \A j \in Ids : j # i => inst'[j] = inst[j]
  BY <1>2, <1>3, InstanceStep
<1>5. QED BY <1>2, <1>4

\* The first of a thread's list, and the rest.
LEMMA TodoStep ==
  ASSUME NEW S, NEW todo \in Seq(S), todo # <<>>
  PROVE  /\ Head(todo) \in S /\ Tail(todo) \in Seq(S)
         /\ Range(todo) = {Head(todo)} \cup Range(Tail(todo))
         /\ Distinct(todo) => Distinct(Tail(todo)) /\ Head(todo) \notin Range(Tail(todo))
<1>1. /\ Head(todo) \in S /\ Tail(todo) \in Seq(S) /\ Len(Tail(todo)) = Len(todo) - 1
      /\ \A i \in 1..Len(Tail(todo)) : Tail(todo)[i] = todo[i + 1]
      /\ Head(todo) = todo[1] /\ Len(todo) \in Nat \ {0}
  BY HeadTailProperties, EmptySeq
<1>2. DOMAIN todo = 1..Len(todo) /\ DOMAIN Tail(todo) = 1..(Len(todo) - 1)
  BY <1>1, LenProperties
<1> DEFINE n == Len(todo)
           t == Tail(todo)
<1>3. n \in Nat \ {0} /\ DOMAIN t = 1..(n - 1) /\ DOMAIN todo = 1..n /\ Len(t) = n - 1
      /\ Head(todo) = todo[1] /\ \A i \in 1..(n - 1) : t[i] = todo[i + 1]
  BY <1>1, <1>2
<1> HIDE DEF n, t
<1>4. Range(todo) = {Head(todo)} \cup Range(t)
  <2>1. ASSUME NEW i \in 1..n, i # 1
        PROVE  \E j \in 1..(n - 1) : todo[i] = t[j]
    <3>1. i - 1 \in 1..(n - 1) /\ (i - 1) + 1 = i
      BY <1>3, <2>1
    <3>2. t[i - 1] = todo[(i - 1) + 1]
      BY <1>3, <3>1
    <3>3. QED BY <3>1, <3>2
  <2>2. \A i \in 1..(n - 1) : i + 1 \in 1..n /\ t[i] = todo[i + 1]
    BY <1>3
  <2>3. 1 \in 1..n
    BY <1>3
  <2>4. {todo[i] : i \in 1..n} = {todo[1]} \cup {t[i] : i \in 1..(n - 1)}
    BY <2>1, <2>2, <2>3
  <2>5. QED BY <1>3, <2>4 DEF Range
<1>5. ASSUME Distinct(todo)
      PROVE  Distinct(t) /\ Head(todo) \notin Range(t)
  <2>1. \A i, j \in 1..n : todo[i] = todo[j] => i = j
    BY <1>5 DEF Distinct, n
  <2>2. \A i \in 1..(n - 1) : i + 1 \in 1..n /\ i + 1 # 1 /\ 1 \in 1..n
    BY <1>3
  <2>3. \A i, j \in 1..(n - 1) : t[i] = t[j] => i = j
    <3>1. ASSUME NEW i \in 1..(n - 1), NEW j \in 1..(n - 1), t[i] = t[j]
          PROVE  i = j
      <4>1. i + 1 = j + 1
        BY <1>3, <2>1, <2>2, <3>1
      <4>2. QED BY <4>1
    <3>2. QED BY <3>1
  <2>4. QED BY <1>3, <2>1, <2>2, <2>3 DEF Distinct, Range
<1>6. QED BY <1>1, <1>4, <1>5 DEF t

-----------------------------------------------------------------------------
(* Every step keeps the tables: one case for each action.                  *)

LEMMA TablesKept ==
  ASSUME Shape, Places, local' = local, pipeline' = pipeline,
         inst' = inst \/ (MadeOK' /\ Ids' = Ids)
  PROVE  TablesOK' /\ Places' /\ MadeOK' /\ Ids \subseteq Ids'
<1>1. Ids' = Ids /\ MadeOK'
  BY DEF Shape, MadeOK, Ids
<1>2. TablesOK'
  BY <1>1 DEF Shape, TablesOK
<1>3. Places'
  BY DEF Places, KeysOf
<1>4. QED BY <1>1, <1>2, <1>3

LEMMA TablesStep ==
  ASSUME Shape, Places, Told, [Next]_vars
  PROVE  TablesOK' /\ Places' /\ MadeOK' /\ Ids \subseteq Ids'
<1>1. ASSUME NEW a \in Admins, NEW multiple \in BOOLEAN, Add(a, multiple)
      PROVE  TablesOK' /\ Places' /\ MadeOK' /\ Ids \subseteq Ids'
  BY <1>1, AddStep
<1>2. ASSUME NEW a \in Admins, NEW key \in Keys, TakeOut(a, key)
      PROVE  TablesOK' /\ Places' /\ MadeOK' /\ Ids \subseteq Ids'
  <2>1. inst' = inst
    BY <1>2 DEF TakeOut
  <2>2. MadeOK' /\ Ids' = Ids
    BY <2>1 DEF Shape, MadeOK, Ids
  <2>3. QED BY <1>2, <2>2, TakeOutStep
<1>3. ASSUME NEW a \in Admins, AddTells(a)
      PROVE  TablesOK' /\ Places' /\ MadeOK' /\ Ids \subseteq Ids'
  <2>1. adm[a].id \in Ids /\ local' = local /\ pipeline' = pipeline
    BY <1>3 DEF AddTells, tables, Told
  <2>2. inst' = HearOpen(adm[a].id) \/ inst' = inst
    BY <1>3 DEF AddTells
  <2>3. inst' = inst \/ (MadeOK' /\ Ids' = Ids)
    BY <2>1, <2>2, HearOpenStep
  <2>4. QED BY <2>1, <2>3, TablesKept
<1>4. ASSUME NEW a \in Admins, RemoveTells(a)
      PROVE  TablesOK' /\ Places' /\ MadeOK' /\ Ids \subseteq Ids'
  <2>1. adm[a].id \in Ids /\ local' = local /\ pipeline' = pipeline /\ inst' = HearClose(adm[a].id)
    BY <1>4 DEF RemoveTells, tables, Told
  <2>2. QED BY <2>1, HearCloseStep, TablesKept
<1>5. ASSUME NEW names \in Orders, Reorder(names)
      PROVE  TablesOK' /\ Places' /\ MadeOK' /\ Ids \subseteq Ids'
  <2>1. inst' = inst
    BY <1>5 DEF Reorder
  <2>2. MadeOK' /\ Ids' = Ids
    BY <2>1 DEF Shape, MadeOK, Ids
  <2>3. QED BY <1>5, <2>2, ReorderStep
<1>6. ASSUME NEW key \in Keys, NEW mode \in Modes, SetMode(key, mode)
      PROVE  TablesOK' /\ Places' /\ MadeOK' /\ Ids \subseteq Ids'
  <2>1. inst' = inst
    BY <1>6 DEF SetMode
  <2>2. MadeOK' /\ Ids' = Ids
    BY <2>1 DEF Shape, MadeOK, Ids
  <2>3. QED BY <1>6, <2>2, SetModeStep
<1>7. ASSUME OpenInsert
      PROVE  TablesOK' /\ Places' /\ MadeOK' /\ Ids \subseteq Ids'
  <2>1. local' = local /\ pipeline' = pipeline /\ inst' = inst
    BY <1>7 DEF OpenInsert, tables
  <2>2. QED BY <2>1, TablesKept
<1>8. ASSUME OpenList
      PROVE  TablesOK' /\ Places' /\ MadeOK' /\ Ids \subseteq Ids'
  <2>1. local' = local /\ pipeline' = pipeline /\ inst' = inst
    BY <1>8 DEF OpenList, tables
  <2>2. QED BY <2>1, TablesKept
<1>9. ASSUME OpenTell
      PROVE  TablesOK' /\ Places' /\ MadeOK' /\ Ids \subseteq Ids'
  <2>1. local' = local /\ pipeline' = pipeline
    BY <1>9 DEF OpenTell, tables
  <2>2. inst' = inst \/ (opener.todo # <<>> /\ inst' = HearOpen(Head(opener.todo)))
    BY <1>9 DEF OpenTell
  <2>3. opener.todo # <<>> => Head(opener.todo) \in Ids
    BY TodoStep DEF Shape, ThreadsOK
  <2>4. inst' = inst \/ (MadeOK' /\ Ids' = Ids)
    BY <2>2, <2>3, HearOpenStep
  <2>5. QED BY <2>1, <2>4, TablesKept
<1>10. ASSUME CloseList
      PROVE  TablesOK' /\ Places' /\ MadeOK' /\ Ids \subseteq Ids'
  <2>1. local' = local /\ pipeline' = pipeline /\ inst' = inst
    BY <1>10 DEF CloseList, tables
  <2>2. QED BY <2>1, TablesKept
<1>11. ASSUME CloseTell
      PROVE  TablesOK' /\ Places' /\ MadeOK' /\ Ids \subseteq Ids'
  <2>1. local' = local /\ pipeline' = pipeline
    BY <1>11 DEF CloseTell, tables
  <2>2. inst' = inst \/ (closer.todo # <<>> /\ inst' = HearClose(Head(closer.todo)))
    BY <1>11 DEF CloseTell
  <2>3. closer.todo # <<>> => Head(closer.todo) \in Ids
    BY TodoStep DEF Shape, ThreadsOK
  <2>4. inst' = inst \/ (MadeOK' /\ Ids' = Ids)
    BY <2>2, <2>3, HearCloseStep
  <2>5. QED BY <2>1, <2>4, TablesKept
<1>12. ASSUME CloseRemove
      PROVE  TablesOK' /\ Places' /\ MadeOK' /\ Ids \subseteq Ids'
  <2>1. local' = local /\ pipeline' = pipeline /\ inst' = inst
    BY <1>12 DEF CloseRemove, tables
  <2>2. QED BY <2>1, TablesKept
<1>13. ASSUME FrameBegin
      PROVE  TablesOK' /\ Places' /\ MadeOK' /\ Ids \subseteq Ids'
  <2>1. local' = local /\ pipeline' = pipeline /\ inst' = inst
    BY <1>13 DEF FrameBegin, tables
  <2>2. QED BY <2>1, TablesKept
<1>14. ASSUME RunPlugin
      PROVE  TablesOK' /\ Places' /\ MadeOK' /\ Ids \subseteq Ids'
  <2>1. local' = local /\ pipeline' = pipeline /\ frame.todo # <<>>
        /\ inst' = [inst EXCEPT ![Head(frame.todo)].pending = FALSE]
    BY <1>14 DEF RunPlugin, tables
  <2>2. Head(frame.todo) \in Ids
    BY <2>1, TodoStep DEF Shape, FrameOK
  <2>3. QED BY <2>1, <2>2, PendingStep, TablesKept
<1>15. ASSUME DisplayPhase
      PROVE  TablesOK' /\ Places' /\ MadeOK' /\ Ids \subseteq Ids'
  <2>1. local' = local /\ pipeline' = pipeline /\ inst' = inst
    BY <1>15 DEF DisplayPhase, tables
  <2>2. QED BY <2>1, TablesKept
<1>16. ASSUME FrameEnd
      PROVE  TablesOK' /\ Places' /\ MadeOK' /\ Ids \subseteq Ids'
  <2>1. local' = local /\ pipeline' = pipeline /\ inst' = inst
    BY <1>16 DEF FrameEnd, tables
  <2>2. QED BY <2>1, TablesKept
<1>17. ASSUME TakePhoto
      PROVE  TablesOK' /\ Places' /\ MadeOK' /\ Ids \subseteq Ids'
  <2>1. local' = local /\ pipeline' = pipeline /\ Photo \in DOMAIN local
        /\ inst' = [inst EXCEPT ![local[Photo]].pending = TRUE]
    BY <1>17 DEF TakePhoto, tables
  <2>2. local[Photo] \in Ids
    BY <2>1 DEF Shape, TablesOK
  <2>3. QED BY <2>1, <2>2, PendingStep, TablesKept
<1>18. CASE UNCHANGED vars
  <2>1. local' = local /\ pipeline' = pipeline /\ inst' = inst
    BY <1>18 DEF vars
  <2>2. QED BY <2>1, TablesKept
<1>19. QED
  BY <1>1, <1>2, <1>3, <1>4, <1>5, <1>6, <1>7, <1>8, <1>9, <1>10, <1>11,
     <1>12, <1>13, <1>14, <1>15, <1>16, <1>17, <1>18 DEF Next, Process

-----------------------------------------------------------------------------
(* Every step keeps the threads.                                           *)

LEMMA ListsStay ==
  ASSUME Shape, Ids \subseteq Ids'
  PROVE  /\ opener \in [pc : {"idle", "list", "tell"}, todo : Seq(Ids')]
         /\ closer \in [pc : {"idle", "tell", "join"}, todo : Seq(Ids')]
         /\ frame \in [pc : {"idle"} \cup Modes, todo : Seq(Ids'),
                       ran : [1..MaxAdds -> 0..2], moved : SUBSET (1..MaxAdds)]
         /\ \A s \in Seq(Ids) : s \in Seq(Ids')
<1>1. Seq(Ids) \subseteq Seq(Ids')
  BY SeqMonotonic
<1>2. QED BY <1>1 DEF Shape, ThreadsOK, FrameOK

LEMMA CameraKept ==
  ASSUME Shape, Closing, Ids \subseteq Ids', opener' = opener, closer' = closer,
         infos' = infos, closing' = closing,
         adm' \in [Admins -> [pc : {"idle", "tell", "unload"}, id : Nat]]
  PROVE  ThreadsOK' /\ Closing'
<1>1. ThreadsOK'
  BY ListsStay DEF Shape, ThreadsOK
<1>2. QED BY <1>1 DEF Closing

\* What one handler does leaves the others where they are.
LEMMA HandlerStep ==
  ASSUME Shape, NEW a \in Admins, NEW pc \in {"idle", "tell", "unload"}, NEW i \in Nat,
         adm' = [adm EXCEPT ![a] = [pc |-> pc, id |-> i]]
  PROVE  /\ adm' \in [Admins -> [pc : {"idle", "tell", "unload"}, id : Nat]]
         /\ adm'[a].pc = pc /\ adm'[a].id = i
         /\ \A b \in Admins : b # a => adm'[b] = adm[b]
<1> DEFINE r == [pc |-> pc, id |-> i]
<1>1. r \in [pc : {"idle", "tell", "unload"}, id : Nat] /\ r.pc = pc /\ r.id = i
  OBVIOUS
<1>2. adm \in [Admins -> [pc : {"idle", "tell", "unload"}, id : Nat]]
  BY DEF Shape, ThreadsOK
<1>3. adm' = [adm EXCEPT ![a] = r]
  OBVIOUS
<1> HIDE DEF r
<1>4. QED BY <1>1, <1>2, <1>3

LEMMA ThreadsStep ==
  ASSUME Shape, Places, Told, Closing, [Next]_vars
  PROVE  ThreadsOK' /\ Closing'
<1>1. Ids \subseteq Ids'
  BY TablesStep
<1>2. /\ opener \in [pc : {"idle", "list", "tell"}, todo : Seq(Ids')]
      /\ closer \in [pc : {"idle", "tell", "join"}, todo : Seq(Ids')]
      /\ \A s \in Seq(Ids) : s \in Seq(Ids')
  BY <1>1, ListsStay
<1>3. ASSUME NEW a \in Admins, NEW multiple \in BOOLEAN, Add(a, multiple)
      PROVE  ThreadsOK' /\ Closing'
  <2>1. opener' = opener /\ closer' = closer /\ infos' = infos /\ closing' = closing
        /\ adm' = [adm EXCEPT ![a] = [pc |-> "tell", id |-> Len(inst) + 1]]
    BY <1>3 DEF Add, camera
  <2>2. Len(inst) + 1 \in Nat
    BY InstDomain
  <2>3. adm' \in [Admins -> [pc : {"idle", "tell", "unload"}, id : Nat]]
    BY <2>1, <2>2, HandlerStep
  <2>4. QED BY <1>1, <2>1, <2>3, CameraKept
<1>4. ASSUME NEW a \in Admins, NEW key \in Keys, TakeOut(a, key)
      PROVE  ThreadsOK' /\ Closing'
  <2>1. opener' = opener /\ closer' = closer /\ infos' = infos /\ closing' = closing
        /\ adm' = [adm EXCEPT ![a] = [pc |-> "unload", id |-> local[key]]]
    BY <1>4 DEF TakeOut, camera
  <2>2. local[key] \in Nat
    BY <1>4, InstDomain DEF TakeOut, Shape, TablesOK
  <2>3. adm' \in [Admins -> [pc : {"idle", "tell", "unload"}, id : Nat]]
    BY <2>1, <2>2, HandlerStep
  <2>4. QED BY <1>1, <2>1, <2>3, CameraKept
<1>5. ASSUME NEW a \in Admins, AddTells(a)
      PROVE  ThreadsOK' /\ Closing'
  <2>1. opener' = opener /\ closer' = closer /\ infos' = infos /\ closing' = closing
        /\ adm' = [adm EXCEPT ![a] = [pc |-> "idle", id |-> 0]]
    BY <1>5 DEF AddTells, camera
  <2>2. 0 \in Nat
    OBVIOUS
  <2>3. adm' \in [Admins -> [pc : {"idle", "tell", "unload"}, id : Nat]]
    BY <2>1, <2>2, HandlerStep
  <2>4. QED BY <1>1, <2>1, <2>3, CameraKept
<1>6. ASSUME NEW a \in Admins, RemoveTells(a)
      PROVE  ThreadsOK' /\ Closing'
  <2>1. opener' = opener /\ closer' = closer /\ infos' = infos /\ closing' = closing
        /\ adm' = [adm EXCEPT ![a] = [pc |-> "idle", id |-> 0]]
    BY <1>6 DEF RemoveTells, camera
  <2>2. 0 \in Nat
    OBVIOUS
  <2>3. adm' \in [Admins -> [pc : {"idle", "tell", "unload"}, id : Nat]]
    BY <2>1, <2>2, HandlerStep
  <2>4. QED BY <1>1, <2>1, <2>3, CameraKept
<1>7. ASSUME NEW names \in Orders, Reorder(names)
      PROVE  ThreadsOK' /\ Closing'
  <2>1. opener' = opener /\ closer' = closer /\ infos' = infos /\ closing' = closing /\ adm' = adm
    BY <1>7 DEF Reorder, camera
  <2>2. adm' \in [Admins -> [pc : {"idle", "tell", "unload"}, id : Nat]]
    BY <2>1 DEF Shape, ThreadsOK
  <2>3. QED BY <1>1, <2>1, <2>2, CameraKept
<1>8. ASSUME NEW key \in Keys, NEW mode \in Modes, SetMode(key, mode)
      PROVE  ThreadsOK' /\ Closing'
  <2>1. opener' = opener /\ closer' = closer /\ infos' = infos /\ closing' = closing /\ adm' = adm
    BY <1>8 DEF SetMode, camera
  <2>2. adm' \in [Admins -> [pc : {"idle", "tell", "unload"}, id : Nat]]
    BY <2>1 DEF Shape, ThreadsOK
  <2>3. QED BY <1>1, <2>1, <2>2, CameraKept
<1>9. ASSUME OpenInsert
      PROVE  ThreadsOK' /\ Closing'
  <2>1. adm' = adm /\ infos' \in BOOLEAN /\ closing' \in BOOLEAN
    BY <1>9 DEF OpenInsert, Shape, ThreadsOK
  <2>3. opener' \in [pc : {"idle", "list", "tell"}, todo : Seq(Ids')]
    BY <1>9, <1>2 DEF OpenInsert
  <2>4. closer' \in [pc : {"idle", "tell", "join"}, todo : Seq(Ids')]
    BY <1>9, <1>2 DEF OpenInsert
  <2>5. ThreadsOK'
    BY <2>1, <2>3, <2>4 DEF Shape, ThreadsOK
  <2>6. Closing'
    BY <1>9 DEF OpenInsert, Closing, Shape, ThreadsOK
  <2>7. QED BY <2>5, <2>6
<1>10. ASSUME OpenList
      PROVE  ThreadsOK' /\ Closing'
  <2>1. adm' = adm /\ infos' \in BOOLEAN /\ closing' \in BOOLEAN
    BY <1>10 DEF OpenList, Shape, ThreadsOK
  <2>2. Instances \in Seq(Ids')
    BY <1>2, ListsAll
  <2>3. opener' \in [pc : {"idle", "list", "tell"}, todo : Seq(Ids')]
    BY <1>10, <1>2, <2>2 DEF OpenList
  <2>4. closer' \in [pc : {"idle", "tell", "join"}, todo : Seq(Ids')]
    BY <1>10, <1>2 DEF OpenList
  <2>5. ThreadsOK'
    BY <2>1, <2>3, <2>4 DEF Shape, ThreadsOK
  <2>6. Closing'
    BY <1>10 DEF OpenList, Closing, Shape, ThreadsOK
  <2>7. QED BY <2>5, <2>6
<1>11. ASSUME OpenTell
      PROVE  ThreadsOK' /\ Closing'
  <2>1. adm' = adm /\ infos' \in BOOLEAN /\ closing' \in BOOLEAN
    BY <1>11 DEF OpenTell, Shape, ThreadsOK
  <2>2. <<>> \in Seq(Ids') /\ (opener.todo # <<>> => Tail(opener.todo) \in Seq(Ids'))
    BY <1>2, TodoStep
  <2>3. opener' \in [pc : {"idle", "list", "tell"}, todo : Seq(Ids')]
    <3>1. CASE opener.todo = <<>>
      <4>1. opener' = [pc |-> "idle", todo |-> <<>>]
        BY <1>11, <3>1 DEF OpenTell
      <4>2. QED BY <2>2, <4>1
    <3>2. CASE opener.todo # <<>>
      <4>1. opener' = [opener EXCEPT !.todo = Tail(opener.todo)]
        BY <1>11, <3>2 DEF OpenTell
      <4>2. QED BY <1>2, <2>2, <3>2, <4>1
    <3>3. QED BY <3>1, <3>2
  <2>4. closer' \in [pc : {"idle", "tell", "join"}, todo : Seq(Ids')]
    BY <1>11, <1>2 DEF OpenTell
  <2>5. ThreadsOK'
    BY <2>1, <2>3, <2>4 DEF Shape, ThreadsOK
  <2>6. Closing'
    BY <1>11 DEF OpenTell, Closing, Shape, ThreadsOK
  <2>7. QED BY <2>5, <2>6
<1>12. ASSUME CloseList
      PROVE  ThreadsOK' /\ Closing'
  <2>1. adm' = adm /\ infos' \in BOOLEAN /\ closing' \in BOOLEAN
    BY <1>12 DEF CloseList, Shape, ThreadsOK
  <2>2. Instances \in Seq(Ids')
    BY <1>2, ListsAll
  <2>3. opener' \in [pc : {"idle", "list", "tell"}, todo : Seq(Ids')]
    BY <1>12, <1>2 DEF CloseList
  <2>4. closer' \in [pc : {"idle", "tell", "join"}, todo : Seq(Ids')]
    BY <1>12, <1>2, <2>2 DEF CloseList
  <2>5. ThreadsOK'
    BY <2>1, <2>3, <2>4 DEF Shape, ThreadsOK
  <2>6. Closing'
    BY <1>12 DEF CloseList, Closing, Shape, ThreadsOK
  <2>7. QED BY <2>5, <2>6
<1>13. ASSUME CloseTell
      PROVE  ThreadsOK' /\ Closing'
  <2>1. adm' = adm /\ infos' \in BOOLEAN /\ closing' \in BOOLEAN
    BY <1>13 DEF CloseTell, Shape, ThreadsOK
  <2>2. <<>> \in Seq(Ids') /\ (closer.todo # <<>> => Tail(closer.todo) \in Seq(Ids'))
    BY <1>2, TodoStep
  <2>3. opener' \in [pc : {"idle", "list", "tell"}, todo : Seq(Ids')]
    BY <1>13, <1>2 DEF CloseTell
  <2>4. closer' \in [pc : {"idle", "tell", "join"}, todo : Seq(Ids')]
    BY <1>13, <1>2, <2>2 DEF CloseTell
  <2>5. ThreadsOK'
    BY <2>1, <2>3, <2>4 DEF Shape, ThreadsOK
  <2>6. Closing'
    BY <1>13 DEF CloseTell, Closing, Shape, ThreadsOK
  <2>7. QED BY <2>5, <2>6
<1>14. ASSUME CloseRemove
      PROVE  ThreadsOK' /\ Closing'
  <2>1. adm' = adm /\ infos' \in BOOLEAN /\ closing' \in BOOLEAN
    BY <1>14 DEF CloseRemove, Shape, ThreadsOK
  <2>2. <<>> \in Seq(Ids')
    OBVIOUS
  <2>3. opener' \in [pc : {"idle", "list", "tell"}, todo : Seq(Ids')]
    BY <1>14, <1>2 DEF CloseRemove
  <2>4. closer' \in [pc : {"idle", "tell", "join"}, todo : Seq(Ids')]
    BY <1>14, <1>2, <2>2 DEF CloseRemove
  <2>5. ThreadsOK'
    BY <2>1, <2>3, <2>4 DEF Shape, ThreadsOK
  <2>6. Closing'
    BY <1>14 DEF CloseRemove, Closing, Shape, ThreadsOK
  <2>7. QED BY <2>5, <2>6
<1>15. ASSUME FrameBegin
      PROVE  ThreadsOK' /\ Closing'
  <2>1. opener' = opener /\ closer' = closer /\ infos' = infos /\ closing' = closing /\ adm' = adm
    BY <1>15 DEF FrameBegin, camera
  <2>2. adm' \in [Admins -> [pc : {"idle", "tell", "unload"}, id : Nat]]
    BY <2>1 DEF Shape, ThreadsOK
  <2>3. QED BY <1>1, <2>1, <2>2, CameraKept
<1>16. ASSUME RunPlugin
      PROVE  ThreadsOK' /\ Closing'
  <2>1. opener' = opener /\ closer' = closer /\ infos' = infos /\ closing' = closing /\ adm' = adm
    BY <1>16 DEF RunPlugin, camera
  <2>2. adm' \in [Admins -> [pc : {"idle", "tell", "unload"}, id : Nat]]
    BY <2>1 DEF Shape, ThreadsOK
  <2>3. QED BY <1>1, <2>1, <2>2, CameraKept
<1>17. ASSUME DisplayPhase
      PROVE  ThreadsOK' /\ Closing'
  <2>1. opener' = opener /\ closer' = closer /\ infos' = infos /\ closing' = closing /\ adm' = adm
    BY <1>17 DEF DisplayPhase, camera
  <2>2. adm' \in [Admins -> [pc : {"idle", "tell", "unload"}, id : Nat]]
    BY <2>1 DEF Shape, ThreadsOK
  <2>3. QED BY <1>1, <2>1, <2>2, CameraKept
<1>18. ASSUME FrameEnd
      PROVE  ThreadsOK' /\ Closing'
  <2>1. opener' = opener /\ closer' = closer /\ infos' = infos /\ closing' = closing /\ adm' = adm
    BY <1>18 DEF FrameEnd, camera
  <2>2. adm' \in [Admins -> [pc : {"idle", "tell", "unload"}, id : Nat]]
    BY <2>1 DEF Shape, ThreadsOK
  <2>3. QED BY <1>1, <2>1, <2>2, CameraKept
<1>19. ASSUME TakePhoto
      PROVE  ThreadsOK' /\ Closing'
  <2>1. opener' = opener /\ closer' = closer /\ infos' = infos /\ closing' = closing /\ adm' = adm
    BY <1>19 DEF TakePhoto, camera
  <2>2. adm' \in [Admins -> [pc : {"idle", "tell", "unload"}, id : Nat]]
    BY <2>1 DEF Shape, ThreadsOK
  <2>3. QED BY <1>1, <2>1, <2>2, CameraKept
<1>20. CASE UNCHANGED vars
  <2>1. opener' = opener /\ closer' = closer /\ infos' = infos /\ closing' = closing /\ adm' = adm
    BY <1>20 DEF vars
  <2>2. adm' \in [Admins -> [pc : {"idle", "tell", "unload"}, id : Nat]]
    BY <2>1 DEF Shape, ThreadsOK
  <2>3. QED BY <1>1, <2>1, <2>2, CameraKept
<1>21. QED
  BY <1>3, <1>4, <1>5, <1>6, <1>7, <1>8, <1>9, <1>10, <1>11, <1>12, <1>13,
     <1>14, <1>15, <1>16, <1>17, <1>18, <1>19, <1>20 DEF Next, Process

-----------------------------------------------------------------------------
(* Every step keeps the frame.                                             *)

FrameType(todos) == [pc : {"idle"} \cup Modes, todo : todos,
                     ran : [1..MaxAdds -> 0..2], moved : SUBSET (1..MaxAdds)]

LEMMA NoFrameType ==
  ASSUME NEW S
  PROVE  NoFrame \in FrameType(Seq(S)) /\ Distinct(NoFrame.todo) /\ NoFrame.pc = "idle"
         /\ NoFrame.todo = <<>>
<1>1. <<>> \in Seq(S) /\ Distinct(<<>>)
  BY DEF Distinct
<1>2. QED BY <1>1 DEF NoFrame, FrameType

LEMMA FrameKept ==
  ASSUME Shape, Runs, Ids \subseteq Ids', frame' = frame
  PROVE  FrameOK' /\ Runs'
<1>1. FrameOK'
  BY ListsStay DEF FrameOK
<1>2. Runs'
  BY DEF Runs, NoFrame
<1>3. QED BY <1>1, <1>2

LEMMA FrameMoved ==
  ASSUME Shape, Runs, Ids \subseteq Ids', NEW ids \in SUBSET (1..MaxAdds), Moved(ids)
  PROVE  FrameOK' /\ Runs'
<1>1. CASE frame.pc = "idle"
  BY <1>1, FrameKept DEF Moved
<1>2. CASE frame.pc # "idle"
  <2>1. frame' = [frame EXCEPT !.moved = @ \cup ids]
    BY <1>2 DEF Moved
  <2>2. frame \in FrameType(Seq(Ids'))
    BY ListsStay DEF FrameType
  <2>3. /\ frame' \in FrameType(Seq(Ids')) /\ frame'.pc = frame.pc
        /\ frame'.todo = frame.todo /\ frame'.ran = frame.ran
    BY <2>1, <2>2 DEF FrameType
  <2>4. FrameOK'
    BY <2>3 DEF FrameOK, FrameType
  <2>5. Runs'
    BY <1>2, <2>3 DEF Runs
  <2>6. QED BY <2>4, <2>5
<1>3. QED BY <1>1, <1>2

\* A frame in progress after the step.
LEMMA FrameSet ==
  ASSUME frame' \in FrameType(Seq(Ids)), Ids' = Ids, frame'.pc # "idle", Distinct(frame'.todo),
         frame'.pc = "pipeline" => /\ \A i \in 1..MaxAdds : frame'.ran[i] <= 1
                                   /\ \A i \in Range(frame'.todo) : frame'.ran[i] = 0,
         frame'.pc = "display" => \A i \in Range(frame'.todo) : frame'.ran[i] <= 1
  PROVE  FrameOK' /\ Runs'
<1>1. FrameOK'
  BY DEF FrameOK, FrameType
<1>2. Runs'
  BY DEF Runs
<1>3. QED BY <1>1, <1>2

\* A list of instances is one of counted instances.
LEMMA ListedCounted ==
  ASSUME Shape, NEW s \in Seq(Ids)
  PROVE  Range(s) \subseteq 1..MaxAdds
<1>1. s \in [1..Len(s) -> Ids] /\ DOMAIN s = 1..Len(s)
  BY LenProperties
<1>2. QED BY <1>1, InstDomain DEF Range

\* A plugin runs: it is counted once more and leaves the list.
LEMMA RunStep ==
  ASSUME Shape, Runs, RunPlugin
  PROVE  LET i == Head(frame.todo)
         IN  /\ frame.todo # <<>> /\ i \in 1..MaxAdds /\ i \in Ids
             /\ frame.pc \in Modes /\ frame'.pc = frame.pc /\ frame'.moved = frame.moved
             /\ frame'.todo = Tail(frame.todo) /\ frame'.todo \in Seq(Ids)
             /\ Distinct(frame'.todo)
             /\ Range(frame.todo) = {i} \cup Range(frame'.todo) /\ i \notin Range(frame'.todo)
             /\ frame'.ran[i] = frame.ran[i] + 1
             /\ \A j \in 1..MaxAdds : j # i => frame'.ran[j] = frame.ran[j]
             /\ frame' \in FrameType(Seq(Ids))
<1> DEFINE i == Head(frame.todo)
<1>1. frame.todo # <<>> /\ frame' = [frame EXCEPT !.todo = Tail(@), !.ran[i] = @ + 1]
  BY DEF RunPlugin
<1>2. frame \in FrameType(Seq(Ids))
  BY DEF Shape, FrameOK, FrameType
<1>3. frame.todo \in Seq(Ids)
  BY <1>2 DEF FrameType
<1>4. /\ i \in Ids /\ Tail(frame.todo) \in Seq(Ids)
      /\ Range(frame.todo) = {i} \cup Range(Tail(frame.todo))
      /\ Distinct(Tail(frame.todo)) /\ i \notin Range(Tail(frame.todo))
  BY <1>1, <1>3, TodoStep DEF Runs
<1>5. i \in 1..MaxAdds
  BY <1>4, InstDomain
<1>6. frame.pc \in Modes
  BY <1>1, <1>2, NoFrameType DEF Runs, FrameType
<1>7. frame.ran[i] \in 0..1
  <2>1. i \in Range(frame.todo) /\ frame.ran[i] \in 0..2
    BY <1>2, <1>4, <1>5 DEF FrameType
  <2>2. frame.ran[i] <= 1
    BY <1>5, <1>6, <2>1 DEF Runs, Modes
  <2>3. QED BY <2>1, <2>2
<1> DEFINE ran == [frame.ran EXCEPT ![i] = @ + 1]
<1>8. ran \in [1..MaxAdds -> 0..2] /\ ran[i] = frame.ran[i] + 1
      /\ \A j \in 1..MaxAdds : j # i => ran[j] = frame.ran[j]
  <2>1. frame.ran \in [1..MaxAdds -> 0..2]
    BY <1>2 DEF FrameType
  <2>2. frame.ran[i] + 1 \in 0..2
    BY <1>7
  <2> HIDE DEF i
  <2>3. QED BY <1>5, <2>1, <2>2
<1>9. /\ frame' \in FrameType(Seq(Ids)) /\ frame'.pc = frame.pc /\ frame'.moved = frame.moved
      /\ frame'.todo = Tail(frame.todo) /\ frame'.ran = ran
  <2>1. frame' = [frame EXCEPT !.todo = Tail(frame.todo), !.ran = ran]
    BY <1>1, <1>2 DEF FrameType
  <2> HIDE DEF ran
  <2>2. QED BY <1>2, <1>4, <1>8, <2>1 DEF FrameType
<1> HIDE DEF ran, i
<1>10. QED BY <1>1, <1>4, <1>5, <1>6, <1>8, <1>9 DEF i

LEMMA FrameStep ==
  ASSUME Shape, Places, Told, Runs, [Next]_vars
  PROVE  FrameOK' /\ Runs'
<1>1. Ids \subseteq Ids'
  BY TablesStep
<1>2. ASSUME NEW a \in Admins, NEW multiple \in BOOLEAN, Add(a, multiple)
      PROVE  FrameOK' /\ Runs'
  <2>1. {Len(inst) + 1} \in SUBSET (1..MaxAdds)
    BY <1>2, AddStep
  <2>2. Moved({Len(inst) + 1})
    BY <1>2 DEF Add
  <2>3. QED BY <1>1, <2>1, <2>2, FrameMoved
<1>3. ASSUME NEW a \in Admins, NEW key \in Keys, TakeOut(a, key)
      PROVE  FrameOK' /\ Runs'
  <2>1. frame' = frame
    BY <1>3 DEF TakeOut
  <2>2. QED BY <1>1, <2>1, FrameKept
<1>4. ASSUME NEW a \in Admins, AddTells(a)
      PROVE  FrameOK' /\ Runs'
  <2>1. frame' = frame
    BY <1>4 DEF AddTells
  <2>2. QED BY <1>1, <2>1, FrameKept
<1>5. ASSUME NEW a \in Admins, RemoveTells(a)
      PROVE  FrameOK' /\ Runs'
  <2>1. frame' = frame
    BY <1>5 DEF RemoveTells
  <2>2. QED BY <1>1, <2>1, FrameKept
<1>6. ASSUME NEW names \in Orders, Reorder(names)
      PROVE  FrameOK' /\ Runs'
  <2>1. frame' = frame
    BY <1>6 DEF Reorder
  <2>2. QED BY <1>1, <2>1, FrameKept
<1>7. ASSUME NEW key \in Keys, NEW mode \in Modes, SetMode(key, mode)
      PROVE  FrameOK' /\ Runs'
  <2>1. key \in DOMAIN local /\ Moved({local[key]})
    BY <1>7 DEF SetMode
  <2>2. {local[key]} \in SUBSET (1..MaxAdds)
    BY <2>1, InstDomain DEF Shape, TablesOK
  <2>3. QED BY <1>1, <2>1, <2>2, FrameMoved
<1>8. ASSUME OpenInsert
      PROVE  FrameOK' /\ Runs'
  <2>1. frame' = frame
    BY <1>8 DEF OpenInsert
  <2>2. QED BY <1>1, <2>1, FrameKept
<1>9. ASSUME OpenList
      PROVE  FrameOK' /\ Runs'
  <2>1. frame' = frame
    BY <1>9 DEF OpenList
  <2>2. QED BY <1>1, <2>1, FrameKept
<1>10. ASSUME OpenTell
      PROVE  FrameOK' /\ Runs'
  <2>1. frame' = frame
    BY <1>10 DEF OpenTell
  <2>2. QED BY <1>1, <2>1, FrameKept
<1>11. ASSUME CloseList
      PROVE  FrameOK' /\ Runs'
  <2>1. frame' = frame
    BY <1>11 DEF CloseList
  <2>2. QED BY <1>1, <2>1, FrameKept
<1>12. ASSUME CloseTell
      PROVE  FrameOK' /\ Runs'
  <2>1. frame' = frame
    BY <1>12 DEF CloseTell
  <2>2. QED BY <1>1, <2>1, FrameKept
<1>13. ASSUME CloseRemove
      PROVE  FrameOK' /\ Runs'
  <2>1. frame' = frame
    BY <1>13 DEF CloseRemove
  <2>2. QED BY <1>1, <2>1, FrameKept
<1>14. ASSUME FrameBegin
      PROVE  FrameOK' /\ Runs'
  <2>1. /\ frame = NoFrame /\ Ids' = Ids
        /\ frame' = [frame EXCEPT !.pc = "pipeline", !.todo = OfMode("pipeline")]
    BY <1>14 DEF FrameBegin, Runs, Ids
  <2>2. "pipeline" \in Modes
    BY DEF Modes
  <2>3. OfMode("pipeline") \in Seq(Ids) /\ Distinct(OfMode("pipeline"))
    BY <2>2, ListsMode
  <2>4. Range(OfMode("pipeline")) \subseteq 1..MaxAdds
    BY <2>3, ListedCounted
  <2>5. /\ frame'.pc = "pipeline" /\ frame'.todo = OfMode("pipeline")
        /\ frame'.ran = frame.ran /\ frame' \in FrameType(Seq(Ids))
    BY <2>1, <2>2, <2>3 DEF Shape, FrameOK, FrameType
  <2>6. \A i \in 1..MaxAdds : frame.ran[i] = 0
    BY <2>1 DEF NoFrame
  <2>7. QED BY <2>1, <2>3, <2>4, <2>5, <2>6, FrameSet
<1>15. ASSUME RunPlugin
      PROVE  FrameOK' /\ Runs'
  <2> DEFINE i == Head(frame.todo)
  <2>1. Ids' = Ids
    BY <1>15 DEF RunPlugin, Ids, Shape, MadeOK
  <2>2. /\ i \in 1..MaxAdds /\ frame.pc \in Modes /\ frame'.pc = frame.pc
        /\ frame'.todo \in Seq(Ids) /\ Distinct(frame'.todo)
        /\ Range(frame.todo) = {i} \cup Range(frame'.todo) /\ i \notin Range(frame'.todo)
        /\ frame'.ran[i] = frame.ran[i] + 1
        /\ \A j \in 1..MaxAdds : j # i => frame'.ran[j] = frame.ran[j]
        /\ frame' \in FrameType(Seq(Ids))
    BY <1>15, RunStep
  <2>3. Range(frame'.todo) \subseteq 1..MaxAdds
    BY <2>2, ListedCounted
  <2> HIDE DEF i
  <2>4. frame'.pc # "idle"
    BY <2>2 DEF Modes
  <2>5. frame'.pc = "pipeline" => /\ \A j \in 1..MaxAdds : frame'.ran[j] <= 1
                                  /\ \A j \in Range(frame'.todo) : frame'.ran[j] = 0
    <3>1. SUFFICES ASSUME frame.pc = "pipeline"
                   PROVE  /\ \A j \in 1..MaxAdds : frame'.ran[j] <= 1
                          /\ \A j \in Range(frame'.todo) : frame'.ran[j] = 0
      BY <2>2
    <3>2. frame.ran[i] = 0
      BY <2>2, <3>1 DEF Runs
    <3>3. \A j \in 1..MaxAdds : frame'.ran[j] <= 1
      BY <2>2, <3>1, <3>2 DEF Runs
    <3>4. QED BY <2>2, <2>3, <3>1, <3>3 DEF Runs
  <2>6. frame'.pc = "display" => \A j \in Range(frame'.todo) : frame'.ran[j] <= 1
    BY <2>2, <2>3 DEF Runs
  <2>7. QED BY <2>1, <2>2, <2>4, <2>5, <2>6, FrameSet
<1>16. ASSUME DisplayPhase
      PROVE  FrameOK' /\ Runs'
  <2>1. /\ frame.pc = "pipeline" /\ Ids' = Ids
        /\ frame' = [frame EXCEPT !.pc = "display", !.todo = OfMode("display")]
    BY <1>16 DEF DisplayPhase, Ids
  <2>2. "display" \in Modes
    BY DEF Modes
  <2>3. OfMode("display") \in Seq(Ids) /\ Distinct(OfMode("display"))
    BY <2>2, ListsMode
  <2>4. Range(OfMode("display")) \subseteq 1..MaxAdds
    BY <2>3, ListedCounted
  <2>5. /\ frame'.pc = "display" /\ frame'.todo = OfMode("display")
        /\ frame'.ran = frame.ran /\ frame' \in FrameType(Seq(Ids))
    BY <2>1, <2>2, <2>3 DEF Shape, FrameOK, FrameType
  <2>6. \A i \in 1..MaxAdds : frame.ran[i] <= 1
    BY <2>1 DEF Runs
  <2>7. QED BY <2>1, <2>3, <2>4, <2>5, <2>6, FrameSet
<1>17. ASSUME FrameEnd
      PROVE  FrameOK' /\ Runs'
  <2>1. frame' = NoFrame
    BY <1>17 DEF FrameEnd
  <2>2. FrameOK'
    BY <2>1, NoFrameType DEF FrameOK, FrameType
  <2>3. Runs'
    BY <2>1, NoFrameType DEF Runs, NoFrame
  <2>4. QED BY <2>2, <2>3
<1>18. ASSUME TakePhoto
      PROVE  FrameOK' /\ Runs'
  <2>1. frame' = frame
    BY <1>18 DEF TakePhoto
  <2>2. QED BY <1>1, <2>1, FrameKept
<1>19. CASE UNCHANGED vars
  <2>1. frame' = frame
    BY <1>19 DEF vars
  <2>2. QED BY <1>1, <2>1, FrameKept
<1>20. QED
  BY <1>2, <1>3, <1>4, <1>5, <1>6, <1>7, <1>8, <1>9, <1>10, <1>11, <1>12,
     <1>13, <1>14, <1>15, <1>16, <1>17, <1>18, <1>19 DEF Next, Process

-----------------------------------------------------------------------------
(* Every step keeps what the plugins hear.                                 *)

LEMMA ToldStep ==
  ASSUME Shape, Places, Told, [Next]_vars
  PROVE  Told'
<1>1. Ids \subseteq Ids'
  BY TablesStep
<1>2. ASSUME NEW a \in Admins, NEW multiple \in BOOLEAN, Add(a, multiple)
      PROVE  Told'
  <2> DEFINE id == Len(inst) + 1
  <2>1. adm' = [adm EXCEPT ![a] = [pc |-> "tell", id |-> id]] /\ id \in Nat
    BY <1>2, InstDomain DEF Add
  <2>2. adm'[a].pc = "tell" /\ adm'[a].id = id /\ \A b \in Admins : b # a => adm'[b] = adm[b]
    BY <2>1, HandlerStep
  <2>3. /\ id \in Ids' /\ id \notin Ids
        /\ \A k \in DOMAIN local' : \/ k \in DOMAIN local /\ local'[k] = local[k]
                                    \/ local'[k] = id
    BY <1>2, AddStep
  <2> HIDE DEF id
  <2>4. QED BY <1>1, <2>2, <2>3 DEF Told
<1>3. ASSUME NEW a \in Admins, NEW key \in Keys, TakeOut(a, key)
      PROVE  Told'
  <2>1. /\ adm' = [adm EXCEPT ![a] = [pc |-> "unload", id |-> local[key]]]
        /\ key \in DOMAIN local /\ local[key] \in Ids /\ local[key] \in Nat
    BY <1>3, InstDomain DEF TakeOut, Shape, TablesOK
  <2>2. /\ adm'[a].pc = "unload" /\ adm'[a].id = local[key]
        /\ \A b \in Admins : b # a => adm'[b] = adm[b]
    BY <2>1, HandlerStep
  <2>3. \A k \in DOMAIN local' : k \in DOMAIN local /\ local'[k] = local[k] /\ k # key
    BY <1>3, TakeOutStep
  <2>4. QED BY <1>1, <2>1, <2>2, <2>3 DEF Told, Places
<1>4. ASSUME NEW a \in Admins, AddTells(a)
      PROVE  Told'
  <2>1. adm' = [adm EXCEPT ![a] = [pc |-> "idle", id |-> 0]] /\ local' = local
    BY <1>4 DEF AddTells, tables
  <2>2. adm'[a].pc = "idle" /\ \A b \in Admins : b # a => adm'[b] = adm[b]
    BY <2>1, HandlerStep
  <2>3. QED BY <1>1, <2>1, <2>2 DEF Told
<1>5. ASSUME NEW a \in Admins, RemoveTells(a)
      PROVE  Told'
  <2>1. adm' = [adm EXCEPT ![a] = [pc |-> "idle", id |-> 0]] /\ local' = local
    BY <1>5 DEF RemoveTells, tables
  <2>2. adm'[a].pc = "idle" /\ \A b \in Admins : b # a => adm'[b] = adm[b]
    BY <2>1, HandlerStep
  <2>3. QED BY <1>1, <2>1, <2>2 DEF Told
<1>6. ASSUME NEW names \in Orders, Reorder(names)
      PROVE  Told'
  <2>1. adm' = adm /\ local' = local
    BY <1>6 DEF Reorder, tables
  <2>2. QED BY <1>1, <2>1 DEF Told
<1>7. ASSUME NEW key \in Keys, NEW mode \in Modes, SetMode(key, mode)
      PROVE  Told'
  <2>1. adm' = adm /\ local' = local
    BY <1>7 DEF SetMode, tables
  <2>2. QED BY <1>1, <2>1 DEF Told
<1>8. ASSUME OpenInsert
      PROVE  Told'
  <2>1. adm' = adm /\ local' = local
    BY <1>8 DEF OpenInsert, tables
  <2>2. QED BY <1>1, <2>1 DEF Told
<1>9. ASSUME OpenList
      PROVE  Told'
  <2>1. adm' = adm /\ local' = local
    BY <1>9 DEF OpenList, tables
  <2>2. QED BY <1>1, <2>1 DEF Told
<1>10. ASSUME OpenTell
      PROVE  Told'
  <2>1. adm' = adm /\ local' = local
    BY <1>10 DEF OpenTell, tables
  <2>2. QED BY <1>1, <2>1 DEF Told
<1>11. ASSUME CloseList
      PROVE  Told'
  <2>1. adm' = adm /\ local' = local
    BY <1>11 DEF CloseList, tables
  <2>2. QED BY <1>1, <2>1 DEF Told
<1>12. ASSUME CloseTell
      PROVE  Told'
  <2>1. adm' = adm /\ local' = local
    BY <1>12 DEF CloseTell, tables
  <2>2. QED BY <1>1, <2>1 DEF Told
<1>13. ASSUME CloseRemove
      PROVE  Told'
  <2>1. adm' = adm /\ local' = local
    BY <1>13 DEF CloseRemove, tables
  <2>2. QED BY <1>1, <2>1 DEF Told
<1>14. ASSUME FrameBegin
      PROVE  Told'
  <2>1. adm' = adm /\ local' = local
    BY <1>14 DEF FrameBegin, tables
  <2>2. QED BY <1>1, <2>1 DEF Told
<1>15. ASSUME RunPlugin
      PROVE  Told'
  <2>1. adm' = adm /\ local' = local
    BY <1>15 DEF RunPlugin, tables
  <2>2. QED BY <1>1, <2>1 DEF Told
<1>16. ASSUME DisplayPhase
      PROVE  Told'
  <2>1. adm' = adm /\ local' = local
    BY <1>16 DEF DisplayPhase, tables
  <2>2. QED BY <1>1, <2>1 DEF Told
<1>17. ASSUME FrameEnd
      PROVE  Told'
  <2>1. adm' = adm /\ local' = local
    BY <1>17 DEF FrameEnd, tables
  <2>2. QED BY <1>1, <2>1 DEF Told
<1>18. ASSUME TakePhoto
      PROVE  Told'
  <2>1. adm' = adm /\ local' = local
    BY <1>18 DEF TakePhoto, tables
  <2>2. QED BY <1>1, <2>1 DEF Told
<1>19. CASE UNCHANGED vars
  <2>1. adm' = adm /\ local' = local
    BY <1>19 DEF vars
  <2>2. QED BY <1>1, <2>1 DEF Told
<1>20. QED
  BY <1>2, <1>3, <1>4, <1>5, <1>6, <1>7, <1>8, <1>9, <1>10, <1>11, <1>12,
     <1>13, <1>14, <1>15, <1>16, <1>17, <1>18, <1>19 DEF Next, Process

LEMMA HearingKept ==
  ASSUME infos' = infos, closing' = closing, opener' = opener, closer' = closer, adm' = adm,
         local' = local, Shape,
         \A i \in Ids : inst'[i].open = inst[i].open /\ inst'[i].late = inst[i].late
  PROVE  /\ WillHearOpen => WillHearOpen'
         /\ WillHearClose => WillHearClose'
<1>1. \A k \in DOMAIN local : local[k] \in Ids
  BY DEF Shape, TablesOK
<1>2. WillHearOpen => WillHearOpen'
  BY <1>1 DEF WillHearOpen
<1>3. WillHearClose => WillHearClose'
  BY <1>1 DEF WillHearClose
<1>4. QED BY <1>2, <1>3

LEMMA HearingStep ==
  ASSUME Shape, Places, Told, Closing, Runs, WillHearOpen, WillHearClose, [Next]_vars
  PROVE  WillHearOpen' /\ WillHearClose'
<1>1. \A k \in DOMAIN local : local[k] \in Ids
  BY DEF Shape, TablesOK
<1>2. ASSUME NEW a \in Admins, NEW multiple \in BOOLEAN, Add(a, multiple)
      PROVE  WillHearOpen' /\ WillHearClose'
  <2> DEFINE id == Len(inst) + 1
  <2>1. /\ infos' = infos /\ closing' = closing /\ opener' = opener /\ closer' = closer
        /\ adm[a].pc = "idle" /\ adm' = [adm EXCEPT ![a] = [pc |-> "tell", id |-> id]]
        /\ id \in Nat
    BY <1>2, InstDomain DEF Add, camera
  <2>2. adm'[a].pc = "tell" /\ adm'[a].id = id /\ \A b \in Admins : b # a => adm'[b] = adm[b]
    BY <2>1, HandlerStep
  <2>3. /\ \A i \in Ids : inst'[i] = inst[i]
        /\ ~inst'[id].open
        /\ \A k \in DOMAIN local' : \/ k \in DOMAIN local /\ local'[k] = local[k]
                                    \/ local'[k] = id
    BY <1>2, AddStep
  <2> HIDE DEF id
  <2>4. WillHearOpen'
    BY <1>1, <2>1, <2>2, <2>3 DEF WillHearOpen
  <2>5. WillHearClose'
    BY <1>1, <2>1, <2>3 DEF WillHearClose
  <2>6. QED BY <2>4, <2>5
<1>3. ASSUME NEW a \in Admins, NEW key \in Keys, TakeOut(a, key)
      PROVE  WillHearOpen' /\ WillHearClose'
  <2>1. /\ infos' = infos /\ closing' = closing /\ opener' = opener /\ closer' = closer
        /\ adm[a].pc = "idle" /\ inst' = inst
        /\ adm' = [adm EXCEPT ![a] = [pc |-> "unload", id |-> local[key]]]
        /\ local[key] \in Nat
    BY <1>3, <1>1, InstDomain DEF TakeOut, camera
  <2>2. \A b \in Admins : b # a => adm'[b] = adm[b]
    BY <2>1, HandlerStep
  <2>3. \A k \in DOMAIN local' : k \in DOMAIN local /\ local'[k] = local[k]
    BY <1>3, TakeOutStep
  <2>4. WillHearOpen'
    BY <2>1, <2>2, <2>3 DEF WillHearOpen
  <2>5. WillHearClose'
    BY <2>1, <2>3 DEF WillHearClose
  <2>6. QED BY <2>4, <2>5
<1>4. ASSUME NEW a \in Admins, AddTells(a)
      PROVE  WillHearOpen' /\ WillHearClose'
  <2>1. /\ infos' = infos /\ closing' = closing /\ opener' = opener /\ closer' = closer
        /\ local' = local /\ adm[a].pc = "tell" /\ adm[a].id \in Ids
        /\ adm' = [adm EXCEPT ![a] = [pc |-> "idle", id |-> 0]]
        /\ inst' = IF infos THEN HearOpen(adm[a].id) ELSE inst
    BY <1>4 DEF AddTells, tables, camera, Told
  <2>2. \A b \in Admins : b # a => adm'[b] = adm[b]
    BY <2>1, HandlerStep
  <2>3. CASE infos
    <3>1. /\ inst'[adm[a].id].open /\ inst'[adm[a].id].late = (closing \/ ~infos)
          /\ \A j \in Ids : j # adm[a].id => inst'[j] = inst[j]
      BY <2>1, <2>3, HearOpenStep
    <3>2. WillHearOpen'
      BY <1>1, <2>1, <2>2, <3>1 DEF WillHearOpen
    <3>3. WillHearClose'
      BY <1>1, <2>1, <3>1 DEF WillHearClose
    <3>4. QED BY <3>2, <3>3
  <2>4. CASE ~infos
    <3>1. WillHearOpen'
      BY <2>1, <2>4 DEF WillHearOpen
    <3>2. WillHearClose'
      BY <2>1, <2>4 DEF WillHearClose
    <3>3. QED BY <3>1, <3>2
  <2>5. QED BY <2>3, <2>4
<1>5. ASSUME NEW a \in Admins, RemoveTells(a)
      PROVE  WillHearOpen' /\ WillHearClose'
  <2>1. /\ infos' = infos /\ closing' = closing /\ opener' = opener /\ closer' = closer
        /\ local' = local /\ adm[a].pc = "unload" /\ adm[a].id \in Ids
        /\ adm' = [adm EXCEPT ![a] = [pc |-> "idle", id |-> 0]]
        /\ inst' = HearClose(adm[a].id)
    BY <1>5 DEF RemoveTells, tables, camera, Told
  <2>2. \A b \in Admins : b # a => adm'[b] = adm[b]
    BY <2>1, HandlerStep
  <2>3. \A j \in Ids : j # adm[a].id => inst'[j] = inst[j]
    BY <2>1, HearCloseStep
  <2>4. \A k \in DOMAIN local : local[k] # adm[a].id
    BY <2>1 DEF Told
  <2>5. WillHearOpen'
    BY <1>1, <2>1, <2>2, <2>3, <2>4 DEF WillHearOpen
  <2>6. WillHearClose'
    BY <1>1, <2>1, <2>3, <2>4 DEF WillHearClose
  <2>7. QED BY <2>5, <2>6
<1>6. ASSUME NEW names \in Orders, Reorder(names)
      PROVE  WillHearOpen' /\ WillHearClose'
  <2>1. infos' = infos /\ closing' = closing /\ opener' = opener /\ closer' = closer
        /\ adm' = adm /\ local' = local /\ inst' = inst
    BY <1>6 DEF Reorder, tables, camera
  <2>2. QED BY <2>1, HearingKept
<1>7. ASSUME NEW key \in Keys, NEW mode \in Modes, SetMode(key, mode)
      PROVE  WillHearOpen' /\ WillHearClose'
  <2>1. infos' = infos /\ closing' = closing /\ opener' = opener /\ closer' = closer
        /\ adm' = adm /\ local' = local /\ inst' = inst
    BY <1>7 DEF SetMode, tables, camera
  <2>2. QED BY <2>1, HearingKept
<1>8. ASSUME OpenInsert
      PROVE  WillHearOpen' /\ WillHearClose'
  <2>1. /\ local' = local /\ infos' = TRUE /\ closing' = closing /\ ~infos
        /\ opener'.pc = "list"
    BY <1>8 DEF OpenInsert, tables, Shape, ThreadsOK
  <2>2. ~closing
    BY <2>1 DEF Closing
  <2>3. WillHearOpen'
    BY <2>1 DEF WillHearOpen
  <2>4. WillHearClose'
    BY <2>1, <2>2 DEF WillHearClose
  <2>5. QED BY <2>3, <2>4
<1>9. ASSUME OpenList
      PROVE  WillHearOpen' /\ WillHearClose'
  <2>1. /\ local' = local /\ infos' = infos /\ closing' = closing /\ closer' = closer
        /\ inst' = inst /\ opener' = [pc |-> "tell", todo |-> Instances]
    BY <1>9 DEF OpenList, tables
  <2>2. opener'.pc = "tell" /\ \A k \in DOMAIN local : local[k] \in Range(opener'.todo)
    BY <2>1, ListsAll
  <2>3. WillHearOpen'
    BY <2>1, <2>2 DEF WillHearOpen
  <2>4. WillHearClose'
    BY <2>1 DEF WillHearClose
  <2>5. QED BY <2>3, <2>4
<1>10. ASSUME OpenTell
      PROVE  WillHearOpen' /\ WillHearClose'
  <2>1. /\ local' = local /\ infos' = infos /\ closing' = closing /\ closer' = closer
        /\ adm' = adm /\ opener.pc = "tell"
    BY <1>10 DEF OpenTell, tables
  <2>2. CASE opener.todo = <<>>
    <3>1. inst' = inst /\ Range(opener.todo) = {}
      BY <1>10, <2>2 DEF OpenTell, Range
    <3>2. WillHearOpen'
      BY <2>1, <3>1 DEF WillHearOpen
    <3>3. WillHearClose'
      BY <2>1, <3>1 DEF WillHearClose
    <3>4. QED BY <3>2, <3>3
  <2>3. CASE opener.todo # <<>>
    <3> DEFINE i == Head(opener.todo)
    <3>1. inst' = HearOpen(i) /\ opener' = [opener EXCEPT !.todo = Tail(opener.todo)]
      BY <1>10, <2>3 DEF OpenTell
    <3>2. i \in Ids /\ Range(opener.todo) = {i} \cup Range(Tail(opener.todo))
      BY <2>3, TodoStep DEF Shape, ThreadsOK
    <3>3. opener'.pc = "tell" /\ opener'.todo = Tail(opener.todo)
      BY <2>1, <3>1 DEF Shape, ThreadsOK
    <3>4. /\ inst'[i].open /\ inst'[i].late = (closing \/ ~infos)
          /\ \A j \in Ids : j # i => inst'[j] = inst[j]
      BY <3>1, <3>2, HearOpenStep
    <3> HIDE DEF i
    <3>5. WillHearOpen'
      BY <1>1, <2>1, <3>2, <3>3, <3>4 DEF WillHearOpen
    <3>6. WillHearClose'
      BY <1>1, <2>1, <3>4 DEF WillHearClose
    <3>7. QED BY <3>5, <3>6
  <2>4. QED BY <2>2, <2>3
<1>11. ASSUME CloseList
      PROVE  WillHearOpen' /\ WillHearClose'
  <2>1. /\ local' = local /\ infos' = infos /\ closing' = TRUE
        /\ inst' = inst /\ closer' = [pc |-> "tell", todo |-> Instances]
    BY <1>11 DEF CloseList, tables
  <2>2. closer'.pc = "tell" /\ \A k \in DOMAIN local : local[k] \in Range(closer'.todo)
    BY <2>1, ListsAll
  <2>3. WillHearOpen'
    BY <2>1 DEF WillHearOpen
  <2>4. WillHearClose'
    BY <2>1, <2>2 DEF WillHearClose
  <2>5. QED BY <2>3, <2>4
<1>12. ASSUME CloseTell
      PROVE  WillHearOpen' /\ WillHearClose'
  <2>1. /\ local' = local /\ infos' = infos /\ closing' = closing /\ opener' = opener
        /\ closer.pc = "tell" /\ closing
    BY <1>12 DEF CloseTell, tables, Closing
  <2>2. WillHearOpen'
    BY <2>1 DEF WillHearOpen
  <2>3. CASE closer.todo = <<>>
    <3>1. inst' = inst /\ Range(closer.todo) = {}
      BY <1>12, <2>3 DEF CloseTell, Range
    <3>2. WillHearClose'
      BY <2>1, <3>1 DEF WillHearClose
    <3>3. QED BY <2>2, <3>2
  <2>4. CASE closer.todo # <<>>
    <3> DEFINE i == Head(closer.todo)
    <3>1. inst' = HearClose(i) /\ closer' = [closer EXCEPT !.todo = Tail(closer.todo)]
      BY <1>12, <2>4 DEF CloseTell
    <3>2. i \in Ids /\ Range(closer.todo) = {i} \cup Range(Tail(closer.todo))
      BY <2>4, TodoStep DEF Shape, ThreadsOK
    <3>3. closer'.pc = "tell" /\ closer'.todo = Tail(closer.todo)
      BY <2>1, <3>1 DEF Shape, ThreadsOK
    <3>4. ~inst'[i].open /\ \A j \in Ids : j # i => inst'[j] = inst[j]
      BY <3>1, <3>2, HearCloseStep
    <3> HIDE DEF i
    <3>5. WillHearClose'
      BY <1>1, <2>1, <3>2, <3>3, <3>4 DEF WillHearClose
    <3>6. QED BY <2>2, <3>5
  <2>5. QED BY <2>3, <2>4
<1>13. ASSUME CloseRemove
      PROVE  WillHearOpen' /\ WillHearClose'
  <2>1. /\ local' = local /\ infos' = FALSE /\ inst' = inst
        /\ closer.pc = "join" /\ closing
    BY <1>13 DEF CloseRemove, tables, Closing
  <2>2. WillHearOpen'
    BY <2>1 DEF WillHearOpen
  <2>3. WillHearClose'
    BY <2>1 DEF WillHearClose
  <2>4. QED BY <2>2, <2>3
<1>14. ASSUME FrameBegin
      PROVE  WillHearOpen' /\ WillHearClose'
  <2>1. infos' = infos /\ closing' = closing /\ opener' = opener /\ closer' = closer
        /\ adm' = adm /\ local' = local /\ inst' = inst
    BY <1>14 DEF FrameBegin, tables, camera
  <2>2. QED BY <2>1, HearingKept
<1>15. ASSUME RunPlugin
      PROVE  WillHearOpen' /\ WillHearClose'
  <2>1. infos' = infos /\ closing' = closing /\ opener' = opener /\ closer' = closer
        /\ adm' = adm /\ local' = local
        /\ inst' = [inst EXCEPT ![Head(frame.todo)].pending = FALSE]
    BY <1>15 DEF RunPlugin, tables, camera
  <2>2. Head(frame.todo) \in Ids
    BY <1>15, RunStep
  <2>3. \A j \in Ids : inst'[j].open = inst[j].open /\ inst'[j].late = inst[j].late
    BY <2>1, <2>2, PendingStep
  <2>4. QED BY <2>1, <2>3, HearingKept
<1>16. ASSUME DisplayPhase
      PROVE  WillHearOpen' /\ WillHearClose'
  <2>1. infos' = infos /\ closing' = closing /\ opener' = opener /\ closer' = closer
        /\ adm' = adm /\ local' = local /\ inst' = inst
    BY <1>16 DEF DisplayPhase, tables, camera
  <2>2. QED BY <2>1, HearingKept
<1>17. ASSUME FrameEnd
      PROVE  WillHearOpen' /\ WillHearClose'
  <2>1. infos' = infos /\ closing' = closing /\ opener' = opener /\ closer' = closer
        /\ adm' = adm /\ local' = local /\ inst' = inst
    BY <1>17 DEF FrameEnd, tables, camera
  <2>2. QED BY <2>1, HearingKept
<1>18. ASSUME TakePhoto
      PROVE  WillHearOpen' /\ WillHearClose'
  <2>1. infos' = infos /\ closing' = closing /\ opener' = opener /\ closer' = closer
        /\ adm' = adm /\ local' = local /\ Photo \in DOMAIN local
        /\ inst' = [inst EXCEPT ![local[Photo]].pending = TRUE]
    BY <1>18 DEF TakePhoto, tables, camera
  <2>2. \A j \in Ids : inst'[j].open = inst[j].open /\ inst'[j].late = inst[j].late
    BY <1>1, <2>1, PendingStep
  <2>3. QED BY <2>1, <2>2, HearingKept
<1>19. CASE UNCHANGED vars
  <2>1. infos' = infos /\ closing' = closing /\ opener' = opener /\ closer' = closer
        /\ adm' = adm /\ local' = local /\ inst' = inst
    BY <1>19 DEF vars
  <2>2. QED BY <2>1, HearingKept
<1>20. QED
  BY <1>2, <1>3, <1>4, <1>5, <1>6, <1>7, <1>8, <1>9, <1>10, <1>11, <1>12,
     <1>13, <1>14, <1>15, <1>16, <1>17, <1>18, <1>19 DEF Next, Process

-----------------------------------------------------------------------------
(* Every step keeps the progress of the frame.                             *)

\* Nothing the frame knows changes, but for what moved.
SameFrame == /\ frame'.pc = frame.pc /\ frame'.todo = frame.todo /\ frame'.ran = frame.ran
             /\ frame.moved \subseteq frame'.moved

LEMMA MovedFrame ==
  ASSUME Shape, NEW ids, Moved(ids)
  PROVE  SameFrame /\ (frame.pc # "idle" => ids \subseteq frame'.moved)
<1>1. CASE frame.pc = "idle"
  BY <1>1 DEF Moved, SameFrame
<1>2. CASE frame.pc # "idle"
  <2>1. frame' = [frame EXCEPT !.moved = @ \cup ids]
    BY <1>2 DEF Moved
  <2>2. QED BY <2>1 DEF Shape, FrameOK, SameFrame
<1>3. QED BY <1>1, <1>2

LEMMA ProgressCarried ==
  ASSUME Progress, Carried, SameFrame
  PROVE  Progress'
<1>1. SUFFICES ASSUME NEW p \in DOMAIN pipeline', frame.pc # "idle",
                      local'[pipeline'[p].key] \notin frame'.moved
               PROVE  \E q \in DOMAIN pipeline :
                        /\ local'[pipeline'[p].key] = local[pipeline[q].key]
                        /\ pipeline'[p].mode = pipeline[q].mode
                        /\ local[pipeline[q].key] \notin frame.moved
  BY DEF Progress, SameFrame
<1>2. PICK q \in DOMAIN pipeline :
        /\ local'[pipeline'[p].key] = local[pipeline[q].key]
        /\ \/ pipeline'[p].mode = pipeline[q].mode
           \/ frame.pc # "idle" => local[pipeline[q].key] \in frame'.moved
  BY DEF Carried
<1>3. QED BY <1>1, <1>2 DEF SameFrame

LEMMA ProgressKept ==
  ASSUME Progress, local' = local, pipeline' = pipeline, frame' = frame
  PROVE  Progress'
  BY DEF Progress

LEMMA ProgressStep ==
  ASSUME Shape, Places, Runs, Progress, [Next]_vars
  PROVE  Progress'
<1>1. \A p \in DOMAIN pipeline : local[pipeline[p].key] \in 1..MaxAdds
  BY Owned, InstDomain
<1>2. ASSUME NEW a \in Admins, NEW multiple \in BOOLEAN, Add(a, multiple)
      PROVE  Progress'
  <2> DEFINE id == Len(inst) + 1
  <2>1. Moved({id})
    BY <1>2 DEF Add
  <2>2. SameFrame /\ (frame.pc # "idle" => id \in frame'.moved)
    BY <2>1, MovedFrame
  <2>3. \A p \in DOMAIN pipeline' :
          \/ p \in DOMAIN pipeline /\ pipeline'[p] = pipeline[p]
             /\ local'[pipeline'[p].key] = local[pipeline[p].key]
          \/ local'[pipeline'[p].key] = id
    BY <1>2, AddStep
  <2> HIDE DEF id
  <2>4. QED BY <2>2, <2>3 DEF Progress, SameFrame
<1>3. ASSUME NEW a \in Admins, NEW key \in Keys, TakeOut(a, key)
      PROVE  Progress'
  <2>1. SameFrame
    BY <1>3 DEF TakeOut, SameFrame
  <2>2. QED BY <1>3, <2>1, TakeOutStep, ProgressCarried
<1>4. ASSUME NEW a \in Admins, AddTells(a)
      PROVE  Progress'
  <2>1. local' = local /\ pipeline' = pipeline /\ frame' = frame
    BY <1>4 DEF AddTells, tables
  <2>2. QED BY <2>1, ProgressKept
<1>5. ASSUME NEW a \in Admins, RemoveTells(a)
      PROVE  Progress'
  <2>1. local' = local /\ pipeline' = pipeline /\ frame' = frame
    BY <1>5 DEF RemoveTells, tables
  <2>2. QED BY <2>1, ProgressKept
<1>6. ASSUME NEW names \in Orders, Reorder(names)
      PROVE  Progress'
  <2>1. SameFrame
    BY <1>6 DEF Reorder, SameFrame
  <2>2. QED BY <1>6, <2>1, ReorderStep, ProgressCarried
<1>7. ASSUME NEW key \in Keys, NEW mode \in Modes, SetMode(key, mode)
      PROVE  Progress'
  <2>1. SameFrame
    BY <1>7, MovedFrame DEF SetMode
  <2>2. QED BY <1>7, <2>1, SetModeStep, ProgressCarried
<1>8. ASSUME OpenInsert
      PROVE  Progress'
  <2>1. local' = local /\ pipeline' = pipeline /\ frame' = frame
    BY <1>8 DEF OpenInsert, tables
  <2>2. QED BY <2>1, ProgressKept
<1>9. ASSUME OpenList
      PROVE  Progress'
  <2>1. local' = local /\ pipeline' = pipeline /\ frame' = frame
    BY <1>9 DEF OpenList, tables
  <2>2. QED BY <2>1, ProgressKept
<1>10. ASSUME OpenTell
      PROVE  Progress'
  <2>1. local' = local /\ pipeline' = pipeline /\ frame' = frame
    BY <1>10 DEF OpenTell, tables
  <2>2. QED BY <2>1, ProgressKept
<1>11. ASSUME CloseList
      PROVE  Progress'
  <2>1. local' = local /\ pipeline' = pipeline /\ frame' = frame
    BY <1>11 DEF CloseList, tables
  <2>2. QED BY <2>1, ProgressKept
<1>12. ASSUME CloseTell
      PROVE  Progress'
  <2>1. local' = local /\ pipeline' = pipeline /\ frame' = frame
    BY <1>12 DEF CloseTell, tables
  <2>2. QED BY <2>1, ProgressKept
<1>13. ASSUME CloseRemove
      PROVE  Progress'
  <2>1. local' = local /\ pipeline' = pipeline /\ frame' = frame
    BY <1>13 DEF CloseRemove, tables
  <2>2. QED BY <2>1, ProgressKept
<1>14. ASSUME FrameBegin
      PROVE  Progress'
  <2>1. /\ local' = local /\ pipeline' = pipeline /\ frame = NoFrame
        /\ frame' = [frame EXCEPT !.pc = "pipeline", !.todo = OfMode("pipeline")]
    BY <1>14 DEF FrameBegin, Runs, tables
  <2>2. /\ frame'.pc = "pipeline" /\ frame'.todo = OfMode("pipeline")
        /\ \A i \in 1..MaxAdds : frame'.ran[i] = 0
    BY <2>1 DEF NoFrame
  <2>3. "pipeline" \in Modes
    BY DEF Modes
  <2>4. \A p \in DOMAIN pipeline :
          local[pipeline[p].key] \in Range(frame'.todo) <=> pipeline[p].mode = "pipeline"
    BY <2>2, <2>3, ListsMode
  <2>5. QED BY <1>1, <2>1, <2>2, <2>4 DEF Progress
<1>15. ASSUME RunPlugin
      PROVE  Progress'
  <2> DEFINE i == Head(frame.todo)
  <2>1. /\ i \in 1..MaxAdds /\ frame.pc \in Modes /\ frame'.pc = frame.pc
        /\ frame'.moved = frame.moved
        /\ Range(frame.todo) = {i} \cup Range(frame'.todo) /\ i \notin Range(frame'.todo)
        /\ frame'.ran[i] = frame.ran[i] + 1
        /\ \A j \in 1..MaxAdds : j # i => frame'.ran[j] = frame.ran[j]
    BY <1>15, RunStep
  <2>2. local' = local /\ pipeline' = pipeline
    BY <1>15 DEF RunPlugin, tables
  <2> HIDE DEF i
  <2>3. QED BY <1>1, <2>1, <2>2 DEF Progress
<1>16. ASSUME DisplayPhase
      PROVE  Progress'
  <2>1. /\ local' = local /\ pipeline' = pipeline
        /\ frame.pc = "pipeline" /\ frame.todo = <<>>
        /\ frame' = [frame EXCEPT !.pc = "display", !.todo = OfMode("display")]
    BY <1>16 DEF DisplayPhase, tables
  <2>2. /\ frame'.pc = "display" /\ frame'.todo = OfMode("display")
        /\ frame'.ran = frame.ran /\ frame'.moved = frame.moved
    BY <2>1 DEF Shape, FrameOK
  <2>3. "display" \in Modes
    BY DEF Modes
  <2>4. \A p \in DOMAIN pipeline :
          local[pipeline[p].key] \in Range(frame'.todo) <=> pipeline[p].mode = "display"
    BY <2>2, <2>3, ListsMode
  <2>5. Range(frame.todo) = {}
    BY <2>1 DEF Range
  <2>6. \A p \in DOMAIN pipeline : pipeline[p].mode \in {"pipeline", "display"}
    BY PipelineDomain DEF Modes
  <2>7. QED BY <2>1, <2>2, <2>4, <2>5, <2>6 DEF Progress
<1>17. ASSUME FrameEnd
      PROVE  Progress'
  <2>1. frame'.pc = "idle"
    BY <1>17, NoFrameType DEF FrameEnd
  <2>2. QED BY <2>1 DEF Progress
<1>18. ASSUME TakePhoto
      PROVE  Progress'
  <2>1. local' = local /\ pipeline' = pipeline /\ frame' = frame
    BY <1>18 DEF TakePhoto, tables
  <2>2. QED BY <2>1, ProgressKept
<1>19. CASE UNCHANGED vars
  <2>1. local' = local /\ pipeline' = pipeline /\ frame' = frame
    BY <1>19 DEF vars
  <2>2. QED BY <2>1, ProgressKept
<1>20. QED
  BY <1>2, <1>3, <1>4, <1>5, <1>6, <1>7, <1>8, <1>9, <1>10, <1>11, <1>12,
     <1>13, <1>14, <1>15, <1>16, <1>17, <1>18, <1>19 DEF Next, Process

-----------------------------------------------------------------------------
(* Theorems.                                                               *)

LEMMA PipeInit ==
  ASSUME Init
  PROVE  PipeInv
<1>1. Ids = {} /\ DOMAIN local = {} /\ DOMAIN pipeline = {} /\ Len(inst) = 0
  BY DEF Init, Ids
<1>2. TablesOK
  BY <1>1 DEF Init, TablesOK
<1>3. MadeOK
  BY <1>1, PipelineAssumption DEF Init, MadeOK
<1>4. ThreadsOK
  <2>1. <<>> \in Seq(Ids)
    OBVIOUS
  <2>2. /\ opener = [pc |-> "idle", todo |-> <<>>] /\ closer = [pc |-> "idle", todo |-> <<>>]
        /\ adm = [a \in Admins |-> [pc |-> "idle", id |-> 0]]
        /\ infos = FALSE /\ closing = FALSE
    BY DEF Init
  <2>3. adm \in [Admins -> [pc : {"idle", "tell", "unload"}, id : Nat]]
    BY <2>2
  <2>4. /\ opener \in [pc : {"idle", "list", "tell"}, todo : Seq(Ids)]
        /\ closer \in [pc : {"idle", "tell", "join"}, todo : Seq(Ids)]
    BY <2>1, <2>2
  <2>5. QED BY <2>2, <2>3, <2>4 DEF ThreadsOK
<1>5. FrameOK /\ Runs /\ frame.pc = "idle"
  BY NoFrameType DEF Init, FrameOK, FrameType, Runs
<1>6. Places
  BY <1>1 DEF Places, KeysOf
<1>7. Told /\ Closing
  BY DEF Init, Told, Closing
<1>8. WillHearOpen /\ WillHearClose /\ Progress
  BY <1>1 DEF WillHearOpen, WillHearClose, Progress
<1>9. QED BY <1>2, <1>3, <1>4, <1>5, <1>6, <1>7, <1>8 DEF PipeInv, Shape

LEMMA PipeStep ==
  ASSUME PipeInv, [Next]_vars
  PROVE  PipeInv'
<1>1. /\ Shape /\ Places /\ Told /\ Closing /\ WillHearOpen /\ WillHearClose
      /\ Runs /\ Progress
  BY DEF PipeInv
<1>2. TablesOK' /\ Places' /\ MadeOK'
  BY <1>1, TablesStep
<1>3. ThreadsOK' /\ Closing'
  BY <1>1, ThreadsStep
<1>4. FrameOK' /\ Runs'
  BY <1>1, FrameStep
<1>5. Told'
  BY <1>1, ToldStep
<1>6. WillHearOpen' /\ WillHearClose'
  BY <1>1, HearingStep
<1>7. Progress'
  BY <1>1, ProgressStep
<1>8. QED BY <1>2, <1>3, <1>4, <1>5, <1>6, <1>7 DEF PipeInv, Shape

\* The inductive invariant holds for any number of admins, keys and instances.
THEOREM PipelineInvariant == Spec => []PipeInv
<1>1. Init => PipeInv
  BY PipeInit
<1>2. PipeInv /\ [Next]_vars => PipeInv'
  BY PipeStep
<1>3. QED BY <1>1, <1>2, PTL DEF Spec

\* The state keeps the shape of the code's, and a plugin sees a frame at most twice.
THEOREM PipelineTypes == Spec => []TypeOK
<1>1. PipeInv => TypeOK
  <2>1. SUFFICES ASSUME PipeInv PROVE TypeOK
    OBVIOUS
  <2>2. Shape
    BY <2>1 DEF PipeInv
  <2>3. /\ DOMAIN local \subseteq Keys /\ \A k \in DOMAIN local : local[k] \in Ids
    BY <2>2 DEF Shape, TablesOK
  <2>4. \A i \in DOMAIN pipeline : pipeline[i] \in Entries(Keys)
    BY <2>2, PipelineDomain
  <2>5. /\ infos \in BOOLEAN /\ closing \in BOOLEAN
        /\ opener.pc \in {"idle", "list", "tell"} /\ closer.pc \in {"idle", "tell", "join"}
        /\ \A a \in Admins : adm[a].pc \in {"idle", "tell", "unload"}
    BY <2>2 DEF Shape, ThreadsOK
  <2>6. /\ frame.pc \in {"idle"} \cup Modes /\ frame.moved \subseteq 1..MaxAdds
        /\ \A i \in 1..MaxAdds : frame.ran[i] \in 0..2
    BY <2>2 DEF Shape, FrameOK
  <2>7. QED BY <2>3, <2>4, <2>5, <2>6 DEF TypeOK
<1>2. QED BY <1>1, PipelineInvariant, PTL

\* Whatever stale order a browser sends, and whoever adds or removes meanwhile, the
\* pipeline lists every instance of the camera exactly once.
THEOREM EveryPluginHasAPlace == Spec => []PipelineListsAll
<1>1. PipeInv => PipelineListsAll
  <2>1. SUFFICES ASSUME PipeInv PROVE PipelineListsAll
    OBVIOUS
  <2>2. Shape /\ Places
    BY <2>1 DEF PipeInv
  <2> DEFINE f == [p \in 1..Len(pipeline) |-> pipeline[p].key]
  <2>3. DOMAIN pipeline = 1..Len(pipeline) /\ Len(pipeline) \in Nat
    BY <2>2, PipelineDomain
  <2>4. f \in Bijection(1..Len(pipeline), DOMAIN local)
    <3>1. f \in [1..Len(pipeline) -> DOMAIN local]
      BY <2>2, <2>3, Owned
    <3>2. \A p, q \in 1..Len(pipeline) : f[p] = f[q] => p = q
      BY <2>2, <2>3 DEF Places
    <3>3. \A k \in DOMAIN local : \E p \in 1..Len(pipeline) : f[p] = k
      BY <2>2, <2>3 DEF Places, KeysOf
    <3> HIDE DEF f
    <3>4. QED BY <3>1, <3>2, <3>3 DEF Bijection, Injection, Surjection, IsInjective
  <2>5. ExistsBijection(1..Len(pipeline), DOMAIN local)
    BY <2>4 DEF ExistsBijection
  <2>6. Cardinality(DOMAIN local) = Len(pipeline)
    BY <2>3, <2>5, FS_CountingElements
  <2>7. QED BY <2>2, <2>6 DEF Places, PipelineListsAll
<1>2. QED BY <1>1, PipelineInvariant, PTL

\* When nothing is under way every plugin works for an open camera and none for a
\* closed one, but those told of the open after the close began.
THEOREM PluginsHearTheCamera == Spec => []HearsCamera
<1>1. PipeInv => HearsCamera
  <2>1. SUFFICES ASSUME PipeInv, Quiet PROVE OpenHeard /\ CloseHeard
    BY DEF HearsCamera
  <2>2. OpenHeard
    BY <2>1 DEF PipeInv, WillHearOpen, OpenHeard, Quiet
  <2>3. CloseHeard
    BY <2>1 DEF PipeInv, WillHearClose, CloseHeard, Quiet
  <2>4. QED BY <2>2, <2>3
<1>2. QED BY <1>1, PipelineInvariant, PTL

\* A frame has passed every plugin that stayed where it was exactly once.
THEOREM FramePassesOnce == Spec => []OncePerFrame
<1>1. PipeInv => OncePerFrame
  <2>1. SUFFICES ASSUME PipeInv, frame.pc = "display", frame.todo = <<>>,
                        NEW k \in DOMAIN local, local[k] \notin frame.moved
                 PROVE  frame.ran[local[k]] = 1
    BY DEF OncePerFrame
  <2>2. PICK p \in DOMAIN pipeline : pipeline[p].key = k
    BY <2>1 DEF PipeInv, Places, KeysOf
  <2>3. Range(frame.todo) = {}
    BY <2>1 DEF Range
  <2>4. QED BY <2>1, <2>2, <2>3 DEF PipeInv, Progress
<1>2. QED BY <1>1, PipelineInvariant, PTL
=============================================================================

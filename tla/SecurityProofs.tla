--------------------------- MODULE SecurityProofs ---------------------------
(***************************************************************************)
(* For any addresses, requests and faults: a restart brings back the tables  *)
(* unless their last save failed; an address at its limit is blocked until   *)
(* an unsaved change is lost; the log keeps what was written.  The composition with   *)
(* the sessions, Access, implements Security, so it inherits them; and the   *)
(* last viewer's departure is announced, every revoked one is on a list.     *)
(***************************************************************************)
EXTENDS Access, FiniteSetTheorems, TLAPS

\* A request that waits for its password has an address; one that logs has an entry.
Requests ==
  \A w \in Workers : /\ req[w].pc = "passed" => req[w].ip \in Ips
                     /\ req[w].pc \in Logging => req[w].entries > 0

\* The holder of the lock is the request that saves; a process that is down has none.
Holder ==
  /\ \A w \in Workers : lock = w <=> req[w].pc \in {"save", "write"}
  /\ ~up => \A w \in Workers : req[w] = Idle

\* Until a crash or a blind start forgets failures, the tables, and while the process
\* is down the file, count those of a lifetime.
Remembered ==
  ~forgotten => lifetime = IF up THEN memory.fails ELSE Recovered.fails

Types   == TypeOK /\ Requests
DiskInv == Types /\ Holder /\ DiskMatches /\ Remembered
-----------------------------------------------------------------------------
(* Types. *)

LEMMA IdleTypes == Idle \in Reqs /\ Idle.pc = "idle" /\ Clean \in States
BY SecurityAssumption DEF Idle, Reqs, Pcs, Logging, Clean, States

\* Where Then leaves a request.
LEMMA ThenTypes ==
  ASSUME NEW r \in Reqs, NEW n \in 0..2
  PROVE  /\ Then(r, n) \in Reqs
         /\ Then(r, n).pc \in {"log", "admit", "idle"}
         /\ Then(r, n).pc \in Logging => Then(r, n).entries > 0
BY DEF Then, Reqs, Pcs, Logging

\* A request that moves on, with or without an address or what it read.
LEMMA Moves ==
  ASSUME NEW r \in Reqs
  PROVE  /\ [r EXCEPT !.right = TRUE] \in Reqs
         /\ \A p \in Pcs : [r EXCEPT !.pc = p] \in Reqs
         /\ \A i \in Ips : [r EXCEPT !.ip = i] \in Reqs
         /\ \A k \in Nat : [r EXCEPT !.seen = k] \in Reqs
         /\ \A p \in Pcs, i \in Ips : [r EXCEPT !.pc = p, !.ip = i] \in Reqs
         /\ \A p \in Pcs, k \in Nat : [r EXCEPT !.pc = p, !.seen = k] \in Reqs
BY DEF Reqs

LEMMA InitTypes == Init => Types
<1> SUFFICES ASSUME Init PROVE Types
  OBVIOUS
<1>1. \A w \in Workers : req[w] = Idle
  BY DEF Init
<1>2. req \in [Workers -> Reqs] /\ Requests
  BY <1>1, IdleTypes DEF Init, Requests, Logging
<1>3. faults \in 0..MaxFaults
  BY SecurityAssumption DEF Init
<1> QED
  BY <1>2, <1>3, IdleTypes DEF Init, Types, TypeOK, Kinds


\* A step of one request leaves all of them well-typed when it leaves its own so.
LEMMA NewReq ==
  ASSUME Types, NEW w \in Workers, NEW r \in Reqs,
         r.pc = "passed" => r.ip \in Ips, r.pc \in Logging => r.entries > 0,
         req' = [req EXCEPT ![w] = r]
  PROVE  req' \in [Workers -> Reqs] /\ Requests'
BY DEF Types, TypeOK, Requests

LEMMA ChangeTypes ==
  ASSUME Types, NEW w \in Workers, NEW m \in States, NEW r \in Reqs, NEW n \in 0..2,
         Change(w, m, r, n), pardoned' \subseteq Ips, lifetime' \in [Ips -> Nat]
  PROVE  Types'
<1>1. [r EXCEPT !.pc = "save", !.entries = n] \in Reqs
  BY DEF Reqs, Pcs
<1>2. req' \in [Workers -> Reqs] /\ Requests'
  BY <1>1, NewReq DEF Change, Reqs, Logging
<1> QED
  BY <1>2 DEF Change, Types, TypeOK, logging

LEMMA StepTypes == Types /\ [Next]_vars => Types'
<1> SUFFICES ASSUME Types, [Next]_vars PROVE Types'
  OBVIOUS
<1>f. faults' = faults \/ (faults < MaxFaults /\ faults' = faults + 1) => faults' \in 0..MaxFaults
  BY SecurityAssumption DEF Types, TypeOK
<1>c. ASSUME NEW w \in Workers, NEW i \in Ips, Check(w, i) PROVE Types'
  <2> DEFINE p == [Idle EXCEPT !.pc = "passed", !.ip = i]
             q == Then([Idle EXCEPT !.ip = i], 1)
  <2>0. [Idle EXCEPT !.ip = i] \in Reqs /\ p \in Reqs
    BY IdleTypes, Moves DEF Pcs
  <2>1. p \in Reqs /\ p.pc = "passed" /\ p.ip = i
    BY <2>0 DEF Idle
  <2>2. q \in Reqs /\ q.pc # "passed" /\ (q.pc \in Logging => q.entries > 0)
    BY <2>0, ThenTypes
  <2>3. req' \in [Workers -> Reqs] /\ Requests'
    <3> HIDE DEF p, q
    <3>1. req' = [req EXCEPT ![w] = p] \/ req' = [req EXCEPT ![w] = q]
      BY <1>c DEF Check, p, q
    <3> QED BY <2>1, <2>2, <3>1, NewReq DEF Logging
  <2> QED BY <1>c, <2>3 DEF Check, Types, TypeOK, state, history, logging
<1>r. ASSUME NEW w \in Workers, RightPassword(w) PROVE Types'
  <2>1. [req[w] EXCEPT !.right = TRUE] \in Reqs
    BY Moves DEF Types, TypeOK
  <2>2. req' \in [Workers -> Reqs] /\ Requests'
    <3> DEFINE r == Then([req[w] EXCEPT !.right = TRUE], 1)
    <3>1. r \in Reqs /\ r.pc # "passed" /\ (r.pc \in Logging => r.entries > 0)
      BY <2>1, ThenTypes
    <3>2. req' = [req EXCEPT ![w] = r]
      BY <1>r DEF RightPassword
    <3> HIDE DEF r
    <3> QED BY <3>1, <3>2, NewReq
  <2> QED BY <1>r, <2>2 DEF RightPassword, Types, TypeOK, state, history, logging
<1>a. ASSUME NEW w \in Workers, Admit(w) PROVE Types'
  BY <1>a, IdleTypes, NewReq DEF Admit, Types, TypeOK, state, history, logging, Logging
<1>l. ASSUME NEW w \in Workers, Logout(w) PROVE Types'
  <2> DEFINE r == Then(Idle, 1)
  <2>1. req' \in [Workers -> Reqs] /\ Requests'
    <3>1. r \in Reqs /\ r.pc # "passed" /\ (r.pc \in Logging => r.entries > 0)
      BY IdleTypes, ThenTypes
    <3>2. req' = [req EXCEPT ![w] = r]
      BY <1>l DEF Logout
    <3> HIDE DEF r
    <3> QED BY <3>1, <3>2, NewReq
  <2> QED BY <1>l, <2>1 DEF Logout, Types, TypeOK, state, history, logging
<1>d. ASSUME NEW w \in Workers, RecordFail(w) PROVE Types'
  <2> DEFINE i == req[w].ip
             count == memory.fails[i] + 1
             b == memory.blocked \cup (IF count >= FailMax THEN {i} ELSE {})
             n == memory.notices \cup (IF count >= FailMax THEN {<<i, count>>} ELSE {})
             f == [memory.fails EXCEPT ![i] = count]
  <2>1. i \in Ips /\ req[w] \in Reqs /\ memory \in States
    BY <1>d DEF RecordFail, At, Types, TypeOK, Requests
  <2>2. count \in Nat
    BY <1>d, <2>1 DEF RecordFail, States
  <2>3. f \in [Ips -> Nat] /\ b \in SUBSET Ips
    <3> HIDE DEF count
    <3> QED BY <2>1, <2>2 DEF States
  <2>4. n \in SUBSET Notices
    <3> HIDE DEF count
    <3> QED BY <2>1, <2>2 DEF States, Notices
  <2>5. [fails |-> f, blocked |-> b, notices |-> n] \in States
    BY <2>3, <2>4 DEF States
  <2>6. Change(w, [fails |-> f, blocked |-> b, notices |-> n], req[w],
               IF count >= FailMax THEN 2 ELSE 1) /\ pardoned' = pardoned
    BY <1>d DEF RecordFail
  <2>7. lifetime' \in [Ips -> Nat]
    BY <1>d, <2>1 DEF RecordFail, Types, TypeOK
  <2> HIDE DEF f, b, n, count
  <2> QED BY <2>1, <2>5, <2>6, <2>7, ChangeTypes DEF Types, TypeOK
<1>n. ASSUME NEW w \in Workers, NEW n \in memory.notices, Confirm(w, n) PROVE Types'
  <2>1. [memory EXCEPT !.notices = @ \ {n}] \in States
    BY DEF Types, TypeOK, States
  <2> QED BY <1>n, <2>1, IdleTypes, ChangeTypes DEF Confirm, Types, TypeOK
<1>m. ASSUME NEW w \in Workers, NEW n \in 0..1, ClearNotices(w, n) PROVE Types'
  <2>1. [memory EXCEPT !.notices = {}] \in States
    BY DEF Types, TypeOK, States
  <2> QED BY <1>m, <2>1, IdleTypes, ChangeTypes DEF ClearNotices, Types, TypeOK
<1>b. ASSUME NEW w \in Workers, ClearBlacklist(w) PROVE Types'
  <2>1. [memory EXCEPT !.blocked = {}] \in States /\ memory.blocked \subseteq Ips
    BY DEF Types, TypeOK, States
  <2> QED BY <1>b, <2>1, IdleTypes, ChangeTypes DEF ClearBlacklist, Types, TypeOK
<1>s. ASSUME NEW w \in Workers, OpenState(w) PROVE Types'
  <2>1. [req[w] EXCEPT !.pc = "write"] \in Reqs
    BY Moves DEF Types, TypeOK, Pcs
  <2>2. req' \in [Workers -> Reqs] /\ Requests'
    BY <1>s, <2>1, NewReq DEF OpenState, Logging, Types, TypeOK, Reqs
  <2> QED BY <1>s, <2>2, IdleTypes DEF OpenState, Types, TypeOK, Kinds, logging, history
<1>w. ASSUME NEW w \in Workers, WriteState(w) \/ SaveFails(w) PROVE Types'
  <2>1. req[w] \in Reqs /\ req[w].entries \in 0..2
    BY DEF Types, TypeOK, Reqs
  <2>2. req' \in [Workers -> Reqs] /\ Requests'
    BY <1>w, <2>1, ThenTypes, NewReq DEF WriteState, SaveFails
  <2>3. memory \in States
    BY DEF Types, TypeOK
  <2>4. CASE WriteState(w)
    BY <2>2, <2>3, <2>4 DEF WriteState, Types, TypeOK, Kinds, logging, history
  <2>5. CASE SaveFails(w)
    BY <1>f, <2>2, <2>5 DEF SaveFails, Types, TypeOK, logging, history
  <2> QED BY <1>w, <2>4, <2>5
<1>h. ASSUME NEW w \in Workers, ReadLogFails(w) PROVE Types'
  <2>1. [req[w] EXCEPT !.pc = "extend", !.seen = 0] \in Reqs
    BY Moves DEF Types, TypeOK, Pcs, Logging
  <2>2. [req[w] EXCEPT !.pc = "extend", !.seen = 0].pc = "extend" /\ req[w].entries > 0
    BY <1>h DEF ReadLogFails, At, Types, TypeOK, Requests, Reqs, Logging
  <2>3. req' \in [Workers -> Reqs] /\ Requests'
    BY <1>h, <2>1, <2>2, NewReq DEF ReadLogFails, Types, TypeOK, Reqs
  <2> QED BY <1>f, <1>h, <2>3 DEF ReadLogFails, Types, TypeOK, state, history
<1>g. ASSUME NEW w \in Workers, ReadLog(w) PROVE Types'
  <2> DEFINE k == IF log.kind = "whole" THEN log.entries ELSE 0
             r == [req[w] EXCEPT !.pc = "extend", !.seen = k]
  <2>1. k \in Nat
    BY DEF Types, TypeOK
  <2>2. r \in Reqs /\ r.pc = "extend" /\ r.entries > 0
    <3> HIDE DEF k
    <3>1. req[w] \in Reqs /\ req[w].entries > 0
      BY <1>g DEF ReadLog, At, Types, TypeOK, Requests, Logging
    <3> QED BY <2>1, <3>1 DEF Reqs, Pcs, Logging
  <2>3. req' = [req EXCEPT ![w] = r]
    BY <1>g DEF ReadLog
  <2>4. req' \in [Workers -> Reqs] /\ Requests'
    <3> HIDE DEF r
    <3> QED BY <2>2, <2>3, NewReq
  <2> QED BY <1>g, <2>4 DEF ReadLog, Types, TypeOK, state, history
<1>o. ASSUME NEW w \in Workers, OpenLog(w) PROVE Types'
  <2>1. [req[w] EXCEPT !.pc = "rewrite"] \in Reqs
    BY Moves DEF Types, TypeOK, Pcs, Logging
  <2>2. [req[w] EXCEPT !.pc = "rewrite"].entries > 0
    BY <1>o DEF OpenLog, At, Types, TypeOK, Requests, Reqs, Logging
  <2>3. req' \in [Workers -> Reqs] /\ Requests'
    BY <1>o, <2>1, <2>2, NewReq DEF OpenLog, Types, TypeOK, Reqs
  <2> QED BY <1>o, <2>3 DEF OpenLog, Types, TypeOK, Kinds, state, history
<1>e. ASSUME NEW w \in Workers, RewriteLog(w) \/ RewriteFails(w) PROVE Types'
  <2>1. [req[w] EXCEPT !.seen = 0] \in Reqs /\ req[w].entries - 1 \in 0..2 /\ req[w].seen \in Nat
    <3>1. req[w].entries \in 0..2 /\ req[w].entries > 0 /\ req[w].seen \in Nat
      BY <1>e DEF RewriteLog, RewriteFails, At, Types, TypeOK, Requests, Reqs, Logging
    <3>2. [req[w] EXCEPT !.seen = 0] \in Reqs
      BY Moves DEF Types, TypeOK
    <3> QED BY <3>1, <3>2
  <2>2. req' \in [Workers -> Reqs] /\ Requests'
    BY <1>e, <2>1, ThenTypes, NewReq DEF RewriteLog, RewriteFails
  <2>3. CASE RewriteLog(w)
    BY <2>1, <2>2, <2>3 DEF RewriteLog, Types, TypeOK, Kinds, state, history
  <2>4. CASE RewriteFails(w)
    BY <1>f, <2>2, <2>4 DEF RewriteFails, Types, TypeOK, state, history
  <2> QED BY <1>e, <2>3, <2>4
<1>x. ASSUME Crash \/ Start \/ StartBlind PROVE Types'
  BY <1>x, <1>f, IdleTypes
     DEF Crash, Start, StartBlind, Recovered, Types, TypeOK, Requests, Logging, logging,
         history
<1>u. ASSUME UNCHANGED vars PROVE Types'
  BY <1>u DEF vars, state, history, logging, Types, TypeOK, Requests
<1> QED
  BY <1>c, <1>r, <1>a, <1>l, <1>d, <1>n, <1>m, <1>b, <1>s, <1>w, <1>h, <1>g, <1>o, <1>e,
     <1>x, <1>u
     DEF Next, Request
-----------------------------------------------------------------------------
(* The state file. *)

\* Where a step leaves its request: only OpenState and the writes touch save and write.
LEMMA InitHolds == Init => DiskInv
<1> SUFFICES ASSUME Init PROVE DiskInv
  OBVIOUS
<1>1. \A w \in Workers : req[w] = Idle /\ req[w].pc = "idle"
  BY IdleTypes DEF Init
<1> QED
  BY <1>1, InitTypes, SecurityAssumption
     DEF Init, DiskInv, Holder, DiskMatches, Remembered, Recovered, Clean

\* A step that leaves the lock and the file alone and keeps its request out of them.
LEMMA Apart ==
  ASSUME DiskInv, Types', NEW w \in Workers, NEW r \in Reqs, up,
         req' = [req EXCEPT ![w] = r], req[w].pc \notin {"save", "write"},
         r.pc \notin {"save", "write"},
         UNCHANGED <<up, state>>
  PROVE  DiskInv'
<1>1. \A v \in Workers : lock' = v <=> req'[v].pc \in {"save", "write"}
  BY DEF DiskInv, Types, TypeOK, Holder, state
<1>2. DiskMatches' /\ Remembered'
  BY DEF DiskInv, DiskMatches, Settled, Remembered, Recovered, state, history
<1> QED
  BY <1>1, <1>2 DEF DiskInv, Holder

\* A change of the tables takes the lock.
LEMMA ChangeHolds ==
  ASSUME DiskInv, Types', NEW w \in Workers, NEW m, NEW r \in Reqs, NEW n \in 0..2,
         up, req[w].pc \notin {"save", "write"}, Change(w, m, r, n),
         lifetime = memory.fails => lifetime' = m.fails
  PROVE  DiskInv'
<1>1. req'[w].pc = "save" /\ \A v \in Workers \ {w} : req'[v] = req[v]
  BY DEF Change, DiskInv, Types, TypeOK, Reqs
<1>2. lock = Nobody /\ lock' = w /\ up' /\ memory' = m /\ forgotten' = forgotten
  BY DEF Change
<1>3. Nobody \notin Workers
  BY SecurityAssumption
<1>4. \A v \in Workers : req[v].pc \notin {"save", "write"}
  BY <1>2, <1>3 DEF DiskInv, Holder
<1> QED
  BY <1>1, <1>2, <1>3, <1>4 DEF DiskInv, Holder, DiskMatches, Settled, Remembered

LEMMA StepHolds == DiskInv /\ [Next]_vars => DiskInv'
<1> SUFFICES ASSUME DiskInv, [Next]_vars PROVE DiskInv'
  OBVIOUS
<1>t. Types'
  BY StepTypes DEF DiskInv
<1>k. TypeOK /\ req \in [Workers -> Reqs] /\ \A w \in Workers : req[w] \in Reqs
  BY DEF DiskInv, Types, TypeOK
<1>v. \A x : /\ [memory EXCEPT !.notices = x].fails = memory.fails
              /\ [memory EXCEPT !.blocked = x].fails = memory.fails
  BY <1>k DEF TypeOK, States
<1>c. ASSUME NEW w \in Workers, NEW i \in Ips, Check(w, i) PROVE DiskInv'
  <2> DEFINE p == [Idle EXCEPT !.pc = "passed", !.ip = i]
             q == Then([Idle EXCEPT !.ip = i], 1)
  <2>0. [Idle EXCEPT !.ip = i] \in Reqs /\ p \in Reqs
    BY IdleTypes, Moves DEF Pcs
  <2>1. p \in Reqs /\ p.pc = "passed"
    BY <2>0 DEF Idle
  <2>2. q \in Reqs /\ q.pc \in {"log", "admit", "idle"}
    BY <2>0, ThenTypes
  <2>3. req' = [req EXCEPT ![w] = p] \/ req' = [req EXCEPT ![w] = q]
    BY <1>c DEF Check
  <2>4. up /\ req[w].pc \notin {"save", "write"} /\ UNCHANGED <<up, state>>
    BY <1>c DEF Check, Ready, At
  <2> HIDE DEF p, q
  <2> QED BY <1>t, <2>1, <2>2, <2>3, <2>4, Apart
<1>r. ASSUME NEW w \in Workers, RightPassword(w) PROVE DiskInv'
  <2> DEFINE r == Then([req[w] EXCEPT !.right = TRUE], 1)
  <2>1. r \in Reqs /\ r.pc \in {"log", "admit", "idle"}
    <3>1. [req[w] EXCEPT !.right = TRUE] \in Reqs
      BY <1>k, Moves
    <3> QED BY <3>1, ThenTypes
  <2>2. /\ req' = [req EXCEPT ![w] = r] /\ up /\ req[w].pc \notin {"save", "write"}
        /\ UNCHANGED <<up, state>>
    BY <1>r DEF RightPassword, At
  <2> HIDE DEF r
  <2> QED BY <1>t, <2>1, <2>2, Apart
<1>a. ASSUME NEW w \in Workers, Admit(w) PROVE DiskInv'
  <2>1. /\ req' = [req EXCEPT ![w] = Idle] /\ up /\ req[w].pc \notin {"save", "write"}
        /\ UNCHANGED <<up, state>>
    BY <1>a DEF Admit, At
  <2> QED BY <1>t, <2>1, IdleTypes, Apart
<1>l. ASSUME NEW w \in Workers, Logout(w) PROVE DiskInv'
  <2> DEFINE r == Then(Idle, 1)
  <2>1. r \in Reqs /\ r.pc \in {"log", "admit", "idle"}
    BY IdleTypes, ThenTypes
  <2>2. /\ req' = [req EXCEPT ![w] = r] /\ up /\ req[w].pc \notin {"save", "write"}
        /\ UNCHANGED <<up, state>>
    BY <1>l DEF Logout, Ready, At
  <2> HIDE DEF r
  <2> QED BY <1>t, <2>1, <2>2, Apart
<1>d. ASSUME NEW w \in Workers, RecordFail(w) PROVE DiskInv'
  <2> DEFINE i == req[w].ip
             n == IF memory.fails[i] + 1 >= FailMax THEN 2 ELSE 1
             f == [memory.fails EXCEPT ![i] = memory.fails[i] + 1]
  <2>1. n \in 0..2 /\ up /\ req[w].pc \notin {"save", "write"}
    BY <1>d DEF RecordFail, At
  <2>2. PICK m : Change(w, m, req[w], n) /\ m.fails = f
    BY <1>d DEF RecordFail
  <2>3. lifetime' = [lifetime EXCEPT ![i] = lifetime[i] + 1]
    BY <1>d DEF RecordFail
  <2> HIDE DEF n
  <2> QED BY <1>k, <1>t, <2>1, <2>2, <2>3, ChangeHolds
<1>n. ASSUME NEW w \in Workers, NEW n \in memory.notices, Confirm(w, n) PROVE DiskInv'
  <2>1. up /\ req[w].pc \notin {"save", "write"} /\ lifetime' = lifetime
    BY <1>n DEF Confirm, Ready, At
  <2> DEFINE m == [memory EXCEPT !.notices = @ \ {n}]
  <2>2. m.fails = memory.fails /\ Change(w, m, Idle, 0)
    BY <1>n, <1>v DEF Confirm
  <2> HIDE DEF m
  <2> QED BY <1>t, <2>1, <2>2, IdleTypes, ChangeHolds
<1>m. ASSUME NEW w \in Workers, NEW n \in 0..1, ClearNotices(w, n) PROVE DiskInv'
  <2>1. up /\ req[w].pc \notin {"save", "write"} /\ n \in 0..2 /\ lifetime' = lifetime
    BY <1>m DEF ClearNotices, Ready, At
  <2> QED BY <1>m, <1>t, <1>v, <2>1, IdleTypes, ChangeHolds DEF ClearNotices
<1>b. ASSUME NEW w \in Workers, ClearBlacklist(w) PROVE DiskInv'
  <2>1. up /\ req[w].pc \notin {"save", "write"} /\ lifetime' = lifetime
    BY <1>b DEF ClearBlacklist, Ready, At
  <2> DEFINE m == [memory EXCEPT !.blocked = {}]
  <2>2. m.fails = memory.fails /\ Change(w, m, Idle, 1)
    BY <1>b, <1>v DEF ClearBlacklist
  <2> HIDE DEF m
  <2> QED BY <1>t, <2>1, <2>2, IdleTypes, ChangeHolds
<1>s. ASSUME NEW w \in Workers, OpenState(w) PROVE DiskInv'
  <2>1. req'[w].pc = "write" /\ \A v \in Workers \ {w} : req'[v] = req[v]
    BY <1>s, <1>k DEF OpenState, Reqs
  <2>2. req[w].pc = "save" /\ lock = w /\ up
    BY <1>s DEF OpenState, At, DiskInv, Holder
  <2> QED BY <1>s, <1>t, <2>1, <2>2, SecurityAssumption
          DEF OpenState, DiskInv, Holder, DiskMatches, Settled, Remembered, history
<1>w. ASSUME NEW w \in Workers, WriteState(w) \/ SaveFails(w) PROVE DiskInv'
  <2>1. req[w].pc \in {"save", "write"} /\ lock = w /\ up
    BY <1>w DEF WriteState, SaveFails, At, DiskInv, Holder
  <2>2. req'[w].pc \notin {"save", "write"} /\ \A v \in Workers \ {w} : req'[v] = req[v]
    BY <1>w, <1>k, ThenTypes DEF WriteState, SaveFails, Reqs
  <2>3. \A v \in Workers : req'[v].pc \notin {"save", "write"}
    BY <2>1, <2>2 DEF DiskInv, Holder
  <2>4. lock' = Nobody /\ up' /\ Nobody \notin Workers
    BY <1>w, <2>1, SecurityAssumption DEF WriteState, SaveFails
  <2>5. Remembered'
    BY <1>w, <2>1, <2>4 DEF WriteState, SaveFails, DiskInv, Remembered, history
  <2>6. DiskMatches'
    BY <1>w DEF WriteState, SaveFails, DiskMatches, Recovered
  <2> QED BY <1>t, <2>3, <2>4, <2>5, <2>6 DEF DiskInv, Holder
<1>g. ASSUME NEW w \in Workers,
             ReadLog(w) \/ ReadLogFails(w) \/ OpenLog(w) \/ RewriteLog(w) \/ RewriteFails(w)
      PROVE  DiskInv'
  <2>1. up /\ req[w].pc \notin {"save", "write"} /\ UNCHANGED <<up, state>>
    BY <1>g DEF ReadLog, ReadLogFails, OpenLog, RewriteLog, RewriteFails, At
  <2>2. req'[w] \in Reqs /\ req' = [req EXCEPT ![w] = req'[w]]
    BY <1>g, <1>t, <1>k DEF ReadLog, ReadLogFails, OpenLog, RewriteLog, RewriteFails, Types,
                            TypeOK
  <2>3. ReadLog(w) \/ ReadLogFails(w) \/ OpenLog(w) => req'[w].pc \notin {"save", "write"}
    <3>1. req \in [Workers -> Reqs] /\ req[w] \in Reqs
      BY <1>k
    <3>2. ASSUME ReadLog(w) \/ ReadLogFails(w) PROVE req'[w].pc = "extend"
      <4>1. CASE ReadLog(w)
        BY <3>1, <4>1 DEF ReadLog, Reqs
      <4>2. CASE ReadLogFails(w)
        BY <3>1, <4>2 DEF ReadLogFails, Reqs
      <4> QED BY <3>2, <4>1, <4>2
    <3>3. ASSUME OpenLog(w) PROVE req'[w].pc = "rewrite"
      BY <3>1, <3>3 DEF OpenLog, Reqs
    <3> QED BY <3>2, <3>3
  <2>4. RewriteLog(w) \/ RewriteFails(w) => req'[w].pc \notin {"save", "write"}
    <3> SUFFICES ASSUME RewriteLog(w) \/ RewriteFails(w)
                 PROVE  req'[w].pc \notin {"save", "write"}
      OBVIOUS
    <3>1. [req[w] EXCEPT !.seen = 0] \in Reqs
      BY <1>k, Moves
    <3>2. req[w].entries - 1 \in 0..2
      BY <1>k DEF RewriteLog, RewriteFails, At, DiskInv, Types, Requests, Reqs, Logging
    <3> QED BY <1>k, <3>1, <3>2, ThenTypes DEF RewriteLog, RewriteFails
  <2> QED BY <1>g, <1>t, <2>1, <2>2, <2>3, <2>4, Apart
\* A crash that forgets nothing finds the tables saved.
<1>x. ASSUME Crash PROVE DiskInv'
  <2>1. ~up' /\ lock' = Nobody /\ \A w \in Workers : req'[w] = Idle
    BY <1>x, <1>k DEF Crash
  <2>2. Remembered'
    <3> SUFFICES ASSUME ~forgotten' PROVE lifetime' = Recovered'.fails
      BY <2>1 DEF Remembered
    <3>1. up /\ lock = Nobody /\ ~unsaved /\ ~forgotten
      BY <1>x DEF Crash
    <3>2. memory = Recovered /\ lifetime = memory.fails
      BY <3>1 DEF DiskInv, DiskMatches, Settled, Remembered
    <3>3. disk' = disk /\ lifetime' = lifetime
      BY <1>x DEF Crash
    <3> QED BY <3>2, <3>3 DEF Recovered
  <2> QED BY <1>t, <2>1, <2>2, IdleTypes, SecurityAssumption
          DEF DiskInv, Holder, DiskMatches, Settled
<1>y. ASSUME Start \/ StartBlind PROVE DiskInv'
  <2>1. up' /\ disk' = disk /\ \A w \in Workers : lock' # w /\ req'[w].pc = "idle"
    BY <1>y, IdleTypes DEF Start, StartBlind, DiskInv, Holder
  <2>2. DiskMatches' /\ Remembered'
    BY <1>y, <2>1 DEF Start, StartBlind, DiskInv, DiskMatches, Remembered, Recovered, history
  <2> QED BY <1>t, <2>1, <2>2 DEF DiskInv, Holder
<1>u. ASSUME UNCHANGED vars PROVE DiskInv'
  BY <1>t, <1>u DEF vars, state, history, DiskInv, Holder, DiskMatches, Settled, Remembered,
                    Recovered
<1> QED
  BY <1>c, <1>r, <1>a, <1>l, <1>d, <1>n, <1>m, <1>b, <1>s, <1>w, <1>g, <1>x, <1>y, <1>u
     DEF Next, Request

-----------------------------------------------------------------------------
(* The limit. *)

Passed(i) == {w \in Workers : req[w].pc = "passed" /\ req[w].ip = i}

\* An address that no admin has pardoned is blocked at the limit, in memory and on
\* disk, and the failures counted and still to come stay below the limit and the number
\* of requests.
Limited(tables, i) ==
  /\ tables.fails[i] >= FailMax => i \in tables.blocked
  /\ tables.fails[i] < FailMax + Cardinality(Workers)

LimitInv ==
  /\ Types
  /\ \A i \in Ips \ pardoned :
       /\ Limited(memory, i)
       /\ Limited(disk.state, i)
       /\ memory.fails[i] + Cardinality(Passed(i)) < FailMax + Cardinality(Workers)
  /\ ~up => \A w \in Workers : req[w].pc = "idle"

LEMMA Counting ==
  /\ Cardinality(Workers) \in Nat
  /\ \A i : IsFiniteSet(Passed(i)) /\ Cardinality(Passed(i)) \in Nat
            /\ Cardinality(Passed(i)) <= Cardinality(Workers)
<1>1. \A i : Passed(i) \subseteq Workers
  BY DEF Passed
<1> QED
  BY <1>1, FS_Subset, FS_CardinalityType, SecurityAssumption

\* A request that leaves "passed", or never was there, adds nothing.
LEMMA FewerPassed ==
  ASSUME Types, Types', NEW i,
         \A w \in Workers : req'[w].pc = "passed" /\ req'[w].ip = i
                              => req[w].pc = "passed" /\ req[w].ip = i
  PROVE  /\ Cardinality(Passed(i)') \in Nat
         /\ Cardinality(Passed(i)') <= Cardinality(Passed(i))
<1>1. Passed(i)' \subseteq Passed(i)
  BY DEF Passed
<1> QED
  BY <1>1, Counting, FS_Subset, FS_CardinalityType

\* A step that counts no failure and lets nobody pass.
LEMMA LimitKept ==
  ASSUME LimitInv, Types', up', pardoned \subseteq pardoned',
         \A i \in Ips \ pardoned' : /\ Limited(memory', i) /\ Limited(disk'.state, i)
                                    /\ memory'.fails[i] = memory.fails[i],
         \A w \in Workers : req'[w].pc = "passed" => req[w].pc = "passed" /\ req'[w].ip = req[w].ip
  PROVE  LimitInv'
<1>1. \A i \in Ips \ pardoned' :
        memory'.fails[i] + Cardinality(Passed(i)') < FailMax + Cardinality(Workers)
  <2> TAKE i \in Ips \ pardoned'
  <2>1. /\ Cardinality(Passed(i)') \in Nat
        /\ Cardinality(Passed(i)') <= Cardinality(Passed(i))
    BY FewerPassed DEF LimitInv
  <2>2. memory.fails[i] \in Nat /\ memory'.fails[i] = memory.fails[i]
    BY DEF LimitInv, Types, TypeOK, States
  <2> QED BY <2>1, <2>2, Counting, SecurityAssumption DEF LimitInv
<1> QED
  BY <1>1 DEF LimitInv

\* The same of a step that leaves the tables, the file and the pardons alone.
LEMMA LimitSame ==
  ASSUME LimitInv, Types', up', UNCHANGED <<memory, disk, pardoned>>,
         \A w \in Workers : req'[w].pc = "passed" => req[w].pc = "passed" /\ req'[w].ip = req[w].ip
  PROVE  LimitInv'
BY LimitKept DEF LimitInv

LEMMA CleanLimited == \A i \in Ips : Limited(Clean, i)
BY SecurityAssumption, Counting DEF Limited, Clean

LEMMA NonePassed ==
  ASSUME \A w \in Workers : req[w].pc = "idle"
  PROVE  \A i : Cardinality(Passed(i)) = 0
<1>1. \A i : Passed(i) = {}
  BY DEF Passed
<1> QED
  BY <1>1, FS_EmptySet

LEMMA InitLimit == Init => LimitInv
<1> SUFFICES ASSUME Init PROVE LimitInv
  OBVIOUS
<1>1. \A w \in Workers : req[w].pc = "idle"
  BY IdleTypes DEF Init
<1>2. \A i \in Ips : memory.fails[i] = 0 /\ Limited(memory, i) /\ Limited(disk.state, i)
  BY CleanLimited DEF Init, Clean
<1> QED
  BY <1>1, <1>2, InitTypes, NonePassed, Counting, SecurityAssumption DEF LimitInv

LEMMA StepLimit == LimitInv /\ [Next]_vars => LimitInv'
<1> SUFFICES ASSUME LimitInv, [Next]_vars PROVE LimitInv'
  OBVIOUS
<1>t. Types'
  BY StepTypes DEF LimitInv
<1>k. req \in [Workers -> Reqs] /\ memory \in States /\ disk.state \in States
  BY DEF LimitInv, Types, TypeOK
<1>c. ASSUME NEW w \in Workers, NEW j \in Ips, Check(w, j) PROVE LimitInv'
  <2>1. /\ \A v \in Workers \ {w} : req'[v] = req[v]
        /\ UNCHANGED <<up, memory, disk, pardoned>> /\ up
    BY <1>c, <1>k DEF Check, Ready, At, state, history
  <2>2. CASE j \in memory.blocked
    <3>1. [Idle EXCEPT !.ip = j] \in Reqs
      BY IdleTypes, Moves
    <3>2. req'[w].pc # "passed"
      BY <1>c, <1>k, <2>2, <3>1, ThenTypes DEF Check
    <3> QED BY <1>t, <2>1, <3>2, LimitSame
  <2>3. CASE j \notin memory.blocked
    <3>1. req'[w].pc = "passed" /\ req'[w].ip = j
      BY <1>c, <1>k, <2>3 DEF Check, Idle
    <3>2. \A i \in Ips \ pardoned :
            memory.fails[i] + Cardinality(Passed(i)') < FailMax + Cardinality(Workers)
      <4> TAKE i \in Ips \ pardoned
      <4>1. memory.fails[i] \in Nat
        BY <1>k DEF States
      <4>2. CASE i = j
        <5>1. memory.fails[i] < FailMax
          BY <1>k, <2>3, <4>1, <4>2, SecurityAssumption DEF LimitInv, Limited
        <5>2. Passed(i)' \subseteq Workers
          BY DEF Passed
        <5>3. Cardinality(Passed(i)') \in Nat /\ Cardinality(Passed(i)') <= Cardinality(Workers)
          BY <5>2, FS_Subset, FS_CardinalityType, SecurityAssumption
        <5> QED BY <4>1, <5>1, <5>3, Counting, SecurityAssumption
      <4>3. CASE i # j
        <5>1. /\ Cardinality(Passed(i)') \in Nat
              /\ Cardinality(Passed(i)') <= Cardinality(Passed(i))
          BY <1>t, <2>1, <3>1, <4>3, FewerPassed DEF LimitInv
        <5> QED BY <4>1, <5>1, Counting, SecurityAssumption DEF LimitInv
      <4> QED BY <4>2, <4>3
    <3> QED BY <1>t, <2>1, <3>2 DEF LimitInv
  <2> QED BY <2>2, <2>3
<1>r. ASSUME NEW w \in Workers,
             RightPassword(w) \/ Admit(w) \/ Logout(w) \/ ReadLog(w) \/ ReadLogFails(w)
             \/ OpenLog(w) \/ RewriteLog(w) \/ RewriteFails(w) \/ SaveFails(w)
      PROVE  LimitInv'
  <2>1. /\ \A v \in Workers \ {w} : req'[v] = req[v]
        /\ UNCHANGED <<up, memory, disk, pardoned>> /\ up
    BY <1>r, <1>k DEF RightPassword, Admit, Logout, ReadLog, ReadLogFails, OpenLog,
                      RewriteLog, RewriteFails, SaveFails, Ready, At, state, history
  <2>2. req'[w].pc # "passed"
    <3>1. [req[w] EXCEPT !.right = TRUE] \in Reqs /\ [req[w] EXCEPT !.seen = 0] \in Reqs
      BY <1>k, Moves
    <3>2. CASE RightPassword(w)
      BY <1>k, <3>1, <3>2, ThenTypes DEF RightPassword
    <3>3. CASE Admit(w)
      BY <1>k, <3>3, IdleTypes DEF Admit
    <3>4. CASE Logout(w)
      BY <1>k, <3>4, IdleTypes, ThenTypes DEF Logout
    <3>5. CASE ReadLog(w) \/ ReadLogFails(w) \/ OpenLog(w)
      BY <1>k, <3>5 DEF ReadLog, ReadLogFails, OpenLog, Reqs
    <3>6. CASE RewriteLog(w) \/ RewriteFails(w)
      <4>1. req[w].entries - 1 \in 0..2
        BY <1>k, <3>6 DEF RewriteLog, RewriteFails, At, LimitInv, Types, Requests, Reqs,
                          Logging
      <4> QED BY <1>k, <3>1, <3>6, <4>1, ThenTypes DEF RewriteLog, RewriteFails
    <3>7. CASE SaveFails(w)
      <4>1. req[w].entries \in 0..2 /\ req[w] \in Reqs
        BY <1>k DEF Reqs
      <4> QED BY <1>k, <3>7, <4>1, ThenTypes DEF SaveFails
    <3> QED BY <1>r, <3>2, <3>3, <3>4, <3>5, <3>6, <3>7
  <2> QED BY <1>t, <2>1, <2>2, LimitSame
<1>d. ASSUME NEW w \in Workers, RecordFail(w) PROVE LimitInv'
  <2> DEFINE j == req[w].ip
  <2>1. /\ req[w].pc = "passed" /\ j \in Ips
        /\ \A v \in Workers \ {w} : req'[v] = req[v]
        /\ req'[w].pc = "save"
    BY <1>d, <1>k DEF RecordFail, Change, At, LimitInv, Types, Requests, Reqs
  <2>2. /\ up' /\ UNCHANGED <<disk, pardoned>>
        /\ \A i \in Ips : memory'.fails[i] = IF i = j THEN memory.fails[j] + 1 ELSE memory.fails[i]
        /\ memory'.blocked = memory.blocked
                             \cup (IF memory.fails[j] + 1 >= FailMax THEN {j} ELSE {})
    BY <1>d, <1>k, <2>1 DEF RecordFail, Change, At, States, history
  <2>3. \A i \in Ips : memory.fails[i] \in Nat /\ memory'.fails[i] \in Nat
    BY <1>k, <2>2 DEF States
  <2>4. \A i \in Ips \ pardoned :
          memory'.fails[i] + Cardinality(Passed(i)') < FailMax + Cardinality(Workers)
    <3> TAKE i \in Ips \ pardoned
    <3>1. CASE i = j
      <4>1. Passed(i)' = Passed(i) \ {w} /\ w \in Passed(i)
        BY <2>1, <3>1 DEF Passed
      <4>2. Cardinality(Passed(i)') = Cardinality(Passed(i)) - 1
        BY <4>1, Counting, FS_RemoveElement
      <4> QED BY <2>2, <2>3, <3>1, <4>2, Counting, SecurityAssumption DEF LimitInv
    <3>2. CASE i # j
      <4>1. /\ Cardinality(Passed(i)') \in Nat
            /\ Cardinality(Passed(i)') <= Cardinality(Passed(i))
        BY <1>t, <2>1, FewerPassed DEF LimitInv
      <4> QED BY <2>2, <2>3, <3>2, <4>1, Counting, SecurityAssumption DEF LimitInv
    <3> QED BY <3>1, <3>2
  <2>5. \A i \in Ips : Cardinality(Passed(i)') \in Nat
    <3>1. \A i \in Ips : Passed(i)' \subseteq Workers
      BY DEF Passed
    <3> QED BY <3>1, FS_Subset, FS_CardinalityType, SecurityAssumption
  <2>6. \A i \in Ips \ pardoned : Limited(memory', i)
    <3> TAKE i \in Ips \ pardoned
    <3>1. memory'.fails[i] < FailMax + Cardinality(Workers)
      BY <2>3, <2>4, <2>5, Counting, SecurityAssumption
    <3>2. memory'.fails[i] >= FailMax => i \in memory'.blocked
      BY <2>2 DEF LimitInv, Limited
    <3> QED BY <3>1, <3>2 DEF Limited
  <2> QED BY <1>t, <2>2, <2>4, <2>6 DEF LimitInv
<1>m. ASSUME NEW w \in Workers,
             \/ \E n \in memory.notices : Confirm(w, n)
             \/ \E n \in 0..1 : ClearNotices(w, n)
      PROVE  LimitInv'
  <2>1. /\ \A v \in Workers \ {w} : req'[v] = req[v]
        /\ req'[w].pc # "passed"
        /\ up' /\ UNCHANGED <<disk, pardoned>>
        /\ memory'.fails = memory.fails /\ memory'.blocked = memory.blocked
    <3>1. CASE \E n \in memory.notices : Confirm(w, n)
      BY <1>k, <3>1 DEF Confirm, Change, Ready, At, Idle, States
    <3>2. CASE \E n \in 0..1 : ClearNotices(w, n)
      <4>1. PICK n \in 0..1 : ClearNotices(w, n)
        BY <3>2
      <4> QED BY <1>k, <4>1 DEF ClearNotices, Change, Ready, At, Idle, States
    <3> QED BY <1>m, <3>1, <3>2
  <2> QED BY <1>t, <2>1, LimitKept DEF LimitInv, Limited
<1>b. ASSUME NEW w \in Workers, ClearBlacklist(w) PROVE LimitInv'
  <2>1. /\ \A v \in Workers \ {w} : req'[v] = req[v]
        /\ req'[w].pc # "passed"
        /\ up' /\ UNCHANGED <<disk>> /\ pardoned' = pardoned \cup memory.blocked
        /\ memory'.fails = memory.fails
    BY <1>b, <1>k DEF ClearBlacklist, Change, Ready, At, Idle, States
  <2>2. \A i \in Ips \ pardoned' : ~(memory.fails[i] >= FailMax)
    BY <2>1 DEF LimitInv, Limited
  <2> QED BY <1>t, <2>1, <2>2, LimitKept DEF LimitInv, Limited
<1>s. ASSUME NEW w \in Workers, OpenState(w) PROVE LimitInv'
  <2>1. /\ \A v \in Workers \ {w} : req'[v] = req[v]
        /\ req'[w].pc # "passed"
        /\ up' /\ UNCHANGED <<memory, pardoned>> /\ disk'.state = Clean
    BY <1>s, <1>k DEF OpenState, At, Reqs, history
  <2> QED BY <1>t, <2>1, CleanLimited, LimitKept DEF LimitInv
<1>w. ASSUME NEW w \in Workers, WriteState(w) PROVE LimitInv'
  <2>1. req[w].entries \in 0..2 /\ req[w] \in Reqs
    BY <1>k DEF Reqs
  <2>2. req'[w].pc # "passed" /\ \A v \in Workers \ {w} : req'[v] = req[v]
    BY <1>w, <1>k, <2>1, ThenTypes DEF WriteState
  <2>3. up' /\ UNCHANGED <<memory, pardoned>> /\ disk'.state = memory
    BY <1>w DEF WriteState, At, history
  <2> QED BY <1>t, <2>2, <2>3, LimitKept DEF LimitInv
<1>x. ASSUME Crash \/ Start \/ StartBlind PROVE LimitInv'
  <2>1. \A w \in Workers : req'[w].pc = "idle"
    BY <1>x, IdleTypes DEF Crash, Start, StartBlind, LimitInv
  <2>2. \A i : Cardinality(Passed(i)') = 0
    <3>1. \A i : Passed(i)' = {}
      BY <2>1 DEF Passed
    <3> QED BY <3>1, FS_EmptySet
  <2>3. /\ UNCHANGED <<disk, pardoned>>
        /\ memory' \in {disk.state, Clean, memory}
    BY <1>x DEF Crash, Start, StartBlind, Recovered, history
  <2>4. \A i \in Ips \ pardoned : Limited(memory', i) /\ memory'.fails[i] \in Nat
    BY <1>k, <2>3, CleanLimited, IdleTypes DEF LimitInv, States
  <2> QED BY <1>t, <2>1, <2>2, <2>3, <2>4, Counting, SecurityAssumption DEF LimitInv,
                                                                            Limited
<1>u. ASSUME UNCHANGED vars PROVE LimitInv'
  BY <1>t, <1>u DEF vars, state, history, logging, LimitInv, Limited, Passed
<1> QED
  BY <1>c, <1>r, <1>d, <1>m, <1>b, <1>s, <1>w, <1>x, <1>u DEF Next, Request

-----------------------------------------------------------------------------
(* The log. *)

\* One request at a time is between its read and its write, and what it read is all
\* that was written.
LogInv ==
  /\ Types
  /\ ~log_clash =>
       /\ \A v, w \in Workers : (req[v].pc \in {"extend", "rewrite"}
                                  /\ req[w].pc \in {"extend", "rewrite"}) => v = w
       /\ \A w \in Workers : req[w].pc \in {"extend", "rewrite"} => req[w].seen = written
       /\ LogKept

\* A step in which nobody reads or writes the log.
LEMMA LogSame ==
  ASSUME LogInv, Types', UNCHANGED logging, NEW w \in Workers,
         \A v \in Workers \ {w} : req'[v] = req[v],
         req'[w].pc \notin {"extend", "rewrite"}, req[w].pc # "rewrite"
  PROVE  LogInv'
BY DEF LogInv, LogKept, logging

LEMMA StepLog == LogInv /\ [Next]_vars => LogInv'
<1> SUFFICES ASSUME LogInv, [Next]_vars PROVE LogInv'
  OBVIOUS
<1>t. Types'
  BY StepTypes DEF LogInv
<1>k. req \in [Workers -> Reqs] /\ written \in Nat /\ log.entries \in Nat
  BY DEF LogInv, Types, TypeOK
<1>m. \A w \in Workers, p \in Pcs, k \in Nat :
        LET r == [req[w] EXCEPT !.pc = p, !.seen = k] IN r.pc = p /\ r.seen = k
  BY <1>k DEF Reqs
<1>c. ASSUME NEW w \in Workers, NEW j \in Ips, Check(w, j) PROVE LogInv'
  <2>1. [Idle EXCEPT !.ip = j] \in Reqs
    BY IdleTypes, Moves
  <2>2. /\ req[w].pc # "rewrite" /\ UNCHANGED logging
        /\ \A v \in Workers \ {w} : req'[v] = req[v]
    BY <1>c, <1>k DEF Check, Ready, At
  <2>3. CASE j \in memory.blocked
    <3>1. req'[w].pc \in {"log", "admit", "idle"}
      BY <1>c, <1>k, <2>1, <2>3, ThenTypes DEF Check
    <3> QED BY <1>t, <2>2, <3>1, LogSame
  <2>4. CASE j \notin memory.blocked
    <3>1. req'[w].pc = "passed"
      BY <1>c, <1>k, <2>4 DEF Check, Idle
    <3> QED BY <1>t, <2>2, <3>1, LogSame
  <2> QED BY <2>3, <2>4
<1>r. ASSUME NEW w \in Workers,
             RightPassword(w) \/ Admit(w) \/ Logout(w) \/ WriteState(w) \/ SaveFails(w)
      PROVE  LogInv'
  <2>1. /\ req[w].pc # "rewrite" /\ UNCHANGED logging
        /\ \A v \in Workers \ {w} : req'[v] = req[v]
    BY <1>r, <1>k DEF RightPassword, Admit, Logout, WriteState, SaveFails, Ready, At
  <2>2. [req[w] EXCEPT !.right = TRUE] \in Reqs /\ req[w].entries \in 0..2 /\ req[w] \in Reqs
    BY <1>k, Moves DEF Reqs
  <2>3. CASE RightPassword(w)
    <3>1. req'[w].pc \in {"log", "admit", "idle"}
      BY <1>k, <2>2, <2>3, ThenTypes DEF RightPassword
    <3> QED BY <1>t, <2>1, <3>1, LogSame
  <2>4. CASE Admit(w)
    BY <1>k, <1>t, <2>1, <2>4, IdleTypes, LogSame DEF Admit
  <2>5. CASE Logout(w)
    BY <1>k, <1>t, <2>1, <2>5, IdleTypes, ThenTypes, LogSame DEF Logout
  <2>6. CASE WriteState(w) \/ SaveFails(w)
    <3>1. req'[w].pc \in {"log", "admit", "idle"}
      BY <1>k, <2>2, <2>6, ThenTypes DEF WriteState, SaveFails
    <3> QED BY <1>t, <2>1, <3>1, LogSame
  <2> QED BY <1>r, <2>3, <2>4, <2>5, <2>6
<1>h. ASSUME NEW w \in Workers, NEW m, NEW r \in Reqs, NEW n \in 0..2, Change(w, m, r, n),
             req[w].pc # "rewrite"
      PROVE  LogInv'
  <2>1. /\ req'[w].pc = "save" /\ UNCHANGED logging
        /\ \A v \in Workers \ {w} : req'[v] = req[v]
    BY <1>h, <1>k DEF Change, Reqs
  <2> QED BY <1>h, <1>t, <2>1, LogSame
<1>d. ASSUME NEW w \in Workers, RecordFail(w) PROVE LogInv'
  <2> DEFINE n == IF memory.fails[req[w].ip] + 1 >= FailMax THEN 2 ELSE 1
  <2>1. n \in 0..2 /\ req[w].pc # "rewrite" /\ req[w] \in Reqs
    BY <1>d, <1>k DEF RecordFail, At
  <2>2. PICK m : Change(w, m, req[w], n)
    BY <1>d DEF RecordFail
  <2> HIDE DEF n
  <2> QED BY <1>h, <2>1, <2>2
<1>n. ASSUME NEW w \in Workers, NEW n \in memory.notices, Confirm(w, n) PROVE LogInv'
  BY <1>n, <1>h, IdleTypes DEF Confirm, Ready, At
<1>p. ASSUME NEW w \in Workers, NEW n \in 0..1, ClearNotices(w, n) PROVE LogInv'
  <2>1. n \in 0..2 /\ req[w].pc # "rewrite"
    BY <1>p DEF ClearNotices, Ready, At
  <2> QED BY <1>p, <1>h, <2>1, IdleTypes DEF ClearNotices
<1>b. ASSUME NEW w \in Workers, ClearBlacklist(w) PROVE LogInv'
  BY <1>b, <1>h, IdleTypes DEF ClearBlacklist, Ready, At
<1>s. ASSUME NEW w \in Workers, OpenState(w) PROVE LogInv'
  <2>1. /\ req'[w].pc = "write" /\ UNCHANGED logging /\ req[w].pc # "rewrite"
        /\ \A v \in Workers \ {w} : req'[v] = req[v]
    BY <1>s, <1>k DEF OpenState, At, Reqs, history
  <2> QED BY <1>t, <2>1, LogSame
<1>g. ASSUME NEW w \in Workers, ReadLog(w) PROVE LogInv'
  <2>1. SUFFICES ASSUME ~log_clash' PROVE LogInv'
    BY <1>t DEF LogInv
  <2>2. /\ ~log_clash /\ \A v \in Workers : req[v].pc \notin {"extend", "rewrite"}
        /\ log' = log /\ written' = written
        /\ \A v \in Workers \ {w} : req'[v] = req[v]
        /\ req'[w].pc = "extend"
        /\ req'[w].seen = IF log.kind = "whole" THEN log.entries ELSE 0
    BY <1>g, <1>k, <2>1 DEF ReadLog, Reqs
  <2>3. log = [kind |-> IF written = 0 THEN "absent" ELSE "whole", entries |-> written]
    BY <2>2 DEF LogInv, LogKept
  <2>4. req'[w].seen = written
    BY <1>k, <2>2, <2>3
  <2> QED BY <1>t, <2>2, <2>3, <2>4 DEF LogInv, LogKept
<1>j. ASSUME NEW w \in Workers, ReadLogFails(w) PROVE LogInv'
  BY <1>j, <1>t DEF ReadLogFails, LogInv
<1>o. ASSUME NEW w \in Workers, OpenLog(w) PROVE LogInv'
  <2>1. /\ req'[w].pc = "rewrite" /\ req'[w].seen = req[w].seen /\ req[w].pc = "extend"
        /\ \A v \in Workers \ {w} : req'[v] = req[v]
        /\ log_clash' = log_clash /\ written' = written
    BY <1>o, <1>k DEF OpenLog, At, Reqs
  <2> QED BY <1>t, <2>1 DEF LogInv, LogKept
<1>e. ASSUME NEW w \in Workers, RewriteLog(w) \/ RewriteFails(w) PROVE LogInv'
  <2>1. /\ req[w].pc \in {"extend", "rewrite"}
        /\ \A v \in Workers \ {w} : req'[v] = req[v]
        /\ [req[w] EXCEPT !.seen = 0] \in Reqs
    BY <1>e, <1>k, Moves DEF RewriteLog, RewriteFails, At
  <2>2. req[w].entries - 1 \in 0..2
    BY <1>k, <2>1 DEF LogInv, Types, Requests, Reqs, Logging
  <2>3. req'[w].pc \notin {"extend", "rewrite"}
    BY <1>e, <1>k, <2>1, <2>2, ThenTypes DEF RewriteLog, RewriteFails
  <2>4. CASE RewriteLog(w)
    <3>1. /\ log' = [kind |-> "whole", entries |-> req[w].seen + 1]
          /\ written' = written + 1 /\ log_clash' = log_clash
      BY <2>4 DEF RewriteLog
    <3> QED BY <1>k, <1>t, <2>1, <2>3, <3>1 DEF LogInv, LogKept
  <2>5. CASE RewriteFails(w)
    <3>1. SUFFICES ASSUME ~log_clash' PROVE LogInv'
      BY <1>t DEF LogInv
    <3>2. ~log_clash /\ req[w].pc = "extend" /\ log' = log /\ written' = written
      BY <2>1, <2>5, <3>1 DEF RewriteFails
    <3>3. \A v \in Workers : req[v].pc # "rewrite"
      BY <3>2 DEF LogInv
    <3> QED BY <1>t, <2>1, <2>3, <3>2, <3>3 DEF LogInv, LogKept
  <2> QED BY <1>e, <2>4, <2>5
<1>x. ASSUME Crash \/ Start \/ StartBlind PROVE LogInv'
  <2>1. CASE Crash
    <3>1. \A w \in Workers : req'[w].pc = "idle"
      BY <2>1, IdleTypes DEF Crash
    <3>2. log' = log /\ written' = written
          /\ (~log_clash' => ~log_clash /\ \A w \in Workers : req[w].pc # "rewrite")
      BY <2>1 DEF Crash
    <3> QED BY <1>t, <3>1, <3>2 DEF LogInv, LogKept
  <2>2. CASE Start \/ StartBlind
    BY <1>t, <2>2 DEF Start, StartBlind, LogInv, LogKept, logging
  <2> QED BY <1>x, <2>1, <2>2
<1>u. ASSUME UNCHANGED vars PROVE LogInv'
  BY <1>t, <1>u DEF vars, state, history, logging, LogInv, LogKept
<1> QED
  BY <1>c, <1>r, <1>d, <1>n, <1>p, <1>b, <1>s, <1>g, <1>j, <1>o, <1>e, <1>x, <1>u
     DEF Next, Request

LEMMA InitLog == Init => LogInv
<1> SUFFICES ASSUME Init PROVE LogInv
  OBVIOUS
<1>1. \A w \in Workers : req[w].pc = "idle"
  BY IdleTypes DEF Init
<1> QED
  BY <1>1, InitTypes DEF Init, LogInv, LogKept
-----------------------------------------------------------------------------
(* Theorems. *)

\* Type correctness of the tables, the files and the requests, for any number of
\* addresses, requests and faults.
THEOREM SecurityTypes == Spec => []TypeOK
  BY InitTypes, StepTypes, PTL DEF Spec, Types

\* Whatever crashes, torn files and failed opens came before, a restart would bring back
\* the tables as they are whenever no request is changing them, unless the last save
\* failed (_save_state under the lock, _load_state).
THEOREM StateSurvives == Spec => []DiskMatches
<1>1. DiskInv => DiskMatches
  BY DEF DiskInv
<1> QED
  BY <1>1, InitHolds, StepHolds, PTL DEF Spec

\* As long as no crash hit an unsaved change and no start was blind, the failures of a
\* lifetime block their address at FAIL_MAX_ATTEMPTS over any number of restarts, and
\* the requests in flight bound how far it can pass the limit.
THEOREM LimitHolds == Spec => []AttemptsLimited
<1>1. LimitInv /\ DiskInv => AttemptsLimited
  <2> SUFFICES ASSUME LimitInv, DiskInv, ~forgotten, NEW i \in Ips \ pardoned
               PROVE  /\ Settled /\ lifetime[i] >= FailMax => i \in memory.blocked
                      /\ lifetime[i] < FailMax + Cardinality(Workers)
    BY DEF AttemptsLimited
  <2>1. Limited(memory, i) /\ Limited(Recovered, i)
    BY CleanLimited DEF LimitInv, Recovered
  <2>2. lifetime = IF up THEN memory.fails ELSE Recovered.fails
    BY DEF DiskInv, Remembered
  <2> QED BY <2>1, <2>2 DEF Limited, Settled
<1> QED
  BY <1>1, InitLimit, StepLimit, InitHolds, StepHolds, PTL DEF Spec

\* The log keeps every entry as long as no two requests rewrite it at once, no rewrite
\* is cut short and no read of it fails, over any number of restarts.
THEOREM LogComplete == Spec => []LogKept
<1>1. LogInv => LogKept
  BY DEF LogInv, LogKept
<1> QED
  BY <1>1, InitLog, StepLog, PTL DEF Spec

\* The logins, sessions and viewers together implement Security: a session neither
\* changes its tables nor adds steps of its own to its files.
THEOREM AccessImplements == AccessSpec => Spec
<1>1. AccessInit => Init
  BY DEF AccessInit
<1>2. AccessNext => Next \/ UNCHANGED vars
  <2> SUFFICES ASSUME AccessNext PROVE Next \/ UNCHANGED vars
    OBVIOUS
  <2>1. CASE CrashAll
    BY <2>1 DEF CrashAll, Next
  <2>2. CASE Start \/ StartBlind \/ \E w \in Workers : Request(w)
    BY <2>2 DEF Next
  <2>3. CASE \E w \in Workers, t \in Tokens : CreateToken(w, t) \/ Revoke(w, t)
    BY <2>3 DEF CreateToken, Revoke, Next
  <2>4. CASE \/ \E w \in Workers : Kicking(w)
             \/ \E t \in Tokens : Expire(t)
             \/ \E s \in Sids : SidStep(s) \/ Leave(s) \/ \E t \in Tokens : ConnectCheck(s, t)
    BY <2>4 DEF Kicking, Kick, Expire, SidStep, AddViewer, AnnounceZero, Leave, ConnectCheck
  <2> QED BY <2>1, <2>2, <2>3, <2>4 DEF AccessNext
<1>3. [AccessNext]_avars => [Next]_vars
  BY <1>2 DEF avars
<1> QED
  BY <1>1, <1>3, PTL DEF AccessSpec, Spec

\* So the limit, the agreement with the file and the log hold with sessions as well.
THEOREM AccessInherits == AccessSpec => [](AttemptsLimited /\ DiskMatches /\ LogKept)
BY AccessImplements, LimitHolds, StateSurvives, LogComplete, PTL

-----------------------------------------------------------------------------
(* The sockets of the composition.                                          *)

SessionTypes ==
  /\ token \in [Tokens -> {"unused", "valid", "revoked", "expired"}]
  /\ sid \in [Sids -> [pc : SidPcs, token : Tokens \cup {NoToken}]]
  /\ kicks \in [Workers -> SUBSET Sids]
  /\ zero \in BOOLEAN /\ slipped \subseteq Sids

\* A socket that has got past the check has a token.
Checked == \A s \in Sids : sid[s].pc \in {"checked", "viewer"} => sid[s].token \in Tokens

\* A viewer whose token was revoked is on the list of a request that has yet to
\* disconnect it, unless it slipped in; nobody else will enter with a revoked token.
Kicked ==
  \A s \in Sids \ slipped :
    sid[s].pc \in {"checked", "viewer"} /\ token[sid[s].token] = "revoked" =>
      sid[s].pc = "viewer" /\ \E w \in Workers : s \in kicks[w]

SessionInv == SessionTypes /\ Checked /\ ZeroAnnounced /\ Kicked

\* A step of one socket.
LEMMA SocketStep ==
  ASSUME SessionInv, NEW s \in Sids, NEW r \in [pc : SidPcs, token : Tokens \cup {NoToken}],
         r.pc \in {"checked", "viewer"} => r.token \in Tokens,
         sid' = [sid EXCEPT ![s] = r],
         token' = token, slipped' = slipped, SessionTypes',
         \A w \in Workers, q \in Sids \ {s} : q \in kicks[w] => q \in kicks'[w],
         r.pc \in {"checked", "viewer"} /\ s \notin slipped /\ token[r.token] = "revoked" =>
           r.pc = "viewer" /\ \E w \in Workers : s \in kicks'[w],
         ZeroAnnounced'
  PROVE  SessionInv'
<1>1. Checked'
  BY DEF SessionInv, SessionTypes, Checked
<1>2. Kicked'
  BY DEF SessionInv, SessionTypes, Kicked
<1> QED BY <1>1, <1>2 DEF SessionInv

\* The viewers when a socket has become r.
LEMMA ViewersAfter ==
  ASSUME SessionTypes, NEW s \in Sids, NEW r, sid' = [sid EXCEPT ![s] = r]
  PROVE  Viewers' = IF r.pc = "viewer" THEN Viewers \cup {s} ELSE Viewers \ {s}
BY DEF SessionTypes, Viewers

LEMMA RemoveViewerStep ==
  ASSUME SessionInv, NEW s \in Sids, RemoveViewer(s), token' = token, zero' = zero,
         slipped' = slipped, kicks' \in [Workers -> SUBSET Sids],
         \A w \in Workers, q \in Sids \ {s} : q \in kicks[w] => q \in kicks'[w]
  PROVE  SessionInv'
<1> DEFINE r == [sid[s] EXCEPT !.pc = IF @ = "viewer" THEN "leaving" ELSE @]
<1>1. r \in [pc : SidPcs, token : Tokens \cup {NoToken}] /\ r.token = sid[s].token
      /\ r.pc = IF sid[s].pc = "viewer" THEN "leaving" ELSE sid[s].pc
  BY DEF SessionInv, SessionTypes, SidPcs
<1>2. sid' = [sid EXCEPT ![s] = r]
  BY DEF RemoveViewer
<1>3. SessionTypes'
  BY <1>1, <1>2 DEF SessionInv, SessionTypes
<1>4. r.pc # "viewer"
  BY <1>1
<1>5. ZeroAnnounced'
  <2>1. Viewers' = Viewers \ {s}
    BY <1>2, <1>4, ViewersAfter DEF SessionInv
  <2>2. sid[s].pc = "viewer" => sid'[s].pc = "leaving"
    BY <1>1, <1>2 DEF SessionInv, SessionTypes
  <2>3. sid[s].pc # "viewer" => s \notin Viewers /\ sid'[s].pc = sid[s].pc
    BY <1>1, <1>2 DEF SessionInv, SessionTypes, Viewers
  <2>4. \A q \in Sids \ {s} : sid'[q] = sid[q]
    BY <1>2 DEF SessionInv, SessionTypes
  <2> QED BY <2>1, <2>2, <2>3, <2>4 DEF SessionInv, ZeroAnnounced
<1>6. r.pc = "checked" => r = sid[s]
  BY <1>1 DEF SessionInv, SessionTypes
<1>7. r.pc \in {"checked", "viewer"} /\ s \notin slipped => token[r.token] # "revoked"
  BY <1>1, <1>4, <1>6 DEF SessionInv, Kicked
<1>8. r.pc \in {"checked", "viewer"} => r.token \in Tokens
  BY <1>1, <1>4, <1>6 DEF SessionInv, Checked
<1> QED BY <1>1, <1>2, <1>3, <1>5, <1>7, <1>8, SocketStep

LEMMA ConnectStep ==
  ASSUME SessionInv, NEW s \in Sids, NEW t \in Tokens, ConnectCheck(s, t)
  PROVE  SessionInv'
<1> DEFINE r == [pc |-> "checked", token |-> t]
<1>1. r \in [pc : SidPcs, token : Tokens \cup {NoToken}]
  BY DEF SidPcs
<1>2. SessionTypes'
  BY <1>1 DEF ConnectCheck, SessionInv, SessionTypes
<1>3. ZeroAnnounced'
  <2>1. Viewers' = Viewers
    BY ViewersAfter DEF ConnectCheck, SessionInv, Viewers
  <2>2. \A q \in Sids : sid'[q].pc # "leaving" => sid[q].pc # "leaving"
    BY DEF ConnectCheck, SessionInv, SessionTypes
  <2> QED BY <2>1, <2>2 DEF ConnectCheck, SessionInv, ZeroAnnounced
<1> QED BY <1>1, <1>2, <1>3, SocketStep DEF ConnectCheck

LEMMA AddViewerStep ==
  ASSUME SessionInv, NEW s \in Sids, AddViewer(s)
  PROVE  SessionInv'
<1> DEFINE r == [sid[s] EXCEPT !.pc = "viewer"]
<1>1. r \in [pc : SidPcs, token : Tokens \cup {NoToken}] /\ r.token = sid[s].token
      /\ r.pc = "viewer" /\ sid' = [sid EXCEPT ![s] = r]
  BY DEF AddViewer, SessionInv, SessionTypes, SidPcs
<1>2. SessionTypes'
  BY <1>1 DEF AddViewer, SessionInv, SessionTypes
<1>3. ZeroAnnounced'
  BY <1>1, ViewersAfter DEF SessionInv, ZeroAnnounced
\* Nobody enters with a revoked token unless it slipped in.
<1>4. r.token \in Tokens /\ (s \notin slipped => token[r.token] # "revoked")
  BY <1>1 DEF AddViewer, SessionInv, Checked, Kicked
<1> QED BY <1>1, <1>2, <1>3, <1>4, SocketStep DEF AddViewer

LEMMA AnnounceStep ==
  ASSUME SessionInv, NEW s \in Sids, AnnounceZero(s)
  PROVE  SessionInv'
<1> DEFINE r == [sid[s] EXCEPT !.pc = "gone"]
<1>1. r \in [pc : SidPcs, token : Tokens \cup {NoToken}] /\ r.pc = "gone"
      /\ sid' = [sid EXCEPT ![s] = r]
  BY DEF AnnounceZero, SessionInv, SessionTypes, SidPcs
<1>2. SessionTypes'
  BY <1>1 DEF AnnounceZero, SessionInv, SessionTypes
<1>3. ZeroAnnounced'
  <2>1. Viewers' = Viewers
    BY <1>1, ViewersAfter DEF AnnounceZero, SessionInv, Viewers
  <2> QED BY <2>1 DEF AnnounceZero, ZeroAnnounced
<1> QED BY <1>1, <1>2, <1>3, SocketStep DEF AnnounceZero

\* A token that runs out is no longer revoked by anyone's list.
LEMMA TokenStep ==
  ASSUME SessionInv, NEW t \in Tokens, NEW v \in {"valid", "expired"},
         token' = [token EXCEPT ![t] = v],
         sid' = sid, kicks' = kicks, zero' = zero, slipped' = slipped
  PROVE  SessionInv'
<1>1. SessionTypes' /\ Checked' /\ ZeroAnnounced'
  BY DEF SessionInv, SessionTypes, Checked, ZeroAnnounced, Viewers
<1>2. Kicked'
  BY DEF SessionInv, SessionTypes, Checked, Kicked
<1> QED BY <1>1, <1>2 DEF SessionInv

\* A logout lists the viewers of its token; those about to enter have slipped in.  Its
\* own list was empty, so nobody is forgotten.
LEMMA RevokeStep ==
  ASSUME SessionInv, NEW w \in Workers, NEW t \in Tokens, Revoke(w, t)
  PROVE  SessionInv'
<1>1. SessionTypes'
  BY DEF Revoke, SessionInv, SessionTypes, Holding
<1>2. Checked' /\ ZeroAnnounced'
  BY DEF Revoke, SessionInv, Checked, ZeroAnnounced, Viewers
<1>3. Kicked'
  <2> SUFFICES ASSUME NEW s \in Sids \ slipped', sid[s].pc \in {"checked", "viewer"},
                      token'[sid[s].token] = "revoked"
               PROVE  sid[s].pc = "viewer" /\ \E v \in Workers : s \in kicks'[v]
    BY DEF Kicked, Revoke
  <2>1. sid[s].token \in Tokens /\ sid[s] \in [pc : SidPcs, token : Tokens \cup {NoToken}]
    BY DEF SessionInv, SessionTypes, Checked
  <2>2. CASE sid[s].token = t
    <3>1. sid[s] = [pc |-> sid[s].pc, token |-> t]
      BY <2>1, <2>2
    <3>2. sid[s].pc = "viewer" /\ s \in Holding(t, "viewer")
      BY <3>1 DEF Revoke, Holding
    <3> QED BY <3>2 DEF Revoke, SessionInv, SessionTypes
  <2>3. CASE sid[s].token # t
    <3>1. token[sid[s].token] = "revoked" /\ s \notin slipped
      BY <2>1, <2>3 DEF Revoke, SessionInv, SessionTypes, Holding
    <3>2. sid[s].pc = "viewer" /\ \E v \in Workers : s \in kicks[v]
      BY <3>1 DEF SessionInv, Kicked
    <3>3. \A v \in Workers : s \in kicks[v] => v # w /\ kicks'[v] = kicks[v]
      BY DEF Revoke, SessionInv, SessionTypes
    <3> QED BY <3>2, <3>3
  <2> QED BY <2>2, <2>3
<1> QED BY <1>1, <1>2, <1>3 DEF SessionInv

LEMMA CrashStep ==
  ASSUME SessionInv, CrashAll
  PROVE  SessionInv'
<1>1. \A s \in Sids : sid'[s] \in [pc : SidPcs, token : Tokens \cup {NoToken}]
                      /\ sid'[s].pc \in {"new", "gone"}
  BY DEF CrashAll, SessionInv, SessionTypes, SidPcs
<1>2. SessionTypes'
  BY <1>1 DEF CrashAll, SessionInv, SessionTypes
<1>3. Checked' /\ ZeroAnnounced' /\ Kicked'
  BY <1>1 DEF CrashAll, Checked, ZeroAnnounced, Kicked
<1> QED BY <1>2, <1>3 DEF SessionInv

LEMMA SessionStep == SessionInv /\ [AccessNext]_avars => SessionInv'
<1> SUFFICES ASSUME SessionInv, [AccessNext]_avars PROVE SessionInv'
  OBVIOUS
<1>1. ASSUME UNCHANGED sessions PROVE SessionInv'
  BY <1>1 DEF sessions, SessionInv, SessionTypes, Checked, ZeroAnnounced, Kicked, Viewers
<1>2. CASE CrashAll
  BY <1>2, CrashStep
<1>3. ASSUME NEW w \in Workers, NEW t \in Tokens, CreateToken(w, t) PROVE SessionInv'
  BY <1>3, TokenStep DEF CreateToken
<1>4. ASSUME NEW w \in Workers, NEW t \in Tokens, Revoke(w, t) PROVE SessionInv'
  BY <1>4, RevokeStep
<1>5. ASSUME NEW w \in Workers, NEW s \in Sids, Kick(w, s) PROVE SessionInv'
  <2>1. kicks' \in [Workers -> SUBSET Sids]
    BY <1>5 DEF Kick, SessionInv, SessionTypes
  <2>2. \A v \in Workers, q \in Sids \ {s} : q \in kicks[v] => q \in kicks'[v]
    BY <1>5 DEF Kick, SessionInv, SessionTypes
  <2> QED BY <1>5, <2>1, <2>2, RemoveViewerStep DEF Kick
<1>6. ASSUME NEW t \in Tokens, Expire(t) PROVE SessionInv'
  BY <1>6, TokenStep DEF Expire
<1>7. ASSUME NEW s \in Sids, Leave(s) PROVE SessionInv'
  BY <1>7, RemoveViewerStep DEF Leave, SessionInv, SessionTypes
<1>8. ASSUME NEW s \in Sids, SidStep(s) \/ \E t \in Tokens : ConnectCheck(s, t)
      PROVE  SessionInv'
  BY <1>8, AddViewerStep, AnnounceStep, ConnectStep DEF SidStep
<1>9. CASE UNCHANGED avars
  BY <1>1, <1>9 DEF avars
<1> QED BY <1>1, <1>2, <1>3, <1>4, <1>5, <1>6, <1>7, <1>8, <1>9 DEF AccessNext, Kicking

LEMMA InitSessions == AccessInit => SessionInv
BY DEF AccessInit, SessionInv, SessionTypes, Checked, ZeroAnnounced, Kicked, SidPcs

LEMMA AlwaysSessions == AccessSpec => []SessionInv
BY InitSessions, SessionStep, PTL DEF AccessSpec

\* Every variable of the composition keeps its type: those of Security, and the tokens,
\* the sockets and the lists of viewers to disconnect.
THEOREM AccessTypes == AccessSpec => []AccessTypeOK
<1>1. SessionInv /\ TypeOK => AccessTypeOK
  BY DEF SessionInv, SessionTypes, AccessTypeOK
<1> QED BY <1>1, AlwaysSessions, AccessImplements, SecurityTypes, PTL

\* viewer.zero is announced whenever the last viewer has left, whatever his token and
\* whoever else comes and goes: a departure is counted after its own removal.
THEOREM ZeroIsAnnounced == AccessSpec => []ZeroAnnounced
<1>1. SessionInv => ZeroAnnounced
  BY DEF SessionInv
<1> QED BY <1>1, AlwaysSessions, PTL

\* No logout forgets a connection made with its token: as long as it lasts, a request
\* has it on its list, unless it was between the check and the entry (the safety half
\* of RevokedLeave; that the thread gets to it needs its fairness).
THEOREM RevokedHaveKicker ==
  AccessSpec => [](\A s \in Viewers \ slipped :
                     token[sid[s].token] = "revoked" => \E w \in Workers : s \in kicks[w])
<1>1. SessionInv => \A s \in Viewers \ slipped :
                      token[sid[s].token] = "revoked" => \E w \in Workers : s \in kicks[w]
  BY DEF SessionInv, Kicked, Viewers
<1> QED BY <1>1, AlwaysSessions, PTL
=============================================================================

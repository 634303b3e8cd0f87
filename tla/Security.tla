------------------------------ MODULE Security ------------------------------
(***************************************************************************)
(* Failed logins, the blacklist, the notices an admin must confirm and the   *)
(* two files that outlive the process.  Sources: security.py and the        *)
(* handlers of app.py that call it.                                         *)
(*                                                                          *)
(* Memory and the state file change under one lock; the question whether an *)
(* address is blocked and the counting of its failure are two critical      *)
(* sections; the event log is read, extended and rewritten under no lock.   *)
(* Both files are truncated and then written.  A crash or an error after the *)
(* open leaves a torn file, which the next start reads as no file at all; an *)
(* open that fails leaves the file of an earlier save, or none.              *)
(***************************************************************************)
EXTENDS Naturals, FiniteSets

CONSTANTS Ips, Workers,   \* client addresses; request threads
          NoIp, Nobody,
          FailMax,        \* FAIL_MAX_ATTEMPTS
          MaxFails,       \* bound: failures counted per address, ever
          MaxEntries,     \* bound: entries written to the log
          MaxFaults       \* bound: crashes, failed reads and failed writes

ASSUME SecurityAssumption ==
  /\ FailMax \in Nat \ {0} /\ MaxFails \in Nat /\ MaxEntries \in Nat /\ MaxFaults \in Nat
  /\ NoIp \notin Ips /\ Nobody \notin Workers /\ IsFiniteSet(Workers)

VARIABLES
  up,        \* the process runs
  lock,      \* holder of SecurityManager._lock
  memory,    \* _fail_counts, _blacklist_info, _notifications
  disk,      \* SECURITY_BLACKLIST_FILE: [kind, state]
  log,       \* SECURITY_LOG_FILE: [kind, entries], a count of the entries
  req,       \* the requests: [pc, ip, entries, seen, right]
  faults,    \* crashes, failed reads and failed writes so far
  \* history, for the properties only
  unsaved,   \* the file is not the tables': the last save, or the last load, failed
  pardoned,  \* addresses on a blacklist an admin has cleared
  lifetime,  \* failures counted for each address since the first start
  forgotten, \* a crash hit tables that were not saved, or a start could not read them
  written,   \* log entries whose write ended
  log_clash  \* two rewrites of the log overlapped, one was cut short or a read failed

logging == <<log, written, log_clash>>
history == <<pardoned, lifetime, forgotten>>
state   == <<lock, memory, disk, unsaved, history>>
vars    == <<up, req, faults, state, logging>>

\* A notice of a block: the address and the count that raised it.
Notices == Ips \X Nat
States  == [fails : [Ips -> Nat], blocked : SUBSET Ips, notices : SUBSET Notices]
Clean   == [fails |-> [i \in Ips |-> 0], blocked |-> {}, notices |-> {}]
Idle    == [pc |-> "idle", ip |-> NoIp, entries |-> 0, seen |-> 0, right |-> FALSE]
Kinds   == {"absent", "torn", "whole"}
Logging == {"log", "extend", "rewrite"}
Pcs     == {"idle", "passed", "save", "write", "admit"} \cup Logging
Reqs    == [pc : Pcs, ip : Ips \cup {NoIp}, entries : 0..2, seen : Nat, right : BOOLEAN]

TypeOK ==
  /\ up \in BOOLEAN /\ lock \in Workers \cup {Nobody}
  /\ memory \in States
  /\ disk \in [kind : Kinds, state : States]
  /\ log \in [kind : Kinds, entries : Nat]
  /\ req \in [Workers -> Reqs]
  /\ faults \in 0..MaxFaults
  /\ unsaved \in BOOLEAN /\ pardoned \subseteq Ips
  /\ lifetime \in [Ips -> Nat] /\ forgotten \in BOOLEAN
  /\ written \in Nat /\ log_clash \in BOOLEAN

Init ==
  /\ up = TRUE /\ lock = Nobody /\ memory = Clean
  /\ disk = [kind |-> "absent", state |-> Clean]
  /\ log = [kind |-> "absent", entries |-> 0]
  /\ req = [w \in Workers |-> Idle]
  /\ faults = 0 /\ unsaved = FALSE /\ pardoned = {}
  /\ lifetime = [i \in Ips |-> 0] /\ forgotten = FALSE
  /\ written = 0 /\ log_clash = FALSE

At(w, pc) == up /\ req[w].pc = pc
Ready(w)  == At(w, "idle") /\ written < MaxEntries

\* What is left of a request with n log entries to write.
Then(r, n) ==
  [r EXCEPT !.entries = n,
            !.pc = IF n > 0 THEN "log" ELSE IF r.right THEN "admit" ELSE "idle"]
-----------------------------------------------------------------------------
(* A login. *)

\* Nobody asks is_blacklisted.
CheckNothing(w, i) ==
  /\ Ready(w) /\ lock = Nobody
  /\ req' = [req EXCEPT ![w] = [Idle EXCEPT !.pc = "passed", !.ip = i]]
  /\ UNCHANGED <<up, state, logging, faults>>

\* is_blacklisted: a blocked address is only logged.
Check(w, i) ==
  /\ Ready(w) /\ lock = Nobody
  /\ req' = [req EXCEPT ![w] = IF i \in memory.blocked
                               THEN Then([Idle EXCEPT !.ip = i], 1)
                               ELSE [Idle EXCEPT !.pc = "passed", !.ip = i]]
  /\ UNCHANGED <<up, state, logging, faults>>

\* The right password: record_success, and then the session is made.
RightPassword(w) ==
  /\ At(w, "passed")
  /\ req' = [req EXCEPT ![w] = Then([@ EXCEPT !.right = TRUE], 1)]
  /\ UNCHANGED <<up, state, logging, faults>>

Admit(w) ==
  /\ At(w, "admit")
  /\ req' = [req EXCEPT ![w] = Idle]
  /\ UNCHANGED <<up, state, logging, faults>>

\* record_logout.
Logout(w) ==
  /\ Ready(w)
  /\ req' = [req EXCEPT ![w] = Then(Idle, 1)]
  /\ UNCHANGED <<up, state, logging, faults>>

\* A change of the tables: the lock is held until the file is written.
Change(w, tables, r, n) ==
  /\ lock = Nobody /\ lock' = w
  /\ memory' = tables
  /\ req' = [req EXCEPT ![w] = [r EXCEPT !.pc = "save", !.entries = n]]
  /\ UNCHANGED <<up, disk, unsaved, forgotten, logging, faults>>

\* record_fail: from the limit on, every failure blocks and raises a notice.
RecordFail(w) ==
  LET i     == req[w].ip
      count == memory.fails[i] + 1
      block == count >= FailMax
  IN  /\ At(w, "passed") /\ lifetime[i] < MaxFails
      /\ Change(w, [fails   |-> [memory.fails EXCEPT ![i] = count],
                    blocked |-> memory.blocked \cup (IF block THEN {i} ELSE {}),
                    notices |-> memory.notices \cup (IF block THEN {<<i, count>>} ELSE {})],
                req[w], IF block THEN 2 ELSE 1)
      /\ lifetime' = [lifetime EXCEPT ![i] = @ + 1]
      /\ pardoned' = pardoned
-----------------------------------------------------------------------------
(* What an admin does. *)

\* A confirmation that is not saved.
ConfirmInMemory(w, n) ==
  /\ Ready(w) /\ lock = Nobody /\ n \in memory.notices
  /\ memory' = [memory EXCEPT !.notices = @ \ {n}]
  /\ UNCHANGED <<up, lock, disk, req, unsaved, history, logging, faults>>

\* confirm_notification: an unknown id changes nothing.
Confirm(w, n) ==
  /\ Ready(w) /\ n \in memory.notices
  /\ Change(w, [memory EXCEPT !.notices = @ \ {n}], Idle, 0)
  /\ UNCHANGED <<pardoned, lifetime>>

\* confirm_all_notifications writes no log entry, clear_notifications does.
ClearNotices(w, n) ==
  /\ Ready(w)
  /\ Change(w, [memory EXCEPT !.notices = {}], Idle, n)
  /\ UNCHANGED <<pardoned, lifetime>>

\* clear_blacklist: the counts stay.
ClearBlacklist(w) ==
  /\ Ready(w)
  /\ Change(w, [memory EXCEPT !.blocked = {}], Idle, 1)
  /\ pardoned' = pardoned \cup memory.blocked
  /\ lifetime' = lifetime
-----------------------------------------------------------------------------
(* _save_state: open for writing truncates the file. *)

OpenState(w) ==
  /\ At(w, "save")
  /\ disk' = [kind |-> "torn", state |-> Clean]
  /\ req' = [req EXCEPT ![w].pc = "write"]
  /\ UNCHANGED <<up, lock, memory, unsaved, history, logging, faults>>

WriteState(w) ==
  /\ At(w, "write")
  /\ disk' = [kind |-> "whole", state |-> memory]
  /\ lock' = Nobody
  /\ unsaved' = FALSE
  /\ req' = [req EXCEPT ![w] = Then(@, @.entries)]
  /\ UNCHANGED <<up, memory, history, logging, faults>>

\* The open or the write fails: the exception is printed and the request goes on.
SaveFails(w) ==
  /\ (At(w, "save") \/ At(w, "write")) /\ faults < MaxFaults
  /\ faults' = faults + 1
  /\ lock' = Nobody
  /\ unsaved' = TRUE
  /\ req' = [req EXCEPT ![w] = Then(@, @.entries)]
  /\ UNCHANGED <<up, memory, disk, history, logging>>
-----------------------------------------------------------------------------
(* _write_log, for every entry of a request: no lock is held. *)

\* A log that exists is not read.
ReadNothing(w) ==
  /\ At(w, "log")
  /\ req' = [req EXCEPT ![w] = [@ EXCEPT !.pc = "extend", !.seen = 0]]
  /\ log_clash' = (log_clash \/ \E v \in Workers : req[v].pc \in {"extend", "rewrite"})
  /\ UNCHANGED <<up, state, log, written, faults>>

\* An absent or unreadable log reads as an empty one.
ReadLog(w) ==
  /\ At(w, "log")
  /\ req' = [req EXCEPT ![w] =
                [@ EXCEPT !.pc = "extend",
                          !.seen = IF log.kind = "whole" THEN log.entries ELSE 0]]
  /\ log_clash' = (log_clash \/ \E v \in Workers : req[v].pc \in {"extend", "rewrite"})
  /\ UNCHANGED <<up, state, log, written, faults>>

\* The same of a log that is there and cannot be read: it will be replaced.
ReadLogFails(w) ==
  /\ At(w, "log") /\ log.kind = "whole" /\ faults < MaxFaults
  /\ faults' = faults + 1
  /\ req' = [req EXCEPT ![w] = [@ EXCEPT !.pc = "extend", !.seen = 0]]
  /\ log_clash' = TRUE
  /\ UNCHANGED <<up, state, log, written>>

OpenLog(w) ==
  /\ At(w, "extend")
  /\ log' = [kind |-> "torn", entries |-> 0]
  /\ req' = [req EXCEPT ![w].pc = "rewrite"]
  /\ UNCHANGED <<up, state, written, log_clash, faults>>

RewriteLog(w) ==
  /\ At(w, "rewrite")
  /\ log' = [kind |-> "whole", entries |-> req[w].seen + 1]
  /\ written' = written + 1
  /\ req' = [req EXCEPT ![w] = Then([@ EXCEPT !.seen = 0], @.entries - 1)]
  /\ UNCHANGED <<up, state, log_clash, faults>>

\* The open or the write fails: the entry is lost.
RewriteFails(w) ==
  /\ (At(w, "extend") \/ At(w, "rewrite")) /\ faults < MaxFaults
  /\ faults' = faults + 1
  /\ log_clash' = (log_clash \/ req[w].pc = "rewrite")
  /\ req' = [req EXCEPT ![w] = Then([@ EXCEPT !.seen = 0], @.entries - 1)]
  /\ UNCHANGED <<up, state, log, written>>
-----------------------------------------------------------------------------
(* The process ends, anywhere, and starts again. *)

Crash ==
  /\ up /\ faults < MaxFaults
  /\ up' = FALSE /\ lock' = Nobody /\ memory' = Clean /\ unsaved' = FALSE
  /\ req' = [w \in Workers |-> Idle]
  /\ faults' = faults + 1
  /\ forgotten' = (forgotten \/ unsaved \/ lock # Nobody)
  /\ log_clash' = (log_clash \/ \E w \in Workers : req[w].pc = "rewrite")
  /\ UNCHANGED <<disk, log, pardoned, lifetime, written>>

\* What a start finds in the state file: a torn file leaves the tables empty.
Recovered == IF disk.kind = "whole" THEN disk.state ELSE Clean

\* _load_state.
Start ==
  /\ ~up
  /\ up' = TRUE
  /\ memory' = Recovered
  /\ UNCHANGED <<lock, disk, unsaved, history, req, logging, faults>>

\* A file that is there and cannot be read leaves them empty as well, and stays.
StartBlind ==
  /\ ~up /\ disk.kind = "whole" /\ faults < MaxFaults
  /\ faults' = faults + 1
  /\ up' = TRUE
  /\ unsaved' = TRUE /\ forgotten' = TRUE
  /\ UNCHANGED <<lock, memory, disk, pardoned, lifetime, req, logging>>
-----------------------------------------------------------------------------
Request(w) ==
  \/ \E i \in Ips : Check(w, i)
  \/ RightPassword(w) \/ RecordFail(w)
  \/ \E n \in memory.notices : Confirm(w, n)
  \/ \E n \in 0..1 : ClearNotices(w, n)
  \/ ClearBlacklist(w)
  \/ OpenState(w) \/ WriteState(w) \/ SaveFails(w)
  \/ ReadLog(w) \/ ReadLogFails(w) \/ OpenLog(w) \/ RewriteLog(w) \/ RewriteFails(w)

Next == Crash \/ Start \/ StartBlind \/ \E w \in Workers : Request(w) \/ Admit(w) \/ Logout(w)

Spec == Init /\ [][Next]_vars
-----------------------------------------------------------------------------
(* Properties. *)

Settled == up /\ lock = Nobody

\* FAIL_MAX_ATTEMPTS holds for the failures of a lifetime (record_fail): an address
\* that has failed so often, over any number of restarts, is blocked until an admin
\* clears the blacklist, and, the check and the count being two critical sections, it
\* fails beyond the limit less often than there are requests in flight.  The code does
\* not keep this through a crash that hits a save, or follows one that failed, nor
\* through a start that cannot read the file: count and block are then forgotten.
AttemptsLimited == ~forgotten => \A i \in Ips \ pardoned :
  /\ Settled /\ lifetime[i] >= FailMax => i \in memory.blocked
  /\ lifetime[i] < FailMax + Cardinality(Workers)

\* Whenever nobody holds the lock, a restart would bring back the tables as they are,
\* whatever crashes, torn files and failed saves came before, unless the last save (or
\* the load) failed: no change of the tables is left without its save.
DiskMatches == Settled /\ ~unsaved => memory = Recovered

\* The log keeps every entry that was written, across restarts and failed opens, unless
\* two requests rewrote it at once, a rewrite was cut short or the log was unreadable.
LogKept == ~log_clash /\ (\A w \in Workers : req[w].pc # "rewrite") =>
  log = [kind |-> IF written = 0 THEN "absent" ELSE "whole", entries |-> written]
=============================================================================

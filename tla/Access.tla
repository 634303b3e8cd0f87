------------------------------- MODULE Access -------------------------------
(***************************************************************************)
(* Logins, sessions and viewers: Security composed with the tokens and the   *)
(* viewer table of state/session.py and the login, logout, connect and       *)
(* disconnect handlers of app.py.  A session begins where a login of         *)
(* Security ends, and a logout is a request that writes its entry to the     *)
(* same log.                                                                *)
(*                                                                          *)
(* on_connect asks whether the token is valid and then enters the viewer,    *)
(* two critical sections; a logout revokes the token and collects the        *)
(* viewers to disconnect in one, and disconnects them on a thread of its own.*)
(***************************************************************************)
EXTENDS Security

CONSTANTS Tokens, Sids, NoToken

ASSUME AccessAssumption == NoToken \notin Tokens

VARIABLES
  token,     \* _valid_tokens, _token_expiry: what became of each token
  sid,       \* the sockets: [pc, token]
  kicks,     \* per logout request: the sids its thread has yet to disconnect
  zero,      \* viewer.zero was announced and nobody has connected since
  \* history, for the properties only
  slipped    \* sids between the check and the entry when their token was revoked

sessions == <<token, sid, kicks, zero, slipped>>
avars    == <<vars, sessions>>

SidPcs  == {"new", "checked", "viewer", "leaving", "gone"}
Viewers == {s \in Sids : sid[s].pc = "viewer"}
Holding(t, pc) == {s \in Sids : sid[s] = [pc |-> pc, token |-> t]}

AccessTypeOK ==
  /\ TypeOK
  /\ token \in [Tokens -> {"unused", "valid", "revoked", "expired"}]
  /\ sid \in [Sids -> [pc : SidPcs, token : Tokens \cup {NoToken}]]
  /\ kicks \in [Workers -> SUBSET Sids]
  /\ zero \in BOOLEAN /\ slipped \subseteq Sids

AccessInit ==
  /\ Init
  /\ token = [t \in Tokens |-> "unused"]
  /\ sid = [s \in Sids |-> [pc |-> "new", token |-> NoToken]]
  /\ kicks = [w \in Workers |-> {}]
  /\ zero = TRUE /\ slipped = {}
-----------------------------------------------------------------------------
\* create_token, at the end of a login.
CreateToken(w, t) ==
  /\ Admit(w) /\ token[t] = "unused"
  /\ token' = [token EXCEPT ![t] = "valid"]
  /\ UNCHANGED <<sid, kicks, zero, slipped>>

\* is_valid_token: an expired token is removed by the check that finds it; the viewers
\* who hold it stay.
Expire(t) ==
  /\ up /\ token[t] = "valid"
  /\ token' = [token EXCEPT ![t] = "expired"]
  /\ UNCHANGED <<vars, sid, kicks, zero, slipped>>

ConnectCheck(s, t) ==
  /\ up /\ sid[s].pc = "new" /\ token[t] = "valid"
  /\ sid' = [sid EXCEPT ![s] = [pc |-> "checked", token |-> t]]
  /\ UNCHANGED <<vars, token, kicks, zero, slipped>>

AddViewer(s) ==
  /\ sid[s].pc = "checked"
  /\ sid' = [sid EXCEPT ![s].pc = "viewer"]
  /\ zero' = FALSE
  /\ UNCHANGED <<vars, token, kicks, slipped>>

\* A logout that revokes the token and disconnects nobody who came with it.
RevokeOnly(w, t) ==
  /\ Logout(w) /\ kicks[w] = {} /\ token[t] # "unused"
  /\ token' = [token EXCEPT ![t] = "revoked"]
  /\ slipped' = slipped \cup Holding(t, "checked")
  /\ UNCHANGED <<sid, kicks, zero>>

\* logout: revoke_token, record_logout, and then the thread that disconnects.
Revoke(w, t) ==
  /\ Logout(w) /\ kicks[w] = {} /\ token[t] # "unused"
  /\ token' = [token EXCEPT ![t] = "revoked"]
  /\ kicks' = [kicks EXCEPT ![w] = Holding(t, "viewer")]
  /\ slipped' = (slipped \ Holding(t, "viewer")) \cup Holding(t, "checked")
  /\ UNCHANGED <<sid, zero>>

\* remove_viewer, the critical section.
RemoveViewer(s) == sid' = [sid EXCEPT ![s].pc = IF @ = "viewer" THEN "leaving" ELSE @]

\* sio.disconnect(sid), once the logout is logged: of a socket that has left it does nothing.
Kick(w, s) ==
  /\ req[w].pc \notin Logging /\ s \in kicks[w]
  /\ kicks' = [kicks EXCEPT ![w] = @ \ {s}]
  /\ RemoveViewer(s)
  /\ UNCHANGED <<vars, token, zero, slipped>>

\* The viewer leaves by himself.
Leave(s) ==
  /\ sid[s].pc = "viewer"
  /\ RemoveViewer(s)
  /\ UNCHANGED <<vars, token, kicks, zero, slipped>>

\* A departure is announced for a valid token only.
AnnounceIfValid(s) ==
  /\ sid[s].pc = "leaving"
  /\ sid' = [sid EXCEPT ![s].pc = "gone"]
  /\ zero' = (zero \/ (Viewers = {} /\ token[sid[s].token] = "valid"))
  /\ UNCHANGED <<vars, token, kicks, slipped>>

\* remove_viewer after it has released the lock: the viewers are counted again.
AnnounceZero(s) ==
  /\ sid[s].pc = "leaving"
  /\ sid' = [sid EXCEPT ![s].pc = "gone"]
  /\ zero' = (zero \/ Viewers = {})
  /\ UNCHANGED <<vars, token, kicks, slipped>>

\* Tokens and viewers are memory: the process takes them along.
CrashAll ==
  /\ Crash
  /\ token' = [t \in Tokens |-> IF token[t] = "unused" THEN "unused" ELSE "expired"]
  /\ sid' = [s \in Sids |-> IF sid[s].pc = "new" THEN sid[s]
                            ELSE [sid[s] EXCEPT !.pc = "gone"]]
  /\ kicks' = [w \in Workers |-> {}]
  /\ zero' = TRUE /\ slipped' = {}
-----------------------------------------------------------------------------
SidStep(s) == AddViewer(s) \/ AnnounceZero(s)
Kicking(w) == \E s \in Sids : Kick(w, s)
Progress(w) == \/ OpenState(w) \/ WriteState(w) \/ SaveFails(w)
               \/ ReadLog(w) \/ ReadLogFails(w) \/ OpenLog(w) \/ RewriteLog(w) \/ RewriteFails(w)

AccessNext ==
  \/ CrashAll
  \/ (Start \/ StartBlind \/ \E w \in Workers : Request(w)) /\ UNCHANGED sessions
  \/ \E w \in Workers, t \in Tokens : CreateToken(w, t) \/ Revoke(w, t)
  \/ \E w \in Workers : Kicking(w)
  \/ \E t \in Tokens : Expire(t)
  \/ \E s \in Sids : SidStep(s) \/ Leave(s) \/ \E t \in Tokens : ConnectCheck(s, t)

AccessSpec == AccessInit /\ [][AccessNext]_avars

\* A request that has begun goes on, and so does the thread that disconnects.
FairSpec == /\ AccessSpec
            /\ \A w \in Workers : /\ WF_avars(Kicking(w))
                                  /\ WF_avars(Progress(w) /\ UNCHANGED sessions)
-----------------------------------------------------------------------------
\* A logout ends every connection made with its token: a viewer whose token was
\* revoked leaves, except one that was between the check and the entry at that moment.
RevokedLeave == \A s \in Sids :
  (s \in Viewers \ slipped /\ token[sid[s].token] = "revoked") ~> s \notin Viewers

\* viewer.zero is announced whenever the last viewer has left, whoever else leaves at
\* the same time: the auto-close sweep depends on it.
ZeroAnnounced ==
  (Viewers = {} /\ \A s \in Sids : sid[s].pc # "leaving") => zero
=============================================================================

------------------------------ MODULE MCAccess ------------------------------
(* Instances of Access for TLC. *)
EXTENDS Access, TLC

Busy == {w \in Workers : req[w].pc # "idle"}

\* Bound: a behaviour has failures, blocks, crashes and requests at once, or sessions.
Apart == \/ \A t \in Tokens : token[t] = "unused"
         \/ /\ memory = Clean /\ faults = 0 /\ lock = Nobody /\ ~log_clash
            /\ Cardinality(Busy) <= 1
=============================================================================

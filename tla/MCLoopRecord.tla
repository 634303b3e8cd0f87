---------------------------- MODULE MCLoopRecord ----------------------------
(* Instances of LoopRecord for TLC. *)
EXTENDS LoopRecord, TLC

\* The properties say nothing of what follows a clash: a state with clash set
\* satisfies each of them, the leads-to properties included, and clash stays set,
\* so no violation is lost by not exploring further.
UpToClash == ~clash
=============================================================================

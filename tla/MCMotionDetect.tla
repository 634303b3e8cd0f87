--------------------------- MODULE MCMotionDetect ---------------------------
(* Instances of MotionDetect for TLC. *)
EXTENDS MotionDetect, TLC

CONSTANTS
  First,          \* the caller that goes on alone
  MaxSharedCalls, \* calls in a behaviour that several callers take part in (bound)
  MaxSharedTime   \* end of time in such a behaviour (bound)

(* Long behaviours, in which detection is switched off and on again after a *)
(* trigger, are those of one caller; every interleaving of all callers is   *)
(* in the short ones.                                                       *)
Alone    == ~overlap /\ ~zone_clash /\ ~late /\ \A t \in Callers \ {First} : At(t, "return")
Explored == Alone \/ (requests <= MaxSharedCalls /\ clock <= MaxSharedTime)
=============================================================================

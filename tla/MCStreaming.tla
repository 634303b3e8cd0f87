---------------------------- MODULE MCStreaming ----------------------------
(* Instances of Streaming for TLC. *)
EXTENDS Streaming, TLC

CONSTANT First   \* the camera that sees every case

Waiting   == \E s \in Sids : frames[s] + others[s] > 0
Unsettled == late # {} \/ paused # {}
Doubled   == \/ orphans # {} \/ stranded # {}
             \/ \A o \in Openers : opener[o].pc # "idle"

Second    == \E c \in Cams \ {First} : \/ c \in live \/ Opening(c)
                                       \/ closer[c] # "idle" \/ cleaning[c] > 0
Closing   == \E c \in Cams : closer[c] # "idle" \/ cleaning[c] > 0
Cleanings == \E c \in Cams : cleaning[c] > 1

\* Bound: a behaviour has packets waiting, settings that pause or come late, or
\* openings announced together, one at a time, two clean-ups of one camera to come with
\* no packets waiting and no openings together; the second camera takes part in the
\* first only, while no camera closes.
Apart == /\ ~(Waiting /\ Unsettled) /\ ~(Waiting /\ Doubled) /\ ~(Unsettled /\ Doubled)
         /\ ~(Cleanings /\ (Waiting \/ Doubled))
         /\ ~(Second /\ (Unsettled \/ Doubled \/ Closing))
=============================================================================

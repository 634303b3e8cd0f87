------------------------------ MODULE MCDriver ------------------------------
(* Instances of Driver for TLC. *)
EXTENDS Driver, TLC

AllKinds == {"uvc", "aravis", "rpi", "rpi_img", "virtual"}

AllMessages == {<<"auto", TRUE>>, <<"auto", FALSE>>, <<"exposure", 2>>, <<"fps", 2>>}

Troubled(d) == \/ drv[d].abandoned \/ drv[d].lost \/ drv[d].fails > 0 \/ task[d] # IdleTask
               \/ drv[d].running /\ drv[d].pc = "release"

\* Bound: a behaviour has settings or trouble with the device, not both.
Apart == sets = 0 \/ (present /\ listed /\ holder # Leftover /\ \A d \in Drivers : ~Troubled(d))
=============================================================================

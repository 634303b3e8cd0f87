--------------------------- MODULE CameraLifecycle --------------------------
(***************************************************************************)
(* What the rest of the program may rely on for one camera, whatever       *)
(* handlers and threads race inside CameraRegistry: a camera is closed,    *)
(* open or closing; every session of an open camera ends by exactly one    *)
(* close, which begins once, is never abandoned in favour of a new session *)
(* and is over before the next session starts (the guard comment of        *)
(* _close_camera_internal, state/camera.py:234-236).                       *)
(***************************************************************************)
CONSTANTS Cams

VARIABLE phase

Phases == {"closed", "open", "closing"}

LifecycleTypeOK == phase \in [Cams -> Phases]

LifecycleInit == phase \in [Cams -> {"closed", "open"}]

Become(c, from, to) == phase[c] = from /\ phase' = [phase EXCEPT ![c] = to]

Opened(c)     == Become(c, "closed", "open")
CloseBegun(c) == Become(c, "open", "closing")
Closed(c)     == Become(c, "closing", "closed")

LifecycleNext == \E c \in Cams : Opened(c) \/ CloseBegun(c) \/ Closed(c)

LifecycleSpec == LifecycleInit /\ [][LifecycleNext]_phase
=============================================================================

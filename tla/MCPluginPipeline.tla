-------------------------- MODULE MCPluginPipeline --------------------------
(* Instances of PluginPipeline for TLC. *)
EXTENDS PluginPipeline, TLC

TwoTexts == <<"OverlayText", "OverlayText_2">>

\* Bound: no frame is under way while plugins are told of an open or a close; the
\* two touch different fields.
Apart == frame.pc = "idle" \/ (opener.pc = "idle" /\ closer.pc # "tell")
=============================================================================

-------------------------- MODULE MCAudioPipeline --------------------------
(* Instances of AudioPipeline for TLC.                                      *)
EXTENDS AudioPipeline

TwoStreams == {In, Out}
InputIsReader == {In}
OneApp == {App}
NoOps == {}

StartDestroy == {"start", "destroy"}
ControlOps == {"start", "stop", "pause", "resume"}
=============================================================================

------------------------------- MODULE MCMic -------------------------------
(* The microphone for TLC: the constants are in the configuration.          *)
EXTENDS Mic
=============================================================================

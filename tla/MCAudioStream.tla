--------------------------- MODULE MCAudioStream ---------------------------
(* An instance of AudioStream for TLC.                                      *)
EXTENDS AudioStream

AReader == {"reader"}

TwoCallers == {"app", "pipeline"}
=============================================================================

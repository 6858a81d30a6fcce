----------------------------- MODULE MCRingBuf -----------------------------
(* Instances of RingBuf for TLC.                                            *)
EXTENDS RingBuf

OneController == {"ctl"}

AbortOps == AllOps \ {"finish"}
WakeOps  == {"reset", "finish", "wakeup"}

Timeouts == {FALSE}  \* a caller with a timeout also shows what one without it does
MaxDelay == {TRUE}   \* portMAX_DELAY only, as in audio_pipeline.c
=============================================================================

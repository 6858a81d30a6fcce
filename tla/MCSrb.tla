------------------------------- MODULE MCSrb -------------------------------
(* Instances of Srb for TLC.                                                *)
EXTENDS Srb

OneReader == {"reader"}
OneDrainer == {"drainer"}
OneResetter == {"control"}

OneToThree == 1..3

BothWays == {"at", "current"}
=============================================================================

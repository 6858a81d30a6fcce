---------------------------- MODULE MCProtocomm ----------------------------
(* Instance of Protocomm for TLC.                                           *)
EXTENDS Protocomm

PhoneAndOther == {"phone", "other"}
TwoNumbers == {1, 2}
=============================================================================

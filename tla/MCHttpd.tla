------------------------------ MODULE MCHttpd ------------------------------
(***************************************************************************)
(* Small instances of the HTTP server for TLC: two session slots, more       *)
(* clients than slots, both values of lru_purge_enable.                      *)
(***************************************************************************)
EXTENDS Httpd

AllKinds == {"req", "bad", "cut"}
Either   == BOOLEAN
Symmetry == Permutations(Clients)
=============================================================================

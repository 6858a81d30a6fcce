----------------------------- MODULE ByteStream -----------------------------
(***************************************************************************)
(* What a ring buffer of components/utils promises its users, without       *)
(* pointers, semaphores or threads: the bytes a reader gets are the bytes   *)
(* that were put, in order, each once, and at most Size of them are stored. *)
(* Bytes are identified by their position in the stream since the last      *)
(* reset (1, 2, ...), so "in order, each once" is got = <<1, 2, ...>>.      *)
(***************************************************************************)
EXTENDS Integers, Sequences

CONSTANT Size

VARIABLES sent, \* how many bytes were put since the last reset
          got   \* the bytes delivered since the last reset

streamVars == <<sent, got>>

Stored == sent - Len(got)

StreamInit == sent = 0 /\ got = <<>>

Put(n) == /\ n <= Size - Stored
          /\ sent' = sent + n
          /\ UNCHANGED got

Get(n) == /\ n <= Stored
          /\ got' = got \o [i \in 1..n |-> Len(got) + i]
          /\ UNCHANGED sent

Empty == sent' = 0 /\ got' = <<>>

StreamNext == (\E n \in 1..Size : Put(n) \/ Get(n)) \/ Empty

StreamSpec == StreamInit /\ [][StreamNext]_streamVars
=============================================================================

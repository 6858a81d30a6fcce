---------------------------- MODULE SecureSession ----------------------------
(***************************************************************************)
(* What protocomm with security1 promises a client that has proven its key,  *)
(* without sockets, session identifiers, starts and stops: as long as its    *)
(* session lasts nobody else moves or replaces what either end holds, and    *)
(* the two ends take turns.  A request moves the client's end on when it is  *)
(* encrypted and the device's when it is decrypted, the answer likewise the  *)
(* other way round.  The session may be dropped at any moment, by both.      *)
(***************************************************************************)
EXTENDS Integers

CONSTANTS Clients, Keys

VARIABLES up,           \* the client that has a session, if any
          turn,         \* who is next to move: "client", "device", "handler", "answer"
          mine, theirs  \* the client's end and the device's: a key and a place in its stream

sessionVars == <<up, turn, mine, theirs>>

Ends     == [key : Keys, at : Nat]
Nowhere  == [key |-> 0, at |-> 0]
Moved(end) == [end EXCEPT !.at = @ + 1]

Drop == /\ up' = {} /\ turn' = "client"
        /\ mine' = Nowhere /\ theirs' = Nowhere

SessionInit == up = {} /\ turn = "client" /\ mine = Nowhere /\ theirs = Nowhere

\* The device's answer to the client's proof has come: both are at the same place.
Establish == /\ up = {} /\ \E c \in Clients : up' = {c}
             /\ turn' = "client"
             /\ mine' \in Ends /\ theirs' = mine'

Turns(from, to) == up # {} /\ turn = from /\ turn' = to /\ UNCHANGED up

Encipher == Turns("client", "device")  /\ mine' = Moved(mine)     /\ UNCHANGED theirs
Decipher == Turns("device", "handler") /\ theirs' = Moved(theirs) /\ UNCHANGED mine
Reply    == Turns("handler", "answer") /\ theirs' = Moved(theirs) /\ UNCHANGED mine
Learn    == Turns("answer", "client")  /\ mine' = Moved(mine)     /\ UNCHANGED theirs

SessionNext == Establish \/ Encipher \/ Decipher \/ Reply \/ Learn \/ Drop

SessionSpec == SessionInit /\ [][SessionNext]_sessionVars

\* Both ends hold the same key, and their places differ by what is under way.
Together ==
  up # {} => /\ mine.key = theirs.key
             /\ mine.at = IF turn = "device" THEN theirs.at + 1
                          ELSE IF turn = "answer" THEN theirs.at - 1 ELSE theirs.at
=============================================================================

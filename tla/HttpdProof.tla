----------------------------- MODULE HttpdProof -----------------------------
(***************************************************************************)
(* Proofs about the HTTP server.  About the thread (Httpd): sockets and      *)
(* contexts have one owner each, and the walk over the sessions gives every  *)
(* ready session its turn and no other, for any number of sessions, clients, *)
(* requests, queued closes and time stamps.  About a connection's bytes      *)
(* (HttpdParse): each is used once, in order and by its own request, and a   *)
(* handler finds its headers whole, for any requests, cut into blocks in any *)
(* way, and any sizes of block and scratch.                                  *)
(***************************************************************************)
EXTENDS Httpd, HttpdParse, FiniteSetTheorems, SequenceTheorems, NaturalsInduction,
        WellFoundedInduction, TLAPS

Sessions == [fd : Fds \cup {NoFd}, timestamp : Nat, ctx : BOOLEAN, pending : Kinds \cup {"none"}]
Messages == [type : {"shutdown"}, slot : {0}] \cup [type : {"close"}, slot : Slots]

\* What is queued: messages for the thread, requests of the clients, their connections.
QueuesFit ==
  /\ ctrl \in Seq(Messages)
  /\ inbox \in [Clients -> Seq(Kinds)]
  /\ backlog \in Seq(Clients)
  /\ app.pc \in {"close", "touch"} => app.slot \in Slots

\* At every step, not only between rounds, the open sockets are those of the table.
Owned ==
  /\ \A fd \in Fds : sock[fd] # "none" <=> \E i \in Slots : sd[i].fd = fd
  /\ \A i, j \in Slots : sd[i].fd = sd[j].fd /\ sd[i].fd # NoFd => i = j

\* A client is at one end of one socket, or waits at one place, or neither.
OnePeer ==
  /\ \A fd \in Fds : sock[fd] # "none" => conn[sock[fd]] \in {"open", "left"}
  /\ \A fd, g \in Fds : sock[fd] = sock[g] /\ sock[fd] # "none" => fd = g
  /\ \A k \in 1..Len(backlog) : conn[backlog[k]] = "waiting"
  /\ \A k, l \in 1..Len(backlog) : backlog[k] = backlog[l] => k = l

\* What select answered about the control socket and the backlog still holds when the
\* thread gets there.
AnswerHolds ==
  /\ pc = "ctrl" /\ rset.ctrl => arrived > 0
  /\ rset.listen => backlog # <<>>

\* The session the thread is at.
Turn == {"request", "handler", "purge", "done", "fail"}
Walk == Turn \cup {"ctrl", "next"}

AtSession ==
  /\ pc \in Turn => cur # NoFd
  /\ pc \notin Turn \cup {"next"} => cur = NoFd
  /\ cur # NoFd => \E i \in Slots : sd[i].fd = cur

\* The walk has visited the sessions up to this slot, and no other.
Reached(i) == \E j \in Slots : sd[j].fd = cur /\ cur # NoFd /\ i <= j

Visits ==
  /\ pc = "select" => visited = {}
  /\ pc \in Walk => \A i \in Slots : sd[i].fd # NoFd => (sd[i].fd \in visited <=> Reached(i))
  /\ pc = "accept" => \A i \in Slots : sd[i].fd # NoFd => sd[i].fd \in visited

\* Nobody reads from a socket before its turn, and in its turn there is what to read.
StillReady ==
  pc \in Walk => \A i \in Slots : sd[i].fd \in rset.fds \ visited => Readable(sd[i].fd)

TurnReady ==
  pc = "request" => Readable(cur) \/ \E i \in Slots : sd[i].fd = cur /\ sd[i].pending # "none"

\* A context that the request at hand has made and no session has yet.
WithContext == {i \in Slots : sd[i].ctx}
Unsettled == IF req.ctx /\ \A i \in Slots : sd[i].fd = cur => ~sd[i].ctx THEN 1 ELSE 0

ContextsCounted ==
  /\ heap = Cardinality(WithContext) + lost + Unsettled
  /\ \A i \in Slots : sd[i].fd = NoFd => ~sd[i].ctx
  /\ pc \notin {"handler", "purge", "done", "fail"} => req = NoRequest
  /\ pc \in {"handler", "purge", "done"} => \A i \in Slots : sd[i].fd = cur /\ sd[i].ctx => req.ctx

IInv == /\ HttpdTypeOK /\ QueuesFit /\ Owned /\ OnePeer /\ AnswerHolds /\ AtSession
        /\ Visits /\ StillReady /\ TurnReady /\ ContextsCounted

---------------------------------------------------------------------------
(* Least and greatest, and the slots of the table.                          *)

\* A set of naturals that is not empty has a least element.
LEMMA LeastExists ==
  ASSUME NEW S \in SUBSET Nat, S # {}
  PROVE  \E x \in S : \A y \in S : x <= y
<1>1. PICK x \in S : \A y \in S : <<y, x>> \notin OpToRel(<, Nat)
  BY WFMin, NatLessThanWellFounded
<1>2. \A y \in S : ~(y < x)
  BY <1>1 DEF OpToRel
<1> QED BY <1>2

LEMMA MinIs ==
  ASSUME NEW S \in SUBSET Nat, S # {}
  PROVE  Min(S) \in S /\ \A y \in S : Min(S) <= y
BY LeastExists DEF Min

\* One that is bounded has a greatest.
LEMMA MaxIs ==
  ASSUME NEW S \in SUBSET Nat, S # {}, NEW n \in Nat, \A y \in S : y <= n
  PROVE  Max(S) \in S /\ \A y \in S : y <= Max(S)
<1> DEFINE Above == {k \in Nat : \A y \in S : y <= k}
<1>1. PICK m \in Above : \A k \in Above : m <= k
  <2>1. n \in Above
    OBVIOUS
  <2>2. Above \in SUBSET Nat
    OBVIOUS
  <2> HIDE DEF Above
  <2> QED BY <2>1, <2>2, LeastExists
<1>2. m \in S
  <2> SUFFICES ASSUME m \notin S PROVE FALSE
    OBVIOUS
  <2>1. \A y \in S : y < m
    OBVIOUS
  <2> PICK z \in S : TRUE
    OBVIOUS
  <2>2. m - 1 \in Nat /\ \A y \in S : y <= m - 1
    BY <2>1
  <2>3. m - 1 \in Above
    BY <2>2
  <2> QED BY <1>1, <2>2, <2>3
<1>3. \A y \in S : m >= y /\ y <= m
  OBVIOUS
<1>4. PICK x \in S : x = Max(S) /\ \A y \in S : x >= y
  BY <1>2, <1>3 DEF Max
<1> QED BY <1>4

\* The values of a function on 1..n are bounded.
LEMMA Bounded ==
  ASSUME NEW n \in Nat, NEW f, \A i \in 1..n : f[i] \in Nat
  PROVE  \E m \in Nat : \A i \in 1..n : f[i] <= m
<1> DEFINE Bad == {k \in 0..n : ~ \E m \in Nat : \A i \in 1..k : f[i] <= m}
<1> SUFFICES Bad = {}
  <2>1. n \in 0..n /\ n \notin Bad
    BY SMTT(40)
  <2> QED BY <2>1
<1> SUFFICES ASSUME Bad # {} PROVE FALSE
  OBVIOUS
<1>1. PICK k \in Bad : \A l \in Bad : k <= l
  <2>1. Bad \in SUBSET Nat
    OBVIOUS
  <2> HIDE DEF Bad
  <2> QED BY <2>1, LeastExists
<1>2. k # 0
  OBVIOUS
<1>3. k \in 0..n /\ k - 1 \in 0..n
  BY <1>2
<1>8. k - 1 \notin Bad
  <2> HIDE DEF Bad
  <2> QED BY <1>1, <1>3
<1>4. PICK m \in Nat : \A i \in 1..(k - 1) : f[i] <= m
  BY <1>3, <1>8
<1>5. f[k] \in Nat
  BY <1>2
<1>6. \A i \in 1..k : f[i] <= m + f[k]
  <2> SUFFICES ASSUME NEW i \in 1..k PROVE f[i] <= m + f[k]
    OBVIOUS
  <2>1. CASE i = k
    BY <1>5, <2>1
  <2>2. CASE i # k
    <3>1. i \in 1..(k - 1) /\ f[i] \in Nat
      BY <2>2
    <3> QED BY <1>4, <1>5, <3>1
  <2> QED BY <2>1, <2>2
<1>7. m + f[k] \in Nat
  BY <1>5
<1> QED BY <1>6, <1>7

\* httpd_sess_get: a slot with the descriptor, or none.
LEMMA SlotOfIs ==
  ASSUME NEW fd
  PROVE  /\ SlotOf(fd) \in 0..MaxSockets
         /\ SlotOf(fd) # 0 => SlotOf(fd) \in Slots /\ sd[SlotOf(fd)].fd = fd
         /\ SlotOf(fd) = 0 => \A i \in Slots : sd[i].fd # fd
<1> DEFINE Found == {i \in Slots : sd[i].fd = fd}
<1>1. MaxSockets \in Nat
  BY HttpdAssumption
<1>2. CASE Found = {}
  <2>1. SlotOf(fd) = 0
    BY <1>2 DEF SlotOf
  <2> QED BY <1>1, <1>2, <2>1
<1>3. CASE Found # {}
  <2>1. SlotOf(fd) = Min(Found)
    BY <1>3 DEF SlotOf
  <2>2. Found \in SUBSET Nat
    BY <1>1 DEF Slots
  <2>3. Min(Found) \in Found
    <3> HIDE DEF Found
    <3> QED BY <1>3, <2>2, MinIs
  <2> QED BY <1>1, <2>1, <2>3 DEF Slots
<1> QED BY <1>2, <1>3

\* In a table of distinct descriptors, the slot.
LEMMA TheSlot ==
  ASSUME Owned, NEW i \in Slots, sd[i].fd # NoFd
  PROVE  SlotOf(sd[i].fd) = i
BY SlotOfIs DEF Owned

\* Time stamps are naturals.
LEMMA NowType == ASSUME HttpdTypeOK PROVE Now \in Nat
<1> DEFINE f == [i \in Slots |-> sd[i].timestamp]
           T == {sd[i].timestamp : i \in Slots}
<1>1. MaxSockets \in Nat /\ Slots = 1..MaxSockets /\ 1 \in Slots
  BY HttpdAssumption DEF Slots
<1>2. \A i \in Slots : sd[i].timestamp \in Nat
  BY DEF HttpdTypeOK
<1>3. PICK m \in Nat : \A i \in 1..MaxSockets : f[i] <= m
  <2>1. \A i \in 1..MaxSockets : f[i] \in Nat
    BY <1>1, <1>2
  <2> HIDE DEF f
  <2> QED BY <1>1, <2>1, Bounded
<1>4. T \in SUBSET Nat /\ T # {} /\ \A y \in T : y <= m
  BY <1>1, <1>2, <1>3
<1>5. Max(T) \in Nat
  <2> HIDE DEF T
  <2> QED BY <1>4, MaxIs
<1> QED BY <1>5 DEF Now

\* There is a descriptor more than there are slots: one is always free.
LEMMA FreeDescriptor ==
  ASSUME Owned
  PROVE  /\ {f \in Fds : sock[f] = "none"} # {}
         /\ Min({f \in Fds : sock[f] = "none"}) \in {f \in Fds : sock[f] = "none"}
<1> DEFINE Free == {f \in Fds : sock[f] = "none"}
<1>1. MaxSockets \in Nat
  BY HttpdAssumption
<1>2. Free # {}
  <2> SUFFICES ASSUME Free = {} PROVE FALSE
    OBVIOUS
  <2>1. \A fd \in Fds : \E i \in Slots : sd[i].fd = fd
    BY DEF Owned
  <2> DEFINE g == [fd \in Fds |-> CHOOSE i \in Slots : sd[i].fd = fd]
  <2>2. g \in [Fds -> Slots] /\ \A fd \in Fds : sd[g[fd]].fd = fd
    BY <2>1
  <2>3. g \in Injection(Fds, Slots)
    <3> HIDE DEF g
    <3> QED BY <2>2 DEF Injection, IsInjective
  <2>4. IsFiniteSet(Slots) /\ Cardinality(Slots) = MaxSockets
    BY <1>1, FS_Interval, SMT DEF Slots
  <2>5. Cardinality(Fds) = MaxSockets + 1
    BY <1>1, FS_Interval, SMT DEF Fds
  <2> HIDE DEF g
  <2>6. Cardinality(Fds) <= Cardinality(Slots)
    BY <2>3, <2>4, FS_Injection
  <2> QED BY <1>1, <2>4, <2>5, <2>6
<1>3. Free \in SUBSET Nat
  BY <1>1 DEF Fds
<1>4. Min(Free) \in Free
  <2> HIDE DEF Free
  <2> QED BY <1>2, <1>3, MinIs
<1> QED BY <1>2, <1>4

---------------------------------------------------------------------------
(* Parts of a step that several actions have.                               *)

\* The types, for one session.
LEMMA SessionType ==
  ASSUME HttpdTypeOK, NEW i \in Slots
  PROVE  /\ sd[i] \in Sessions /\ sd[i].fd \in Fds \cup {NoFd} /\ sd[i].timestamp \in Nat
         /\ sd[i].ctx \in BOOLEAN /\ sd[i].pending \in Kinds \cup {"none"}
BY DEF HttpdTypeOK, Sessions

\* The plain facts of an empty slot.
LEMMA NoSessionIs ==
  /\ NoSession \in Sessions /\ NoSession.fd = NoFd /\ ~NoSession.ctx
  /\ NoSession.timestamp = 0 /\ NoSession.pending = "none"
BY DEF NoSession, Sessions

\* A descriptor is not NoFd, and a client is not "none".
LEMMA Distinct ==
  /\ NoFd \notin Fds /\ "none" \notin Clients
  /\ MaxSockets \in Nat /\ Slots \subseteq Nat /\ Fds \subseteq Nat /\ 0 \notin Slots
BY HttpdAssumption DEF NoFd, Fds, Slots

\* The contexts of the table.
LEMMA ContextsFinite == IsFiniteSet(WithContext) /\ Cardinality(WithContext) \in Nat
<1>1. IsFiniteSet(Slots)
  BY Distinct, FS_Interval, SMT DEF Slots
<1>2. IsFiniteSet(WithContext)
  BY <1>1, FS_Subset DEF WithContext
<1> QED BY <1>2, FS_CardinalityType

\* httpd_sess_delete and close, of a session of the table or of none.
LEMMA CloseSession ==
  ASSUME IInv, NEW fd, fd = NoFd \/ \E i \in Slots : sd[i].fd = fd,
         DeleteSession(fd), Close(fd)
  PROVE  /\ sd' \in [Slots -> Sessions]
         /\ \A i \in Slots : sd[i].fd # fd => sd'[i] = sd[i]
         /\ \A i \in Slots : sd[i].fd = fd => sd'[i].fd = NoFd /\ ~sd'[i].ctx
         /\ fd # NoFd => /\ fd \in Fds /\ sock[fd] \in Clients
                         /\ sock' = [sock EXCEPT ![fd] = "none"]
                         /\ conn' = [conn EXCEPT ![sock[fd]] = "away"]
                         /\ inbox' = [inbox EXCEPT ![sock[fd]] = <<>>]
         /\ fd = NoFd => UNCHANGED <<sock, conn, inbox>>
         /\ backlog' = backlog
<1>1. sd \in [Slots -> Sessions]
  BY DEF IInv, HttpdTypeOK, Sessions
<1>2. SlotOf(fd) \in Slots => sd[SlotOf(fd)].fd = fd
  BY Distinct, SlotOfIs
<1>3. sd' = [i \in Slots |-> IF i = SlotOf(fd) THEN NoSession ELSE sd[i]]
  BY DEF DeleteSession
<1>4. sd' \in [Slots -> Sessions]
  BY <1>1, <1>3, NoSessionIs
<1>5. \A i \in Slots : sd[i].fd # fd => sd'[i] = sd[i]
  BY <1>2, <1>3
<1>6. ASSUME NEW i \in Slots, sd[i].fd = fd PROVE sd'[i].fd = NoFd /\ ~sd'[i].ctx
  <2>1. CASE i = SlotOf(fd)
    BY <1>3, <2>1, NoSessionIs
  <2>2. CASE i # SlotOf(fd)
    <3>1. fd = NoFd
      <4> SUFFICES ASSUME fd # NoFd PROVE FALSE
        OBVIOUS
      <4>1. SlotOf(fd) = i
        BY <1>6, TheSlot DEF IInv
      <4> QED BY <2>2, <4>1
    <3>2. sd'[i] = sd[i]
      BY <1>3, <2>2
    <3> QED BY <1>6, <3>1, <3>2 DEF IInv, ContextsCounted
  <2> QED BY <2>1, <2>2
<1>7. fd # NoFd => /\ fd \in Fds /\ sock[fd] \in Clients
                  /\ sock' = [sock EXCEPT ![fd] = "none"]
                  /\ conn' = [conn EXCEPT ![sock[fd]] = "away"]
                  /\ inbox' = [inbox EXCEPT ![sock[fd]] = <<>>]
  <2> SUFFICES ASSUME fd # NoFd
               PROVE  fd \in Fds /\ sock[fd] \in Clients
    BY DEF Close
  <2>1. PICK i \in Slots : sd[i].fd = fd
    OBVIOUS
  <2>2. fd \in Fds
    BY <2>1, SessionType DEF IInv
  <2>3. sock[fd] # "none" /\ sock[fd] \in Clients \cup {"none"}
    BY <2>1, <2>2 DEF IInv, Owned, HttpdTypeOK
  <2> QED BY <2>2, <2>3
<1>8. (fd = NoFd => UNCHANGED <<sock, conn, inbox>>) /\ backlog' = backlog
  BY DEF Close, tcpVars
<1> QED BY <1>4, <1>5, <1>6, <1>7, <1>8

\* The context of the session goes with it, once.
LEMMA CloseContext ==
  ASSUME IInv, NEW fd, fd = NoFd \/ \E i \in Slots : sd[i].fd = fd,
         DeleteSession(fd), Close(fd)
  PROVE  /\ IF \E i \in Slots : sd[i].fd = fd /\ sd[i].ctx
            THEN heap' = heap - 1 /\ Cardinality(WithContext') = Cardinality(WithContext) - 1
            ELSE heap' = heap /\ Cardinality(WithContext') = Cardinality(WithContext)
         /\ heap' \in Nat
<1>1. heap' = IF SlotOf(fd) # 0 /\ sd[SlotOf(fd)].ctx THEN heap - 1 ELSE heap
  BY DEF DeleteSession
<1>2. /\ \A i \in Slots : sd[i].fd # fd => sd'[i] = sd[i]
      /\ \A i \in Slots : sd[i].fd = fd => ~sd'[i].ctx
  BY CloseSession
<1>3. heap \in Nat /\ lost \in Nat /\ req = req /\ Unsettled \in Nat
  BY DEF IInv, HttpdTypeOK, Unsettled
<1>4. heap = Cardinality(WithContext) + lost + Unsettled
  BY DEF IInv, ContextsCounted
<1>5. CASE \E i \in Slots : sd[i].fd = fd /\ sd[i].ctx
  <2> PICK i \in Slots : sd[i].fd = fd /\ sd[i].ctx
    BY <1>5
  <2>1. fd # NoFd
    BY DEF IInv, ContextsCounted
  <2>2. SlotOf(fd) = i /\ i # 0
    BY <2>1, TheSlot, Distinct DEF IInv
  <2>3. heap' = heap - 1
    BY <1>1, <2>2
  <2>4. WithContext' = WithContext \ {i}
    <3>1. \A j \in Slots : j # i => sd[j].fd # fd
      BY <2>1 DEF IInv, Owned
    <3>2. \A j \in Slots : j # i => sd'[j] = sd[j]
      BY <1>2, <3>1
    <3>3. ~sd'[i].ctx
      BY <1>2
    <3> QED BY <3>2, <3>3 DEF WithContext
  <2>5. i \in WithContext
    BY DEF WithContext
  <2>6. Cardinality(WithContext') = Cardinality(WithContext) - 1 /\ Cardinality(WithContext') \in Nat
    <3>1. IsFiniteSet(WithContext) /\ Cardinality(WithContext) \in Nat
      BY ContextsFinite
    <3>2. Cardinality(WithContext \ {i}) = Cardinality(WithContext) - 1
      BY <2>5, <3>1, FS_RemoveElement
    <3>3. IsFiniteSet(WithContext \ {i})
      BY <3>1, FS_RemoveElement
    <3> QED BY <2>4, <3>2, <3>3, FS_CardinalityType
  <2> QED BY <1>3, <1>4, <1>5, <2>3, <2>6, ContextsFinite
<1>6. CASE ~ \E i \in Slots : sd[i].fd = fd /\ sd[i].ctx
  <2>1. ~(SlotOf(fd) # 0 /\ sd[SlotOf(fd)].ctx)
    BY <1>6, SlotOfIs
  <2>2. heap' = heap
    BY <1>1, <2>1
  <2>3. \A i \in Slots : sd'[i].ctx <=> sd[i].ctx
    BY <1>2, <1>6
  <2>4. WithContext' = WithContext
    BY <2>3 DEF WithContext
  <2> QED BY <1>3, <1>6, <2>2, <2>4
<1> QED BY <1>5, <1>6

\* The other sessions keep their sockets, and the other clients theirs.
LEMMA CloseKeeps ==
  ASSUME IInv, NEW fd, fd = NoFd \/ \E i \in Slots : sd[i].fd = fd,
         DeleteSession(fd), Close(fd)
  PROVE  /\ sock' \in [Fds -> Clients \cup {"none"}]
         /\ conn' \in [Clients -> {"away", "waiting", "open", "left"}]
         /\ inbox' \in [Clients -> Seq(Kinds)]
         /\ Owned' /\ OnePeer'
         /\ \A g \in Fds : g # fd /\ sock[g] # "none" =>
              sock'[g] = sock[g] /\ conn'[sock[g]] = conn[sock[g]] /\ inbox'[sock[g]] = inbox[sock[g]]
<1> DEFINE Rest == /\ sock' = [sock EXCEPT ![fd] = "none"]
                   /\ conn' = [conn EXCEPT ![sock[fd]] = "away"]
                   /\ inbox' = [inbox EXCEPT ![sock[fd]] = <<>>]
<1>1. /\ \A i \in Slots : sd[i].fd # fd => sd'[i] = sd[i]
      /\ \A i \in Slots : sd[i].fd = fd => sd'[i].fd = NoFd
      /\ fd # NoFd => fd \in Fds /\ sock[fd] \in Clients /\ Rest
      /\ fd = NoFd => UNCHANGED <<sock, conn, inbox>>
      /\ backlog' = backlog
  BY CloseSession
<1>2. /\ sock \in [Fds -> Clients \cup {"none"}]
      /\ conn \in [Clients -> {"away", "waiting", "open", "left"}]
      /\ inbox \in [Clients -> Seq(Kinds)]
      /\ backlog \in Seq(Clients)
  BY DEF IInv, HttpdTypeOK, QueuesFit
<1>3. sock' \in [Fds -> Clients \cup {"none"}]
  BY <1>1, <1>2
<1>4. conn' \in [Clients -> {"away", "waiting", "open", "left"}]
  BY <1>1, <1>2
<1>5. inbox' \in [Clients -> Seq(Kinds)]
  <2> DEFINE K == Seq(Kinds)
  <2>1. <<>> \in K
    OBVIOUS
  <2>2. inbox \in [Clients -> K]
    BY <1>2
  <2> HIDE DEF K
  <2>3. inbox' \in [Clients -> K]
    BY <1>1, <2>1, <2>2
  <2> QED BY <2>3 DEF K
<1>6. \A g \in Fds : g # fd /\ sock[g] # "none" =>
              sock'[g] = sock[g] /\ conn'[sock[g]] = conn[sock[g]] /\ inbox'[sock[g]] = inbox[sock[g]]
  <2> SUFFICES ASSUME NEW g \in Fds, g # fd, sock[g] # "none"
               PROVE  sock'[g] = sock[g] /\ conn'[sock[g]] = conn[sock[g]]
                        /\ inbox'[sock[g]] = inbox[sock[g]]
    OBVIOUS
  <2>1. CASE fd = NoFd
    BY <1>1, <2>1
  <2>2. CASE fd # NoFd
    <3>1. sock[g] # sock[fd] /\ sock[g] \in Clients
      BY <1>1, <1>2, <2>2 DEF IInv, OnePeer
    <3> QED BY <1>1, <1>2, <2>2, <3>1
  <2> QED BY <2>1, <2>2
<1>7. Owned'
  <2>1. \A i \in Slots : sd'[i].fd = IF sd[i].fd = fd THEN NoFd ELSE sd[i].fd
    BY <1>1
  <2>2. \A g \in Fds : sock'[g] # "none" <=> sock[g] # "none" /\ g # fd
    BY <1>1, <1>2, <1>6, Distinct
  <2>3. /\ \A g \in Fds : sock[g] # "none" <=> \E i \in Slots : sd[i].fd = g
        /\ \A i, j \in Slots : sd[i].fd = sd[j].fd /\ sd[i].fd # NoFd => i = j
    BY DEF IInv, Owned
  <2>4. \A g \in Fds : sock'[g] # "none" <=> \E i \in Slots : sd'[i].fd = g
    <3> SUFFICES ASSUME NEW g \in Fds
                 PROVE  sock'[g] # "none" <=> \E i \in Slots : sd'[i].fd = g
      OBVIOUS
    <3>1. sock'[g] # "none" <=> sock[g] # "none" /\ g # fd
      BY <2>2
    <3>2. sock[g] # "none" <=> \E i \in Slots : sd[i].fd = g
      BY <2>3
    <3>3. g # NoFd
      BY Distinct
    <3>4. \A i \in Slots : sd'[i].fd = g <=> sd[i].fd = g /\ g # fd
      BY <2>1, <3>3
    <3> QED BY <3>1, <3>2, <3>4
  <2>5. \A i, j \in Slots : sd'[i].fd = sd'[j].fd /\ sd'[i].fd # NoFd => i = j
    BY <2>1, <2>3
  <2> QED BY <2>4, <2>5 DEF Owned
<1>8. OnePeer'
  <2>1. \A g \in Fds : sock'[g] # "none" => g # fd /\ sock[g] # "none" /\ sock'[g] = sock[g]
    BY <1>1, <1>2, <1>6, Distinct
  <2>2. \A g \in Fds : sock'[g] # "none" => conn'[sock'[g]] \in {"open", "left"}
    BY <1>6, <2>1 DEF IInv, OnePeer
  <2>3. \A g, h \in Fds : sock'[g] = sock'[h] /\ sock'[g] # "none" => g = h
    BY <2>1 DEF IInv, OnePeer
  <2>4. \A k \in 1..Len(backlog) : conn'[backlog[k]] = "waiting"
    <3> SUFFICES ASSUME NEW k \in 1..Len(backlog) PROVE conn'[backlog[k]] = "waiting"
      OBVIOUS
    <3>1. conn[backlog[k]] = "waiting" /\ backlog[k] \in Clients
      BY <1>2 DEF IInv, OnePeer
    <3>2. fd # NoFd => sock[fd] # "none" /\ conn[sock[fd]] \in {"open", "left"}
      BY <1>1, Distinct DEF IInv, OnePeer
    <3> QED BY <1>1, <1>2, <3>1, <3>2
  <2> QED BY <1>1, <2>2, <2>3, <2>4 DEF IInv, OnePeer
<1> QED BY <1>3, <1>4, <1>5, <1>6, <1>7, <1>8

\* Sessions that keep descriptor and context, sockets and connections that stay.
LEMMA SameOwners ==
  ASSUME Owned, OnePeer, \A i \in Slots : sd'[i].fd = sd[i].fd, UNCHANGED <<sock, conn, backlog>>
  PROVE  Owned' /\ OnePeer'
<1>1. Owned'
  BY DEF Owned
<1>2. OnePeer'
  BY DEF OnePeer
<1> QED BY <1>1, <1>2

\* The contexts between requests.
LEMMA SameContexts ==
  ASSUME ContextsCounted, req = NoRequest, UNCHANGED <<req, heap, lost>>,
         pc' \notin {"handler", "purge", "done"},
         \A i \in Slots : sd'[i].ctx = sd[i].ctx /\ (sd'[i].fd = NoFd => ~sd[i].ctx)
  PROVE  ContextsCounted'
<1>1. WithContext' = WithContext
  BY DEF WithContext
<1>2. Unsettled = 0 /\ Unsettled' = 0
  BY DEF Unsettled, NoRequest
<1> QED BY <1>1, <1>2 DEF ContextsCounted

\* What either leaves of the table, the sockets and the contexts.
LEMMA AfterClose ==
  ASSUME IInv, UNCHANGED backlog,
         \/ UNCHANGED <<sd, heap, sock, conn, inbox>>
         \/ \E fd : /\ fd = NoFd \/ \E i \in Slots : sd[i].fd = fd
                    /\ DeleteSession(fd) /\ Close(fd)
  PROVE  /\ sd' \in [Slots -> Sessions]
         /\ \A i \in Slots : (sd'[i].fd = NoFd /\ ~sd'[i].ctx) \/ sd'[i] = sd[i]
         /\ \A i \in Slots : sd'[i].fd # NoFd /\ Readable(sd[i].fd) => Readable(sd[i].fd)'
         /\ sock' \in [Fds -> Clients \cup {"none"}]
         /\ conn' \in [Clients -> {"away", "waiting", "open", "left"}]
         /\ inbox' \in [Clients -> Seq(Kinds)]
         /\ Owned' /\ OnePeer'
         /\ heap' \in Nat /\ Cardinality(WithContext') \in Nat
         /\ heap' - Cardinality(WithContext') = heap - Cardinality(WithContext)
<1>1. CASE UNCHANGED <<sd, heap, sock, conn, inbox>>
  <2>1. WithContext' = WithContext
    BY <1>1 DEF WithContext
  <2>2. Owned' /\ OnePeer'
    BY <1>1, SameOwners DEF IInv
  <2>3. \A i \in Slots : Readable(sd[i].fd) => Readable(sd[i].fd)'
    BY <1>1 DEF Readable, Peer
  <2>4. heap' = heap /\ heap \in Nat
    BY <1>1 DEF IInv, HttpdTypeOK
  <2>5. /\ sd' \in [Slots -> Sessions]
        /\ sock' \in [Fds -> Clients \cup {"none"}]
        /\ conn' \in [Clients -> {"away", "waiting", "open", "left"}]
        /\ inbox' \in [Clients -> Seq(Kinds)]
    BY <1>1 DEF IInv, HttpdTypeOK, QueuesFit, Sessions
  <2> QED BY <1>1, <2>1, <2>2, <2>3, <2>4, <2>5, ContextsFinite
<1>2. CASE \E fd : /\ fd = NoFd \/ \E i \in Slots : sd[i].fd = fd
                  /\ DeleteSession(fd) /\ Close(fd)
  <2> PICK fd : /\ fd = NoFd \/ \E i \in Slots : sd[i].fd = fd
                /\ DeleteSession(fd) /\ Close(fd)
    BY <1>2
  <2>1. /\ sd' \in [Slots -> Sessions]
        /\ \A i \in Slots : sd[i].fd # fd => sd'[i] = sd[i]
        /\ \A i \in Slots : sd[i].fd = fd => sd'[i].fd = NoFd /\ ~sd'[i].ctx
    BY CloseSession
  <2>2. /\ sock' \in [Fds -> Clients \cup {"none"}]
        /\ conn' \in [Clients -> {"away", "waiting", "open", "left"}]
        /\ inbox' \in [Clients -> Seq(Kinds)]
        /\ Owned' /\ OnePeer'
        /\ \A g \in Fds : g # fd /\ sock[g] # "none" =>
             sock'[g] = sock[g] /\ conn'[sock[g]] = conn[sock[g]] /\ inbox'[sock[g]] = inbox[sock[g]]
    BY CloseKeeps
  <2>3. \A i \in Slots : (sd'[i].fd = NoFd /\ ~sd'[i].ctx) \/ sd'[i] = sd[i]
    BY <2>1
  <2>4. ASSUME NEW i \in Slots, sd'[i].fd # NoFd, Readable(sd[i].fd)
        PROVE  Readable(sd[i].fd)'
    <3>1. sd'[i] = sd[i] /\ sd[i].fd # fd /\ sd[i].fd # NoFd
      BY <2>1, <2>4
    <3>2. sd[i].fd \in Fds
      BY <3>1, SessionType DEF IInv
    <3>3. sock[sd[i].fd] # "none"
      BY <3>2 DEF IInv, Owned
    <3>4. PICK g : g = sd[i].fd
      OBVIOUS
    <3>5. sock'[g] = sock[g] /\ conn'[sock[g]] = conn[sock[g]] /\ inbox'[sock[g]] = inbox[sock[g]]
      BY <2>2, <3>1, <3>2, <3>3, <3>4
    <3>6. sd'[i].fd = g
      BY <3>1, <3>4
    <3> QED BY <2>4, <3>4, <3>5, <3>6 DEF Readable, Peer
  <2>5. /\ heap' \in Nat /\ Cardinality(WithContext') \in Nat
        /\ heap' - Cardinality(WithContext') = heap - Cardinality(WithContext)
    <3>1. heap \in Nat /\ Cardinality(WithContext) \in Nat
      BY ContextsFinite DEF IInv, HttpdTypeOK
    <3>2. /\ IF \E i \in Slots : sd[i].fd = fd /\ sd[i].ctx
             THEN heap' = heap - 1 /\ Cardinality(WithContext') = Cardinality(WithContext) - 1
             ELSE heap' = heap /\ Cardinality(WithContext') = Cardinality(WithContext)
          /\ heap' \in Nat
      BY CloseContext
    <3>3. Cardinality(WithContext') \in Nat
      <4>1. IsFiniteSet(Slots)
        BY Distinct, FS_Interval, SMT DEF Slots
      <4>2. WithContext' \subseteq Slots
        BY DEF WithContext
      <4> QED BY <4>1, <4>2, FS_Subset, FS_CardinalityType
    <3> QED BY <3>1, <3>2, <3>3
  <2> QED BY <2>1, <2>2, <2>3, <2>4, <2>5
<1> QED BY <1>1, <1>2

\* What other tasks and the clients do leaves the thread's facts alone: they take
\* nothing from a socket, a queue or the table.
LEMMA OthersKeep ==
  ASSUME IInv, UNCHANGED <<threadVars, sock, ctxVars>>,
         \A i \in Slots : /\ sd'[i].fd = sd[i].fd /\ sd'[i].ctx = sd[i].ctx
                          /\ sd'[i].pending = sd[i].pending,
         \A c \in Clients : conn[c] = "left" => conn'[c] = "left",
         \A c \in Clients : inbox[c] # <<>> => inbox'[c] # <<>>,
         arrived > 0 => arrived' > 0,
         backlog # <<>> => backlog' # <<>>
  PROVE  /\ Owned' /\ AnswerHolds' /\ AtSession' /\ Visits' /\ StillReady' /\ TurnReady'
         /\ ContextsCounted'
<1>1. /\ pc' = pc /\ rset' = rset /\ cur' = cur /\ req' = req /\ visited' = visited
      /\ sock' = sock /\ heap' = heap /\ lost' = lost
  BY DEF threadVars, ctxVars
<1>2. Owned'
  BY <1>1 DEF IInv, Owned
<1>3. AnswerHolds'
  BY <1>1 DEF IInv, AnswerHolds
<1>4. AtSession'
  BY <1>1 DEF IInv, AtSession
<1>5. \A i \in Slots : Reached(i)' <=> Reached(i)
  BY <1>1 DEF Reached
<1>6. Visits'
  BY <1>1, <1>5 DEF IInv, Visits
<1>7. \A i \in Slots : sd[i].fd # NoFd /\ Readable(sd[i].fd) => Readable(sd[i].fd)'
  <2> SUFFICES ASSUME NEW i \in Slots, sd[i].fd # NoFd, Readable(sd[i].fd)
               PROVE  Readable(sd[i].fd)'
    OBVIOUS
  <2>1. sd[i].fd \in Fds
    BY SessionType DEF IInv
  <2>2. sock[sd[i].fd] \in Clients
    BY <2>1 DEF IInv, Owned, HttpdTypeOK
  <2> QED BY <1>1, <2>2 DEF Readable, Peer
<1>8. StillReady'
  <2> SUFFICES ASSUME pc \in Walk, NEW i \in Slots, sd'[i].fd \in rset.fds \ visited
               PROVE  Readable(sd[i].fd)'
    BY <1>1 DEF StillReady, Readable, Peer
  <2>1. sd[i].fd \in rset.fds /\ rset.fds \subseteq Fds
    BY DEF IInv, HttpdTypeOK
  <2>2. Readable(sd[i].fd)
    BY DEF IInv, StillReady
  <2> QED BY <1>7, <2>1, <2>2, Distinct
<1>9. TurnReady'
  <2> SUFFICES ASSUME pc = "request"
               PROVE  \/ Readable(cur)'
                      \/ \E i \in Slots : sd'[i].fd = cur /\ sd'[i].pending # "none"
    BY <1>1 DEF TurnReady
  <2>1. PICK i \in Slots : sd[i].fd = cur
    BY DEF IInv, AtSession, Turn
  <2>2. CASE Readable(cur)
    <3>1. cur # NoFd
      BY DEF IInv, AtSession, Turn
    <3>2. Readable(sd[i].fd)'
      BY <1>7, <2>1, <2>2, <3>1
    <3> QED BY <1>1, <2>1, <3>2 DEF Readable, Peer
  <2>3. CASE \E j \in Slots : sd[j].fd = cur /\ sd[j].pending # "none"
    BY <2>3
  <2> QED BY <2>2, <2>3 DEF IInv, TurnReady
<1>10. ContextsCounted'
  <2>1. WithContext' = WithContext
    BY DEF WithContext
  <2>2. Unsettled' = Unsettled
    BY <1>1 DEF Unsettled
  <2> QED BY <1>1, <2>1, <2>2 DEF IInv, ContextsCounted
<1> QED BY <1>2, <1>3, <1>4, <1>6, <1>8, <1>9, <1>10

\* httpd_sess_iterate goes on to the first session not visited yet.
LEMMA IterateIs ==
  ASSUME HttpdTypeOK, Owned, cur # NoFd => \E i \in Slots : sd[i].fd = cur
  PROVE  \/ Iterate(cur) = NoFd /\ \A i \in Slots : sd[i].fd # NoFd => Reached(i)
         \/ \E j \in Slots : /\ Iterate(cur) = sd[j].fd /\ sd[j].fd # NoFd /\ ~Reached(j)
                             /\ \A i \in Slots : sd[i].fd # NoFd /\ i < j => Reached(i)
<1> DEFINE start == IF cur = NoFd THEN 0 ELSE SlotOf(cur)
           After == {i \in Slots : i > start /\ sd[i].fd # NoFd}
<1>1. start \in Nat /\ Slots \subseteq Nat
  BY Distinct, SlotOfIs
<1>2. \A i \in Slots : Reached(i) <=> i <= start
  <2>1. CASE cur = NoFd
    BY <2>1, Distinct DEF Reached, Slots
  <2>2. CASE cur # NoFd
    <3> PICK s \in Slots : sd[s].fd = cur
      BY <2>2
    <3>1. start = s
      BY <2>2, TheSlot
    <3>2. \A j \in Slots : sd[j].fd = cur => j = s
      BY <2>2 DEF Owned
    <3> HIDE DEF start
    <3> QED BY <2>2, <3>1, <3>2 DEF Reached
  <2> QED BY <2>1, <2>2
<1>3. CASE After = {}
  <2>1. Iterate(cur) = NoFd
    BY <1>3 DEF Iterate
  <2>2. ASSUME NEW i \in Slots, sd[i].fd # NoFd PROVE Reached(i)
    BY <1>1, <1>2, <1>3, <2>2
  <2> QED BY <2>1, <2>2
<1>4. CASE After # {}
  <2>1. Iterate(cur) = sd[Min(After)].fd
    BY <1>4 DEF Iterate
  <2>2. PICK j \in After : j = Min(After) /\ \A i \in After : j <= i
    <3>1. After \subseteq Slots
      OBVIOUS
    <3> HIDE DEF After
    <3>2. After \in SUBSET Nat
      BY <1>1, <3>1
    <3> QED BY <1>4, <3>2, MinIs
  <2>3. j \in Slots /\ j > start /\ sd[j].fd # NoFd
    OBVIOUS
  <2>4. ~Reached(j)
    BY <1>1, <1>2, <2>3
  <2>5. ASSUME NEW i \in Slots, sd[i].fd # NoFd, i < j PROVE Reached(i)
    <3>1. i \notin After
      BY <1>1, <2>2, <2>3, <2>5
    <3>2. ~(i > start)
      BY <2>5, <3>1
    <3> HIDE DEF start
    <3> QED BY <1>1, <1>2, <3>2
  <2> QED BY <2>1, <2>2, <2>3, <2>4, <2>5
<1> QED BY <1>3, <1>4

\* The session before this one, from which the walk goes on.
LEMMA PrecedingIs ==
  ASSUME HttpdTypeOK, Owned, NEW s \in Slots, sd[s].fd = cur, cur # NoFd
  PROVE  \/ Preceding(cur) = NoFd /\ \A i \in Slots : sd[i].fd # NoFd => i >= s
         \/ \E j \in Slots : /\ Preceding(cur) = sd[j].fd /\ sd[j].fd # NoFd /\ j < s
                             /\ \A i \in Slots : sd[i].fd # NoFd /\ i < s => i <= j
<1> DEFINE Before == {i \in Slots : i < s /\ sd[i].fd # NoFd}
<1>1. Slots \subseteq Nat
  BY Distinct
<1>2. SlotOf(cur) = s
  BY TheSlot
<1>3. CASE Before = {}
  <2>1. Preceding(cur) = NoFd
    BY <1>2, <1>3 DEF Preceding
  <2>2. \A i \in Slots : sd[i].fd # NoFd => i >= s
    BY <1>1, <1>3
  <2> QED BY <2>1, <2>2
<1>4. CASE Before # {}
  <2>1. Preceding(cur) = sd[Max(Before)].fd
    BY <1>2, <1>4 DEF Preceding
  <2>2. PICK j \in Before : j = Max(Before) /\ \A i \in Before : i <= j
    <3>1. Before \subseteq Slots /\ s \in Nat
      BY <1>1
    <3>2. \A i \in Before : i <= s
      BY <1>1
    <3> HIDE DEF Before
    <3>3. Before \in SUBSET Nat
      BY <1>1, <3>1
    <3> QED BY <1>4, <3>1, <3>2, <3>3, MaxIs
  <2> QED BY <2>1, <2>2
<1> QED BY <1>3, <1>4

---------------------------------------------------------------------------
(* The steps of the server's thread.                                        *)

\* The types a step starts from.
LEMMA Known ==
  ASSUME IInv
  PROVE  /\ sd \in [Slots -> Sessions]
         /\ rset.ctrl \in BOOLEAN /\ rset.listen \in BOOLEAN /\ rset.fds \subseteq Fds
         /\ cur \in Fds \cup {NoFd} /\ visited \subseteq Fds
         /\ req.kind \in Kinds \cup {"none"} /\ req.ctx \in BOOLEAN
         /\ sock \in [Fds -> Clients \cup {"none"}]
         /\ conn \in [Clients -> {"away", "waiting", "open", "left"}]
         /\ inbox \in [Clients -> Seq(Kinds)] /\ backlog \in Seq(Clients)
         /\ ctrl \in Seq(Messages) /\ Len(ctrl) <= QueueSize /\ arrived \in 0..Len(ctrl)
         /\ heap \in Nat /\ lost \in Nat /\ QueueSize \in Nat
BY HttpdAssumption DEF IInv, HttpdTypeOK, QueuesFit, Sessions

LEMMA SelectInv == ASSUME IInv, Select PROVE IInv'
<1> DEFINE F == {fd \in Table : Readable(fd)}
<1>1. /\ pc = "select" /\ pc' = "ctrl"
      /\ rset' = [ctrl |-> arrived > 0, listen |-> backlog # <<>>, fds |-> F]
      /\ UNCHANGED <<sd, cur, req, visited, ctrl, arrived, app, sock, conn, inbox, backlog,
                     heap, lost>>
  BY DEF Select, Goto, ctrlVars, tcpVars, ctxVars
<1>2. F \subseteq Fds
  BY SessionType DEF IInv, Table
<1>3. /\ rset' \in [ctrl : BOOLEAN, listen : BOOLEAN, fds : SUBSET Fds]
      /\ (rset'.ctrl => arrived > 0) /\ (rset'.listen => backlog # <<>>)
      /\ rset'.fds = F
  <2> DEFINE a == arrived > 0  b == backlog # <<>>
  <2>1. a \in BOOLEAN /\ b \in BOOLEAN /\ rset' = [ctrl |-> a, listen |-> b, fds |-> F]
    BY <1>1
  <2> HIDE DEF a, b, F
  <2>2. /\ rset' \in [ctrl : BOOLEAN, listen : BOOLEAN, fds : SUBSET Fds]
        /\ rset'.ctrl = a /\ rset'.listen = b /\ rset'.fds = F
    BY <1>2, <2>1
  <2> QED BY <2>2 DEF a, b
<1>4. HttpdTypeOK'
  BY <1>1, <1>3 DEF IInv, HttpdTypeOK
<1>5. QueuesFit'
  BY <1>1 DEF IInv, QueuesFit
<1>6. Owned' /\ OnePeer'
  BY <1>1, SameOwners DEF IInv
<1>7. AnswerHolds'
  BY <1>1, <1>3 DEF AnswerHolds
<1>8. cur = NoFd
  BY <1>1 DEF IInv, AtSession, Turn
<1>9. AtSession'
  BY <1>1, <1>8 DEF AtSession, Turn
<1>10. Visits'
  <2>1. visited' = {}
    BY <1>1 DEF IInv, Visits
  <2>2. \A i \in Slots : ~Reached(i)'
    BY <1>1, <1>8 DEF Reached
  <2> QED BY <1>1, <2>1, <2>2 DEF Visits
<1>11. StillReady'
  <2> SUFFICES ASSUME NEW i \in Slots, sd[i].fd \in F PROVE Readable(sd[i].fd)'
    BY <1>1, <1>3 DEF StillReady, Readable, Peer
  <2> QED BY <1>1 DEF Readable, Peer
<1>12. TurnReady'
  BY <1>1 DEF TurnReady
<1>13. ContextsCounted'
  <2>1. req = NoRequest
    BY <1>1 DEF IInv, ContextsCounted
  <2>2. \A i \in Slots : sd'[i].ctx = sd[i].ctx /\ (sd'[i].fd = NoFd => ~sd[i].ctx)
    BY <1>1 DEF IInv, ContextsCounted
  <2> QED BY <1>1, <2>1, <2>2, SameContexts DEF IInv
<1> QED BY <1>4, <1>5, <1>6, <1>7, <1>9, <1>10, <1>11, <1>12, <1>13 DEF IInv

LEMMA ProcessCtrlInv == ASSUME IInv, ProcessCtrl PROVE IInv'
<1>1. /\ pc = "ctrl" /\ pc' \in {"next", "exit"}
      /\ UNCHANGED <<rset, cur, req, visited, app, lost>>
  BY DEF ProcessCtrl, Goto
<1>2. req = NoRequest /\ cur = NoFd
  BY <1>1 DEF IInv, ContextsCounted, AtSession, Turn
<1>3. UNCHANGED backlog
  BY DEF ProcessCtrl, Close, tcpVars
<1>4. ctrl' \in Seq(Messages) /\ Len(ctrl') <= QueueSize /\ arrived' \in 0..Len(ctrl')
  <2>1. CASE rset.ctrl
    <3>1. arrived > 0
      BY <1>1, <2>1 DEF IInv, AnswerHolds
    <3>2. ctrl' = Tail(ctrl) /\ arrived' = arrived - 1
      BY <2>1 DEF ProcessCtrl
    <3>3. ctrl # <<>> /\ ctrl \in Seq(Messages)
      BY <3>1, Known
    <3>4. Tail(ctrl) \in Seq(Messages) /\ Len(Tail(ctrl)) = Len(ctrl) - 1
      BY <3>3, HeadTailProperties
    <3> QED BY <3>1, <3>2, <3>4, Known
  <2>2. CASE ~rset.ctrl
    BY <2>2, Known DEF ProcessCtrl, ctrlVars
  <2> QED BY <2>1, <2>2
\* Either nothing happens to the table, or one session is closed.
<1>5. \/ UNCHANGED <<sd, heap, sock, conn, inbox>>
      \/ \E fd : /\ fd = NoFd \/ \E i \in Slots : sd[i].fd = fd
                 /\ DeleteSession(fd) /\ Close(fd)
  <2>1. CASE rset.ctrl /\ Head(ctrl).type = "close"
    <3>1. arrived > 0
      BY <1>1, <2>1 DEF IInv, AnswerHolds
    <3>2. Head(ctrl) \in Messages
      BY <3>1, Known, HeadTailProperties
    <3>3. Head(ctrl).slot \in Slots
      BY <2>1, <3>2 DEF Messages
    <3>4. DeleteSession(sd[Head(ctrl).slot].fd) /\ Close(sd[Head(ctrl).slot].fd)
      BY <2>1 DEF ProcessCtrl
    <3> QED BY <3>3, <3>4
  <2>2. CASE ~(rset.ctrl /\ Head(ctrl).type = "close")
    BY <2>2 DEF ProcessCtrl, tcpVars
  <2> QED BY <2>1, <2>2
<1>6. /\ sd' \in [Slots -> Sessions]
      /\ \A i \in Slots : (sd'[i].fd = NoFd /\ ~sd'[i].ctx) \/ sd'[i] = sd[i]
      /\ \A i \in Slots : sd'[i].fd # NoFd /\ Readable(sd[i].fd) => Readable(sd[i].fd)'
      /\ sock' \in [Fds -> Clients \cup {"none"}]
      /\ conn' \in [Clients -> {"away", "waiting", "open", "left"}]
      /\ inbox' \in [Clients -> Seq(Kinds)]
      /\ Owned' /\ OnePeer'
      /\ heap' \in Nat /\ Cardinality(WithContext') \in Nat
      /\ heap' - Cardinality(WithContext') = heap - Cardinality(WithContext)
  BY <1>3, <1>5, AfterClose
<1>7. HttpdTypeOK'
  BY <1>1, <1>4, <1>6 DEF IInv, HttpdTypeOK, Sessions
<1>8. QueuesFit'
  BY <1>1, <1>3, <1>4, <1>6 DEF IInv, QueuesFit
<1>9. AnswerHolds'
  BY <1>1, <1>3 DEF IInv, AnswerHolds
<1>10. AtSession'
  BY <1>1, <1>2 DEF AtSession, Turn
<1>11. \A i \in Slots : ~Reached(i) /\ ~Reached(i)'
  BY <1>1, <1>2 DEF Reached
<1>12. Visits'
  <2>1. \A i \in Slots : sd[i].fd # NoFd => sd[i].fd \notin visited
    BY <1>1, <1>11 DEF IInv, Visits, Walk
  <2>2. \A i \in Slots : sd'[i].fd # NoFd => sd'[i].fd \notin visited'
    BY <1>1, <1>6, <2>1
  <2> QED BY <1>1, <1>11, <2>2 DEF Visits
<1>13. StillReady'
  <2> SUFFICES ASSUME NEW i \in Slots, sd'[i].fd \in rset.fds \ visited
               PROVE  Readable(sd[i].fd)'
    BY <1>1 DEF StillReady
  <2>1. sd'[i].fd # NoFd
    BY Known, Distinct
  <2>2. sd'[i] = sd[i]
    BY <1>6, <2>1
  <2>3. Readable(sd[i].fd)
    BY <1>1, <2>2 DEF IInv, StillReady, Walk
  <2> QED BY <1>6, <2>1, <2>3
<1>14. TurnReady'
  BY <1>1 DEF TurnReady
<1>15. ContextsCounted'
  <2>1. Unsettled = 0 /\ Unsettled' = 0
    BY <1>1, <1>2 DEF Unsettled, NoRequest
  <2>2. heap' = Cardinality(WithContext') + lost' + Unsettled'
    BY SMTT(40), <1>1, <1>6, <2>1, Known, ContextsFinite DEF IInv, ContextsCounted
  <2>3. \A i \in Slots : sd'[i].fd = NoFd => ~sd'[i].ctx
    BY <1>6 DEF IInv, ContextsCounted
  <2> QED BY <1>1, <1>2, <2>2, <2>3 DEF ContextsCounted
<1> QED BY <1>6, <1>7, <1>8, <1>9, <1>10, <1>12, <1>13, <1>14, <1>15 DEF IInv

LEMMA NextSessionInv == ASSUME IInv, NextSession PROVE IInv'
<1> DEFINE fd == Iterate(cur)
<1>1. /\ pc = "next" /\ cur' = fd /\ visited' = visited \cup ({fd} \ {NoFd})
      /\ UNCHANGED <<sd, rset, req, ctrl, arrived, app, sock, conn, inbox, backlog, heap, lost>>
  BY DEF NextSession, ctrlVars, tcpVars, ctxVars
<1>2. \/ fd = NoFd /\ pc' = "accept"
      \/ fd # NoFd /\ (fd \in rset.fds \/ sd[SlotOf(fd)].pending # "none") /\ pc' = "request"
      \/ fd # NoFd /\ pc' = "next"
  BY DEF NextSession, Goto
<1>3. req = NoRequest
  BY <1>1 DEF IInv, ContextsCounted
<1>4. \A i \in Slots : sd[i].fd # NoFd => (sd[i].fd \in visited <=> Reached(i))
  BY <1>1 DEF IInv, Visits, Walk
<1>5. \/ fd = NoFd /\ \A i \in Slots : sd[i].fd # NoFd => Reached(i)
      \/ \E j \in Slots : /\ fd = sd[j].fd /\ sd[j].fd # NoFd /\ ~Reached(j)
                          /\ \A i \in Slots : sd[i].fd # NoFd /\ i < j => Reached(i)
  BY IterateIs DEF IInv, AtSession
<1> HIDE DEF fd
\* What does not depend on where the walk goes.
<1>6. fd \in Fds \cup {NoFd}
  BY <1>5, SessionType DEF IInv
<1>7. pc' \in {"accept", "request", "next"}
  BY <1>2
<1>8. HttpdTypeOK'
  BY <1>1, <1>6, <1>7 DEF IInv, HttpdTypeOK
<1>9. QueuesFit'
  BY <1>1 DEF IInv, QueuesFit
<1>10. Owned' /\ OnePeer'
  BY <1>1, SameOwners DEF IInv
<1>11. AnswerHolds'
  BY <1>1, <1>7 DEF IInv, AnswerHolds
<1>12. AtSession'
  BY <1>1, <1>2, <1>5 DEF AtSession, Turn
<1>13. ContextsCounted'
  <2>1. \A i \in Slots : sd'[i].ctx = sd[i].ctx /\ (sd'[i].fd = NoFd => ~sd[i].ctx)
    BY <1>1 DEF IInv, ContextsCounted
  <2> QED BY <1>1, <1>3, <1>7, <2>1, SameContexts DEF IInv
<1>14. \A i \in Slots : Readable(sd[i].fd)' <=> Readable(sd[i].fd)
  BY <1>1 DEF Readable, Peer
<1>15. StillReady'
  <2> SUFFICES ASSUME NEW i \in Slots, sd'[i].fd \in rset'.fds \ visited'
               PROVE  Readable(sd[i].fd)'
    BY DEF StillReady
  <2>1. sd[i].fd \in rset.fds \ visited
    BY <1>1
  <2> QED BY <1>1, <1>14, <2>1 DEF IInv, StillReady, Walk
\* The end of the walk, or the next session.
<1>16. CASE fd = NoFd
  <2>1. pc' = "accept"
    BY <1>2, <1>16
  <2>2. Visits'
    BY <1>1, <1>4, <1>5, <1>16, <2>1 DEF Visits, Walk, Turn
  <2>3. TurnReady'
    BY <2>1 DEF TurnReady
  <2> QED BY <1>8, <1>9, <1>10, <1>11, <1>12, <1>13, <1>15, <2>2, <2>3 DEF IInv
<1>17. CASE fd # NoFd
  <2> PICK j \in Slots : /\ fd = sd[j].fd /\ sd[j].fd # NoFd /\ ~Reached(j)
                         /\ \A i \in Slots : sd[i].fd # NoFd /\ i < j => Reached(i)
    BY <1>5, <1>17
  <2>1. pc' \in {"next", "request"}
    BY <1>2, <1>17
  <2>2. Visits'
    <3>1. ASSUME NEW i \in Slots, sd[i].fd # NoFd
          PROVE  sd[i].fd \in visited' <=> Reached(i)'
      <4>1. Reached(i)' <=> i <= j
        <5>1. \A k \in Slots : sd[k].fd = fd => k = j
          BY DEF IInv, Owned
        <5> QED BY <1>1, <1>17, <5>1 DEF Reached
      <4>2. sd[i].fd \in visited' <=> sd[i].fd \in visited \/ sd[i].fd = fd
        BY <1>1, <1>17
      <4>3. sd[i].fd = fd <=> i = j
        BY DEF IInv, Owned
      <4>4. Reached(i) => i < j
        BY Distinct DEF Reached
      <4>5. i \in Nat /\ j \in Nat
        BY Distinct
      <4>6. i < j => Reached(i)
        BY <3>1
      <4>7. sd[i].fd \in visited <=> Reached(i)
        BY <1>4, <3>1
      <4>8. i <= j <=> i < j \/ i = j
        BY <4>5
      <4> QED BY <4>1, <4>2, <4>3, <4>4, <4>6, <4>7, <4>8
    <3> QED BY <1>1, <2>1, <3>1 DEF Visits
  <2>3. TurnReady'
    <3> SUFFICES ASSUME pc' = "request"
                 PROVE  \/ Readable(sd[j].fd)'
                        \/ sd[j].pending # "none"
      BY <1>1 DEF TurnReady, Readable, Peer
    <3>1. CASE fd \in rset.fds
      <4>1. sd[j].fd \in rset.fds \ visited
        BY <1>4, <3>1
      <4> QED BY <1>1, <1>14, <4>1 DEF IInv, StillReady, Walk
    <3>2. CASE sd[SlotOf(fd)].pending # "none"
      <4>1. SlotOf(fd) = j
        BY TheSlot DEF IInv
      <4> QED BY <3>2, <4>1
    <3> QED BY <1>2, <1>17, <3>1, <3>2
  <2> QED BY <1>8, <1>9, <1>10, <1>11, <1>12, <1>13, <1>15, <2>2, <2>3 DEF IInv
<1> QED BY <1>16, <1>17

\* The session whose turn it is, and what the walk knows of it.
LEMMA TheTurn ==
  ASSUME IInv, pc \in Turn
  PROVE  /\ CurSlot \in Slots /\ sd[CurSlot].fd = cur /\ cur # NoFd /\ cur \in Fds
         /\ \A i \in Slots : sd[i].fd = cur <=> i = CurSlot
         /\ cur \in visited
         /\ sock[cur] \in Clients
<1> PICK i \in Slots : sd[i].fd = cur /\ cur # NoFd
  BY DEF IInv, AtSession
<1>1. CurSlot = i
  BY TheSlot DEF IInv, CurSlot
<1>2. \A j \in Slots : sd[j].fd = cur <=> j = i
  BY DEF IInv, Owned
<1>3. cur \in Fds
  BY SessionType DEF IInv
<1>4. cur \in visited
  <2>1. Reached(i)
    BY Distinct DEF Reached
  <2> QED BY <2>1 DEF IInv, Visits, Walk
<1>5. sock[cur] \in Clients
  BY <1>3, Known DEF IInv, Owned
<1> QED BY <1>1, <1>2, <1>3, <1>4, <1>5

\* While a session has its turn the walk stands still; the others keep what there is
\* to read.
LEMMA WalkStands ==
  ASSUME IInv, pc \in Turn, pc' \in Turn \cup {"next"}, pc' # "request",
         UNCHANGED <<cur, visited, rset, sock, conn, backlog>>,
         \A i \in Slots : sd'[i].fd = sd[i].fd,
         \A c \in Clients : c # sock[cur] => inbox'[c] = inbox[c]
  PROVE  Owned' /\ OnePeer' /\ AnswerHolds' /\ AtSession' /\ Visits' /\ StillReady' /\ TurnReady'
<1>1. Owned' /\ OnePeer'
  BY SameOwners DEF IInv
<1>2. AnswerHolds'
  BY DEF IInv, AnswerHolds, Turn
<1>3. AtSession'
  BY DEF IInv, AtSession, Turn
<1>4. Visits'
  <2>1. \A i \in Slots : Reached(i)' <=> Reached(i)
    BY DEF Reached
  <2> QED BY <2>1 DEF IInv, Visits, Walk, Turn
<1>5. StillReady'
  <2> SUFFICES ASSUME NEW i \in Slots, sd'[i].fd \in rset'.fds \ visited'
               PROVE  Readable(sd[i].fd)'
    BY DEF StillReady
  <2>1. sd[i].fd \in rset.fds \ visited /\ sd[i].fd # cur /\ sd[i].fd # NoFd
    BY TheTurn, Known, Distinct
  <2>2. Readable(sd[i].fd)
    BY <2>1 DEF IInv, StillReady, Walk
  <2>3. sd[i].fd \in Fds /\ sock[sd[i].fd] # "none"
    BY <2>1, SessionType DEF IInv, Owned
  <2>4. sock[sd[i].fd] # sock[cur] /\ sock[sd[i].fd] \in Clients
    BY <2>1, <2>3, TheTurn, Known DEF IInv, OnePeer
  <2> QED BY <2>2, <2>4 DEF Readable, Peer
<1>6. TurnReady'
  BY DEF TurnReady
<1> QED BY <1>1, <1>2, <1>3, <1>4, <1>5, <1>6

\* What is pending or unread is of the kinds clients send.
LEMMA RequestMoves ==
  ASSUME IInv, Request
  PROVE  /\ pc = "request" /\ pc' \in {"handler", "done", "fail"}
         /\ sd' \in [Slots -> Sessions]
         /\ \A i \in Slots : /\ sd'[i].fd = sd[i].fd /\ sd'[i].ctx = sd[i].ctx
                             /\ sd'[i].timestamp = sd[i].timestamp
         /\ inbox' \in [Clients -> Seq(Kinds)]
         /\ \A c \in Clients : c # sock[cur] => inbox'[c] = inbox[c]
         /\ \/ req' = req /\ pc' = "fail"
            \/ \E kind \in Kinds : req' = [kind |-> kind, ctx |-> sd[CurSlot].ctx]
         /\ UNCHANGED <<rset, cur, visited, ctrl, arrived, app, sock, conn, backlog, heap, lost>>
<1> DEFINE c == sock[cur]
           waiting == sd[CurSlot].pending
           Parsed(kind) ==
             /\ req' = [kind |-> kind, ctx |-> sd[CurSlot].ctx]
             /\ pc' \in {"handler", "done", "fail"}
<1>1. /\ pc = "request"
      /\ UNCHANGED <<rset, cur, visited, ctrl, arrived, app, sock, conn, backlog, heap, lost>>
  BY DEF Request, ctrlVars, ctxVars
<1>2. CurSlot \in Slots /\ c \in Clients
  BY <1>1, TheTurn DEF Turn
<1>3. inbox[c] \in Seq(Kinds) /\ inbox \in [Clients -> Seq(Kinds)] /\ sd \in [Slots -> Sessions]
  BY <1>2, Known
<1>4. \/ /\ waiting # "none" /\ sd' = [sd EXCEPT ![CurSlot].pending = "none"]
         /\ inbox' = inbox /\ Parsed(waiting)
      \/ /\ inbox[c] # <<>> /\ inbox' = [inbox EXCEPT ![c] = Tail(@)] /\ sd' = sd
         /\ Parsed(inbox[c][1])
      \/ /\ inbox[c] # <<>> /\ Len(inbox[c]) > 1
         /\ inbox' = [inbox EXCEPT ![c] = Tail(Tail(@))]
         /\ sd' = sd \/ sd' = [sd EXCEPT ![CurSlot].pending = inbox[c][2]]
         /\ Parsed(inbox[c][1])
      \/ pc' = "fail" /\ UNCHANGED <<sd, req, inbox>>
  BY DEF Request, Goto, Peer
<1>5. inbox[c] # <<>> => inbox[c][1] \in Kinds /\ Tail(inbox[c]) \in Seq(Kinds)
  BY <1>3, HeadTailProperties
<1>6. Len(inbox[c]) > 1 => inbox[c][2] \in Kinds /\ Tail(Tail(inbox[c])) \in Seq(Kinds)
  <2> SUFFICES ASSUME Len(inbox[c]) > 1
               PROVE  inbox[c][2] \in Kinds /\ Tail(Tail(inbox[c])) \in Seq(Kinds)
    OBVIOUS
  <2>1. Tail(inbox[c]) \in Seq(Kinds) /\ Len(Tail(inbox[c])) = Len(inbox[c]) - 1
    BY <1>3, HeadTailProperties
  <2>2. Tail(inbox[c]) # <<>>
    <3> PICK q \in Seq(Kinds) : q = Tail(inbox[c])
      BY <2>1
    <3>1. Len(q) # 0
      BY <1>3, <2>1
    <3>2. Len(<<>>) = 0
      BY EmptySeq
    <3>3. q # <<>>
      BY <3>1, <3>2
    <3> QED BY <3>3
  <2>3. 2 \in 1..Len(inbox[c])
    BY <1>3
  <2> QED BY <1>3, <2>1, <2>2, <2>3, HeadTailProperties
<1>7. sd[CurSlot] \in Sessions /\ waiting \in Kinds \cup {"none"}
  BY <1>2, <1>3 DEF Sessions
\* The fields of the session, whichever request is put in pending_data.
<1>8. ASSUME NEW p \in Kinds \cup {"none"}, sd' = [sd EXCEPT ![CurSlot].pending = p]
      PROVE  /\ sd' \in [Slots -> Sessions]
             /\ \A i \in Slots : /\ sd'[i].fd = sd[i].fd /\ sd'[i].ctx = sd[i].ctx
                                 /\ sd'[i].timestamp = sd[i].timestamp
  BY <1>2, <1>3, <1>8 DEF Sessions
<1>9. ASSUME NEW q \in Seq(Kinds), inbox' = [inbox EXCEPT ![c] = q]
      PROVE  /\ inbox' \in [Clients -> Seq(Kinds)]
             /\ \A d \in Clients : d # c => inbox'[d] = inbox[d]
  BY <1>2, <1>3, <1>9
<1> HIDE DEF c, waiting
<1>10. CASE /\ waiting # "none" /\ sd' = [sd EXCEPT ![CurSlot].pending = "none"]
            /\ inbox' = inbox /\ Parsed(waiting)
  BY <1>1, <1>3, <1>7, <1>8, <1>10 DEF c
<1>11. CASE /\ inbox[c] # <<>> /\ inbox' = [inbox EXCEPT ![c] = Tail(@)] /\ sd' = sd
            /\ Parsed(inbox[c][1])
  <2>1. inbox' = [inbox EXCEPT ![c] = Tail(inbox[c])]
    BY <1>11
  <2> QED BY <1>1, <1>3, <1>5, <1>9, <1>11, <2>1 DEF c
<1>12. CASE /\ inbox[c] # <<>> /\ Len(inbox[c]) > 1
            /\ inbox' = [inbox EXCEPT ![c] = Tail(Tail(@))]
            /\ sd' = sd \/ sd' = [sd EXCEPT ![CurSlot].pending = inbox[c][2]]
            /\ Parsed(inbox[c][1])
  <2>1. inbox' = [inbox EXCEPT ![c] = Tail(Tail(inbox[c]))]
    BY <1>12
  <2>2. /\ inbox' \in [Clients -> Seq(Kinds)]
        /\ \A d \in Clients : d # c => inbox'[d] = inbox[d]
    BY <1>6, <1>9, <1>12, <2>1
  <2>3. /\ sd' \in [Slots -> Sessions]
        /\ \A i \in Slots : /\ sd'[i].fd = sd[i].fd /\ sd'[i].ctx = sd[i].ctx
                            /\ sd'[i].timestamp = sd[i].timestamp
    BY <1>3, <1>6, <1>8, <1>12
  <2> QED BY <1>1, <1>5, <1>12, <2>2, <2>3 DEF c
<1>13. CASE pc' = "fail" /\ UNCHANGED <<sd, req, inbox>>
  BY <1>1, <1>3, <1>13
<1> QED BY <1>4, <1>10, <1>11, <1>12, <1>13

LEMMA RequestInv == ASSUME IInv, Request PROVE IInv'
<1>1. /\ pc = "request" /\ pc' \in {"handler", "done", "fail"}
      /\ sd' \in [Slots -> Sessions]
      /\ \A i \in Slots : sd'[i].fd = sd[i].fd /\ sd'[i].ctx = sd[i].ctx
      /\ inbox' \in [Clients -> Seq(Kinds)]
      /\ \A c \in Clients : c # sock[cur] => inbox'[c] = inbox[c]
      /\ \/ req' = req /\ pc' = "fail"
         \/ \E kind \in Kinds : req' = [kind |-> kind, ctx |-> sd[CurSlot].ctx]
      /\ UNCHANGED <<rset, cur, visited, ctrl, arrived, app, sock, conn, backlog, heap, lost>>
  BY RequestMoves
<1>2. req = NoRequest
  BY <1>1 DEF IInv, ContextsCounted
<1>3. CurSlot \in Slots /\ \A i \in Slots : sd[i].fd = cur <=> i = CurSlot
  BY <1>1, TheTurn DEF Turn
<1>4. req' \in [kind : Kinds \cup {"none"}, ctx : BOOLEAN]
  <2>1. sd[CurSlot].ctx \in BOOLEAN
    BY <1>3, SessionType DEF IInv
  <2>2. req \in [kind : Kinds \cup {"none"}, ctx : BOOLEAN]
    BY DEF IInv, HttpdTypeOK
  <2> QED BY <1>1, <2>1, <2>2
<1>5. HttpdTypeOK'
  BY <1>1, <1>4 DEF IInv, HttpdTypeOK, Sessions
<1>6. QueuesFit'
  BY <1>1 DEF IInv, QueuesFit
<1>7. Owned' /\ OnePeer' /\ AnswerHolds' /\ AtSession' /\ Visits' /\ StillReady' /\ TurnReady'
  BY <1>1, WalkStands DEF Turn
<1>8. ContextsCounted'
  <2>1. WithContext' = WithContext
    BY <1>1 DEF WithContext
  <2>2. Unsettled = 0
    BY <1>2 DEF Unsettled, NoRequest
  <2>3. req'.ctx => sd[CurSlot].ctx
    BY <1>1, <1>2 DEF NoRequest
  <2>4. Unsettled' = 0
    BY <1>1, <1>3, <2>3 DEF Unsettled
  <2>5. pc' \in {"handler", "purge", "done"} => req'.ctx = sd[CurSlot].ctx
    BY <1>1
  <2>6. heap' = Cardinality(WithContext') + lost' + Unsettled'
    BY <1>1, <2>1, <2>2, <2>4 DEF IInv, ContextsCounted
  <2>7. \A i \in Slots : sd'[i].fd = NoFd => ~sd'[i].ctx
    BY <1>1 DEF IInv, ContextsCounted
  <2>8. pc' \in {"handler", "purge", "done"} =>
          \A i \in Slots : sd'[i].fd = cur' /\ sd'[i].ctx => req'.ctx
    BY <1>1, <1>3, <2>5
  <2> QED BY <1>1, <2>6, <2>7, <2>8 DEF ContextsCounted
<1> QED BY <1>5, <1>6, <1>7, <1>8 DEF IInv

LEMMA HandlerInv == ASSUME IInv, Handler PROVE IInv'
<1>1. /\ pc = "handler" /\ pc' \in {"purge", "fail"}
      /\ \/ UNCHANGED <<req, heap>>
         \/ ~req.ctx /\ req' = [req EXCEPT !.ctx = TRUE] /\ heap' = heap + 1
      /\ UNCHANGED <<sd, rset, cur, visited, ctrl, arrived, app, sock, conn, inbox, backlog, lost>>
  BY DEF Handler, Goto, ctrlVars, tcpVars
<1>2. CurSlot \in Slots /\ \A i \in Slots : sd[i].fd = cur <=> i = CurSlot
  BY <1>1, TheTurn DEF Turn
<1>3. /\ req' \in [kind : Kinds \cup {"none"}, ctx : BOOLEAN]
      /\ req.ctx => req'.ctx
      /\ heap' \in Nat
      /\ \/ req' = req /\ heap' = heap
         \/ ~req.ctx /\ req'.ctx /\ heap' = heap + 1
  <2>1. req \in [kind : Kinds \cup {"none"}, ctx : BOOLEAN] /\ heap \in Nat
    BY DEF IInv, HttpdTypeOK
  <2>2. CASE UNCHANGED <<req, heap>>
    <3>1. req' = req /\ heap' = heap
      BY <2>2
    <3>2. req' \in [kind : Kinds \cup {"none"}, ctx : BOOLEAN] /\ heap' \in Nat
      BY <2>1, <3>1
    <3>3. req.ctx => req'.ctx
      BY <3>1
    <3> QED BY <3>1, <3>2, <3>3
  <2>3. CASE ~req.ctx /\ req' = [req EXCEPT !.ctx = TRUE] /\ heap' = heap + 1
    <3>1. req' \in [kind : Kinds \cup {"none"}, ctx : BOOLEAN] /\ req'.ctx = TRUE
      BY <2>1, <2>3
    <3>2. heap' \in Nat
      BY <2>1, <2>3
    <3> QED BY <2>3, <3>1, <3>2
  <2> QED BY <1>1, <2>2, <2>3
<1>4. HttpdTypeOK'
  BY <1>1, <1>3 DEF IInv, HttpdTypeOK
<1>5. QueuesFit'
  BY <1>1 DEF IInv, QueuesFit
<1>6. Owned' /\ OnePeer' /\ AnswerHolds' /\ AtSession' /\ Visits' /\ StillReady' /\ TurnReady'
  BY <1>1, WalkStands DEF Turn
<1>7. ContextsCounted'
  <2>1. WithContext' = WithContext
    BY <1>1 DEF WithContext
  <2>2. \A i \in Slots : sd[i].fd = cur /\ sd[i].ctx => req.ctx
    BY <1>1 DEF IInv, ContextsCounted
  <2>3. heap' - Unsettled' = heap - Unsettled /\ Unsettled \in Nat /\ Unsettled' \in Nat
    <3>1. heap \in Nat
      BY Known
    <3> QED BY <1>1, <1>3, <2>2, <3>1 DEF Unsettled
  <2>4. heap' = Cardinality(WithContext') + lost' + Unsettled'
    BY <1>1, <1>3, <2>1, <2>3, Known, ContextsFinite DEF IInv, ContextsCounted
  <2>5. \A i \in Slots : sd'[i].fd = NoFd => ~sd'[i].ctx
    BY <1>1 DEF IInv, ContextsCounted
  <2>6. \A i \in Slots : sd'[i].fd = cur' /\ sd'[i].ctx => req'.ctx
    BY <1>1, <1>3, <2>2
  <2> QED BY <1>1, <2>4, <2>5, <2>6 DEF ContextsCounted
<1> QED BY <1>4, <1>5, <1>6, <1>7 DEF IInv

LEMMA PurgeInv == ASSUME IInv, Purge PROVE IInv'
<1>1. /\ pc = "purge" /\ pc' \in {"fail", "done"}
      /\ UNCHANGED <<sd, rset, cur, req, visited, ctrl, arrived, app, sock, conn, inbox, backlog,
                     heap, lost>>
  BY DEF Purge, Goto, ctrlVars, tcpVars, ctxVars
<1>2. HttpdTypeOK'
  BY <1>1 DEF IInv, HttpdTypeOK
<1>3. QueuesFit'
  BY <1>1 DEF IInv, QueuesFit
<1>4. Owned' /\ OnePeer' /\ AnswerHolds' /\ AtSession' /\ Visits' /\ StillReady' /\ TurnReady'
  BY <1>1, WalkStands DEF Turn
<1>5. ContextsCounted'
  <2>1. WithContext' = WithContext /\ Unsettled' = Unsettled
    BY <1>1 DEF WithContext, Unsettled
  <2> QED BY <1>1, <2>1 DEF IInv, ContextsCounted
<1> QED BY <1>2, <1>3, <1>4, <1>5 DEF IInv

LEMMA DoneInv == ASSUME IInv, Done PROVE IInv'
<1>1. /\ pc = "done" /\ pc' = "next" /\ req' = NoRequest
      /\ sd' = [sd EXCEPT ![CurSlot].ctx = req.ctx, ![CurSlot].timestamp = Now]
      /\ UNCHANGED <<rset, cur, visited, ctrl, arrived, app, sock, conn, inbox, backlog, heap, lost>>
  BY DEF Done, Goto, ctrlVars, tcpVars, ctxVars
<1>2. CurSlot \in Slots /\ cur # NoFd /\ \A i \in Slots : sd[i].fd = cur <=> i = CurSlot
  BY <1>1, TheTurn DEF Turn
<1>3. /\ sd' \in [Slots -> Sessions]
      /\ \A i \in Slots : sd'[i].fd = sd[i].fd
      /\ \A i \in Slots : i # CurSlot => sd'[i].ctx = sd[i].ctx
      /\ sd'[CurSlot].ctx = req.ctx
  <2>1. sd \in [Slots -> Sessions] /\ req.ctx \in BOOLEAN
    BY Known
  <2>2. Now \in Nat
    BY NowType DEF IInv
  <2> QED BY <1>1, <1>2, <2>1, <2>2 DEF Sessions
<1>4. req'.ctx = FALSE /\ req' \in [kind : Kinds \cup {"none"}, ctx : BOOLEAN]
  BY <1>1 DEF NoRequest
<1>5. HttpdTypeOK'
  BY <1>1, <1>3, <1>4 DEF IInv, HttpdTypeOK, Sessions
<1>6. QueuesFit'
  BY <1>1 DEF IInv, QueuesFit
<1>7. Owned' /\ OnePeer' /\ AnswerHolds' /\ AtSession' /\ Visits' /\ StillReady' /\ TurnReady'
  BY <1>1, <1>3, WalkStands DEF Turn
<1>8. ContextsCounted'
  <2>1. sd[CurSlot].ctx => req.ctx
    BY <1>1, <1>2 DEF IInv, ContextsCounted
  <2>2. IsFiniteSet(WithContext) /\ Cardinality(WithContext) \in Nat
    BY ContextsFinite
  <2>3. Unsettled' = 0
    BY <1>4 DEF Unsettled
  <2>4. Cardinality(WithContext') = Cardinality(WithContext) + Unsettled /\ Unsettled \in Nat
    <3>1. CASE req.ctx /\ ~sd[CurSlot].ctx
      <4>1. WithContext' = WithContext \cup {CurSlot} /\ CurSlot \notin WithContext
        BY <1>2, <1>3, <3>1 DEF WithContext
      <4>2. Cardinality(WithContext \cup {CurSlot}) = Cardinality(WithContext) + 1
        BY <2>2, <4>1, FS_AddElement
      <4>3. Unsettled = 1
        BY <1>2, <3>1 DEF Unsettled
      <4> QED BY <4>1, <4>2, <4>3
    <3>2. CASE ~(req.ctx /\ ~sd[CurSlot].ctx)
      <4>1. sd'[CurSlot].ctx <=> sd[CurSlot].ctx
        BY <1>3, <2>1, <3>2
      <4>2. WithContext' = WithContext
        BY <1>2, <1>3, <4>1 DEF WithContext
      <4>3. Unsettled = 0
        BY <1>2, <3>2 DEF Unsettled
      <4> QED BY <2>2, <4>2, <4>3
    <3> QED BY <3>1, <3>2
  <2>5. heap' = Cardinality(WithContext') + lost' + Unsettled'
    BY <1>1, <2>2, <2>3, <2>4, Known DEF IInv, ContextsCounted
  <2>6. \A i \in Slots : sd'[i].fd = NoFd => ~sd'[i].ctx
    BY <1>2, <1>3 DEF IInv, ContextsCounted
  <2> QED BY <1>1, <2>5, <2>6 DEF ContextsCounted
<1> QED BY <1>5, <1>6, <1>7, <1>8 DEF IInv

LEMMA FailInv == ASSUME IInv, Fail PROVE IInv'
<1>1. /\ pc = "fail" /\ pc' = "next" /\ req' = NoRequest
      /\ Close(cur) /\ DeleteSession(cur) /\ cur' = Preceding(cur)
      /\ lost' = IF req.ctx /\ ~sd[CurSlot].ctx THEN lost + 1 ELSE lost
      /\ UNCHANGED <<rset, visited, ctrl, arrived, app>>
  BY DEF Fail, Goto, ctrlVars
<1> DEFINE s == CurSlot
<1>2. /\ s \in Slots /\ sd[s].fd = cur /\ cur # NoFd /\ cur \in Fds /\ cur \in visited
      /\ \A i \in Slots : sd[i].fd = cur <=> i = s
  BY <1>1, TheTurn DEF Turn
<1> HIDE DEF s
<1>3. /\ sd' \in [Slots -> Sessions]
      /\ \A i \in Slots : i # s => sd'[i] = sd[i]
      /\ sd'[s].fd = NoFd /\ ~sd'[s].ctx
      /\ backlog' = backlog
  BY <1>1, <1>2, CloseSession
<1>4. /\ \A i \in Slots : sd'[i].fd # NoFd /\ Readable(sd[i].fd) => Readable(sd[i].fd)'
      /\ sock' \in [Fds -> Clients \cup {"none"}]
      /\ conn' \in [Clients -> {"away", "waiting", "open", "left"}]
      /\ inbox' \in [Clients -> Seq(Kinds)]
      /\ Owned' /\ OnePeer'
      /\ heap' \in Nat /\ Cardinality(WithContext') \in Nat
      /\ heap' - Cardinality(WithContext') = heap - Cardinality(WithContext)
  <2>1. \/ UNCHANGED <<sd, heap, sock, conn, inbox>>
        \/ \E fd : /\ fd = NoFd \/ \E i \in Slots : sd[i].fd = fd
                   /\ DeleteSession(fd) /\ Close(fd)
    BY <1>1, <1>2
  <2>2. UNCHANGED backlog
    BY <1>3
  <2> QED BY <2>1, <2>2, AfterClose
\* The session the walk goes on from.
<1>5. \/ cur' = NoFd /\ \A i \in Slots : sd[i].fd # NoFd => i >= s
      \/ \E j \in Slots : /\ cur' = sd[j].fd /\ sd[j].fd # NoFd /\ j < s
                          /\ \A i \in Slots : sd[i].fd # NoFd /\ i < s => i <= j
  BY <1>1, <1>2, PrecedingIs DEF IInv
<1>6. s \in Nat /\ \A i \in Slots : i \in Nat
  BY <1>2, Distinct
<1>7. \A i \in Slots : sd'[i].fd # NoFd => (Reached(i)' <=> i < s)
  <2> SUFFICES ASSUME NEW i \in Slots, sd'[i].fd # NoFd
               PROVE  Reached(i)' <=> i < s
    OBVIOUS
  <2>1. i # s /\ sd[i].fd # NoFd
    BY <1>3
  <2>2. CASE cur' = NoFd /\ \A k \in Slots : sd[k].fd # NoFd => k >= s
    <3>1. ~Reached(i)'
      BY <2>2 DEF Reached
    <3> QED BY <1>6, <2>1, <2>2, <3>1
  <2>3. ASSUME NEW j \in Slots, cur' = sd[j].fd, sd[j].fd # NoFd, j < s,
               \A k \in Slots : sd[k].fd # NoFd /\ k < s => k <= j
        PROVE  Reached(i)' <=> i < s
    <3>1. sd'[j] = sd[j]
      BY <1>3, <1>6, <2>3
    <3>2. \A k \in Slots : sd'[k].fd = cur' => k = j
      BY <1>3, <2>3 DEF IInv, Owned
    <3>3. Reached(i)' <=> i <= j
      BY <2>3, <3>1, <3>2 DEF Reached
    <3>4. i <= j => i < s
      BY <1>6, <2>3
    <3>5. i < s => i <= j
      BY <2>1, <2>3
    <3> QED BY <3>3, <3>4, <3>5
  <2> QED BY <1>5, <2>2, <2>3
<1>8. HttpdTypeOK'
  <2>1. req' \in [kind : Kinds \cup {"none"}, ctx : BOOLEAN]
    BY <1>1 DEF NoRequest
  <2>2. lost' \in Nat
    BY <1>1, Known
  <2>3. cur' \in Fds \cup {NoFd}
    BY <1>5, SessionType DEF IInv
  <2> QED BY <1>1, <1>3, <1>4, <2>1, <2>2, <2>3 DEF IInv, HttpdTypeOK, Sessions
<1>9. QueuesFit'
  BY <1>1, <1>3, <1>4 DEF IInv, QueuesFit
<1>10. AnswerHolds'
  BY <1>1, <1>3 DEF IInv, AnswerHolds
<1>11. AtSession'
  <2>1. cur' # NoFd => \E i \in Slots : sd'[i].fd = cur'
    BY <1>3, <1>5, <1>6
  <2> QED BY <1>1, <2>1 DEF AtSession, Turn
<1>12. Visits'
  <2>1. ASSUME NEW i \in Slots, sd'[i].fd # NoFd
        PROVE  sd'[i].fd \in visited' <=> Reached(i)'
    <3>1. i # s /\ sd'[i] = sd[i]
      BY <1>3, <2>1
    <3>2. sd[i].fd \in visited <=> Reached(i)
      BY <1>1, <2>1, <3>1 DEF IInv, Visits, Walk, Turn
    <3>3. Reached(i) <=> i < s
      <4>1. Reached(i) <=> i <= s
        BY <1>2 DEF Reached
      <4> QED BY <1>6, <3>1, <4>1
    <3> QED BY <1>1, <1>7, <2>1, <3>1, <3>2, <3>3
  <2> QED BY <1>1, <2>1 DEF Visits
<1>13. StillReady'
  <2> SUFFICES ASSUME NEW i \in Slots, sd'[i].fd \in rset'.fds \ visited'
               PROVE  Readable(sd[i].fd)'
    BY DEF StillReady
  <2>1. sd'[i].fd # NoFd
    BY <1>1, Known, Distinct
  <2>2. sd[i].fd \in rset.fds \ visited
    BY <1>1, <1>3, <2>1
  <2>3. Readable(sd[i].fd)
    BY <1>1, <2>2 DEF IInv, StillReady, Walk, Turn
  <2> QED BY <1>4, <2>1, <2>3
<1>14. TurnReady'
  BY <1>1 DEF TurnReady
<1>15. ContextsCounted'
  <2>1. lost' = lost + Unsettled /\ Unsettled \in Nat
    BY <1>1, <1>2, Known DEF Unsettled, s
  <2>2. Unsettled' = 0
    BY <1>1 DEF Unsettled, NoRequest
  <2>3. heap' = Cardinality(WithContext') + lost' + Unsettled'
    <3>1. heap = Cardinality(WithContext) + lost + Unsettled
      BY DEF IInv, ContextsCounted
    <3>2. heap \in Nat /\ lost \in Nat /\ Cardinality(WithContext) \in Nat
      BY Known, ContextsFinite
    <3> QED BY <1>4, <2>1, <2>2, <3>1, <3>2
  <2>4. \A i \in Slots : sd'[i].fd = NoFd => ~sd'[i].ctx
    BY <1>3 DEF IInv, ContextsCounted
  <2> QED BY <1>1, <2>3, <2>4 DEF ContextsCounted
<1> QED BY <1>4, <1>8, <1>9, <1>10, <1>11, <1>12, <1>13, <1>14, <1>15 DEF IInv

\* A datagram that finds the control socket full is dropped.
LEMMA SendFits ==
  ASSUME IInv, NEW msg \in Messages, Send(msg)
  PROVE  /\ ctrl' \in Seq(Messages) /\ Len(ctrl') <= QueueSize
         /\ Len(ctrl') >= Len(ctrl) /\ arrived' = arrived /\ arrived' \in 0..Len(ctrl')
<1>1. /\ ctrl \in Seq(Messages) /\ Len(ctrl) <= QueueSize /\ arrived \in 0..Len(ctrl)
      /\ QueueSize \in Nat /\ Len(ctrl) \in Nat
  BY Known
<1>2. /\ arrived' = arrived
      /\ \/ ctrl' = ctrl
         \/ ctrl' = Append(ctrl, msg) /\ Len(ctrl) < QueueSize
  <2>1. CASE Len(ctrl) < QueueSize /\ pc # "stopped"
    BY <2>1 DEF Send
  <2>2. CASE ~(Len(ctrl) < QueueSize /\ pc # "stopped")
    BY <2>2 DEF Send
  <2> QED BY <2>1, <2>2
<1>3. Append(ctrl, msg) \in Seq(Messages) /\ Len(Append(ctrl, msg)) = Len(ctrl) + 1
  BY <1>1, AppendProperties
<1> QED BY <1>1, <1>2, <1>3

\* What a client has not read is dropped with its connection.
LEMMA InboxFits ==
  ASSUME NEW c, NEW q \in Seq(Kinds), inbox \in [Clients -> Seq(Kinds)]
  PROVE  /\ [inbox EXCEPT ![c] = q] \in [Clients -> Seq(Kinds)]
         /\ [inbox EXCEPT ![c] = <<>>] \in [Clients -> Seq(Kinds)]
<1> DEFINE K == Seq(Kinds)
<1>1. <<>> \in K /\ q \in K /\ inbox \in [Clients -> K]
  OBVIOUS
<1> HIDE DEF K
<1>2. [inbox EXCEPT ![c] = q] \in [Clients -> K] /\ [inbox EXCEPT ![c] = <<>>] \in [Clients -> K]
  BY <1>1
<1> QED BY <1>2 DEF K

\* httpd_sess_new.
LEMMA NewSession ==
  ASSUME NEW fd \in Fds
  PROVE  /\ [NoSession EXCEPT !.fd = fd] \in Sessions
         /\ [NoSession EXCEPT !.fd = fd].fd = fd
         /\ ~[NoSession EXCEPT !.fd = fd].ctx
BY NoSessionIs DEF Sessions

\* Nobody has a session, a request or a connection under way that a new round changes.
LEMMA NewRound ==
  ASSUME IInv, pc \in {"accept", "exit"}, pc' \in {"select", "stopped"},
         rset' = Nothing, UNCHANGED <<cur, req>>
  PROVE  /\ rset' \in [ctrl : BOOLEAN, listen : BOOLEAN, fds : SUBSET Fds]
         /\ req = NoRequest /\ cur = NoFd
         /\ AnswerHolds' /\ AtSession' /\ StillReady' /\ TurnReady'
         /\ visited' = {} \/ pc' = "stopped" => Visits'
<1>1. rset' \in [ctrl : BOOLEAN, listen : BOOLEAN, fds : SUBSET Fds] /\ ~rset'.listen
  BY DEF Nothing
<1>2. req = NoRequest /\ cur = NoFd
  BY DEF IInv, ContextsCounted, AtSession, Turn
<1>3. AnswerHolds'
  BY <1>1 DEF AnswerHolds
<1>4. AtSession'
  BY <1>2 DEF AtSession, Turn
<1>5. StillReady' /\ TurnReady'
  BY DEF StillReady, TurnReady, Walk, Turn
<1>6. visited' = {} \/ pc' = "stopped" => Visits'
  BY DEF Visits, Walk, Turn
<1> QED BY <1>1, <1>2, <1>3, <1>4, <1>5, <1>6

\* The head of the backlog leaves it.
LEMMA BacklogHead ==
  ASSUME IInv, backlog # <<>>
  PROVE  /\ Head(backlog) \in Clients /\ Tail(backlog) \in Seq(Clients)
         /\ conn[Head(backlog)] = "waiting"
         /\ \A fd \in Fds : sock[fd] # Head(backlog)
         /\ Len(Tail(backlog)) \in Nat
         /\ \A k \in 1..Len(Tail(backlog)) :
              /\ Tail(backlog)[k] \in Clients /\ Tail(backlog)[k] # Head(backlog)
              /\ conn[Tail(backlog)[k]] = "waiting"
         /\ \A k, l \in 1..Len(Tail(backlog)) : Tail(backlog)[k] = Tail(backlog)[l] => k = l
<1>1. backlog \in Seq(Clients)
  BY Known
<1>2. /\ \A k \in 1..Len(backlog) : conn[backlog[k]] = "waiting"
      /\ \A k, l \in 1..Len(backlog) : backlog[k] = backlog[l] => k = l
      /\ \A fd \in Fds : sock[fd] # "none" => conn[sock[fd]] \in {"open", "left"}
  BY DEF IInv, OnePeer
<1>3. /\ Head(backlog) \in Clients /\ Tail(backlog) \in Seq(Clients)
      /\ Len(Tail(backlog)) = Len(backlog) - 1
      /\ \A k \in 1..Len(Tail(backlog)) : Tail(backlog)[k] = backlog[k + 1]
  BY <1>1, HeadTailProperties
<1>4. Len(backlog) \in Nat /\ Len(backlog) > 0 /\ Head(backlog) = backlog[1] /\ 1 \in 1..Len(backlog)
  BY <1>1, EmptySeq
<1>5. conn[Head(backlog)] = "waiting"
  BY <1>2, <1>4
<1>6. \A fd \in Fds : sock[fd] # Head(backlog)
  BY <1>2, <1>3, <1>5, Distinct
<1>7. \A k \in 1..Len(Tail(backlog)) : k + 1 \in 1..Len(backlog) /\ k + 1 # 1
  BY <1>3, <1>4
<1>8. \A k \in 1..Len(Tail(backlog)) :
              /\ Tail(backlog)[k] \in Clients /\ Tail(backlog)[k] # Head(backlog)
              /\ conn[Tail(backlog)[k]] = "waiting"
  BY <1>1, <1>2, <1>3, <1>4, <1>7
<1>9. \A k, l \in 1..Len(Tail(backlog)) : Tail(backlog)[k] = Tail(backlog)[l] => k = l
  <2> SUFFICES ASSUME NEW k \in 1..Len(Tail(backlog)), NEW l \in 1..Len(Tail(backlog)),
                      Tail(backlog)[k] = Tail(backlog)[l]
               PROVE  k = l
    OBVIOUS
  <2>1. k + 1 = l + 1
    BY <1>2, <1>3, <1>7
  <2> QED BY <1>3, <1>4, <2>1
<1>10. Len(Tail(backlog)) \in Nat
  BY <1>3, LenProperties
<1> QED BY <1>3, <1>5, <1>6, <1>8, <1>9, <1>10

\* The first free slot of a table that has one.
LEMMA FreeSlot ==
  ASSUME IInv, FreeSlots # {}
  PROVE  Min(FreeSlots) \in Slots /\ sd[Min(FreeSlots)].fd = NoFd /\ ~sd[Min(FreeSlots)].ctx
<1>1. FreeSlots \in SUBSET Nat
  BY Distinct DEF FreeSlots
<1>2. Min(FreeSlots) \in FreeSlots
  BY <1>1, MinIs
<1> QED BY <1>2 DEF FreeSlots, IInv, ContextsCounted

LEMMA AcceptInv == ASSUME IInv, Accept PROVE IInv'
<1>1. /\ pc = "accept" /\ pc' = "select" /\ rset' = Nothing /\ visited' = {}
      /\ UNCHANGED <<cur, req, app, heap, lost>>
  BY DEF Accept, Goto, ctxVars
<1>2. /\ rset' \in [ctrl : BOOLEAN, listen : BOOLEAN, fds : SUBSET Fds]
      /\ req = NoRequest
      /\ AnswerHolds' /\ AtSession' /\ StillReady' /\ TurnReady' /\ Visits'
  BY <1>1, NewRound
<1>3. /\ req \in [kind : Kinds \cup {"none"}, ctx : BOOLEAN]
      /\ app \in [pc : {"idle", "close", "touch", "stopping", "stopped"}, slot : 0..MaxSockets]
      /\ app.pc \in {"close", "touch"} => app.slot \in Slots
  BY DEF IInv, HttpdTypeOK, QueuesFit
\* What the four cases differ in.
<1>4. ASSUME sd' \in [Slots -> Sessions],
             ctrl' \in Seq(Messages), Len(ctrl') <= QueueSize, arrived' \in 0..Len(ctrl'),
             sock' \in [Fds -> Clients \cup {"none"}],
             conn' \in [Clients -> {"away", "waiting", "open", "left"}],
             inbox' \in [Clients -> Seq(Kinds)], backlog' \in Seq(Clients),
             Owned', OnePeer',
             \A i \in Slots : sd'[i].ctx = sd[i].ctx /\ (sd'[i].fd = NoFd => ~sd[i].ctx)
      PROVE  IInv'
  <2>1. HttpdTypeOK'
    BY <1>1, <1>2, <1>3, <1>4, Known DEF HttpdTypeOK, Sessions
  <2>2. QueuesFit'
    BY <1>1, <1>3, <1>4 DEF QueuesFit
  <2>3. ContextsCounted'
    BY <1>1, <1>2, <1>4, SameContexts DEF IInv
  <2> QED BY <1>2, <1>4, <2>1, <2>2, <2>3 DEF IInv
<1>5. \A i \in Slots : sd[i].fd = NoFd => ~sd[i].ctx
  BY DEF IInv, ContextsCounted
<1>6. CASE ~rset.listen /\ UNCHANGED <<sd, ctrlVars, tcpVars>>
  <2>1. UNCHANGED <<sd, ctrl, arrived, sock, conn, inbox, backlog>>
    BY <1>6 DEF ctrlVars, tcpVars
  <2>2. Owned' /\ OnePeer'
    BY <2>1, SameOwners DEF IInv
  <2> QED BY <1>4, <1>5, <2>1, <2>2, Known
<1>7. CASE /\ rset.listen /\ FreeSlots = {} /\ lru
           /\ IF SlotOf(Victim) = 0 THEN UNCHANGED ctrlVars
              ELSE Send(CloseMsg(SlotOf(Victim)))
           /\ UNCHANGED <<sd, tcpVars>>
  <2>1. UNCHANGED <<sd, sock, conn, inbox, backlog>>
    BY <1>7 DEF tcpVars
  <2>2. Owned' /\ OnePeer'
    BY <2>1, SameOwners DEF IInv
  <2>3. ctrl' \in Seq(Messages) /\ Len(ctrl') <= QueueSize /\ arrived' \in 0..Len(ctrl')
    <3>1. CASE SlotOf(Victim) = 0
      BY <1>7, <3>1, Known DEF ctrlVars
    <3>2. CASE SlotOf(Victim) # 0
      <4>1. CloseMsg(SlotOf(Victim)) \in Messages
        BY <3>2, SlotOfIs DEF CloseMsg, Messages
      <4> QED BY <1>7, <3>2, <4>1, SendFits
    <3> QED BY <3>1, <3>2
  <2> QED BY <1>4, <1>5, <2>1, <2>2, <2>3, Known
<1>8. CASE /\ rset.listen /\ FreeSlots = {} /\ ~lru
           /\ backlog' = Tail(backlog) /\ conn' = [conn EXCEPT ![Head(backlog)] = "away"]
           /\ inbox' = [inbox EXCEPT ![Head(backlog)] = <<>>]
           /\ UNCHANGED <<sd, ctrlVars, sock>>
  <2>1. backlog # <<>>
    BY <1>8 DEF IInv, AnswerHolds
  <2>2. UNCHANGED <<sd, ctrl, arrived, sock>>
    BY <1>8 DEF ctrlVars
  <2>3. Owned'
    BY <2>2 DEF IInv, Owned
  <2>4. conn' \in [Clients -> {"away", "waiting", "open", "left"}]
    BY <1>8, Known
  <2>5. inbox' \in [Clients -> Seq(Kinds)]
    BY <1>8, Known, InboxFits
  <2>6. OnePeer'
    <3>1. \A c \in Clients : c # Head(backlog) => conn'[c] = conn[c]
      BY <1>8, Known
    <3>2. \A fd \in Fds : sock[fd] # "none" => conn'[sock[fd]] \in {"open", "left"}
      BY <2>1, <3>1, BacklogHead, Known DEF IInv, OnePeer
    <3>3. \A k \in 1..Len(backlog') : conn'[backlog'[k]] = "waiting"
      BY <1>8, <2>1, <3>1, BacklogHead
    <3>4. \A k, l \in 1..Len(backlog') : backlog'[k] = backlog'[l] => k = l
      BY <1>8, <2>1, BacklogHead
    <3> QED BY <2>2, <3>2, <3>3, <3>4 DEF IInv, OnePeer
  <2>7. backlog' \in Seq(Clients)
    BY <1>8, <2>1, BacklogHead
  <2> QED BY <1>4, <1>5, <2>2, <2>3, <2>4, <2>5, <2>6, <2>7, Known
<1>9. CASE /\ rset.listen /\ FreeSlots # {}
           /\ LET fd == Min({f \in Fds : sock[f] = "none"})
              IN  /\ sock' = [sock EXCEPT ![fd] = Head(backlog)]
                  /\ sd' = [sd EXCEPT ![Min(FreeSlots)] = [NoSession EXCEPT !.fd = fd]]
           /\ backlog' = Tail(backlog) /\ conn' = [conn EXCEPT ![Head(backlog)] = "open"]
           /\ UNCHANGED <<inbox, ctrlVars>>
  <2>1. backlog # <<>>
    BY <1>9 DEF IInv, AnswerHolds
  <2>2. UNCHANGED <<inbox, ctrl, arrived>>
    BY <1>9 DEF ctrlVars
  <2>3. PICK c \in Clients : c = Head(backlog)
    BY <2>1, BacklogHead
  <2>4. PICK s \in Slots : s = Min(FreeSlots) /\ sd[s].fd = NoFd /\ ~sd[s].ctx
    BY <1>9, FreeSlot
  <2>5. PICK fd \in Fds : fd = Min({f \in Fds : sock[f] = "none"}) /\ sock[fd] = "none"
    BY FreeDescriptor DEF IInv
  <2>6. PICK new \in Sessions : /\ new = [NoSession EXCEPT !.fd = fd]
                                /\ new.fd = fd /\ ~new.ctx
    BY <2>5, NewSession
  <2>7. /\ sock' = [sock EXCEPT ![fd] = c] /\ conn' = [conn EXCEPT ![c] = "open"]
        /\ sd' = [sd EXCEPT ![s] = new] /\ backlog' = Tail(backlog)
    BY <1>9, <2>3, <2>4, <2>5, <2>6
  <2>8. /\ sd' \in [Slots -> Sessions] /\ sd'[s].fd = fd /\ ~sd'[s].ctx
        /\ \A i \in Slots : i # s => sd'[i] = sd[i]
    BY <2>6, <2>7, Known
  <2>9. /\ sock' \in [Fds -> Clients \cup {"none"}] /\ sock'[fd] = c /\ c # "none"
        /\ \A g \in Fds : g # fd => sock'[g] = sock[g]
    BY <2>7, Known, Distinct
  <2>10. /\ conn' \in [Clients -> {"away", "waiting", "open", "left"}] /\ conn'[c] = "open"
         /\ \A d \in Clients : d # c => conn'[d] = conn[d]
    BY <2>7, Known
  <2>11. Owned'
    <3>1. \A i \in Slots : sd[i].fd # fd
      BY <2>5 DEF IInv, Owned
    <3>2. \A g \in Fds : sock'[g] # "none" <=> \E i \in Slots : sd'[i].fd = g
      BY <2>4, <2>8, <2>9, <3>1, Distinct DEF IInv, Owned
    <3>3. \A i, j \in Slots : sd'[i].fd = sd'[j].fd /\ sd'[i].fd # NoFd => i = j
      BY <2>8, <3>1 DEF IInv, Owned
    <3> QED BY <3>2, <3>3 DEF Owned
  <2>12. OnePeer'
    <3>1. \A g \in Fds : sock[g] # c
      BY <2>1, <2>3, BacklogHead
    <3>2. \A g \in Fds : sock'[g] # "none" => conn'[sock'[g]] \in {"open", "left"}
      <4> SUFFICES ASSUME NEW g \in Fds, sock'[g] # "none"
                   PROVE  conn'[sock'[g]] \in {"open", "left"}
        OBVIOUS
      <4>1. CASE g = fd
        BY <2>9, <2>10, <4>1
      <4>2. CASE g # fd
        <5>1. sock'[g] = sock[g] /\ sock[g] # "none" /\ sock[g] # c /\ sock[g] \in Clients
          BY <2>9, <3>1, <4>2, Known
        <5>2. conn[sock[g]] \in {"open", "left"}
          BY <5>1 DEF IInv, OnePeer
        <5> QED BY <2>10, <5>1, <5>2
      <4> QED BY <4>1, <4>2
    <3>3. \A g, h \in Fds : sock'[g] = sock'[h] /\ sock'[g] # "none" => g = h
      BY <2>9, <3>1 DEF IInv, OnePeer
    <3>4. \A k \in 1..Len(backlog') : conn'[backlog'[k]] = "waiting"
      BY <2>1, <2>3, <2>7, <2>10, BacklogHead
    <3>5. \A k, l \in 1..Len(backlog') : backlog'[k] = backlog'[l] => k = l
      BY <2>1, <2>7, BacklogHead
    <3> QED BY <3>2, <3>3, <3>4, <3>5 DEF OnePeer
  <2>13. \A i \in Slots : sd'[i].ctx = sd[i].ctx /\ (sd'[i].fd = NoFd => ~sd[i].ctx)
    <3>1. sd'[s].ctx = sd[s].ctx
      BY <2>4, <2>8, Known DEF Sessions
    <3> QED BY <1>5, <2>4, <2>8, <3>1
  <2>14. backlog' \in Seq(Clients)
    BY <2>1, <2>7, BacklogHead
  <2> QED BY <1>4, <2>2, <2>8, <2>9, <2>10, <2>11, <2>12, <2>13, <2>14, Known
<1> QED BY <1>6, <1>7, <1>8, <1>9 DEF Accept

LEMMA ExitInv == ASSUME IInv, Exit PROVE IInv'
<1>1. /\ pc = "exit" /\ pc' = "stopped" /\ rset' = Nothing
      /\ ctrl' = <<>> /\ arrived' = 0 /\ backlog' = <<>>
      /\ heap' = heap - Cardinality(WithContext)
      /\ sd' = [i \in Slots |-> NoSession]
      /\ sock' = [fd \in Fds |-> IF fd \in Table THEN "none" ELSE sock[fd]]
      /\ UNCHANGED <<cur, req, visited, app, lost>>
  BY DEF Exit, Goto, WithContext
<1>2. /\ rset' \in [ctrl : BOOLEAN, listen : BOOLEAN, fds : SUBSET Fds]
      /\ req = NoRequest
      /\ AnswerHolds' /\ AtSession' /\ StillReady' /\ TurnReady' /\ Visits'
  BY <1>1, NewRound
<1>3. /\ sd' \in [Slots -> Sessions]
      /\ \A i \in Slots : sd'[i].fd = NoFd /\ ~sd'[i].ctx
  BY <1>1, NoSessionIs
<1>4. \A fd \in Fds : sock'[fd] = "none"
  BY <1>1, Distinct DEF IInv, Owned, Table
<1>5. conn' \in [Clients -> {"away", "waiting", "open", "left"}]
  <2>1. conn \in [Clients -> {"away", "waiting", "open", "left"}]
    BY Known
  <2>2. \E Gone : conn' = [c \in Clients |-> IF c \in Gone THEN "away" ELSE conn[c]]
    BY DEF Exit
  <2> QED BY <2>1, <2>2
<1>6. inbox' \in [Clients -> Seq(Kinds)]
  <2> DEFINE K == Seq(Kinds)
  <2>1. <<>> \in K /\ inbox \in [Clients -> K]
    BY Known
  <2>2. inbox' = [c \in Clients |-> IF conn'[c] = "away" THEN <<>> ELSE inbox[c]]
    BY DEF Exit
  <2> HIDE DEF K
  <2>3. inbox' \in [Clients -> K]
    BY <2>1, <2>2
  <2> QED BY <2>3 DEF K
<1>7. Owned' /\ OnePeer'
  <2>1. Owned'
    BY <1>3, <1>4, Distinct DEF Owned
  <2>2. Len(backlog') = 0
    BY <1>1, EmptySeq
  <2> QED BY <1>4, <2>1, <2>2 DEF OnePeer
<1>8. Unsettled = 0 /\ Unsettled' = 0
  BY <1>1, <1>2 DEF Unsettled, NoRequest
<1>9. heap' = lost /\ heap' \in Nat
  BY <1>1, <1>8, Known, ContextsFinite DEF IInv, ContextsCounted
<1>10. HttpdTypeOK'
  <2>1. Len(ctrl') <= QueueSize /\ arrived' \in 0..Len(ctrl')
    BY <1>1, EmptySeq, Known
  <2>2. sock' \in [Fds -> Clients \cup {"none"}]
    BY <1>1, Known
  <2> QED BY <1>1, <1>2, <1>3, <1>5, <1>9, <2>1, <2>2 DEF IInv, HttpdTypeOK, Sessions
<1>11. QueuesFit'
  <2>1. ctrl' \in Seq(Messages) /\ backlog' \in Seq(Clients)
    BY <1>1, EmptySeq
  <2> QED BY <1>1, <1>6, <2>1 DEF IInv, QueuesFit
<1>12. ContextsCounted'
  <2>1. WithContext' = {}
    BY <1>3 DEF WithContext
  <2>2. Cardinality(WithContext') = 0
    BY <2>1, FS_EmptySet
  <2>3. heap' = Cardinality(WithContext') + lost' + Unsettled'
    BY <1>1, <1>8, <1>9, <2>2, Known
  <2> QED BY <1>1, <1>2, <1>3, <2>3 DEF ContextsCounted
<1> QED BY <1>2, <1>7, <1>10, <1>11, <1>12 DEF IInv

---------------------------------------------------------------------------
(* The steps of the application task, the TCP stack and the clients.        *)

\* Those that touch no session, no socket and no request.
LEMMA QuietInv ==
  ASSUME IInv, UNCHANGED <<sd, threadVars, tcpVars, ctxVars>>,
         ctrl' \in Seq(Messages), Len(ctrl') <= QueueSize, arrived' \in 0..Len(ctrl'),
         arrived' >= arrived,
         app' \in [pc : {"idle", "close", "touch", "stopping", "stopped"}, slot : 0..MaxSockets],
         app'.pc \in {"close", "touch"} => app'.slot \in Slots
  PROVE  IInv'
<1>1. UNCHANGED <<pc, rset, cur, req, visited, sock, conn, inbox, backlog, heap, lost>>
  BY DEF threadVars, tcpVars, ctxVars
<1>2. HttpdTypeOK'
  BY <1>1 DEF IInv, HttpdTypeOK
<1>3. QueuesFit'
  BY <1>1 DEF IInv, QueuesFit
<1>4. OnePeer'
  BY <1>1 DEF IInv, OnePeer
<1>5. arrived > 0 => arrived' > 0
  <2>1. Len(ctrl') \in Nat /\ Len(ctrl) \in Nat
    BY Known
  <2> QED BY <2>1, Known
<1>6. Owned' /\ AnswerHolds' /\ AtSession' /\ Visits' /\ StillReady' /\ TurnReady'
        /\ ContextsCounted'
  BY <1>1, <1>5, OthersKeep
<1> QED BY <1>2, <1>3, <1>4, <1>6 DEF IInv

\* What the application task does between two calls.
LEMMA AppIdle ==
  ASSUME NEW place \in {"idle", "stopping", "stopped"}, app' = [pc |-> place, slot |-> 0]
  PROVE  /\ app' \in [pc : {"idle", "close", "touch", "stopping", "stopped"}, slot : 0..MaxSockets]
         /\ app'.pc \notin {"close", "touch"}
<1>1. 0 \in 0..MaxSockets
  BY Distinct
<1> QED BY <1>1

LEMMA LookUpInv == ASSUME IInv, NEW what \in {"close", "touch"}, LookUp(what) PROVE IInv'
<1>1. PICK fd \in Table : app' = [pc |-> what, slot |-> SlotOf(fd)]
  BY DEF LookUp
<1>2. SlotOf(fd) \in Slots /\ SlotOf(fd) \in 0..MaxSockets
  BY SlotOfIs DEF Table
<1>3. /\ app' \in [pc : {"idle", "close", "touch", "stopping", "stopped"}, slot : 0..MaxSockets]
      /\ app'.slot \in Slots
  BY <1>1, <1>2
<1>4. UNCHANGED <<sd, threadVars, tcpVars, ctxVars>> /\ UNCHANGED <<ctrl, arrived>>
  BY DEF LookUp, ctrlVars
<1>5. /\ ctrl' \in Seq(Messages) /\ Len(ctrl') <= QueueSize /\ arrived' \in 0..Len(ctrl')
      /\ arrived' >= arrived
  BY <1>4, Known
<1> QED BY <1>3, <1>4, <1>5, QuietInv

LEMMA TriggerCloseInv == ASSUME IInv, TriggerClose PROVE IInv'
<1>1. app.pc = "close" /\ app' = [pc |-> "idle", slot |-> 0]
  BY DEF TriggerClose
<1>2. CloseMsg(app.slot) \in Messages
  BY <1>1 DEF IInv, QueuesFit, CloseMsg, Messages
<1>3. /\ ctrl' \in Seq(Messages) /\ Len(ctrl') <= QueueSize /\ arrived' \in 0..Len(ctrl')
      /\ arrived' >= arrived
  <2>1. Send(CloseMsg(app.slot))
    BY DEF TriggerClose
  <2>2. ctrl' \in Seq(Messages) /\ Len(ctrl') <= QueueSize /\ arrived' = arrived
         /\ arrived' \in 0..Len(ctrl')
    BY <1>2, <2>1, SendFits
  <2> QED BY <2>2, Known
<1>4. UNCHANGED <<sd, threadVars, tcpVars, ctxVars>>
  BY DEF TriggerClose
<1> QED BY <1>1, <1>3, <1>4, AppIdle, QuietInv

LEMMA StopInv == ASSUME IInv, Stop PROVE IInv'
<1>1. app' = [pc |-> "stopping", slot |-> 0]
  BY DEF Stop
<1>2. Shutdown \in Messages
  BY DEF Shutdown, Messages
<1>3. /\ ctrl' \in Seq(Messages) /\ Len(ctrl') <= QueueSize /\ arrived' \in 0..Len(ctrl')
      /\ arrived' >= arrived
  <2>1. Send(Shutdown)
    BY DEF Stop
  <2>2. ctrl' \in Seq(Messages) /\ Len(ctrl') <= QueueSize /\ arrived' = arrived
         /\ arrived' \in 0..Len(ctrl')
    BY <1>2, <2>1, SendFits
  <2> QED BY <2>2, Known
<1>4. UNCHANGED <<sd, threadVars, tcpVars, ctxVars>>
  BY DEF Stop
<1> QED BY <1>1, <1>3, <1>4, AppIdle, QuietInv

LEMMA StopReturnInv == ASSUME IInv, StopReturn PROVE IInv'
<1>1. app' = [pc |-> "stopped", slot |-> 0]
  BY DEF StopReturn
<1>2. UNCHANGED <<sd, threadVars, tcpVars, ctxVars>> /\ UNCHANGED <<ctrl, arrived>>
  BY DEF StopReturn, ctrlVars
<1>3. /\ ctrl' \in Seq(Messages) /\ Len(ctrl') <= QueueSize /\ arrived' \in 0..Len(ctrl')
      /\ arrived' >= arrived
  BY <1>2, Known
<1> QED BY <1>1, <1>2, <1>3, AppIdle, QuietInv

LEMMA DeliverInv == ASSUME IInv, Deliver PROVE IInv'
<1>1. arrived < Len(ctrl) /\ arrived' = arrived + 1
  BY DEF Deliver
<1>2. UNCHANGED <<sd, threadVars, tcpVars, ctxVars>> /\ UNCHANGED <<ctrl, app>>
  BY DEF Deliver
<1>3. /\ ctrl' \in Seq(Messages) /\ Len(ctrl') <= QueueSize /\ arrived' \in 0..Len(ctrl')
      /\ arrived' >= arrived
  BY <1>1, <1>2, Known
<1>4. /\ app' \in [pc : {"idle", "close", "touch", "stopping", "stopped"}, slot : 0..MaxSockets]
      /\ app'.pc \in {"close", "touch"} => app'.slot \in Slots
  BY <1>2 DEF IInv, HttpdTypeOK, QueuesFit
<1> QED BY <1>2, <1>3, <1>4, QuietInv

LEMMA TouchInv == ASSUME IInv, Touch PROVE IInv'
<1>1. /\ app.pc = "touch" /\ app' = [pc |-> "idle", slot |-> 0]
      /\ sd' = [sd EXCEPT ![app.slot].timestamp = Now]
      /\ UNCHANGED <<threadVars, ctrlVars, tcpVars, ctxVars>>
  BY DEF Touch
<1>2. UNCHANGED <<pc, rset, cur, req, visited, ctrl, arrived, sock, conn, inbox, backlog, heap, lost>>
  BY <1>1 DEF threadVars, ctrlVars, tcpVars, ctxVars
<1>3. /\ sd' \in [Slots -> Sessions]
      /\ \A i \in Slots : /\ sd'[i].fd = sd[i].fd /\ sd'[i].ctx = sd[i].ctx
                          /\ sd'[i].pending = sd[i].pending
  <2>1. app.slot \in Slots
    BY <1>1 DEF IInv, QueuesFit
  <2>2. Now \in Nat /\ sd \in [Slots -> Sessions]
    BY NowType, Known DEF IInv
  <2> QED BY <1>1, <2>1, <2>2 DEF Sessions
<1>4. /\ app' \in [pc : {"idle", "close", "touch", "stopping", "stopped"}, slot : 0..MaxSockets]
      /\ app'.pc \notin {"close", "touch"}
  BY <1>1, AppIdle
<1>5. HttpdTypeOK'
  BY <1>2, <1>3, <1>4 DEF IInv, HttpdTypeOK, Sessions
<1>6. QueuesFit'
  BY <1>2, <1>4 DEF IInv, QueuesFit
<1>7. OnePeer'
  BY <1>2 DEF IInv, OnePeer
<1>8. Owned' /\ AnswerHolds' /\ AtSession' /\ Visits' /\ StillReady' /\ TurnReady'
        /\ ContextsCounted'
  BY <1>1, <1>2, <1>3, OthersKeep
<1> QED BY <1>5, <1>6, <1>7, <1>8 DEF IInv

LEMMA ConnectInv == ASSUME IInv, NEW c \in Clients, Connect(c) PROVE IInv'
<1>1. /\ conn[c] = "away" /\ conn' = [conn EXCEPT ![c] = "waiting"]
      /\ backlog' = Append(backlog, c)
      /\ UNCHANGED <<sd, threadVars, ctxVars>> /\ UNCHANGED <<ctrl, arrived, app, sock, inbox>>
  BY DEF Connect, ctrlVars
<1>2. UNCHANGED <<pc, rset, cur, req, visited, heap, lost>>
  BY <1>1 DEF threadVars, ctxVars
<1>3. /\ conn' \in [Clients -> {"away", "waiting", "open", "left"}] /\ conn'[c] = "waiting"
      /\ \A d \in Clients : d # c => conn'[d] = conn[d]
  BY <1>1, Known
<1>4. PICK n \in Nat : n = Len(backlog)
  BY Known
<1>5. /\ backlog' \in Seq(Clients) /\ Len(backlog') = n + 1 /\ backlog' # <<>>
      /\ \A k \in 1..n : backlog'[k] = backlog[k] /\ backlog[k] \in Clients
      /\ backlog'[n + 1] = c
  <2>1. backlog \in Seq(Clients)
    BY Known
  <2> QED BY <1>1, <1>4, <2>1, AppendProperties
<1>6. HttpdTypeOK'
  BY <1>1, <1>2, <1>3 DEF IInv, HttpdTypeOK
<1>7. QueuesFit'
  BY <1>1, <1>5 DEF IInv, QueuesFit
<1>8. OnePeer'
  <2>1. \A k \in 1..n : conn[backlog[k]] = "waiting" /\ backlog[k] # c
    BY <1>1, <1>4 DEF IInv, OnePeer
  <2>2. \A fd \in Fds : sock'[fd] # "none" => conn'[sock'[fd]] \in {"open", "left"}
    <3> SUFFICES ASSUME NEW fd \in Fds, sock[fd] # "none"
                 PROVE  conn'[sock[fd]] \in {"open", "left"}
      BY <1>1
    <3>1. conn[sock[fd]] \in {"open", "left"} /\ sock[fd] \in Clients
      BY Known DEF IInv, OnePeer
    <3> QED BY <1>1, <1>3, <3>1
  <2>3. \A k \in 1..Len(backlog') : conn'[backlog'[k]] = "waiting"
    <3> SUFFICES ASSUME NEW k \in 1..(n + 1) PROVE conn'[backlog'[k]] = "waiting"
      BY <1>5
    <3>1. k = n + 1 \/ k \in 1..n
      OBVIOUS
    <3> QED BY <1>3, <1>5, <2>1, <3>1
  <2>4. \A k, l \in 1..Len(backlog') : backlog'[k] = backlog'[l] => k = l
    <3> SUFFICES ASSUME NEW k \in 1..(n + 1), NEW l \in 1..(n + 1), backlog'[k] = backlog'[l]
                 PROVE  k = l
      BY <1>5
    <3>1. (k = n + 1 \/ k \in 1..n) /\ (l = n + 1 \/ l \in 1..n)
      OBVIOUS
    <3>2. k \in 1..n /\ l \in 1..n => k = l
      BY <1>4, <1>5 DEF IInv, OnePeer
    <3> QED BY <1>5, <2>1, <3>1, <3>2
  <2> QED BY <1>1, <2>2, <2>3, <2>4 DEF IInv, OnePeer
<1>9. Owned' /\ AnswerHolds' /\ AtSession' /\ Visits' /\ StillReady' /\ TurnReady'
        /\ ContextsCounted'
  <2>1. \A d \in Clients : conn[d] = "left" => conn'[d] = "left"
    BY <1>1, <1>3
  <2> QED BY <1>1, <1>5, <2>1, OthersKeep
<1> QED BY <1>6, <1>7, <1>8, <1>9 DEF IInv

LEMMA SendRequestInv == ASSUME IInv, NEW c \in Clients, SendRequest(c) PROVE IInv'
<1>1. PICK kind \in Kinds : inbox' = [inbox EXCEPT ![c] = Append(inbox[c], kind)]
  BY DEF SendRequest
<1>2. /\ UNCHANGED <<sd, threadVars, ctxVars>>
      /\ UNCHANGED <<ctrl, arrived, app, sock, conn, backlog>>
  BY DEF SendRequest, ctrlVars, tcpVars
<1>3. UNCHANGED <<pc, rset, cur, req, visited, heap, lost>>
  BY <1>2 DEF threadVars, ctxVars
<1>4. /\ inbox' \in [Clients -> Seq(Kinds)]
      /\ \A d \in Clients : inbox[d] # <<>> => inbox'[d] # <<>>
  <2>1. inbox \in [Clients -> Seq(Kinds)] /\ inbox[c] \in Seq(Kinds)
    BY Known
  <2>2. PICK q \in Seq(Kinds) : q = Append(inbox[c], kind) /\ q # <<>>
    BY <2>1, AppendProperties
  <2>3. inbox' = [inbox EXCEPT ![c] = q]
    BY <1>1, <2>2
  <2>4. inbox' \in [Clients -> Seq(Kinds)]
    BY <2>1, <2>3, InboxFits
  <2>5. \A d \in Clients : inbox'[d] = IF d = c THEN q ELSE inbox[d]
    BY <2>1, <2>3
  <2> QED BY <2>2, <2>4, <2>5
<1>5. HttpdTypeOK'
  BY <1>2, <1>3 DEF IInv, HttpdTypeOK
<1>6. QueuesFit'
  BY <1>2, <1>4 DEF IInv, QueuesFit
<1>7. OnePeer'
  BY <1>2 DEF IInv, OnePeer
<1>8. Owned' /\ AnswerHolds' /\ AtSession' /\ Visits' /\ StillReady' /\ TurnReady'
        /\ ContextsCounted'
  BY <1>2, <1>4, OthersKeep
<1> QED BY <1>5, <1>6, <1>7, <1>8 DEF IInv

LEMMA LeaveInv == ASSUME IInv, NEW c \in Clients, Leave(c) PROVE IInv'
<1>1. /\ conn[c] = "open" /\ conn' = [conn EXCEPT ![c] = "left"]
      /\ UNCHANGED <<sd, threadVars, ctxVars>>
      /\ UNCHANGED <<ctrl, arrived, app, sock, inbox, backlog>>
  BY DEF Leave, ctrlVars
<1>2. UNCHANGED <<pc, rset, cur, req, visited, heap, lost>>
  BY <1>1 DEF threadVars, ctxVars
<1>3. /\ conn' \in [Clients -> {"away", "waiting", "open", "left"}] /\ conn'[c] = "left"
      /\ \A d \in Clients : d # c => conn'[d] = conn[d]
  BY <1>1, Known
<1>4. HttpdTypeOK'
  BY <1>1, <1>2, <1>3 DEF IInv, HttpdTypeOK
<1>5. QueuesFit'
  BY <1>1 DEF IInv, QueuesFit
<1>6. OnePeer'
  <2>1. \A fd \in Fds : sock[fd] # "none" => conn'[sock[fd]] \in {"open", "left"}
    <3> SUFFICES ASSUME NEW fd \in Fds, sock[fd] # "none"
                 PROVE  conn'[sock[fd]] \in {"open", "left"}
      OBVIOUS
    <3>1. conn[sock[fd]] \in {"open", "left"} /\ sock[fd] \in Clients
      BY Known DEF IInv, OnePeer
    <3> QED BY <1>3, <3>1
  <2>2. \A k \in 1..Len(backlog) : conn'[backlog[k]] = "waiting"
    <3> SUFFICES ASSUME NEW k \in 1..Len(backlog) PROVE conn'[backlog[k]] = "waiting"
      OBVIOUS
    <3>1. conn[backlog[k]] = "waiting" /\ backlog[k] \in Clients
      BY Known DEF IInv, OnePeer
    <3> QED BY <1>1, <1>3, <3>1
  <2> QED BY <1>1, <2>1, <2>2 DEF IInv, OnePeer
<1>7. Owned' /\ AnswerHolds' /\ AtSession' /\ Visits' /\ StillReady' /\ TurnReady'
        /\ ContextsCounted'
  <2>1. \A d \in Clients : conn[d] = "left" => conn'[d] = "left"
    BY <1>1, <1>3
  <2> QED BY <1>1, <2>1, OthersKeep
<1> QED BY <1>4, <1>5, <1>6, <1>7 DEF IInv

LEMMA StutterInv == ASSUME IInv, UNCHANGED vars PROVE IInv'
<1>1. UNCHANGED <<sd, threadVars, tcpVars, ctxVars>> /\ UNCHANGED <<ctrl, arrived, app>>
  BY DEF vars, ctrlVars
<1>2. /\ ctrl' \in Seq(Messages) /\ Len(ctrl') <= QueueSize /\ arrived' \in 0..Len(ctrl')
      /\ arrived' >= arrived
  BY <1>1, Known
<1>3. /\ app' \in [pc : {"idle", "close", "touch", "stopping", "stopped"}, slot : 0..MaxSockets]
      /\ app'.pc \in {"close", "touch"} => app'.slot \in Slots
  BY <1>1 DEF IInv, HttpdTypeOK, QueuesFit
<1> QED BY <1>1, <1>2, <1>3, QuietInv

---------------------------------------------------------------------------
(* The theorems.                                                            *)

LEMMA InitInv == ASSUME Init PROVE IInv
<1>1. /\ sd = [i \in Slots |-> NoSession] /\ pc = "select" /\ rset = Nothing /\ cur = NoFd
      /\ req = NoRequest /\ visited = {} /\ ctrl = <<>> /\ arrived = 0
      /\ app = [pc |-> "idle", slot |-> 0] /\ sock = [fd \in Fds |-> "none"]
      /\ conn = [c \in Clients |-> "away"] /\ inbox = [c \in Clients |-> <<>>] /\ backlog = <<>>
      /\ heap = 0 /\ lost = 0
  BY DEF Init
<1>2. sd \in [Slots -> Sessions] /\ \A i \in Slots : sd[i].fd = NoFd /\ ~sd[i].ctx
  BY <1>1, NoSessionIs
<1>3. rset \in [ctrl : BOOLEAN, listen : BOOLEAN, fds : SUBSET Fds] /\ ~rset.listen
  BY <1>1 DEF Nothing
<1>4. Len(ctrl) = 0 /\ Len(backlog) = 0 /\ ctrl \in Seq(Messages) /\ backlog \in Seq(Clients)
  BY <1>1, EmptySeq
<1>5. /\ app \in [pc : {"idle", "close", "touch", "stopping", "stopped"}, slot : 0..MaxSockets]
      /\ app.pc = "idle"
  BY <1>1, Distinct
<1>6. req \in [kind : Kinds \cup {"none"}, ctx : BOOLEAN] /\ ~req.ctx
  BY <1>1 DEF NoRequest
<1>7. HttpdTypeOK
  <2>1. Len(ctrl) <= QueueSize /\ arrived \in 0..Len(ctrl)
    BY <1>1, <1>4, HttpdAssumption
  <2> QED BY <1>1, <1>2, <1>3, <1>5, <1>6, <2>1 DEF HttpdTypeOK, Sessions
<1>8. QueuesFit
  <2>1. inbox \in [Clients -> Seq(Kinds)]
    <3> DEFINE K == Seq(Kinds)
    <3>1. <<>> \in K
      OBVIOUS
    <3> HIDE DEF K
    <3>2. inbox \in [Clients -> K]
      BY <1>1, <3>1
    <3> QED BY <3>2 DEF K
  <2> QED BY <1>4, <1>5, <2>1 DEF QueuesFit
<1>9. Owned /\ OnePeer
  <2>1. \A fd \in Fds : sock[fd] = "none"
    BY <1>1
  <2>2. Owned
    BY <1>2, <2>1, Distinct DEF Owned
  <2> QED BY <1>4, <2>1, <2>2 DEF OnePeer
<1>10. AnswerHolds /\ AtSession /\ StillReady /\ TurnReady /\ Visits
  BY <1>1, <1>3 DEF AnswerHolds, AtSession, StillReady, TurnReady, Visits, Walk, Turn
<1>11. ContextsCounted
  <2>1. WithContext = {} /\ Unsettled = 0
    BY <1>2, <1>6 DEF WithContext, Unsettled
  <2>2. Cardinality(WithContext) = 0
    BY <2>1, FS_EmptySet
  <2> QED BY <1>1, <1>2, <2>1, <2>2 DEF ContextsCounted
<1> QED BY <1>7, <1>8, <1>9, <1>10, <1>11 DEF IInv

\* The inductive invariant holds in every state.
THEOREM Invariance == Spec => []IInv
<1>1. Init => IInv
  BY InitInv
<1>2. IInv /\ [Next]_vars => IInv'
  <2> SUFFICES ASSUME IInv, [Next]_vars PROVE IInv'
    OBVIOUS
  <2>1. CASE Select
    BY <2>1, SelectInv
  <2>2. CASE ProcessCtrl
    BY <2>2, ProcessCtrlInv
  <2>3. CASE NextSession
    BY <2>3, NextSessionInv
  <2>4. CASE Request
    BY <2>4, RequestInv
  <2>5. CASE Handler
    BY <2>5, HandlerInv
  <2>6. CASE Purge
    BY <2>6, PurgeInv
  <2>7. CASE Done
    BY <2>7, DoneInv
  <2>8. CASE Fail
    BY <2>8, FailInv
  <2>9. CASE Accept
    BY <2>9, AcceptInv
  <2>10. CASE Exit
    BY <2>10, ExitInv
  <2>11. CASE LookUp("close") \/ LookUp("touch")
    BY <2>11, LookUpInv
  <2>12. CASE TriggerClose
    BY <2>12, TriggerCloseInv
  <2>13. CASE Touch
    BY <2>13, TouchInv
  <2>14. CASE Stop
    BY <2>14, StopInv
  <2>15. CASE StopReturn
    BY <2>15, StopReturnInv
  <2>16. CASE Deliver
    BY <2>16, DeliverInv
  <2>17. CASE \E c \in Clients : Connect(c) \/ SendRequest(c) \/ Leave(c)
    BY <2>17, ConnectInv, SendRequestInv, LeaveInv
  <2>18. CASE UNCHANGED vars
    BY <2>18, StutterInv
  <2> QED BY <2>1, <2>2, <2>3, <2>4, <2>5, <2>6, <2>7, <2>8, <2>9, <2>10, <2>11, <2>12, <2>13,
             <2>14, <2>15, <2>16, <2>17, <2>18 DEF Next, Server
<1> QED BY <1>1, <1>2, PTL DEF Spec

\* Sockets and contexts have one owner each, whatever is closed while what refers to it
\* is on its way (httpd_main.c:184-191, httpd_sess.c:95-121, 235-244).
THEOREM OwnerTheorem == Spec => []OneOwner
<1>1. IInv => OneOwner
  <2> SUFFICES ASSUME IInv PROVE OneOwner
    OBVIOUS
  <2>1. SocketsOwned
    <3>1. {fd \in Fds : sock[fd] # "none"} = Table
      <4>1. \A fd \in Fds : sock[fd] # "none" <=> fd \in Table
        BY Distinct DEF IInv, Owned, Table
      <4>2. Table \subseteq Fds
        BY SessionType DEF IInv, Table
      <4> QED BY <4>1, <4>2
    <3>2. \A i, j \in Slots : sd[i].fd = sd[j].fd /\ sd[i].fd # NoFd => i = j
      BY DEF IInv, Owned
    <3> QED BY <3>1, <3>2 DEF SocketsOwned
  <2>2. ContextsOwned
    <3> SUFFICES ASSUME pc \in {"select", "stopped"}
                 PROVE  heap = Cardinality({i \in Slots : sd[i].ctx}) + lost
      BY DEF ContextsOwned
    <3>1. Unsettled = 0
      BY DEF IInv, ContextsCounted, Unsettled, NoRequest
    <3>2. heap = Cardinality(WithContext) + lost
      BY <3>1, Known, ContextsFinite DEF IInv, ContextsCounted
    <3> QED BY <3>2 DEF WithContext
  <2> QED BY <2>1, <2>2 DEF IInv, OneOwner
<1> QED BY <1>1, Invariance, PTL

\* The walk over a table that changes under it gives each ready session its turn, and
\* no other (httpd_main.c:181-193).
THEOREM TurnTheorem == Spec => []TurnsAreRight
<1>1. IInv => TurnsAreRight
  <2> SUFFICES ASSUME IInv PROVE TurnsAreRight
    OBVIOUS
  <2>1. NobodySkipped
    BY DEF IInv, Visits, NobodySkipped, Table
  <2>2. TurnHasData
    <3> SUFFICES ASSUME pc = "request", ~Readable(cur)
                 PROVE  sd[CurSlot].pending # "none"
      BY DEF TurnHasData
    <3>1. PICK i \in Slots : sd[i].fd = cur /\ sd[i].pending # "none"
      BY DEF IInv, TurnReady
    <3>2. CurSlot = i
      BY <3>1, TheTurn DEF Turn
    <3> QED BY <3>1, <3>2
  <2> QED BY <2>1, <2>2 DEF TurnsAreRight
<1> QED BY <1>1, Invariance, PTL

---------------------------------------------------------------------------
(* FlattenSeq: what its recursive function is, from a least counterexample.  *)

\* The recursive function in FlattenSeq: what the first i sequences give, joined.
Partial(f, ss, n) == f = [i \in 1..n |-> IF i = 1 THEN ss[i] ELSE f[i - 1] \o ss[i]]

\* Such a function exists for every length.
LEMMA PartialExists ==
  ASSUME NEW ss, NEW n \in Nat
  PROVE  \E f : Partial(f, ss, n)
<1> DEFINE Bad == {m \in Nat : ~ \E f : Partial(f, ss, m)}
<1> SUFFICES ASSUME Bad # {} PROVE FALSE
  OBVIOUS
<1>1. PICK m \in Bad : \A k \in Bad : m <= k
  BY LeastExists
<1>2. m # 0
  <2>1. Partial([i \in 1..0 |-> ss[i]], ss, 0)
    BY DEF Partial
  <2> QED BY <2>1
<1>3. PICK f : Partial(f, ss, m - 1)
  <2>1. m - 1 \in Nat /\ ~ (m <= m - 1)
    BY <1>2
  <2> QED BY <1>1, <2>1
<1> DEFINE g == [i \in 1..m |-> IF i < m THEN f[i]
                                ELSE IF i = 1 THEN ss[i] ELSE f[i - 1] \o ss[i]]
<1>4. \A i \in 1..(m - 1) : f[i] = IF i = 1 THEN ss[i] ELSE f[i - 1] \o ss[i]
  BY <1>3, <1>2 DEF Partial
<1>5. \A i \in 1..m : g[i] = IF i = 1 THEN ss[i] ELSE g[i - 1] \o ss[i]
  <2> SUFFICES ASSUME NEW i \in 1..m PROVE g[i] = IF i = 1 THEN ss[i] ELSE g[i - 1] \o ss[i]
    OBVIOUS
  <2>1. i # 1 => g[i - 1] = f[i - 1]
    OBVIOUS
  <2>2. i < m => g[i] = f[i]
    OBVIOUS
  <2> QED BY <2>1, <2>2, <1>4
<1>6. Partial(g, ss, m)
  <2> HIDE DEF g
  <2>1. DOMAIN g = 1..m /\ g = [i \in 1..m |-> g[i]]
    BY DEF g
  <2> QED BY <1>5, <2>1 DEF Partial
<1> QED BY <1>6

\* On what two families share, the two functions are the same.
LEMMA PartialAgree ==
  ASSUME NEW f, NEW g, NEW ss, NEW tt, NEW m \in Nat, NEW n \in Nat, m <= n,
         Partial(f, ss, m), Partial(g, tt, n), \A i \in 1..m : ss[i] = tt[i]
  PROVE  \A i \in 1..m : f[i] = g[i]
<1> DEFINE Bad == {i \in 1..m : f[i] # g[i]}
<1> SUFFICES ASSUME Bad # {} PROVE FALSE
  OBVIOUS
<1>1. PICK i \in Bad : \A k \in Bad : i <= k
  <2>1. Bad \in SUBSET Nat
    OBVIOUS
  <2> HIDE DEF Bad
  <2> QED BY <2>1, LeastExists
<1>2. \A k \in 1..m : f[k] = IF k = 1 THEN ss[k] ELSE f[k - 1] \o ss[k]
  BY DEF Partial
<1>3. \A k \in 1..n : g[k] = IF k = 1 THEN tt[k] ELSE g[k - 1] \o tt[k]
  BY DEF Partial
<1>4. i # 1 => f[i - 1] = g[i - 1]
  <2>1. i # 1 => i - 1 \in 1..m /\ ~ (i <= i - 1)
    OBVIOUS
  <2> QED BY <1>1, <2>1
<1> QED BY <1>2, <1>3, <1>4

\* The first n sequences of a family.
Prefix(ss, n) == [i \in 1..n |-> ss[i]]

\* FlattenSeq is that function at the last index.
LEMMA FlattenIs ==
  ASSUME NEW ss, NEW n \in Nat \ {0}, NEW f, Partial(f, ss, n)
  PROVE  FlattenSeq(Prefix(ss, n)) = f[n]
<1> DEFINE p == Prefix(ss, n)
           Is(h) == h = [i \in 1..Len(p) |-> IF i = 1 THEN p[i] ELSE h[i - 1] \o p[i]]
           c == CHOOSE h : Is(h)
<1>1. Len(p) = n /\ \A i \in 1..n : p[i] = ss[i]
  BY DEF Prefix
<1>2. \A h : Is(h) <=> Partial(h, p, n)
  BY <1>1 DEF Partial
<1>3. \E h : Is(h)
  BY <1>2, PartialExists
<1>4. Partial(c, p, n)
  BY <1>2, <1>3
<1>5. FlattenSeq(p) = c[n]
  BY <1>1 DEF FlattenSeq
<1> HIDE DEF c, p
<1>6. c[n] = f[n]
  BY <1>1, <1>4, PartialAgree
<1> QED BY <1>5, <1>6 DEF p

\* One sequence more is joined at the end.
LEMMA FlattenPrefix ==
  ASSUME NEW S, NEW n \in Nat, NEW ss \in [1..n -> Seq(S)]
  PROVE  /\ FlattenSeq(Prefix(ss, 0)) = <<>>
         /\ \A k \in 1..n : FlattenSeq(Prefix(ss, k)) = FlattenSeq(Prefix(ss, k - 1)) \o ss[k]
<1>1. FlattenSeq(Prefix(ss, 0)) = <<>>
  BY DEF FlattenSeq, Prefix
<1>2. ASSUME NEW k \in 1..n PROVE FlattenSeq(Prefix(ss, k)) = FlattenSeq(Prefix(ss, k - 1)) \o ss[k]
  <2> k \in Nat \ {0} /\ k - 1 \in Nat
    OBVIOUS
  <2>1. PICK f : Partial(f, ss, k)
    BY PartialExists
  <2>2. PICK g : Partial(g, ss, k - 1)
    BY PartialExists
  <2>3. FlattenSeq(Prefix(ss, k)) = f[k]
    BY <2>1, FlattenIs
  <2>4. f[k] = IF k = 1 THEN ss[k] ELSE f[k - 1] \o ss[k]
    <3>1. \A i \in 1..k : f[i] = IF i = 1 THEN ss[i] ELSE f[i - 1] \o ss[i]
      BY <2>1 DEF Partial
    <3> QED BY <3>1
  <2>5. CASE k = 1
    <3>1. ss[k] \in Seq(S)
      OBVIOUS
    <3>2. <<>> \o ss[k] = ss[k]
      BY <3>1
    <3> QED BY <2>3, <2>4, <2>5, <1>1, <3>2
  <2>6. CASE k # 1
    <3>1. FlattenSeq(Prefix(ss, k - 1)) = g[k - 1]
      BY <2>2, <2>6, FlattenIs
    <3>2. f[k - 1] = g[k - 1]
      BY <2>1, <2>2, <2>6, PartialAgree
    <3> QED BY <2>3, <2>4, <2>6, <3>1, <3>2
  <2> QED BY <2>5, <2>6
<1> QED BY <1>1, <1>2

\* Sequences over S joined are a sequence over S.
LEMMA FlattenTyped ==
  ASSUME NEW S, NEW n \in Nat, NEW ss \in [1..n -> Seq(S)]
  PROVE  \A k \in 0..n : FlattenSeq(Prefix(ss, k)) \in Seq(S)
<1> DEFINE F(k) == FlattenSeq(Prefix(ss, k))
           Bad == {k \in 0..n : F(k) \notin Seq(S)}
<1> SUFFICES ASSUME Bad # {} PROVE FALSE
  OBVIOUS
<1>1. PICK k \in Bad : \A j \in Bad : k <= j
  <2>1. Bad \in SUBSET Nat
    OBVIOUS
  <2> HIDE DEF Bad
  <2> QED BY <2>1, LeastExists
<1>2. k # 0
  <2>1. F(0) = <<>>
    BY FlattenPrefix
  <2>2. F(0) \in Seq(S)
    BY <2>1, EmptySeq
  <2> HIDE DEF F
  <2> QED BY <2>2
<1>3. F(k - 1) \in Seq(S)
  <2>1. k - 1 \in 0..n /\ ~ (k <= k - 1)
    BY <1>2
  <2> QED BY <1>1, <2>1
<1>4. F(k) = F(k - 1) \o ss[k]
  <2>1. k \in 1..n
    BY <1>2
  <2> QED BY <2>1, FlattenPrefix
<1>5. ss[k] \in Seq(S)
  BY <1>2
<1> HIDE DEF F
<1>6. F(k) \in Seq(S)
  BY <1>3, <1>4, <1>5
<1> QED BY <1>6

\* Each sequence lies in the flattened one behind those before it.
Inside(ss, n, k) ==
  LET F(j) == FlattenSeq(Prefix(ss, j))
  IN  /\ Len(F(k - 1)) \in Nat /\ Len(F(k)) = Len(F(k - 1)) + Len(ss[k]) /\ Len(F(k)) <= Len(F(n))
      /\ \A i \in 1..Len(ss[k]) : F(n)[Len(F(k - 1)) + i] = ss[k][i]

\* In the bytes of several requests, each request's lie together, in their order.
LEMMA FlattenInside ==
  ASSUME NEW S, NEW n \in Nat, NEW ss \in [1..n -> Seq(S)], NEW k \in 1..n
  PROVE  Inside(ss, n, k)
<1> DEFINE F(j) == FlattenSeq(Prefix(ss, j))
           Good(m) == Len(F(k)) <= Len(F(m)) /\ \A i \in 1..Len(F(k)) : F(m)[i] = F(k)[i]
           Bad == {m \in k..n : ~ Good(m)}
<1>0. \A j \in 0..n : F(j) \in Seq(S)
  BY FlattenTyped
<1>1. \A j \in 1..n : F(j) = F(j - 1) \o ss[j]
  BY FlattenPrefix
<1>2. F(k) \in Seq(S) /\ F(k - 1) \in Seq(S) /\ F(n) \in Seq(S) /\ ss[k] \in Seq(S)
  BY <1>0
<1> HIDE DEF F
<1>3. \A m \in k..n : Good(m)
  <2> SUFFICES ASSUME Bad # {} PROVE FALSE
    OBVIOUS
  <2>1. PICK m \in Bad : \A j \in Bad : m <= j
    <3>1. Bad \in SUBSET Nat
      OBVIOUS
    <3> HIDE DEF Bad
    <3> QED BY <3>1, LeastExists
  <2>2. m # k
    BY <1>2
  <2>3. Good(m - 1)
    <3>1. m - 1 \in k..n /\ ~ (m <= m - 1)
      BY <2>2
    <3> QED BY <2>1, <3>1
  <2>4. F(m) = F(m - 1) \o ss[m] /\ F(m - 1) \in Seq(S) /\ ss[m] \in Seq(S)
    <3>1. m \in 1..n /\ m - 1 \in 0..n
      OBVIOUS
    <3> QED BY <1>0, <1>1, <3>1
  <2>5. Good(m)
    <3> DEFINE a == F(m - 1)
    <3>1. a \in Seq(S) /\ F(m) = a \o ss[m] /\ ss[m] \in Seq(S)
      BY <2>4
    <3>2. Len(F(k)) <= Len(a) /\ \A i \in 1..Len(F(k)) : a[i] = F(k)[i]
      BY <2>3
    <3>3. Len(F(k)) \in Nat /\ Len(a) \in Nat
      BY <1>2, <3>1
    <3> HIDE DEF a
    <3> QED BY <3>1, <3>2, <3>3
  <2> QED BY <2>5
<1>4. Good(n)
  BY <1>3
<1>5. F(k) = F(k - 1) \o ss[k]
  BY <1>1
<1>6. /\ Len(F(k)) = Len(F(k - 1)) + Len(ss[k])
      /\ \A i \in 1..Len(ss[k]) : F(k)[Len(F(k - 1)) + i] = ss[k][i]
  BY <1>2, <1>5
<1>7. Len(F(k - 1)) \in Nat /\ Len(ss[k]) \in Nat
  BY <1>2
<1>8. \A i \in 1..Len(ss[k]) : F(n)[Len(F(k - 1)) + i] = ss[k][i]
  BY <1>4, <1>6, <1>7
<1> QED BY <1>4, <1>6, <1>7, <1>8 DEF F, Inside

---------------------------------------------------------------------------
(* Where the parts of a request lie on the connection.                      *)

\* The last byte of the first k requests of a client.
Ends(p, k) == Len(FlattenSeq([j \in 1..k |-> Bytes(p[j])]))

FirstClasses  == {"method", "url", "version", "line"}
\* What the bytes of a request are, by the token of http_parser they are in.
HeaderClasses == {"field", "colon", "value", "line"}
Classes       == FirstClasses \cup HeaderClasses \cup {"end", "body"}

\* What may follow a byte of the headers.
After(class) == CASE class = "field" -> {"field", "colon"}
                  [] class = "line"  -> {"field", "end"}
                  [] OTHER           -> {"value", "line"}

\* The first line, the headers and the body of one request, the first behind byte b.
Shaped(s, r, b) ==
  LET l == b + LineOf(r)
      e == l + HeaderOf(r)
  IN  /\ LineOf(r) \in Nat /\ HeaderOf(r) \in Nat /\ LineOf(r) >= 4 /\ HeaderOf(r) >= 4
      /\ e + r.body <= Len(s)
      /\ s[b + 1] = "method" /\ s[b + 2] = "url"
      /\ \A i \in (b + 1)..l : s[i] \in FirstClasses
      /\ s[l + 1] = "field" /\ s[e] = "end"
      /\ \A i \in (l + 1)..(e - 1) : s[i] \in HeaderClasses /\ s[i + 1] \in After(s[i])
      /\ \A i \in (e + 1)..(e + r.body) : s[i] = "body"

\* The bytes of a connection are those of its requests, one after the other.
Shape(p, s) ==
  /\ Ends(p, 0) = 0
  /\ \A k \in 1..Len(p) :
       /\ Ends(p, k - 1) \in Nat /\ Ends(p, k) = Ends(p, k - 1) + LineOf(p[k]) + HeaderOf(p[k]) + p[k].body
       /\ Shaped(s, p[k], Ends(p, k - 1))

---------------------------------------------------------------------------
(* A request's bytes.                                                       *)

\* Two sequences of such bytes, one after the other.
LEMMA Joined ==
  ASSUME NEW s \in Seq(Classes), NEW t \in Seq(Classes)
  PROVE  /\ s \o t \in Seq(Classes)
         /\ Len(s) \in Nat /\ Len(t) \in Nat /\ Len(s \o t) = Len(s) + Len(t)
         /\ \A i \in 1..Len(s) : (s \o t)[i] = s[i]
         /\ \A i \in 1..Len(t) : (s \o t)[Len(s) + i] = t[i]
         /\ \A i \in (Len(s) + 1)..(Len(s) + Len(t)) : (s \o t)[i] = t[i - Len(s)]
OBVIOUS

\* Whole headers: a field to begin with, a line end to end with.
Chained(s) ==
  /\ s \in Seq(Classes)
  /\ \A i \in 1..Len(s) : s[i] \in HeaderClasses
  /\ \A i \in 1..Len(s) - 1 : s[i + 1] \in After(s[i])
  /\ s # <<>> => s[1] = "field" /\ s[Len(s)] = "line"

\* Headers after headers are headers.
LEMMA ChainedConcat ==
  ASSUME NEW s, NEW t, Chained(s), Chained(t)
  PROVE  Chained(s \o t)
<1>1. s \in Seq(Classes) /\ t \in Seq(Classes)
  BY DEF Chained
<1>2. /\ s \o t \in Seq(Classes) /\ Len(s \o t) = Len(s) + Len(t)
      /\ \A i \in 1..Len(s) : (s \o t)[i] = s[i]
      /\ \A i \in 1..Len(t) : (s \o t)[Len(s) + i] = t[i]
  BY <1>1
<1>3. CASE s = <<>>
  BY <1>1, <1>3
<1>4. CASE t = <<>>
  BY <1>1, <1>4
<1>5. CASE s # <<>> /\ t # <<>>
  <2> DEFINE u == s \o t
  <2>1. Len(s) \in Nat \ {0} /\ Len(t) \in Nat \ {0}
    BY <1>1, <1>5
  <2>2. ASSUME NEW i \in 1..Len(u) PROVE u[i] \in HeaderClasses
    <3>1. CASE i <= Len(s)
      BY <1>2, <2>1, <3>1 DEF Chained
    <3>2. CASE i > Len(s)
      <4>1. i - Len(s) \in 1..Len(t) /\ i = Len(s) + (i - Len(s))
        BY <1>2, <2>1, <3>2
      <4> QED BY <1>2, <4>1 DEF Chained
    <3> QED BY <3>1, <3>2, <2>1
  <2>3. ASSUME NEW i \in 1..Len(u) - 1 PROVE u[i + 1] \in After(u[i])
    <3>1. CASE i < Len(s)
      <4>1. u[i] = s[i] /\ u[i + 1] = s[i + 1]
        BY <1>2, <2>1, <3>1
      <4>2. s[i + 1] \in After(s[i])
        BY <2>1, <3>1 DEF Chained
      <4> QED BY <4>1, <4>2
    <3>2. CASE i = Len(s)
      <4>1. u[i] = "line"
        BY <1>2, <1>5, <2>1, <3>2 DEF Chained
      <4>2. u[i + 1] = "field"
        <5>1. t[1] = "field" /\ 1 \in 1..Len(t)
          BY <1>5, <2>1 DEF Chained
        <5> QED BY <1>2, <5>1, <3>2
      <4> QED BY <4>1, <4>2 DEF After
    <3>3. CASE i > Len(s)
      <4> DEFINE j == i - Len(s)
      <4>1. j \in 1..Len(t) - 1 /\ i = Len(s) + j /\ i + 1 = Len(s) + (j + 1)
        BY <1>2, <2>1, <3>3
      <4>2. u[i] = t[j] /\ u[i + 1] = t[j + 1]
        BY <1>2, <2>1, <4>1
      <4>3. t[j + 1] \in After(t[j])
        BY <4>1 DEF Chained
      <4> QED BY <4>2, <4>3
    <3> QED BY <3>1, <3>2, <3>3, <2>1
  <2>4. u[1] = "field"
    BY <1>2, <1>5, <2>1 DEF Chained
  <2>5. u[Len(u)] = "line"
    <3>1. Len(t) \in 1..Len(t) /\ t[Len(t)] = "line"
      BY <1>5, <2>1 DEF Chained
    <3> QED BY <1>2, <3>1
  <2> QED BY <1>2, <2>2, <2>3, <2>4, <2>5 DEF Chained
<1> QED BY <1>3, <1>4, <1>5

\* One header.
Header(length) == <<"field", "field", "colon">> \o Times("value", length) \o <<"line">>

\* One header is: a field, a colon, a value of any length, a line end.
LEMMA HeaderChained ==
  ASSUME NEW v \in Nat
  PROVE  Chained(Header(v)) /\ Len(Header(v)) = v + 4
<1> DEFINE a == <<"field", "field", "colon">>
           b == Times("value", v)
           c == <<"line">>
           u == Header(v)
<1>1. a \in Seq(Classes) /\ c \in Seq(Classes) /\ Len(a) = 3 /\ Len(c) = 1
  BY DEF Classes, HeaderClasses
<1>2. b \in Seq(Classes) /\ Len(b) = v /\ \A i \in 1..v : b[i] = "value"
  BY DEF Times, Classes, HeaderClasses
<1>3. /\ a[1] = "field" /\ a[2] = "field" /\ a[3] = "colon" /\ c[1] = "line"
  OBVIOUS
<1>4. u = (a \o b) \o c
  BY DEF Header
<1> HIDE DEF a, b, c
<1>5. /\ a \o b \in Seq(Classes) /\ Len(a \o b) = 3 + v
      /\ \A i \in 1..3 : (a \o b)[i] = a[i]
      /\ \A i \in 4..(3 + v) : (a \o b)[i] = b[i - 3] /\ i - 3 \in 1..v
  <2>1. /\ a \o b \in Seq(Classes) /\ Len(a \o b) = Len(a) + Len(b)
        /\ \A i \in 1..Len(a) : (a \o b)[i] = a[i]
        /\ \A i \in (Len(a) + 1)..(Len(a) + Len(b)) : (a \o b)[i] = b[i - Len(a)]
    BY <1>1, <1>2, Joined
  <2> QED BY <2>1, <1>1, <1>2
<1> DEFINE d == a \o b
<1> HIDE DEF d
<1>6. /\ u \in Seq(Classes) /\ Len(u) = v + 4
      /\ \A i \in 1..(3 + v) : u[i] = d[i]
      /\ u[v + 4] = c[1]
  <2>1. d \in Seq(Classes) /\ Len(d) = 3 + v
    BY <1>5 DEF d
  <2>2. /\ d \o c \in Seq(Classes) /\ Len(d \o c) = Len(d) + Len(c)
        /\ \A i \in 1..Len(d) : (d \o c)[i] = d[i]
        /\ \A i \in 1..Len(c) : (d \o c)[Len(d) + i] = c[i]
    BY <1>1, <2>1, Joined
  <2>3. (d \o c)[Len(d) + 1] = c[1]
    BY <2>2, <1>1
  <2> QED BY <2>1, <2>2, <2>3, <1>1, <1>4 DEF d
<1>7. /\ u[1] = "field" /\ u[2] = "field" /\ u[3] = "colon" /\ u[v + 4] = "line"
      /\ \A i \in 4..(3 + v) : u[i] = "value"
  <2>0. /\ \A i \in 1..3 : d[i] = a[i]
        /\ \A i \in 4..(3 + v) : d[i] = b[i - 3] /\ i - 3 \in 1..v
    BY <1>5 DEF d
  <2> HIDE DEF u
  <2>1. \A i \in 1..3 : u[i] = a[i]
    <3>1. \A i \in 1..3 : i \in 1..(3 + v)
      OBVIOUS
    <3> QED BY <2>0, <3>1, <1>6
  <2>2. \A i \in 4..(3 + v) : u[i] = b[i - 3] /\ i - 3 \in 1..v
    <3>1. \A i \in 4..(3 + v) : i \in 1..(3 + v)
      OBVIOUS
    <3> QED BY <2>0, <3>1, <1>6
  <2>3. u[1] = "field" /\ u[2] = "field" /\ u[3] = "colon"
    BY <2>1, <1>3
  <2>4. \A i \in 4..(3 + v) : u[i] = "value"
    BY <2>2, <1>2
  <2> QED BY <2>3, <2>4, <1>3, <1>6
<1> HIDE DEF u
<1>8. \A i \in 1..Len(u) : u[i] \in HeaderClasses
  BY <1>6, <1>7 DEF HeaderClasses
<1>9. \A i \in 1..Len(u) - 1 : u[i + 1] \in After(u[i])
  <2> SUFFICES ASSUME NEW i \in 1..(v + 3) PROVE u[i + 1] \in After(u[i])
    BY <1>6
  <2>1. CASE i \in {1, 2, 3}
    BY <2>1, <1>7 DEF After
  <2>2. CASE i \in 4..(v + 3)
    BY <2>2, <1>7 DEF After
  <2> QED BY <2>1, <2>2
<1> QED BY <1>6, <1>7, <1>8, <1>9 DEF Chained, u

\* All headers of a request.
HeaderBytes(values) == FlattenSeq([h \in DOMAIN values |-> Header(values[h])])

\* All headers of a request are, and there is at least one.
LEMMA HeadersChained ==
  ASSUME NEW values \in Seq(Nat), values # <<>>
  PROVE  Chained(HeaderBytes(values)) /\ Len(HeaderBytes(values)) >= 4
<1> DEFINE n    == Len(values)
           fam  == [h \in 1..n |-> Header(values[h])]
           F(k) == FlattenSeq(Prefix(fam, k))
           Bad  == {k \in 0..n : ~ (Chained(F(k)) /\ (k > 0 => Len(F(k)) >= 4))}
<1>1. n \in Nat \ {0} /\ DOMAIN values = 1..n
  OBVIOUS
<1>2. \A h \in 1..n : Chained(fam[h]) /\ Len(fam[h]) >= 4
  <2> SUFFICES ASSUME NEW h \in 1..n PROVE Chained(fam[h]) /\ Len(fam[h]) >= 4
    OBVIOUS
  <2>1. values[h] \in Nat
    OBVIOUS
  <2>2. Chained(Header(values[h])) /\ Len(Header(values[h])) = values[h] + 4
    BY <2>1, HeaderChained
  <2> QED BY <2>1, <2>2
<1>3. fam \in [1..n -> Seq(Classes)]
  BY <1>2 DEF Chained
<1> HIDE DEF fam, n
<1>4. F(0) = <<>> /\ \A k \in 1..n : F(k) = F(k - 1) \o fam[k]
  BY <1>1, <1>3, FlattenPrefix
<1> HIDE DEF F
<1>5. Chained(<<>>)
  BY EmptySeq DEF Chained
<1>6. Bad = {}
  <2> SUFFICES ASSUME Bad # {} PROVE FALSE
    OBVIOUS
  <2>1. PICK k \in Bad : \A j \in Bad : k <= j
    <3>1. Bad \in SUBSET Nat
      BY <1>1
    <3> HIDE DEF Bad
    <3> QED BY <3>1, LeastExists
  <2>2. k \in 1..n /\ k - 1 \in 0..n
    BY <1>1, <1>4, <1>5
  <2>3. Chained(F(k - 1))
    <3>1. ~ (k <= k - 1)
      BY <2>2
    <3> QED BY <2>1, <2>2, <3>1
  <2>4. F(k) = F(k - 1) \o fam[k] /\ Chained(fam[k]) /\ Len(fam[k]) >= 4
    BY <1>2, <1>4, <2>2
  <2>5. Chained(F(k))
    BY <2>3, <2>4, ChainedConcat
  <2>6. Len(F(k)) >= 4
    <3>1. F(k - 1) \in Seq(Classes) /\ fam[k] \in Seq(Classes)
      BY <2>3, <2>4 DEF Chained
    <3>2. Len(F(k)) = Len(F(k - 1)) + Len(fam[k]) /\ Len(F(k - 1)) \in Nat /\ Len(fam[k]) \in Nat
      BY <3>1, <2>4, Joined
    <3>3. Len(fam[k]) >= 4
      BY <2>4
    <3>4. \A x, y, z \in Nat : x = y + z /\ z >= 4 => x >= 4
      OBVIOUS
    <3>5. Len(F(k)) \in Nat
      BY <2>5, LenProperties DEF Chained
    <3> QED BY <3>2, <3>3, <3>4, <3>5, Zenon
  <2> QED BY <2>5, <2>6
<1>7. Chained(F(n)) /\ Len(F(n)) >= 4
  BY <1>1, <1>6
<1>8. Prefix(fam, n) = [h \in DOMAIN values |-> Header(values[h])]
  BY <1>1 DEF Prefix, fam
<1> QED BY <1>7, <1>8 DEF F, HeaderBytes

\* A request's bytes by its lengths, as ParseAssumption admits them.
LEMMA RequestShaped ==
  ASSUME NEW r \in Requests
  PROVE  /\ Bytes(r) \in Seq(Classes) /\ r.body \in Nat
         /\ Len(Bytes(r)) = LineOf(r) + HeaderOf(r) + r.body
         /\ Shaped(Bytes(r), r, 0)
<1> DEFINE s1 == <<"method">>
           s2 == Times("url", r.url)
           s3 == <<"version", "line">>
           s4 == HeaderBytes(r.values)
           s5 == <<"end">>
           s6 == Times("body", r.body)
           u  == r.url
           h  == Len(s4)
           b  == r.body
<1>1. u \in Nat \ {0} /\ b \in Nat /\ r.values \in Seq(Nat) /\ r.values # <<>>
  BY ParseAssumption
<1>2. Bytes(r) = ((((s1 \o s2) \o s3) \o s4) \o s5) \o s6
  BY DEF Bytes, HeaderBytes, Header
<1>3. s1 \in Seq(Classes) /\ Len(s1) = 1 /\ s1[1] = "method"
  BY DEF Classes, FirstClasses
<1>4. s2 \in Seq(Classes) /\ Len(s2) = u /\ \A i \in 1..u : s2[i] = "url"
  BY <1>1 DEF Times, Classes, FirstClasses
<1>5. s3 \in Seq(Classes) /\ Len(s3) = 2 /\ s3[1] = "version" /\ s3[2] = "line"
  BY DEF Classes, FirstClasses
<1>6. Chained(s4) /\ h \in Nat /\ h >= 4 /\ s4 \in Seq(Classes)
  <2>1. Chained(s4) /\ h >= 4
    BY <1>1, HeadersChained
  <2>2. s4 \in Seq(Classes)
    BY <2>1 DEF Chained
  <2> HIDE DEF s4
  <2> QED BY <2>1, <2>2
<1>7. s5 \in Seq(Classes) /\ Len(s5) = 1 /\ s5[1] = "end"
  BY DEF Classes
<1>8. s6 \in Seq(Classes) /\ Len(s6) = b /\ \A i \in 1..b : s6[i] = "body"
  BY <1>1 DEF Times, Classes
<1> HIDE DEF s1, s2, s3, s4, s5, s6, u, h, b
<1> DEFINE t2 == s1 \o s2
           t3 == t2 \o s3
           t4 == t3 \o s4
           t5 == t4 \o s5
           t6 == t5 \o s6
<1>t2. /\ t2 \in Seq(Classes) /\ Len(t2) = 1 + u
       /\ t2[1] = "method" /\ \A i \in 2..(1 + u) : t2[i] = "url"
  <2>1. /\ t2 \in Seq(Classes) /\ Len(t2) = Len(s1) + Len(s2)
        /\ \A i \in 1..Len(s1) : t2[i] = s1[i]
        /\ \A i \in (Len(s1) + 1)..(Len(s1) + Len(s2)) : t2[i] = s2[i - Len(s1)]
    BY <1>3, <1>4, Joined
  <2>2. \A i \in 2..(1 + u) : i - 1 \in 1..u
    BY <1>1
  <2> QED BY <1>1, <1>3, <1>4, <2>1, <2>2
<1> HIDE DEF t2
<1>t3. /\ t3 \in Seq(Classes) /\ Len(t3) = 3 + u
       /\ t3[1] = "method" /\ \A i \in 2..(1 + u) : t3[i] = "url"
       /\ t3[2 + u] = "version" /\ t3[3 + u] = "line"
  <2>1. /\ t3 \in Seq(Classes) /\ Len(t3) = Len(t2) + Len(s3)
        /\ \A i \in 1..Len(t2) : t3[i] = t2[i]
        /\ \A i \in 1..Len(s3) : t3[Len(t2) + i] = s3[i]
    BY <1>t2, <1>5, Joined
  <2>2. t3[(1 + u) + 1] = s3[1] /\ t3[(1 + u) + 2] = s3[2]
    BY <2>1, <1>t2, <1>5
  <2> QED BY <1>1, <1>t2, <1>5, <2>1, <2>2
<1> HIDE DEF t3
<1>t4. /\ t4 \in Seq(Classes) /\ Len(t4) = (3 + u) + h
       /\ \A i \in 1..(3 + u) : t4[i] = t3[i]
       /\ \A i \in 1..h : t4[(3 + u) + i] = s4[i]
  <2>1. /\ t4 \in Seq(Classes) /\ Len(t4) = Len(t3) + Len(s4)
        /\ \A i \in 1..Len(t3) : t4[i] = t3[i]
        /\ \A i \in 1..Len(s4) : t4[Len(t3) + i] = s4[i]
    BY <1>t3, <1>6, Joined
  <2> QED BY <1>1, <1>t3, <1>6, <2>1 DEF h
<1> HIDE DEF t4
<1>t5. /\ t5 \in Seq(Classes) /\ Len(t5) = (3 + u) + h + 1
       /\ \A i \in 1..((3 + u) + h) : t5[i] = t4[i]
       /\ t5[(3 + u) + h + 1] = "end"
  <2>1. /\ t5 \in Seq(Classes) /\ Len(t5) = Len(t4) + Len(s5)
        /\ \A i \in 1..Len(t4) : t5[i] = t4[i]
        /\ \A i \in 1..Len(s5) : t5[Len(t4) + i] = s5[i]
    BY <1>t4, <1>7, Joined
  <2>2. t5[Len(t4) + 1] = "end"
    BY <2>1, <1>7
  <2> QED BY <1>1, <1>t4, <1>6, <1>7, <2>1, <2>2
<1> HIDE DEF t5
<1>t6. /\ t6 \in Seq(Classes) /\ Len(t6) = (3 + u) + (h + 1) + b
       /\ \A i \in 1..((3 + u) + h + 1) : t6[i] = t5[i]
       /\ \A i \in 1..b : t6[((3 + u) + h + 1) + i] = "body"
  <2>1. /\ t6 \in Seq(Classes) /\ Len(t6) = Len(t5) + Len(s6)
        /\ \A i \in 1..Len(t5) : t6[i] = t5[i]
        /\ \A i \in 1..Len(s6) : t6[Len(t5) + i] = s6[i]
    BY <1>t5, <1>8, Joined
  <2> QED BY <1>1, <1>t5, <1>6, <1>8, <2>1
<1> HIDE DEF t6
<1>9. Bytes(r) = t6
  BY <1>2 DEF t2, t3, t4, t5, t6
<1>10. LineOf(r) = 3 + u /\ HeaderOf(r) = h + 1 /\ r.body = b
  <2>1. LineOf(r) = 3 + u
    BY <1>1 DEF LineOf, u
  <2>2. Len(Bytes(r)) = (3 + u) + (h + 1) + b /\ r.body = b
    BY <1>9, <1>t6 DEF b
  <2>3. HeaderOf(r) = ((3 + u) + (h + 1) + b) - (3 + u) - b
    BY <2>1, <2>2 DEF HeaderOf
  <2>4. u \in Nat /\ h \in Nat /\ b \in Nat
    BY <1>1, <1>6
  <2> QED BY <2>1, <2>2, <2>3, <2>4
<1>11. \A i \in 1..(3 + u) : t6[i] \in FirstClasses
  <2> SUFFICES ASSUME NEW i \in 1..(3 + u) PROVE t6[i] \in FirstClasses
    OBVIOUS
  <2>1. t6[i] = t3[i]
    BY <1>1, <1>6, <1>t4, <1>t5, <1>t6
  <2>2. i = 1 \/ i \in 2..(1 + u) \/ i = 2 + u \/ i = 3 + u
    BY <1>1
  <2> QED BY <2>1, <2>2, <1>t3 DEF FirstClasses
<1>12. \A i \in 1..h : t6[(3 + u) + i] = s4[i]
  <2> SUFFICES ASSUME NEW i \in 1..h PROVE t6[(3 + u) + i] = s4[i]
    OBVIOUS
  <2>1. t4[(3 + u) + i] = s4[i]
    BY <1>t4
  <2>2. (3 + u) + i \in 1..((3 + u) + h) /\ (3 + u) + i \in 1..((3 + u) + h + 1)
    BY <1>1, <1>6
  <2> QED BY <2>1, <2>2, <1>t5, <1>t6
<1>13. t6[(3 + u) + h + 1] = "end"
  <2>1. (3 + u) + h + 1 \in 1..((3 + u) + h + 1)
    BY <1>1, <1>6
  <2> QED BY <2>1, <1>t5, <1>t6
<1>14. \A i \in ((3 + u) + 1)..((3 + u) + h) : t6[i] \in HeaderClasses /\ t6[i + 1] \in After(t6[i])
  <2> SUFFICES ASSUME NEW j \in 1..h
      PROVE  t6[(3 + u) + j] \in HeaderClasses /\ t6[((3 + u) + j) + 1] \in After(t6[(3 + u) + j])
    <3>1. \A i \in ((3 + u) + 1)..((3 + u) + h) : i - (3 + u) \in 1..h /\ i = (3 + u) + (i - (3 + u))
      BY <1>1, <1>6
    <3> QED BY <3>1
  <2>1. t6[(3 + u) + j] = s4[j] /\ s4[j] \in HeaderClasses
    BY <1>6, <1>12 DEF Chained, h
  <2>2. CASE j < h
    <3>0. u \in Nat /\ h \in Nat
      BY <1>1, <1>6
    <3>1. j + 1 \in 1..h /\ ((3 + u) + j) + 1 = (3 + u) + (j + 1)
      BY <3>0, <2>2
    <3>2. t6[((3 + u) + j) + 1] = s4[j + 1]
      BY <3>1, <1>12
    <3>3. s4[j + 1] \in After(s4[j])
      BY <1>6, <2>2 DEF Chained, h
    <3> QED BY <2>1, <3>2, <3>3
  <2>3. CASE j = h
    <3>1. s4[h] = "line"
      BY <1>6 DEF Chained, h
    <3> QED BY <2>1, <2>3, <3>1, <1>13 DEF After
  <2> QED BY <2>2, <2>3, <1>6
<1>15. t6[1] = "method" /\ t6[2] = "url" /\ t6[(3 + u) + 1] = "field"
  <2>1. t6[1] = t3[1] /\ t6[2] = t3[2]
    BY <1>1, <1>6, <1>t4, <1>t5, <1>t6
  <2>2. s4[1] = "field" /\ 1 \in 1..h
    BY <1>6 DEF Chained, h
  <2>3. t3[2] = "url"
    BY <1>1, <1>t3
  <2> QED BY <2>1, <2>2, <2>3, <1>t3, <1>12
<1>16. \A i \in ((3 + u) + h + 1 + 1)..((3 + u) + h + 1 + b) : t6[i] = "body"
  <2>1. \A i \in ((3 + u) + h + 1 + 1)..((3 + u) + h + 1 + b) :
          i - ((3 + u) + h + 1) \in 1..b /\ i = ((3 + u) + h + 1) + (i - ((3 + u) + h + 1))
    BY <1>1, <1>6
  <2> QED BY <2>1, <1>t6
<1>17. Len(Bytes(r)) = LineOf(r) + HeaderOf(r) + r.body /\ Bytes(r) \in Seq(Classes) /\ r.body \in Nat
  BY <1>1, <1>6, <1>9, <1>10, <1>t6
<1>18. Shaped(t6, r, 0)
  <2> USE <1>10
  <2>1. LineOf(r) \in Nat /\ HeaderOf(r) \in Nat /\ LineOf(r) >= 4 /\ HeaderOf(r) >= 4
    BY <1>1, <1>6
  <2>2. (0 + LineOf(r)) + HeaderOf(r) + r.body <= Len(t6)
    BY <1>1, <1>6, <1>t6
  <2>3. 0 + LineOf(r) = 3 + u /\ (0 + LineOf(r)) + HeaderOf(r) = (3 + u) + h + 1
    BY <1>1, <1>6
  <2>4. ((3 + u) + h + 1) - 1 = (3 + u) + h
    BY <1>1, <1>6
  <2> QED BY <2>1, <2>2, <2>3, <2>4, <1>11, <1>13, <1>14, <1>15, <1>16 DEF Shaped
<1> QED BY <1>9, <1>17, <1>18

\* An index into the header lines of a request, counted from where the request begins.
LEMMA FromStart ==
  ASSUME NEW b \in Nat, NEW l \in Nat, NEW e \in Nat, NEW w \in Nat,
         NEW i \in ((b + l) + 1)..((b + e) - 1)
  PROVE  /\ i - b \in (l + 1)..(e - 1) /\ i - b \in 1..(e + w) /\ (i - b) + 1 \in 1..(e + w)
         /\ i = b + (i - b) /\ i + 1 = b + ((i - b) + 1)
OBVIOUS

\* The classes of the bytes of a request are the same wherever it begins.
LEMMA ShapedAt ==
  ASSUME NEW r \in Requests, NEW s \in Seq(Classes), NEW b \in Nat,
         b + Len(Bytes(r)) <= Len(s),
         \A i \in 1..Len(Bytes(r)) : s[b + i] = Bytes(r)[i]
  PROVE  Shaped(s, r, b)
<1> DEFINE t == Bytes(r)
           l == LineOf(r)
           e == l + HeaderOf(r)
<1>1. /\ t \in Seq(Classes) /\ r.body \in Nat /\ Len(t) = e + r.body
      /\ Shaped(t, r, 0)
  BY RequestShaped
<1>2. /\ l \in Nat /\ HeaderOf(r) \in Nat /\ l >= 4 /\ HeaderOf(r) >= 4
  BY <1>1 DEF Shaped
<1>3. 0 + l = l /\ (0 + l) + HeaderOf(r) = e /\ e \in Nat /\ l < e
  BY <1>2
<1>4. /\ t[1] = "method" /\ t[2] = "url"
      /\ \A i \in 1..l : t[i] \in FirstClasses
      /\ t[l + 1] = "field" /\ t[e] = "end"
      /\ \A i \in (l + 1)..(e - 1) : t[i] \in HeaderClasses /\ t[i + 1] \in After(t[i])
      /\ \A i \in (e + 1)..(e + r.body) : t[i] = "body"
  <2>1. /\ t[0 + 1] = "method" /\ t[0 + 2] = "url"
        /\ \A i \in (0 + 1)..(0 + l) : t[i] \in FirstClasses
        /\ t[(0 + l) + 1] = "field" /\ t[(0 + l) + HeaderOf(r)] = "end"
        /\ \A i \in ((0 + l) + 1)..(((0 + l) + HeaderOf(r)) - 1) : t[i] \in HeaderClasses /\ t[i + 1] \in After(t[i])
        /\ \A i \in (((0 + l) + HeaderOf(r)) + 1)..(((0 + l) + HeaderOf(r)) + r.body) : t[i] = "body"
    BY <1>1 DEF Shaped
  <2>2. 0 + 1 = 1 /\ 0 + 2 = 2 /\ 0 + l = l /\ (0 + l) + HeaderOf(r) = e
    BY <1>3
  <2> HIDE DEF t, l, e
  <2> QED BY <2>1, <2>2
<1>5. \A i \in 1..(e + r.body) : s[b + i] = t[i]
  BY <1>1
<1> HIDE DEF t, l, e
<1>13. r.body \in Nat /\ b \in Nat /\ l \in Nat /\ e \in Nat /\ l >= 4 /\ l < e
  BY <1>1, <1>2, <1>3
<1>6. s[b + 1] = "method" /\ s[b + 2] = "url"
  <2>1. 1 \in 1..(e + r.body) /\ 2 \in 1..(e + r.body)
    BY <1>13
  <2> QED BY <2>1, <1>4, <1>5
<1>7. \A i \in (b + 1)..(b + l) : s[i] \in FirstClasses
  <2> SUFFICES ASSUME NEW i \in (b + 1)..(b + l) PROVE s[i] \in FirstClasses
    OBVIOUS
  <2>1. i - b \in 1..l /\ i - b \in 1..(e + r.body) /\ i = b + (i - b)
    BY <1>13
  <2> QED BY <2>1, <1>4, <1>5
<1>8. s[(b + l) + 1] = "field" /\ s[b + e] = "end"
  <2>1. l + 1 \in 1..(e + r.body) /\ e \in 1..(e + r.body) /\ (b + l) + 1 = b + (l + 1)
    BY <1>13
  <2> QED BY <2>1, <1>4, <1>5
<1>9. \A i \in ((b + l) + 1)..((b + e) - 1) : s[i] \in HeaderClasses /\ s[i + 1] \in After(s[i])
  <2> SUFFICES ASSUME NEW i \in ((b + l) + 1)..((b + e) - 1)
      PROVE s[i] \in HeaderClasses /\ s[i + 1] \in After(s[i])
    OBVIOUS
  <2> DEFINE j == i - b
  <2>1. /\ j \in (l + 1)..(e - 1) /\ j \in 1..(e + r.body) /\ j + 1 \in 1..(e + r.body)
        /\ i = b + j /\ i + 1 = b + (j + 1)
    <3>1. b \in Nat /\ l \in Nat /\ e \in Nat /\ r.body \in Nat
      BY <1>13
    <3> QED BY ONLY <3>1, FromStart
  <2> HIDE DEF j
  <2>2. s[i] = t[j] /\ s[i + 1] = t[j + 1]
    BY <2>1, <1>5
  <2> QED BY <2>1, <2>2, <1>4
<1>10. \A i \in ((b + e) + 1)..((b + e) + r.body) : s[i] = "body"
  <2>1. ASSUME NEW w \in Nat, w = r.body, NEW i \in ((b + e) + 1)..((b + e) + w)
        PROVE  s[i] = "body"
    <3>1. i - b \in (e + 1)..(e + w) /\ i - b \in 1..(e + w) /\ i = b + (i - b)
      <4>1. b \in Nat /\ e \in Nat
        BY <1>13
      <4> QED BY <4>1
    <3>2. i - b \in (e + 1)..(e + r.body) /\ i - b \in 1..(e + r.body) /\ i = b + (i - b)
      BY <2>1, <3>1
    <3> QED BY <3>2, <1>4, <1>5
  <2>2. r.body \in Nat
    BY <1>13
  <2> QED BY <2>1, <2>2
<1>11. b + LineOf(r) = b + l /\ (b + LineOf(r)) + HeaderOf(r) = b + e
  BY <1>2 DEF l, e
<1>12. (b + e) + r.body <= Len(s)
  <2>1. b + (e + r.body) <= Len(s)
    BY <1>1 DEF t
  <2>2. b + (e + r.body) = (b + e) + r.body
    BY <1>13
  <2> QED BY <2>1, <2>2
<1> QED BY <1>2, <1>6, <1>7, <1>8, <1>9, <1>10, <1>11, <1>12 DEF Shaped, l

\* A client's requests lie on the connection one after the other.
LEMMA StreamShaped ==
  ASSUME NEW n \in Nat, NEW p \in [1..n -> Requests],
         NEW s, s = FlattenSeq([k \in DOMAIN p |-> Bytes(p[k])])
  PROVE  s \in Seq(Classes) /\ Len(s) \in Nat /\ Len(p) = n /\ Shape(p, s)
<1> DEFINE fam  == [k \in 1..n |-> Bytes(p[k])]
           F(k) == FlattenSeq(Prefix(fam, k))
<1>1. fam \in [1..n -> Seq(Classes)]
  BY RequestShaped
<1>2. \A k \in 0..n : Prefix(fam, k) = [j \in 1..k |-> Bytes(p[j])]
  BY DEF Prefix
<1>3. \A k \in 0..n : Ends(p, k) = Len(F(k))
  BY <1>2 DEF Ends
<1>4. s = F(n) /\ Len(p) = n
  BY <1>2
<1>5. \A k \in 1..n : fam[k] = Bytes(p[k])
  OBVIOUS
<1> HIDE DEF fam
<1>6. F(n) \in Seq(Classes) /\ F(0) = <<>>
  <2>1. \A k \in 0..n : F(k) \in Seq(Classes)
    BY <1>1, FlattenTyped
  <2>2. F(0) = <<>>
    BY <1>1, FlattenPrefix
  <2> HIDE DEF F
  <2> QED BY <2>1, <2>2
<1>7. \A k \in 1..n : /\ Len(F(k - 1)) \in Nat /\ Len(F(k)) = Len(F(k - 1)) + Len(fam[k])
                      /\ Len(F(k)) <= Len(F(n))
                      /\ \A i \in 1..Len(fam[k]) : F(n)[Len(F(k - 1)) + i] = fam[k][i]
  <2> SUFFICES ASSUME NEW k \in 1..n
      PROVE  /\ Len(F(k - 1)) \in Nat /\ Len(F(k)) = Len(F(k - 1)) + Len(fam[k])
             /\ Len(F(k)) <= Len(F(n))
             /\ \A i \in 1..Len(fam[k]) : F(n)[Len(F(k - 1)) + i] = fam[k][i]
    OBVIOUS
  <2>1. Inside(fam, n, k)
    BY <1>1, FlattenInside
  <2> QED BY <2>1 DEF Inside
<1> HIDE DEF F
<1>8. Ends(p, 0) = 0
  BY <1>3, <1>6
<1>9. ASSUME NEW k \in 1..n
      PROVE  /\ Ends(p, k - 1) \in Nat
             /\ Ends(p, k) = Ends(p, k - 1) + LineOf(p[k]) + HeaderOf(p[k]) + p[k].body
             /\ Shaped(s, p[k], Ends(p, k - 1))
  <2> DEFINE b == Ends(p, k - 1)
  <2>1. b = Len(F(k - 1)) /\ Ends(p, k) = Len(F(k)) /\ p[k] \in Requests
    BY <1>3
  <2>2. /\ b \in Nat /\ Ends(p, k) = b + Len(Bytes(p[k])) /\ b + Len(Bytes(p[k])) <= Len(s)
        /\ \A i \in 1..Len(Bytes(p[k])) : s[b + i] = Bytes(p[k])[i]
    <3>1. /\ b \in Nat /\ Len(F(k)) = b + Len(fam[k]) /\ Len(F(k)) <= Len(F(n))
          /\ \A i \in 1..Len(fam[k]) : F(n)[b + i] = fam[k][i]
      BY <2>1, <1>7
    <3> HIDE DEF b
    <3> QED BY <2>1, <3>1, <1>4, <1>5
  <2>3. /\ Len(Bytes(p[k])) = LineOf(p[k]) + HeaderOf(p[k]) + p[k].body
        /\ LineOf(p[k]) \in Nat /\ HeaderOf(p[k]) \in Nat /\ p[k].body \in Nat
    BY <2>1, RequestShaped DEF Shaped
  <2> HIDE DEF b
  <2>4. Shaped(s, p[k], b)
    BY <2>1, <2>2, <1>4, <1>6, ShapedAt
  <2>5. Ends(p, k) = b + LineOf(p[k]) + HeaderOf(p[k]) + p[k].body
    BY <2>2, <2>3
  <2> QED BY <2>2, <2>4, <2>5 DEF b
<1> QED BY <1>4, <1>6, <1>8, <1>9, LenProperties DEF Shape

---------------------------------------------------------------------------
(* The inductive invariant.                                                 *)

This    == plan[nth]
Before  == Ends(plan, nth - 1)
\* The last byte of the request's first line, and of its headers.
LineEnd == Before + LineOf(This)
HeadEnd == LineEnd + HeaderOf(This)

\* The parser's state: parser_data_t (httpd_parse.c:36-61).
Statuses == {"IDLE", "URL", "FIELD", "VALUE", "BODY", "COMPLETE", "FAILED"}
Phases   == {"read", "block", "parse", "handler", "purge", "refused", "closed"}
Parsers  == [status : Statuses, at : Nat, length : Nat, paused : BOOLEAN, pre_parsed : 0..BlockSize]

\* Every variable has its type, the stream is that of the plan, and no buffer is exceeded.
ParseTyped ==
  /\ Len(plan) \in Nat /\ plan \in [1..Len(plan) -> Requests] /\ Shape(plan, stream)
  /\ stream \in Seq(Classes) /\ wire \in 0..Len(stream)
  /\ pending \in Seq(1..Len(stream)) /\ Len(pending) <= BlockSize
  /\ phase \in Phases /\ nth \in 1..Len(plan)
  /\ scratch \in Seq(0..Len(stream)) /\ Len(scratch) <= ScratchSize
  /\ offset \in 0..ScratchSize /\ at \in 0..ScratchSize /\ remaining \in Nat
  /\ parser \in Parsers
  /\ error \in {NoError, "url", "syntax", "upgrade", "too big"}
  /\ used \in Nat

\* The last byte that was taken from the socket and is not pending.
Taken == wire - Len(pending)

\* What is pending is the end of what has come.
PendingTail ==
  /\ Taken \in Nat
  /\ \A i \in 1..Len(pending) : pending[i] = Taken + i

\* The thread is in httpd_parse_req.
Parsing == phase \in {"read", "block", "parse"}

\* The line end behind the value that is being parsed.
ValueEnd == LineEnd + parser.at + parser.length + 1

\* How far the parser is, by what it called back last.
Progress ==
  /\ Status = "IDLE"  => used \in {Before, Before + 1}
  /\ Status = "URL"   => Before + 1 < used /\ used <= LineEnd
  /\ Status = "FIELD" => LineEnd < used /\ used < HeadEnd /\ stream[used] \in {"field", "colon"}
  /\ Status = "VALUE" => /\ LineEnd < used /\ used < HeadEnd
                         /\ \/ used = ValueEnd - 1 /\ stream[used] = "value"
                            \/ used = ValueEnd /\ stream[used] = "line"
  /\ Status = "BODY"  => used = HeadEnd /\ This.body > 0 /\ remaining = This.body

\* Until the block with the first header's start has been parsed, scratch begins with
\* the request, from then on with its headers.
InFirstLine == Status \in {"IDLE", "URL"} \/ (phase = "parse" /\ parser.paused)
\* What scratch begins behind.
Source == IF InFirstLine THEN Before ELSE LineEnd

\* What was parsed already of the bytes that were put back: the start of the first header.
PutBack ==
  /\ Status = "FIELD" /\ Taken = LineEnd
  /\ \A i \in (LineEnd + 1)..used : stream[i] # "line"

\* The line ends before this one are '\0' in scratch.
Mark == CASE InFirstLine -> 0 [] Status = "VALUE" -> ValueEnd [] OTHER -> used + 1

\* The first n bytes of scratch are the connection's, behind Source, with '\0' for a line end
\* that a callback has terminated.
Text(n) ==
  \A i \in 1..n : scratch[i] = IF stream[Source + i] = "line" /\ Source + i < Mark THEN 0 ELSE Source + i

\* read_block is next: what scratch holds has been parsed, and what was put back is pending.
Reading ==
  phase = "read" =>
    /\ Status \notin {"COMPLETE", "FAILED"} /\ Progress /\ Text(offset)
    /\ pending # <<>> => offset = 0 /\ Len(pending) <= ScratchSize
    /\ IF parser.paused
         THEN /\ PutBack /\ offset = 0
              /\ parser.pre_parsed = used - LineEnd /\ parser.pre_parsed <= Len(pending)
         ELSE /\ used = Source + offset /\ used = Taken
              /\ offset = Len(scratch) /\ parser.pre_parsed = 0

\* continue_parsing is next: nothing is pending, and scratch reaches what was received last.
Block ==
  phase = "block" =>
    /\ Status \notin {"COMPLETE", "FAILED"} /\ Progress /\ Text(Len(scratch))
    /\ pending = <<>> /\ Source + Len(scratch) = wire
    /\ offset <= Len(scratch) /\ Len(scratch) - offset <= BlockSize
    /\ IF parser.paused
         THEN /\ Status = "FIELD" /\ offset = 0
              /\ parser.pre_parsed = used - LineEnd /\ parser.pre_parsed <= Len(scratch)
         ELSE used = Source + offset /\ parser.pre_parsed = 0

\* http_parser is at a byte: the last one used is the one before it.
ByteByByte ==
  phase = "parse" /\ Status \notin {"COMPLETE", "FAILED"} =>
    /\ Progress /\ Text(Len(scratch))
    /\ used = Source + at /\ Source + Len(scratch) = wire
    /\ offset <= at /\ at <= Len(scratch) /\ Len(scratch) - offset <= BlockSize
    /\ IF parser.paused
         THEN PutBack /\ parser.pre_parsed = Len(scratch) - LineOf(This)
         ELSE pending = <<>> /\ parser.pre_parsed = 0

\* The headers in scratch, and what is read next.
Kept ==
  /\ HeaderOf(This) <= Len(scratch)
  /\ \A i \in 1..HeaderOf(This) - 1 :
       scratch[i] = IF stream[LineEnd + i] = "line" THEN 0 ELSE LineEnd + i

\* What the thread reads next is the rest of this request's body.
Served ==
  /\ used = Taken /\ used + remaining = Ends(plan, nth) /\ Len(pending) <= ScratchSize

\* From the end of its headers on, a request is kept and served.
Completed ==
  /\ phase = "parse" /\ Status = "COMPLETE" =>
       /\ Kept /\ Served
       /\ at <= Len(scratch) /\ parser.paused /\ Len(scratch) - at <= parser.pre_parsed
  /\ phase = "handler" => Kept /\ Served
  /\ phase = "purge" => Served

\* A refusal for its size is of a request that is too big; a refused parser is not paused.
Refused ==
  /\ error = "too big" => phase = "refused" /\ TooBigIsBig
  /\ phase = "parse" /\ Status = "FAILED" => ~parser.paused

\* The inductive invariant of ParseSpec.
ParseInv == /\ ParseTyped /\ PendingTail /\ Reading /\ Block /\ ByteByByte /\ Completed
            /\ Refused /\ inOrder = TRUE

---------------------------------------------------------------------------
(* The request the server is at, and what does not change.                  *)

\* Where the first line, the headers and the body of the request at hand end.
Layout ==
  /\ This \in Requests /\ This.body \in Nat /\ Len(stream) \in Nat
  /\ Before \in Nat /\ LineEnd \in Nat /\ HeadEnd \in Nat
  /\ Before + 4 <= LineEnd /\ LineEnd + 4 <= HeadEnd /\ HeadEnd + This.body <= Len(stream)
  /\ LineOf(This) = LineEnd - Before /\ HeaderOf(This) = HeadEnd - LineEnd
  /\ Ends(plan, nth) = HeadEnd + This.body

\* What the bytes of the request at hand are.
ClassesLie ==
  /\ stream[Before + 1] = "method" /\ stream[Before + 2] = "url"
  /\ \A i \in (Before + 1)..LineEnd : stream[i] \in FirstClasses
  /\ stream[LineEnd + 1] = "field" /\ stream[HeadEnd] = "end"
  /\ \A i \in (LineEnd + 1)..(HeadEnd - 1) :
       stream[i] \in HeaderClasses /\ stream[i + 1] \in After(stream[i])
  /\ \A i \in (HeadEnd + 1)..(HeadEnd + This.body) : stream[i] = "body"

\* Both follow from the plan.
LEMMA Places ==
  ASSUME ParseTyped
  PROVE  Layout /\ ClassesLie
<1>1. This \in Requests /\ This.body \in Nat
  BY ParseAssumption DEF ParseTyped, This
<1>2. /\ Before \in Nat /\ Ends(plan, nth) = Before + LineOf(This) + HeaderOf(This) + This.body
      /\ Shaped(stream, This, Before)
  BY DEF ParseTyped, Shape, This, Before
<1>3. /\ LineOf(This) \in Nat /\ HeaderOf(This) \in Nat /\ LineOf(This) >= 4 /\ HeaderOf(This) >= 4
      /\ (Before + LineOf(This)) + HeaderOf(This) + This.body <= Len(stream)
  BY <1>2 DEF Shaped
<1>4. ClassesLie
  BY <1>2 DEF Shaped, ClassesLie, LineEnd, HeadEnd
<1>5. Len(stream) \in Nat
  <2>1. stream \in Seq(Classes)
    BY DEF ParseTyped
  <2> QED BY <2>1, LenProperties
<1>6. Layout
  <2> DEFINE a == Before
             l == LineOf(This)
             h == HeaderOf(This)
             w == This.body
  <2>1. /\ a \in Nat /\ l \in Nat /\ h \in Nat /\ w \in Nat /\ l >= 4 /\ h >= 4
        /\ a + l + h + w <= Len(stream) /\ Len(stream) \in Nat
        /\ LineEnd = a + l /\ HeadEnd = (a + l) + h /\ Ends(plan, nth) = a + l + h + w
    BY <1>1, <1>2, <1>3, <1>5 DEF LineEnd, HeadEnd
  <2>2. l = LineOf(This) /\ h = HeaderOf(This) /\ a = Before /\ w = This.body
    OBVIOUS
  <2> HIDE DEF a, l, h, w
  <2>3. /\ a \in Nat /\ a + l \in Nat /\ (a + l) + h \in Nat
        /\ a + 4 <= a + l /\ (a + l) + 4 <= (a + l) + h /\ ((a + l) + h) + w <= Len(stream)
        /\ l = (a + l) - a /\ h = ((a + l) + h) - (a + l)
        /\ a + l + h + w = ((a + l) + h) + w
    BY <2>1
  <2>4. /\ Before = a /\ LineEnd = a + l /\ HeadEnd = (a + l) + h /\ Ends(plan, nth) = a + l + h + w
        /\ This.body = w /\ LineOf(This) = l /\ HeaderOf(This) = h
    BY <2>1, <2>2
  <2> QED BY <2>3, <2>4, <1>1, <1>5, Zenon DEF Layout
<1> QED BY <1>4, <1>6

\* They change with the request only.
LEMMA SamePlaces ==
  ASSUME UNCHANGED <<plan, stream, nth>>
  PROVE  /\ This' = This /\ Before' = Before /\ LineEnd' = LineEnd /\ HeadEnd' = HeadEnd
         /\ Ends(plan, nth)' = Ends(plan, nth)
BY DEF This, Before, LineEnd, HeadEnd

---------------------------------------------------------------------------
(* Cutting and joining what was received.                                   *)

\* What a sequence is cut into: the bytes given out and those left (httpd_recv_pending).
LEMMA Cut ==
  ASSUME NEW S, NEW s \in Seq(S), NEW k \in Nat, k <= Len(s)
  PROVE  /\ Len(s) \in Nat
         /\ SubSeq(s, 1, k) \in Seq(S) /\ Len(SubSeq(s, 1, k)) = k
         /\ \A i \in 1..k : SubSeq(s, 1, k)[i] = s[i]
         /\ SubSeq(s, k + 1, Len(s)) \in Seq(S) /\ Len(SubSeq(s, k + 1, Len(s))) = Len(s) - k
         /\ \A i \in 1..(Len(s) - k) : SubSeq(s, k + 1, Len(s))[i] = s[k + i]
OBVIOUS

\* Two sequences joined: what was pending and what the socket gave (httpd_recv_with_opt).
LEMMA Joint ==
  ASSUME NEW S, NEW s \in Seq(S), NEW t \in Seq(S)
  PROVE  /\ s \o t \in Seq(S)
         /\ Len(s) \in Nat /\ Len(t) \in Nat /\ Len(s \o t) = Len(s) + Len(t)
         /\ \A i \in 1..Len(s) : (s \o t)[i] = s[i]
         /\ \A i \in 1..Len(t) : (s \o t)[Len(s) + i] = t[i]
OBVIOUS

\* Some bytes of the connection, in order.
Run(s, first, many) == Len(s) = many /\ \A i \in 1..many : s[i] = first + i

\* Bytes in order behind bytes in order are.
LEMMA RunJoin ==
  ASSUME NEW S, NEW s \in Seq(S), NEW t \in Seq(S), NEW b \in Nat, NEW m \in Nat, NEW n \in Nat,
         Run(s, b, m), Run(t, b + m, n)
  PROVE  s \o t \in Seq(S) /\ Run(s \o t, b, m + n)
<1>1. /\ s \o t \in Seq(S) /\ Len(s) = m /\ Len(t) = n /\ Len(s \o t) = m + n
      /\ \A i \in 1..m : (s \o t)[i] = b + i
      /\ \A i \in 1..n : (s \o t)[m + i] = (b + m) + i
  <2>1. /\ Len(s) = m /\ Len(t) = n /\ \A i \in 1..m : s[i] = b + i
        /\ \A i \in 1..n : t[i] = (b + m) + i
    BY DEF Run
  <2>2. /\ s \o t \in Seq(S) /\ Len(s \o t) = Len(s) + Len(t)
        /\ \A i \in 1..Len(s) : (s \o t)[i] = s[i]
        /\ \A i \in 1..Len(t) : (s \o t)[Len(s) + i] = t[i]
    BY Joint
  <2> QED BY <2>1, <2>2
<1> DEFINE u == s \o t
<1> HIDE DEF u
<1>2. ASSUME NEW i \in 1..(m + n) PROVE u[i] = b + i
  <2>1. CASE i <= m
    BY <1>1, <2>1 DEF u
  <2>2. CASE i > m
    <3>1. PICK j \in 1..n : i = m + j
      <4>1. i - m \in 1..n /\ i = m + (i - m)
        BY <2>2
      <4> QED BY <4>1
    <3>2. u[m + j] = (b + m) + j
      BY <1>1, <3>1 DEF u
    <3> QED BY <3>1, <3>2
  <2> QED BY <2>1, <2>2
<1> QED BY <1>1, <1>2 DEF Run, u

\* Bytes in order are so when cut.
LEMMA RunCut ==
  ASSUME NEW S, NEW s \in Seq(S), NEW b \in Nat, NEW m \in Nat, NEW k \in Nat, k <= m,
         Run(s, b, m)
  PROVE  /\ SubSeq(s, 1, k) \in Seq(S) /\ Run(SubSeq(s, 1, k), b, k)
         /\ SubSeq(s, k + 1, Len(s)) \in Seq(S) /\ Run(SubSeq(s, k + 1, Len(s)), b + k, m - k)
<1>1. /\ Len(s) = m
      /\ SubSeq(s, 1, k) \in Seq(S) /\ Len(SubSeq(s, 1, k)) = k
      /\ \A i \in 1..k : SubSeq(s, 1, k)[i] = s[i]
      /\ SubSeq(s, k + 1, Len(s)) \in Seq(S) /\ Len(SubSeq(s, k + 1, Len(s))) = m - k
      /\ \A i \in 1..(m - k) : SubSeq(s, k + 1, Len(s))[i] = s[k + i]
  <2>1. Len(s) = m
    BY DEF Run
  <2>2. /\ SubSeq(s, 1, k) \in Seq(S) /\ Len(SubSeq(s, 1, k)) = k
        /\ \A i \in 1..k : SubSeq(s, 1, k)[i] = s[i]
        /\ SubSeq(s, k + 1, Len(s)) \in Seq(S) /\ Len(SubSeq(s, k + 1, Len(s))) = Len(s) - k
        /\ \A i \in 1..(Len(s) - k) : SubSeq(s, k + 1, Len(s))[i] = s[k + i]
    <3>1. k <= Len(s)
      BY <2>1
    <3> QED BY <3>1, Cut
  <2> QED BY <2>1, <2>2
<1>2. \A i \in 1..m : s[i] = b + i
  BY DEF Run
<1>3. \A i \in 1..k : SubSeq(s, 1, k)[i] = b + i
  BY <1>1, <1>2
<1>4. \A i \in 1..(m - k) : SubSeq(s, k + 1, Len(s))[i] = (b + k) + i
  <2> SUFFICES ASSUME NEW i \in 1..(m - k) PROVE SubSeq(s, k + 1, Len(s))[i] = (b + k) + i
    OBVIOUS
  <2>1. k + i \in 1..m
    OBVIOUS
  <2> QED BY <2>1, <1>1, <1>2
<1> QED BY <1>1, <1>3, <1>4 DEF Run

\* What the socket gives is in order.
LEMMA NumbersRun ==
  ASSUME NEW n \in Nat, NEW w \in Nat, NEW k \in Nat, w + k <= n
  PROVE  Numbers(w + 1, w + k) \in Seq(1..n) /\ Run(Numbers(w + 1, w + k), w, k)
<1> DEFINE S == 1..n
<1>1. Numbers(w + 1, w + k) = [i \in 1..k |-> w + i]
  BY DEF Numbers
<1>2. \A i \in 1..k : w + i \in S
  OBVIOUS
<1> HIDE DEF S
<1>3. [i \in 1..k |-> w + i] \in Seq(S)
  BY <1>2
<1>4. Len([i \in 1..k |-> w + i]) = k
  BY <1>2
<1> QED BY <1>1, <1>3, <1>4 DEF Run, S

\* No bytes are.
LEMMA RunEmpty ==
  ASSUME NEW b, NEW n \in Nat
  PROVE  <<>> \in Seq(1..n) /\ Run(<<>>, b, 0)
BY EmptySeq DEF Run

\* Two runs of the same bytes are equal.
LEMMA RunSame ==
  ASSUME NEW S, NEW s \in Seq(S), NEW t \in Seq(S), NEW b, NEW m \in Nat, Run(s, b, m), Run(t, b, m)
  PROVE  s = t
BY SeqEqual DEF Run

---------------------------------------------------------------------------
(* Reading.                                                                 *)

\* What is pending is in order, and ends where the socket goes on.
LEMMA PendingRun ==
  ASSUME ParseTyped, PendingTail
  PROVE  /\ Len(stream) \in Nat /\ wire \in Nat /\ wire <= Len(stream)
         /\ Len(pending) \in Nat /\ Len(pending) <= BlockSize
         /\ pending \in Seq(1..Len(stream))
         /\ Taken \in Nat /\ Taken + Len(pending) = wire
         /\ Run(pending, Taken, Len(pending))
<1>1. /\ stream \in Seq(Classes) /\ wire \in 0..Len(stream)
      /\ pending \in Seq(1..Len(stream)) /\ Len(pending) <= BlockSize
  BY DEF ParseTyped
<1>2. Len(stream) \in Nat /\ Len(pending) \in Nat
  BY <1>1, LenProperties, Zenon
<1>3. Run(pending, Taken, Len(pending)) /\ Taken \in Nat /\ Taken = wire - Len(pending)
  BY DEF PendingTail, Run, Taken
<1>4. wire \in Nat /\ wire <= Len(stream)
  BY <1>1, <1>2
<1>5. Taken + Len(pending) = wire
  BY <1>2, <1>3, <1>4
<1> QED BY <1>1, <1>2, <1>3, <1>4, <1>5

\* What is read comes next on the connection, and leaves what comes after it.
LEMMA ReceiptNext ==
  ASSUME ParseTyped, PendingTail, UNCHANGED stream, NEW length \in Nat, NEW halt \in BOOLEAN,
         NEW r \in Receipts(length, halt), Take(r)
  PROVE  /\ r.old \in Nat /\ r.new \in Nat /\ r.old + r.new <= length
         /\ Got(r) \in Seq(1..Len(stream)) /\ Run(Got(r), Taken, r.old + r.new)
         /\ wire' \in 0..Len(stream) /\ pending' \in Seq(1..Len(stream))
         /\ Len(pending') \in Nat /\ Len(pending') <= Len(pending) /\ Len(pending') = Len(pending) - r.old
         /\ Taken' = Taken + r.old + r.new /\ PendingTail'
         /\ halt /\ pending # <<>> => r.new = 0
         /\ r.old = Smaller(Len(pending), length)
<1> DEFINE n == Len(stream)
           m == Len(pending)
           b == Taken
           o == r.old
           k == r.new
           S == 1..n
<1>1. /\ n \in Nat /\ m \in Nat /\ wire \in Nat /\ wire <= n /\ pending \in Seq(S)
      /\ b \in Nat /\ b + m = wire /\ Run(pending, b, m)
  BY PendingRun
<1>2. /\ o = Smaller(m, length) /\ length \in Nat
      /\ k \in 0..Smaller(length - o, n - wire)
      /\ halt /\ o > 0 => k = 0
  <2> HIDE DEF n, m
  <2>1. r = [old |-> Smaller(m, length), new |-> r.new] /\ (halt /\ Smaller(m, length) > 0 => r.new = 0)
        /\ (r.new = 0 \/ r.new \in 0..Smaller(length - Smaller(m, length), n - wire))
    BY DEF Receipts, n, m
  <2>2. r.old = Smaller(m, length)
    BY <2>1
  <2>3. 0 \in 0..Smaller(length - Smaller(m, length), n - wire)
    BY <1>1 DEF Smaller
  <2> QED BY <2>1, <2>2, <2>3
<1>3. wire' = wire + k /\ pending' = SubSeq(pending, o + 1, m)
  BY DEF Take
<1>4. Got(r) = SubSeq(pending, 1, o) \o Numbers(wire + 1, wire + k)
  BY DEF Got
<1>5. pending # <<>> => m > 0
  <2>1. pending = <<>> \/ Len(pending) \in Nat \ {0}
    BY <1>1, EmptySeq
  <2> QED BY <2>1
<1>6. Len(stream)' = n
  OBVIOUS
<1>7. r.old = o /\ r.new = k /\ Len(stream) = n /\ Len(pending) = m /\ Taken = b
  OBVIOUS
<1> HIDE DEF n, m, b, o, k
<1>8. /\ o \in Nat /\ o <= m /\ o <= length /\ k \in Nat /\ o + k <= length /\ wire + k <= n
      /\ (o < m => k = 0) /\ (m > 0 /\ length > 0 => o > 0)
  BY <1>1, <1>2 DEF Smaller
<1>9. Numbers(wire + 1, wire + k) \in Seq(S) /\ Run(Numbers(wire + 1, wire + k), wire, k)
  BY <1>1, <1>8, NumbersRun
<1> HIDE DEF S
<1>10. /\ SubSeq(pending, 1, o) \in Seq(S) /\ Run(SubSeq(pending, 1, o), b, o)
       /\ pending' \in Seq(S) /\ Run(pending', b + o, m - o)
  <2>1. m = Len(pending)
    BY <1>7
  <2> QED BY <1>1, <1>3, <1>8, <2>1, RunCut
<1>11. Got(r) \in Seq(S) /\ Run(Got(r), b, o + k)
  <2>1. CASE k = 0
    <3>1. Run(Numbers(wire + 1, wire + k), b + o, k)
      BY <1>9, <2>1 DEF Run
    <3> DEFINE s == SubSeq(pending, 1, o)
               t == Numbers(wire + 1, wire + k)
    <3>2. s \in Seq(S) /\ t \in Seq(S) /\ Run(s, b, o) /\ Run(t, b + o, k) /\ Got(r) = s \o t
      BY <1>4, <1>9, <1>10, <3>1
    <3> HIDE DEF s, t
    <3> QED BY <3>2, <1>1, <1>8, RunJoin
  <2>2. CASE k # 0
    <3>1. o = m /\ b + o = wire
      BY <1>1, <1>8, <2>2
    <3> DEFINE s == SubSeq(pending, 1, o)
               t == Numbers(wire + 1, wire + k)
    <3>2. s \in Seq(S) /\ t \in Seq(S) /\ Run(s, b, o) /\ Run(t, b + o, k) /\ Got(r) = s \o t
      BY <1>4, <1>9, <1>10, <3>1
    <3> HIDE DEF s, t
    <3> QED BY <3>2, <1>1, <1>8, RunJoin
  <2> QED BY <2>1, <2>2
<1>12. Len(pending') = m - o
  BY <1>10 DEF Run
<1>13. Taken' = b + o + k
  BY <1>1, <1>3, <1>8, <1>12 DEF Taken
<1>14. PendingTail'
  <2>1. ASSUME NEW i \in 1..(m - o) PROVE pending'[i] = (b + o + k) + i
    <3>1. pending'[i] = (b + o) + i
      BY <1>10 DEF Run
    <3>2. k = 0
      BY <1>1, <1>8
    <3> QED BY <3>1, <3>2, <1>1, <1>8
  <2>2. b + o + k \in Nat
    BY <1>1, <1>8
  <2> QED BY <2>1, <2>2, <1>12, <1>13 DEF PendingTail
<1>15. halt /\ pending # <<>> => k = 0
  BY <1>1, <1>2, <1>5, <1>8
<1>16. wire' \in 0..n
  BY <1>1, <1>3, <1>8
<1>17. Len(pending') \in Nat /\ Len(pending') <= m
  BY <1>1, <1>8, <1>12
<1>18. S = 1..n
  BY DEF S
<1> QED BY <1>2, <1>7, <1>8, <1>10, <1>11, <1>12, <1>13, <1>14, <1>15, <1>16, <1>17, <1>18

---------------------------------------------------------------------------
(* Numbers and places in a state.                                           *)

\* The types of a state, one by one.
LEMMA Numbered ==
  ASSUME ParseTyped
  PROVE  /\ BlockSize \in Nat \ {0} /\ ScratchSize \in Nat \ {0}
         /\ scratch \in Seq(0..Len(stream)) /\ Len(scratch) \in Nat /\ Len(scratch) <= ScratchSize
         /\ offset \in Nat /\ offset <= ScratchSize /\ at \in Nat /\ at <= ScratchSize
         /\ used \in Nat /\ remaining \in Nat
         /\ parser \in Parsers /\ Status \in Statuses /\ parser.paused \in BOOLEAN
         /\ parser.at \in Nat /\ parser.length \in Nat
         /\ parser.pre_parsed \in Nat /\ parser.pre_parsed <= BlockSize
<1>1. BlockSize \in Nat \ {0} /\ ScratchSize \in Nat \ {0}
  BY ParseAssumption
<1>2. /\ scratch \in Seq(0..Len(stream)) /\ Len(scratch) <= ScratchSize
      /\ offset \in 0..ScratchSize /\ at \in 0..ScratchSize
      /\ used \in Nat /\ remaining \in Nat /\ parser \in Parsers
  BY DEF ParseTyped
<1>3. Len(scratch) \in Nat
  BY <1>2, LenProperties, Zenon
<1>4. /\ Status \in Statuses /\ parser.paused \in BOOLEAN
      /\ parser.at \in Nat /\ parser.length \in Nat /\ parser.pre_parsed \in 0..BlockSize
  BY <1>2 DEF Parsers, Status
<1>5. offset \in Nat /\ offset <= ScratchSize /\ at \in Nat /\ at <= ScratchSize
  BY <1>1, <1>2
<1>6. parser.pre_parsed \in Nat /\ parser.pre_parsed <= BlockSize
  BY <1>1, <1>4
<1> QED BY <1>1, <1>2, <1>3, <1>4, <1>5, <1>6

\* What a step has to leave well typed.
LEMMA StillTyped ==
  ASSUME ParseTyped, UNCHANGED client,
         wire' \in 0..Len(stream), pending' \in Seq(1..Len(stream)), Len(pending') <= BlockSize,
         phase' \in Phases, nth' \in 1..Len(plan),
         scratch' \in Seq(0..Len(stream)), Len(scratch') <= ScratchSize,
         offset' \in 0..ScratchSize, at' \in 0..ScratchSize, remaining' \in Nat,
         parser' \in Parsers, error' \in {NoError, "url", "syntax", "upgrade", "too big"}, used' \in Nat
  PROVE  ParseTyped'
<1>1. plan' = plan /\ stream' = stream
  BY DEF client
<1>2. Parsers' = Parsers
  BY DEF Parsers
<1>3. /\ Len(plan) \in Nat /\ plan \in [1..Len(plan) -> Requests] /\ Shape(plan, stream)
      /\ stream \in Seq(Classes)
  BY DEF ParseTyped
<1> QED BY <1>1, <1>2, <1>3 DEF ParseTyped

\* The socket gives no more than the client sends.
LEMMA StreamEnd ==
  ASSUME ParseTyped
  PROVE  Len(stream) \in Nat /\ wire \in Nat /\ wire <= Len(stream)
<1>1. stream \in Seq(Classes) /\ wire \in 0..Len(stream)
  BY DEF ParseTyped
<1>2. Len(stream) \in Nat
  BY <1>1, LenProperties, Zenon
<1> QED BY <1>1, <1>2

\* The bytes in scratch that are not parsed yet are as they came.
LEMMA Unmarked ==
  ASSUME ParseTyped, Progress
  PROVE  Source \in Nat /\ Mark \in Nat /\ Mark <= used + 1
<1>1. Before \in Nat /\ LineEnd \in Nat
  BY Places DEF Layout
<1>2. used \in Nat /\ parser.at \in Nat /\ parser.length \in Nat
  BY Numbered
<1>3. Status = "VALUE" => ValueEnd \in Nat /\ ValueEnd <= used + 1
  BY <1>1, <1>2 DEF Progress, ValueEnd
<1> QED BY <1>1, <1>2, <1>3 DEF Source, Mark

---------------------------------------------------------------------------
(* The blocks.                                                              *)

\* read_block keeps the invariant (httpd_parse.c:383-410).
LEMMA ReadBlockKeeps ==
  ASSUME ParseInv, ReadBlock
  PROVE  ParseInv'
<1> DEFINE n == Len(stream)
           c == Len(scratch)
<1>1. /\ ParseTyped /\ PendingTail /\ Reading /\ Refused /\ inOrder = TRUE /\ phase = "read"
  BY DEF ParseInv, ReadBlock
<1>2. /\ Status \notin {"COMPLETE", "FAILED"} /\ Progress /\ Text(offset)
      /\ pending # <<>> => offset = 0 /\ Len(pending) <= ScratchSize
      /\ parser.paused => /\ PutBack /\ offset = 0
                          /\ parser.pre_parsed = used - LineEnd /\ parser.pre_parsed <= Len(pending)
      /\ ~parser.paused => /\ used = Source + offset /\ used = Taken
                           /\ offset = Len(scratch) /\ parser.pre_parsed = 0
  BY <1>1 DEF Reading
<1>3. /\ UNCHANGED <<plan, stream, hangup, nth, offset, at, remaining, parser, error, used, inOrder>>
      /\ phase' = "block" /\ Room > 0
  BY DEF ReadBlock, client, bytes
<1>4. PICK r \in Receipts(Room, TRUE) :
        Some(r) /\ Take(r) /\ scratch' = SubSeq(scratch, 1, offset) \o Got(r)
  BY DEF ReadBlock
<1>5. /\ BlockSize \in Nat \ {0} /\ ScratchSize \in Nat \ {0}
      /\ scratch \in Seq(0..n) /\ c \in Nat /\ c <= ScratchSize
      /\ offset \in Nat /\ offset <= ScratchSize /\ used \in Nat /\ at \in Nat /\ at <= ScratchSize
      /\ parser.pre_parsed \in Nat
  BY <1>1, Numbered
<1>6. Room \in Nat /\ Room <= BlockSize /\ Room <= ScratchSize - offset /\ Room = Smaller(BlockSize, ScratchSize - offset)
  BY <1>3, <1>5 DEF Room, Smaller
<1>7. /\ r.old \in Nat /\ r.new \in Nat /\ r.old + r.new <= Room
      /\ Got(r) \in Seq(1..n) /\ Run(Got(r), Taken, r.old + r.new)
      /\ wire' \in 0..n /\ pending' \in Seq(1..n)
      /\ Len(pending') \in Nat /\ Len(pending') <= Len(pending) /\ Len(pending') = Len(pending) - r.old
      /\ Taken' = Taken + r.old + r.new /\ PendingTail'
      /\ r.old = Smaller(Len(pending), Room)
  BY <1>1, <1>3, <1>4, <1>6, ReceiptNext
<1>8. /\ n \in Nat /\ Len(pending) \in Nat /\ Len(pending) <= BlockSize /\ Taken \in Nat
  BY <1>1, PendingRun
<1>9. Source \in Nat /\ Mark \in Nat /\ Mark <= used + 1
  BY <1>1, <1>2, Unmarked
<1>10. /\ Source' = Source /\ Mark' = Mark /\ Status' = Status /\ Progress' = Progress
       /\ LineEnd' = LineEnd
  <2>1. This' = This /\ Before' = Before /\ LineEnd' = LineEnd /\ HeadEnd' = HeadEnd
    BY <1>3, SamePlaces
  <2>2. Status' = Status /\ ValueEnd' = ValueEnd
    BY <1>3, <2>1 DEF Status, ValueEnd
  <2>3. InFirstLine' = InFirstLine
    BY <1>1, <1>3, <2>2 DEF InFirstLine
  <2>4. Source' = Source /\ Mark' = Mark
    BY <1>3, <2>1, <2>2, <2>3 DEF Source, Mark
  <2>5. Progress' = Progress
    BY <1>3, <2>1, <2>2 DEF Progress
  <2> QED BY <2>1, <2>2, <2>4, <2>5
<1>11. offset <= c
  BY <1>2, <1>5
<1>12. Source + offset = Taken
  <2>1. CASE parser.paused
    <3>1. Status = "FIELD" /\ Taken = LineEnd /\ offset = 0
      BY <1>2, <2>1 DEF PutBack
    <3>2. Source = LineEnd
      BY <1>1, <3>1 DEF Source, InFirstLine
    <3> QED BY <3>1, <3>2, <1>9
  <2>2. CASE ~parser.paused
    BY <1>2, <2>2
  <2> QED BY <2>1, <2>2
<1> DEFINE N == r.old + r.new
           h == SubSeq(scratch, 1, offset)
           g == Got(r)
<1>13. /\ h \in Seq(0..n) /\ Len(h) = offset /\ \A i \in 1..offset : h[i] = scratch[i]
  BY <1>5, <1>11, Cut
<1>14. /\ g \in Seq(0..n) /\ Len(g) = N /\ \A i \in 1..N : g[i] = Taken + i
  <2>1. Seq(1..n) \subseteq Seq(0..n)
    <3>1. 1..n \subseteq 0..n
      BY <1>8
    <3> QED BY <3>1
  <2> QED BY <2>1, <1>7 DEF Run
<1>15. scratch' = h \o g
  BY <1>4
<1>16. N \in Nat /\ N <= Room /\ r.old <= N /\ N = r.old + r.new
  BY <1>7
<1> HIDE DEF n, h, g, N
<1>17. /\ scratch' \in Seq(0..n) /\ Len(scratch') = offset + N
       /\ \A i \in 1..offset : scratch'[i] = h[i]
       /\ \A i \in 1..N : scratch'[offset + i] = g[i]
  <2> DEFINE S == 0..n
  <2>1. /\ h \o g \in Seq(S) /\ Len(h \o g) = Len(h) + Len(g)
        /\ \A i \in 1..Len(h) : (h \o g)[i] = h[i]
        /\ \A i \in 1..Len(g) : (h \o g)[Len(h) + i] = g[i]
    <3>1. h \in Seq(S) /\ g \in Seq(S)
      BY <1>13, <1>14
    <3> HIDE DEF S
    <3> QED BY <3>1, Joint
  <2> QED BY <2>1, <1>13, <1>14, <1>15
<1>18. Text(Len(scratch))'
  <2> SUFFICES ASSUME NEW i \in 1..Len(scratch')
               PROVE scratch'[i] = IF stream[Source + i] = "line" /\ Source + i < Mark THEN 0 ELSE Source + i
    BY <1>3, <1>10 DEF Text
  <2>1. CASE i <= offset
    <3>1. i \in 1..offset
      BY <2>1, <1>5, <1>16, <1>17
    <3>2. scratch'[i] = scratch[i]
      BY <3>1, <1>13, <1>17
    <3> QED BY <3>1, <3>2, <1>2 DEF Text
  <2>2. CASE ~(i <= offset)
    <3>1. PICK j \in 1..N : i = offset + j
      <4>1. i - offset \in 1..N /\ i = offset + (i - offset)
        BY <2>2, <1>5, <1>16, <1>17
      <4> QED BY <4>1
    <3>2. scratch'[i] = Taken + j
      BY <3>1, <1>14, <1>17
    <3>3. Taken + j = Source + i
      BY <3>1, <1>5, <1>8, <1>9, <1>12
    <3>4. ~(stream[Source + i] = "line" /\ Source + i < Mark)
      <4>1. CASE parser.paused
        <5>1. Status = "FIELD" /\ Taken = LineEnd /\ \A k \in (LineEnd + 1)..used : stream[k] # "line"
          BY <1>2, <4>1 DEF PutBack
        <5>2. LineEnd + j = Source + i
          BY <3>3, <5>1
        <5>3. LineEnd \in Nat /\ j \in Nat \ {0}
          BY <5>1, <1>8, <1>16
        <5>4. CASE Source + i <= used
          <6>1. Source + i \in (LineEnd + 1)..used
            BY <5>2, <5>3, <5>4, <1>5
          <6> QED BY <6>1, <5>1
        <5>5. CASE ~(Source + i <= used)
          BY <5>5, <5>2, <5>3, <1>5, <1>9
        <5> QED BY <5>4, <5>5
      <4>2. CASE ~parser.paused
        <5>1. Source + i = used + j
          BY <3>3, <4>2, <1>2
        <5> QED BY <5>1, <1>5, <1>9, <1>16
      <4> QED BY <4>1, <4>2
    <3> QED BY <3>2, <3>3, <3>4
  <2> QED BY <2>1, <2>2
<1>19. pending' = <<>> /\ Len(pending') = 0 /\ r.old = Len(pending)
  <2>1. CASE pending = <<>>
    <3>1. Len(pending) = 0
      BY <2>1
    <3>2. Smaller(0, Room) = 0
      BY <1>6 DEF Smaller
    <3>3. Len(pending') = 0 /\ r.old = 0
      BY <3>1, <3>2, <1>7
    <3> QED BY <3>1, <3>3, <1>7, EmptySeq
  <2>2. CASE pending # <<>>
    <3>1. Room >= Len(pending)
      BY <2>2, <1>2, <1>5, <1>6, <1>8 DEF Smaller
    <3>2. r.old = Len(pending)
      BY <3>1, <1>6, <1>7, <1>8 DEF Smaller
    <3>3. Len(pending') = 0
      BY <3>2, <1>7, <1>8
    <3> QED BY <3>2, <3>3, <1>7, EmptySeq
  <2> QED BY <2>1, <2>2
<1>20. Source' + Len(scratch') = wire'
  <2>1. wire' \in Nat
    BY <1>7, <1>8 DEF n
  <2>2. Taken' = wire'
    <3>1. Len(pending') = 0
      BY <1>19
    <3>2. Taken' = wire' - Len(pending')
      BY DEF Taken
    <3>3. \A x, y, z : x \in Nat /\ y = 0 /\ z = x - y => z = x
      OBVIOUS
    <3> QED BY <2>1, <3>1, <3>2, <3>3, Zenon
  <2>3. Taken' = Taken + N
    <3>1. \A x, y, z \in Nat : x + y + z = x + (y + z)
      OBVIOUS
    <3>2. r.old \in Nat /\ r.new \in Nat /\ Taken' = Taken + r.old + r.new
      BY <1>7
    <3>3. Taken + r.old + r.new = Taken + (r.old + r.new)
      BY <3>1, <3>2, <1>8
    <3> QED BY <3>2, <3>3, <1>16
  <2>4. Len(scratch') = offset + N /\ Source' = Source
    BY <1>10, <1>17
  <2>5. offset \in Nat /\ Source \in Nat /\ Taken \in Nat /\ N \in Nat
    BY <1>5, <1>8, <1>9, <1>16
  <2>6. Source + (offset + N) = Taken + N
    BY <2>5, <1>12
  <2>7. wire' = Taken + N
    BY <2>2, <2>3, Zenon
  <2> QED BY <2>4, <2>6, <2>7, Zenon
<1>21. Block'
  <2>1. Status' \notin {"COMPLETE", "FAILED"} /\ Progress'
    BY <1>2, <1>10
  <2>2. offset' <= Len(scratch') /\ Len(scratch') - offset' <= BlockSize
    BY <1>3, <1>5, <1>6, <1>16, <1>17
  <2>3. parser'.paused => /\ Status' = "FIELD" /\ offset' = 0
                          /\ parser'.pre_parsed = used' - LineEnd' /\ parser'.pre_parsed <= Len(scratch')
    <3> SUFFICES ASSUME parser.paused
                 PROVE  /\ Status = "FIELD" /\ offset = 0
                        /\ parser.pre_parsed = used - LineEnd /\ parser.pre_parsed <= Len(scratch')
      BY <1>3, <1>10
    <3>1. Status = "FIELD" /\ offset = 0 /\ parser.pre_parsed = used - LineEnd /\ parser.pre_parsed <= Len(pending)
      BY <1>2 DEF PutBack
    <3> QED BY <3>1, <1>5, <1>8, <1>16, <1>17, <1>19
  <2>4. ~parser'.paused => used' = Source' + offset' /\ parser'.pre_parsed = 0
    BY <1>2, <1>3, <1>10
  <2> QED BY <2>1, <2>2, <2>3, <2>4, <1>18, <1>19, <1>20 DEF Block
<1>22. ParseTyped'
  <2>1. Len(pending') <= BlockSize /\ Len(scratch') <= ScratchSize
    <3>1. Len(scratch') = offset + N
      BY <1>17
    <3>2. Len(pending') = 0
      BY <1>19
    <3> QED BY <3>1, <3>2, <1>5, <1>6, <1>16
  <2>2. phase' \in Phases
    BY <1>3 DEF Phases
  <2>3. UNCHANGED client
    BY <1>3 DEF client
  <2>4. /\ nth' \in 1..Len(plan) /\ offset' \in 0..ScratchSize /\ at' \in 0..ScratchSize /\ remaining' \in Nat
        /\ parser' \in Parsers /\ error' \in {NoError, "url", "syntax", "upgrade", "too big"} /\ used' \in Nat
    BY <1>1, <1>3 DEF ParseTyped
  <2> QED BY <2>1, <2>2, <2>3, <2>4, <1>1, <1>7, <1>17, StillTyped DEF n
<1>23. Reading' /\ ByteByByte' /\ Completed' /\ Refused'
  BY <1>1, <1>3 DEF Reading, ByteByByte, Completed, Refused
<1> QED BY <1>1, <1>3, <1>7, <1>21, <1>22, <1>23 DEF ParseInv

\* How far the parser is changes with what it called back only.
LEMMA SameProgress ==
  ASSUME UNCHANGED <<plan, stream, nth, remaining, used>>,
         parser'.status = parser.status, parser'.at = parser.at, parser'.length = parser.length
  PROVE  /\ Status' = Status /\ ValueEnd' = ValueEnd /\ Progress' = Progress
         /\ This' = This /\ Before' = Before /\ LineEnd' = LineEnd /\ HeadEnd' = HeadEnd
         /\ Ends(plan, nth)' = Ends(plan, nth)
<1>1. /\ This' = This /\ Before' = Before /\ LineEnd' = LineEnd /\ HeadEnd' = HeadEnd
      /\ Ends(plan, nth)' = Ends(plan, nth)
  BY SamePlaces
<1>2. Status' = Status /\ ValueEnd' = ValueEnd
  BY <1>1 DEF Status, ValueEnd
<1>3. Progress' = Progress
  BY <1>1, <1>2 DEF Progress
<1> QED BY <1>1, <1>2, <1>3

\* What is pending changes with it or the socket only.
LEMMA SameTail ==
  ASSUME PendingTail, UNCHANGED <<wire, pending>>
  PROVE  PendingTail' /\ Taken' = Taken
BY DEF PendingTail, Taken

\* No room in scratch: the request is refused for its size (httpd_parse.c:419-433), and it
\* is that big.
LEMMA TooBigKeeps ==
  ASSUME ParseInv, TooBig
  PROVE  ParseInv'
<1>1. ParseTyped /\ PendingTail /\ Reading /\ inOrder = TRUE /\ phase = "read"
  BY DEF ParseInv, TooBig
<1>2. /\ UNCHANGED <<client, plan, stream, hangup, wire, pending, nth, scratch, offset, at, remaining, parser, used, inOrder>>
      /\ phase' = "refused" /\ error' = "too big" /\ Room = 0
  BY DEF TooBig, client, bytes
<1>3. /\ BlockSize \in Nat \ {0} /\ ScratchSize \in Nat \ {0}
      /\ offset \in Nat /\ offset <= ScratchSize /\ used \in Nat
  BY <1>1, Numbered
<1>4. offset = ScratchSize
  <2>1. Room = 0 /\ Room = Smaller(BlockSize, ScratchSize - offset)
    BY <1>2 DEF Room
  <2>2. BlockSize > 0 /\ ScratchSize - offset \in Int /\ ScratchSize - offset >= 0
    BY <1>3
  <2>3. ScratchSize - offset = 0
    BY <2>1, <2>2 DEF Smaller
  <2> QED BY <2>3, <1>3
<1>5. /\ Status \notin {"COMPLETE", "FAILED"} /\ Progress
      /\ used = Source + offset
  BY <1>1, <1>3, <1>4 DEF Reading
<1>6. /\ This.body \in Nat /\ Before \in Nat /\ LineEnd \in Nat /\ HeadEnd \in Nat
      /\ Before + 4 <= LineEnd
      /\ LineOf(This) = LineEnd - Before /\ HeaderOf(This) = HeadEnd - LineEnd
  BY <1>1, Places DEF Layout
<1>7. \/ LineOf(This) + 1 > ScratchSize
      \/ HeaderOf(This) + (IF This.body > 0 THEN 1 ELSE 0) > ScratchSize
  <2>1. CASE Status \in {"IDLE", "URL"}
    <3>1. Source = Before
      BY <2>1 DEF Source, InFirstLine
    <3>2. used <= LineEnd
      BY <1>5, <1>6, <2>1 DEF Progress
    <3> QED BY <3>1, <3>2, <1>3, <1>4, <1>5, <1>6
  <2>2. CASE Status \in {"FIELD", "VALUE"}
    <3>1. Source = LineEnd
      BY <1>1, <2>2 DEF Source, InFirstLine
    <3>2. used < HeadEnd
      BY <1>5, <2>2 DEF Progress
    <3>3. HeaderOf(This) > ScratchSize /\ HeaderOf(This) \in Int
      BY <3>1, <3>2, <1>3, <1>4, <1>5, <1>6
    <3> QED BY <3>3, <1>3
  <2>3. CASE Status = "BODY"
    <3>1. Source = LineEnd
      BY <1>1, <2>3 DEF Source, InFirstLine
    <3>2. used = HeadEnd /\ This.body > 0
      BY <1>5, <2>3 DEF Progress
    <3>3. HeaderOf(This) = ScratchSize
      <4>1. HeadEnd = LineEnd + ScratchSize
        BY <3>1, <3>2, <1>4, <1>5
      <4> QED BY <4>1, <1>3, <1>6
    <3> QED BY <3>2, <3>3, <1>3
  <2>4. Status \in Statuses
    BY <1>1, Numbered
  <2> QED BY <2>1, <2>2, <2>3, <2>4, <1>5 DEF Statuses
<1>8. TooBigIsBig'
  BY <1>2, <1>7 DEF TooBigIsBig, This
<1>9. ParseTyped'
  <2>1. phase' \in Phases /\ error' \in {NoError, "url", "syntax", "upgrade", "too big"}
    BY <1>2 DEF Phases
  <2> QED BY <2>1, <1>1, <1>2 DEF ParseTyped, Parsers
<1>10. Reading' /\ Block' /\ ByteByByte' /\ Completed' /\ Refused'
  BY <1>2, <1>8 DEF Reading, Block, ByteByByte, Completed, Refused
<1> QED BY <1>1, <1>2, <1>9, <1>10, SameTail DEF ParseInv

\* The thread leaves the parser, or the connection.
LEMMA LeavesKeep ==
  ASSUME ParseInv, NoMore \/ PurgeFails \/ HandlerReturns
  PROVE  ParseInv'
<1>1. /\ ParseTyped /\ PendingTail /\ Completed /\ Refused /\ inOrder = TRUE
      /\ phase \in {"read", "handler", "purge"}
  BY DEF ParseInv, NoMore, PurgeFails, HandlerReturns
<1>2. /\ UNCHANGED <<client, plan, stream, hangup, wire, pending, nth, scratch, offset, at, remaining, parser, error, used, inOrder>>
      /\ phase' = "closed" \/ (phase = "handler" /\ phase' = "purge")
  BY DEF NoMore, PurgeFails, HandlerReturns, client, bytes
<1>3. ParseTyped'
  <2>1. phase' \in Phases
    BY <1>2 DEF Phases
  <2> QED BY <2>1, <1>1, <1>2 DEF ParseTyped, Parsers
<1>4. Completed'
  <2>1. Served' = Served
    BY <1>2 DEF Served, Taken
  <2> QED BY <2>1, <1>1, <1>2 DEF Completed
<1>5. Reading' /\ Block' /\ ByteByByte' /\ Refused'
  BY <1>1, <1>2 DEF Reading, Block, ByteByByte, Refused
<1> QED BY <1>1, <1>2, <1>3, <1>4, <1>5, SameTail DEF ParseInv

\* continue_parsing skips what was parsed of the bytes that were put back, and nothing else
\* (httpd_parse.c:169-183).
LEMMA ContinueKeeps ==
  ASSUME ParseInv, Continue
  PROVE  ParseInv'
<1>1. ParseTyped /\ PendingTail /\ Block /\ Refused /\ inOrder = TRUE /\ phase = "block"
  BY DEF ParseInv, Continue
<1>2. /\ UNCHANGED <<client, plan, stream, hangup, wire, pending, nth, scratch, offset, remaining, error, used, inOrder>>
      /\ phase' = "parse" /\ at' = offset + Skip
      /\ parser' = [parser EXCEPT !.paused = FALSE, !.pre_parsed = @ - Skip]
  BY DEF Continue, client, bytes
<1>3. /\ BlockSize \in Nat \ {0} /\ ScratchSize \in Nat \ {0}
      /\ Len(scratch) \in Nat /\ Len(scratch) <= ScratchSize
      /\ offset \in Nat /\ offset <= ScratchSize /\ used \in Nat
      /\ parser \in Parsers /\ parser.pre_parsed \in Nat /\ parser.paused \in BOOLEAN
  BY <1>1, Numbered
<1>4. /\ Status \notin {"COMPLETE", "FAILED"} /\ Progress /\ Text(Len(scratch))
      /\ pending = <<>> /\ Source + Len(scratch) = wire
      /\ offset <= Len(scratch) /\ Len(scratch) - offset <= BlockSize
      /\ parser.paused => /\ Status = "FIELD" /\ offset = 0
                          /\ parser.pre_parsed = used - LineEnd /\ parser.pre_parsed <= Len(scratch)
      /\ ~parser.paused => used = Source + offset /\ parser.pre_parsed = 0
  BY <1>1 DEF Block
<1>5. parser' = [status |-> parser.status, at |-> parser.at, length |-> parser.length,
                 paused |-> FALSE, pre_parsed |-> parser.pre_parsed - Skip]
  BY <1>2, <1>3 DEF Parsers
<1>6. /\ Skip = parser.pre_parsed /\ offset <= at' /\ at' <= Len(scratch) /\ at' \in Nat
      /\ parser.pre_parsed - Skip = 0
  <2>1. Skip = parser.pre_parsed /\ parser.pre_parsed <= Len(scratch) - offset
    BY <1>3, <1>4 DEF Skip, Smaller
  <2> QED BY <2>1, <1>2, <1>3
<1>7. /\ parser'.status = parser.status /\ parser'.at = parser.at /\ parser'.length = parser.length
      /\ parser'.paused = FALSE /\ parser'.pre_parsed = 0
  BY <1>5, <1>6
<1>8. /\ Status' = Status /\ ValueEnd' = ValueEnd /\ Progress' = Progress
      /\ This' = This /\ Before' = Before /\ LineEnd' = LineEnd /\ HeadEnd' = HeadEnd
  BY <1>2, <1>7, SameProgress
<1>9. Source' = Source /\ Mark' = Mark
  <2>1. InFirstLine' = InFirstLine
    BY <1>1, <1>2, <1>7, <1>8 DEF InFirstLine
  <2> QED BY <2>1, <1>2, <1>8 DEF Source, Mark
<1>10. Text(Len(scratch))'
  BY <1>2, <1>4, <1>9 DEF Text
<1>11. used = Source + at'
  <2>1. CASE parser.paused
    <3>1. Source = LineEnd
      BY <1>1, <1>4, <2>1 DEF Source, InFirstLine
    <3>2. LineEnd \in Nat
      BY <1>1, Places DEF Layout
    <3> QED BY <3>1, <3>2, <1>2, <1>3, <1>4, <1>6, <2>1
  <2>2. CASE ~parser.paused
    BY <1>2, <1>3, <1>4, <1>6, <2>2
  <2> QED BY <2>1, <2>2
<1>12. ByteByByte'
  BY <1>2, <1>4, <1>6, <1>7, <1>8, <1>9, <1>10, <1>11 DEF ByteByByte
<1>13. ParseTyped'
  <2>1. parser' \in Parsers
    BY <1>3, <1>5, <1>6 DEF Parsers
  <2>2. phase' \in Phases
    BY <1>2 DEF Phases
  <2>3. at' \in 0..ScratchSize
    BY <1>3, <1>6
  <2>4. /\ nth \in 1..Len(plan) /\ offset \in 0..ScratchSize /\ remaining \in Nat
        /\ error \in {NoError, "url", "syntax", "upgrade", "too big"} /\ used \in Nat
        /\ wire \in 0..Len(stream) /\ pending \in Seq(1..Len(stream)) /\ Len(pending) <= BlockSize
        /\ scratch \in Seq(0..Len(stream)) /\ Len(scratch) <= ScratchSize
    BY <1>1 DEF ParseTyped
  <2> QED BY <2>1, <2>2, <2>3, <2>4, <1>1, <1>2, StillTyped
<1>14. Reading' /\ Block' /\ Completed' /\ Refused'
  <2>1. Status' \notin {"COMPLETE", "FAILED"} /\ error' # "too big"
    BY <1>1, <1>2, <1>4, <1>8 DEF Refused
  <2> QED BY <2>1, <1>2 DEF Reading, Block, Completed, Refused
<1> QED BY <1>1, <1>2, <1>12, <1>13, <1>14, SameTail DEF ParseInv

\* The end of a block: a pause goes back to the start of scratch, a block that ran out leaves
\* the next one its place behind it (httpd_parse.c:449-470).
LEMMA BlockEndKeeps ==
  ASSUME ParseInv, BlockEnd
  PROVE  ParseInv'
<1>1. ParseTyped /\ PendingTail /\ ByteByByte /\ Completed /\ Refused /\ inOrder = TRUE /\ phase = "parse" /\ Stopped
  BY DEF ParseInv, BlockEnd
<1>2. /\ UNCHANGED <<client, plan, stream, hangup, wire, pending, nth, scratch, at, remaining, error, used, inOrder>>
      /\ parser' = IF parser.paused THEN [parser EXCEPT !.pre_parsed = @ - (Len(scratch) - at)] ELSE parser
      /\ offset' = IF parser.paused THEN 0 ELSE Len(scratch)
      /\ phase' = CASE Status = "FAILED" -> "refused" [] Status = "COMPLETE" -> "handler" [] OTHER -> "read"
  BY DEF BlockEnd, client, bytes
<1>3. /\ BlockSize \in Nat \ {0} /\ ScratchSize \in Nat \ {0}
      /\ Len(scratch) \in Nat /\ Len(scratch) <= ScratchSize
      /\ offset \in Nat /\ offset <= ScratchSize /\ at \in Nat /\ used \in Nat
      /\ parser \in Parsers /\ parser.pre_parsed \in Nat /\ parser.pre_parsed <= BlockSize
      /\ parser.paused \in BOOLEAN /\ Status \in Statuses
  BY <1>1, Numbered
<1>4. /\ Before \in Nat /\ LineEnd \in Nat /\ LineOf(This) = LineEnd - Before /\ Before + 4 <= LineEnd
  BY <1>1, Places DEF Layout
<1>5. /\ wire \in Nat /\ Len(pending) \in Nat /\ Taken \in Nat /\ Taken + Len(pending) = wire
      /\ Len(pending) <= BlockSize
  BY <1>1, PendingRun
<1> DEFINE left == Len(scratch) - at
           rest == parser.pre_parsed - left
<1>14. left = Len(scratch) - at /\ rest = parser.pre_parsed - (Len(scratch) - at)
  OBVIOUS
<1>6. parser.paused => parser' = [status |-> parser.status, at |-> parser.at, length |-> parser.length,
                                  paused |-> TRUE, pre_parsed |-> rest]
  BY <1>2, <1>3 DEF Parsers
<1> HIDE DEF left, rest
<1>15. parser.paused /\ rest \in Nat /\ rest <= BlockSize => parser' \in Parsers
  <2> SUFFICES ASSUME parser.paused, rest \in Nat, rest <= BlockSize PROVE parser' \in Parsers
    OBVIOUS
  <2>1. parser.status \in Statuses /\ parser.at \in Nat /\ parser.length \in Nat
    BY <1>3 DEF Parsers
  <2>2. rest \in 0..BlockSize
    BY <1>3
  <2>3. parser' = [status |-> parser.status, at |-> parser.at, length |-> parser.length,
                   paused |-> TRUE, pre_parsed |-> rest]
    BY <1>6
  <2> QED BY <2>1, <2>2, <2>3 DEF Parsers
<1>7. parser'.status = parser.status /\ parser'.at = parser.at /\ parser'.length = parser.length
      /\ parser'.paused = parser.paused
  BY <1>2, <1>3, <1>6 DEF Parsers
<1>8. /\ Status' = Status /\ Progress' = Progress /\ This' = This
      /\ Before' = Before /\ LineEnd' = LineEnd /\ HeadEnd' = HeadEnd /\ ValueEnd' = ValueEnd
      /\ Ends(plan, nth)' = Ends(plan, nth)
  BY <1>2, <1>7, SameProgress
<1>9. PendingTail' /\ Taken' = Taken
  BY <1>1, <1>2, SameTail
\* What is put back is read again from the start of the block.
<1>10. CASE Status \notin {"COMPLETE", "FAILED"} /\ parser.paused
  <2>1. /\ Progress /\ used = Source + at /\ Source + Len(scratch) = wire
        /\ at <= Len(scratch) /\ PutBack /\ parser.pre_parsed = Len(scratch) - LineOf(This)
    BY <1>1, <1>10 DEF ByteByByte
  <2>2. Source = Before
    BY <1>1, <1>10 DEF Source, InFirstLine
  <2>3. Status = "FIELD" /\ Taken = LineEnd /\ LineEnd < used
    BY <2>1 DEF PutBack, Progress
  <2>4. /\ rest = used - LineEnd /\ rest <= Len(pending) /\ rest \in Nat /\ rest <= BlockSize
        /\ Len(pending) <= ScratchSize
    <3>1. /\ rest = (Len(scratch) - (LineEnd - Before)) - (Len(scratch) - at) /\ used = Before + at
          /\ Before + Len(scratch) = wire /\ at <= Len(scratch) /\ LineEnd + Len(pending) = wire
          /\ LineEnd < used
      BY <2>1, <2>2, <2>3, <1>4, <1>5, <1>14
    <3>2. rest = used - LineEnd
      BY <3>1, <1>3, <1>4
    <3>3. rest \in Nat /\ rest <= Len(pending) /\ Len(pending) <= Len(scratch)
      BY <3>1, <3>2, <1>3, <1>4, <1>5
    <3> QED BY <3>2, <3>3, <1>3, <1>5
  <2>5. phase' = "read" /\ offset' = 0 /\ parser'.pre_parsed = rest /\ parser'.paused
    BY <1>2, <1>6, <1>10
  <2>6. PutBack'
    BY <2>1, <1>2, <1>8, <1>9 DEF PutBack
  <2>7. Text(offset)'
    BY <2>5 DEF Text
  <2>8. Reading'
    BY <2>1, <2>4, <2>5, <2>6, <2>7, <1>2, <1>8, <1>10 DEF Reading
  <2>9. parser' \in Parsers /\ offset' \in 0..ScratchSize /\ phase' \in Phases
    BY <2>4, <2>5, <1>3, <1>10, <1>15 DEF Phases
  <2>10. ParseTyped'
    BY <2>9, <1>1, <1>2 DEF ParseTyped, Parsers
  <2>11. Block' /\ ByteByByte' /\ Completed' /\ Refused'
    BY <2>5, <1>1, <1>2 DEF Block, ByteByByte, Completed, Refused
  <2> QED BY <2>8, <2>10, <2>11, <1>1, <1>2, <1>9 DEF ParseInv
\* The next block goes behind this one.
<1>11. CASE Status \notin {"COMPLETE", "FAILED"} /\ ~parser.paused
  <2>1. /\ Progress /\ used = Source + at /\ Source + Len(scratch) = wire /\ Text(Len(scratch))
        /\ pending = <<>> /\ parser.pre_parsed = 0 /\ at = Len(scratch)
    BY <1>1, <1>11 DEF ByteByByte, Stopped
  <2>2. phase' = "read" /\ offset' = Len(scratch) /\ parser' = parser
    BY <1>2, <1>11
  <2>3. Source' = Source /\ Mark' = Mark
    <3>1. InFirstLine' = InFirstLine
      BY <1>1, <1>8, <1>11, <2>2 DEF InFirstLine
    <3> QED BY <3>1, <1>2, <1>8 DEF Source, Mark
  <2>4. Text(offset)'
    BY <2>1, <2>2, <2>3, <1>2 DEF Text
  <2>5. used = Taken
    <3>1. Len(pending) = 0
      BY <2>1
    <3> QED BY <3>1, <2>1, <1>5
  <2>6. Reading'
    BY <2>1, <2>2, <2>3, <2>4, <2>5, <1>2, <1>8, <1>9, <1>11 DEF Reading
  <2>7. offset' \in 0..ScratchSize /\ phase' \in Phases
    BY <2>2, <1>3 DEF Phases
  <2>8. ParseTyped'
    BY <2>2, <2>7, <1>1, <1>2 DEF ParseTyped, Parsers
  <2>9. Block' /\ ByteByByte' /\ Completed' /\ Refused'
    BY <2>2, <1>1, <1>2 DEF Block, ByteByByte, Completed, Refused
  <2> QED BY <2>6, <2>8, <2>9, <1>1, <1>2, <1>9 DEF ParseInv
\* The message is complete: the handler is called.
<1>12. CASE Status = "COMPLETE"
  <2>1. Kept /\ Served /\ at <= Len(scratch) /\ parser.paused /\ left <= parser.pre_parsed
    BY <1>1, <1>12, <1>14 DEF Completed
  <2>2. phase' = "handler" /\ offset' = 0
    BY <1>2, <1>12, <2>1
  <2>3. rest \in Nat /\ rest <= BlockSize
    BY <2>1, <1>3, <1>14
  <2>4. parser' \in Parsers /\ offset' \in 0..ScratchSize /\ phase' \in Phases
    BY <2>1, <2>2, <2>3, <1>3, <1>15 DEF Phases
  <2>5. ParseTyped'
    BY <2>4, <1>1, <1>2 DEF ParseTyped, Parsers
  <2>6. Kept' /\ Served'
    BY <2>1, <1>2, <1>8, <1>9 DEF Kept, Served
  <2>7. Completed'
    BY <2>2, <2>6 DEF Completed
  <2>8. Reading' /\ Block' /\ ByteByByte' /\ Refused'
    BY <2>2, <1>1, <1>2 DEF Reading, Block, ByteByByte, Refused
  <2> QED BY <2>5, <2>7, <2>8, <1>1, <1>2, <1>9 DEF ParseInv
<1>13. CASE Status = "FAILED"
  <2>1. ~parser.paused
    BY <1>1, <1>13 DEF Refused
  <2>2. phase' = "refused" /\ parser' = parser /\ offset' = Len(scratch)
    BY <1>2, <1>13, <2>1
  <2>3. offset' \in 0..ScratchSize /\ phase' \in Phases
    BY <2>2, <1>3 DEF Phases
  <2>4. ParseTyped'
    BY <2>2, <2>3, <1>1, <1>2 DEF ParseTyped, Parsers
  <2>5. Reading' /\ Block' /\ ByteByByte' /\ Completed' /\ Refused'
    BY <2>2, <1>1, <1>2 DEF Reading, Block, ByteByByte, Completed, Refused
  <2> QED BY <2>4, <2>5, <1>1, <1>2, <1>9 DEF ParseInv
<1> QED BY <1>10, <1>11, <1>12, <1>13

---------------------------------------------------------------------------
(* The body, and the next request.                                          *)

\* A handler, or httpd_req_delete, reads a part of the body: never beyond remaining_len
\* (httpd_txrx.c:448-477).
LEMMA BodyReadKeeps ==
  ASSUME ParseInv, phase \in {"handler", "purge"}, NEW length \in Nat, BodyRead(length),
         UNCHANGED <<client, phase, nth, scratch, offset, at, parser, error>>
  PROVE  ParseInv'
<1>1. ParseTyped /\ PendingTail /\ Completed /\ Refused /\ inOrder = TRUE
  BY DEF ParseInv
<1>2. Served /\ (phase = "handler" => Kept)
  BY <1>1 DEF Completed
<1>3. UNCHANGED <<plan, stream, hangup, nth, scratch, parser>>
  BY DEF client
<1> DEFINE upto == Smaller(length, remaining)
<1>4. PICK r \in Receipts(upto, FALSE) :
        /\ Take(r)
        /\ remaining' = remaining - (r.old + r.new)
        /\ used' = used + r.old + r.new
        /\ inOrder' = (inOrder /\ Got(r) = Numbers(used + 1, used + r.old + r.new))
  BY DEF BodyRead
<1>5. used \in Nat /\ remaining \in Nat /\ BlockSize \in Nat \ {0} /\ ScratchSize \in Nat \ {0}
  BY <1>1, Numbered
<1>6. upto \in Nat /\ upto <= remaining
  BY <1>5 DEF Smaller
<1>7. /\ Len(stream) \in Nat /\ Taken \in Nat /\ Len(pending) \in Nat /\ Len(pending) <= BlockSize
  BY <1>1, PendingRun
<1>8. /\ r.old \in Nat /\ r.new \in Nat /\ r.old + r.new <= upto
      /\ Got(r) \in Seq(1..Len(stream)) /\ Run(Got(r), Taken, r.old + r.new)
      /\ wire' \in 0..Len(stream) /\ pending' \in Seq(1..Len(stream))
      /\ Len(pending') \in Nat /\ Len(pending') <= Len(pending) /\ Len(pending') = Len(pending) - r.old
      /\ Taken' = Taken + r.old + r.new /\ PendingTail'
  <2> HIDE DEF upto
  <2> QED BY <1>1, <1>3, <1>4, <1>6, ReceiptNext
<1> DEFINE N == r.old + r.new
<1>9. N \in Nat /\ N <= remaining
  <2>1. r.old \in Nat /\ r.new \in Nat /\ r.old + r.new <= upto
    BY <1>8
  <2> HIDE DEF upto
  <2> QED BY <2>1, <1>5, <1>6
<1>10. used = Taken /\ used + remaining = Ends(plan, nth) /\ Len(pending) <= ScratchSize
  BY <1>2 DEF Served
<1>11. /\ used' = used + N /\ used' \in Nat /\ remaining' = remaining - N /\ remaining' \in Nat
       /\ Taken' = used' /\ used' + remaining' = used + remaining /\ used' <= Len(stream)
  <2>1. used' = used + N /\ remaining' = remaining - N /\ Taken' = Taken + N
    <3>1. used' = used + r.old + r.new /\ remaining' = remaining - N /\ Taken' = Taken + r.old + r.new
      BY <1>4, <1>8
    <3>2. used + r.old + r.new = used + N /\ Taken + r.old + r.new = Taken + N
      <4>1. \A x, y, z \in Nat : x + y + z = x + (y + z)
        OBVIOUS
      <4>2. r.old \in Nat /\ r.new \in Nat
        BY <1>8
      <4>3. used \in Nat /\ Taken \in Nat
        BY <1>5, <1>7
      <4> QED BY <4>1, <4>2, <4>3
    <3> QED BY <3>1, <3>2, Zenon
  <2>2. Taken' <= Len(stream)
    <3>1. wire' \in Nat /\ wire' <= Len(stream)
      BY <1>7, <1>8
    <3> QED BY <3>1, <1>8 DEF Taken
  <2> HIDE DEF N
  <2>3. Taken' = used'
    BY <2>1, <1>10
  <2>4. used' \in Nat /\ remaining' \in Nat /\ used' + remaining' = used + remaining
    BY <2>1, <1>5, <1>9
  <2> QED BY <2>1, <2>2, <2>3, <2>4
<1>12. inOrder' = TRUE
  <2> DEFINE S == 1..Len(stream)
             g == Got(r)
             t == Numbers(used + 1, used + N)
  <2>1. t \in Seq(S) /\ Run(t, used, N)
    BY <1>5, <1>7, <1>9, <1>11, NumbersRun
  <2>2. g \in Seq(S) /\ Run(g, used, N)
    BY <1>8, <1>10
  <2>3. inOrder' = (g = t)
    <3>1. used + r.old + r.new = used + N
      <4>1. \A x, y, z \in Nat : x + y + z = x + (y + z)
        OBVIOUS
      <4>2. r.old \in Nat /\ r.new \in Nat
        BY <1>8
      <4> QED BY <4>1, <4>2, <1>5
    <3> QED BY <3>1, <1>1, <1>4
  <2> HIDE DEF S, g, t, N
  <2>4. g = t
    BY <2>1, <2>2, <1>9, RunSame
  <2> QED BY <2>3, <2>4
<1>13. Served'
  <2>1. Ends(plan, nth)' = Ends(plan, nth)
    BY <1>3, SamePlaces
  <2>2. Len(pending') <= ScratchSize
    BY <1>5, <1>7, <1>8, <1>10
  <2> QED BY <2>1, <2>2, <1>10, <1>11 DEF Served
<1>14. phase = "handler" => Kept'
  BY <1>2, <1>3, SamePlaces DEF Kept
<1>15. ParseTyped'
  <2>1. Len(pending') <= BlockSize
    BY <1>5, <1>7, <1>8
  <2>2. /\ nth \in 1..Len(plan) /\ offset \in 0..ScratchSize /\ at \in 0..ScratchSize
        /\ phase \in Phases /\ parser \in Parsers
        /\ error \in {NoError, "url", "syntax", "upgrade", "too big"}
        /\ scratch \in Seq(0..Len(stream)) /\ Len(scratch) <= ScratchSize
    BY <1>1 DEF ParseTyped
  <2> QED BY <2>1, <2>2, <1>1, <1>3, <1>8, <1>11, StillTyped
<1>16. Completed' /\ Reading' /\ Block' /\ ByteByByte' /\ Refused'
  BY <1>1, <1>13, <1>14 DEF Completed, Reading, Block, ByteByByte, Refused
<1> QED BY <1>8, <1>12, <1>15, <1>16 DEF ParseInv

\* The next request begins behind the body of the one before (httpd_parse.c:558-577).
LEMMA NextRequestKeeps ==
  ASSUME ParseInv, NextRequest
  PROVE  ParseInv'
<1>1. ParseTyped /\ PendingTail /\ Completed /\ Refused /\ inOrder = TRUE /\ phase = "purge"
  BY DEF ParseInv, NextRequest
<1>2. /\ UNCHANGED <<client, plan, stream, hangup, wire, pending, at, remaining, error, used, inOrder>>
      /\ phase' = "read" /\ nth' = nth + 1 /\ scratch' = <<>> /\ offset' = 0 /\ parser' = NewParser
      /\ remaining = 0 /\ nth < Len(plan)
  BY DEF NextRequest, client, bytes
<1>3. /\ BlockSize \in Nat \ {0} /\ ScratchSize \in Nat \ {0} /\ used \in Nat
  BY <1>1, Numbered
<1>4. used = Taken /\ used = Ends(plan, nth) /\ Len(pending) <= ScratchSize
  <2>1. used = Taken /\ used + remaining = Ends(plan, nth) /\ Len(pending) <= ScratchSize
    BY <1>1 DEF Completed, Served
  <2> QED BY <2>1, <1>2, <1>3
<1>5. Before' = used
  <2>1. nth \in Nat
    <3>1. nth \in 1..Len(plan) /\ Len(plan) \in Nat
      BY <1>1 DEF ParseTyped
    <3> QED BY <3>1
  <2>2. (nth + 1) - 1 = nth
    BY <2>1
  <2> QED BY <2>2, <1>2, <1>4 DEF Before
<1>6. ParseTyped'
  <2>1. NewParser \in Parsers
    BY <1>3 DEF NewParser, Parsers, Statuses
  <2>2. nth' \in 1..Len(plan)
    <3>1. nth \in 1..Len(plan) /\ Len(plan) \in Nat
      BY <1>1 DEF ParseTyped
    <3> QED BY <3>1, <1>2
  <2>3. /\ scratch' \in Seq(0..Len(stream)) /\ Len(scratch') = 0 /\ 0 \in 0..ScratchSize /\ 0 <= ScratchSize
    BY <1>2, <1>3, EmptySeq
  <2>4. /\ at \in 0..ScratchSize /\ remaining \in Nat
        /\ error \in {NoError, "url", "syntax", "upgrade", "too big"}
        /\ wire \in 0..Len(stream) /\ pending \in Seq(1..Len(stream)) /\ Len(pending) <= BlockSize
    BY <1>1 DEF ParseTyped
  <2>5. phase' \in Phases
    BY <1>2 DEF Phases
  <2> QED BY <2>1, <2>2, <2>3, <2>4, <2>5, <1>1, <1>2, <1>3, StillTyped
<1>7. Status' = "IDLE" /\ parser'.paused = FALSE /\ parser'.pre_parsed = 0
  BY <1>2 DEF Status, NewParser
<1>8. Source' = used
  BY <1>5, <1>7 DEF Source, InFirstLine
<1>9. Progress'
  BY <1>2, <1>5, <1>7 DEF Progress
<1>10. Text(offset)'
  BY <1>2 DEF Text
<1>11. PendingTail' /\ Taken' = Taken
  BY <1>1, <1>2, SameTail
<1>12. Reading'
  <2>1. Len(scratch') = 0 /\ used = used + 0
    BY <1>2, <1>3
  <2> QED BY <2>1, <1>2, <1>4, <1>7, <1>8, <1>9, <1>10, <1>11 DEF Reading
<1>13. Block' /\ ByteByByte' /\ Completed' /\ Refused'
  BY <1>1, <1>2 DEF Block, ByteByByte, Completed, Refused
<1> QED BY <1>1, <1>2, <1>6, <1>11, <1>12, <1>13 DEF ParseInv

---------------------------------------------------------------------------
(* A byte: which it may be, by what the parser called back last.            *)

\* What the byte the parser is at may be.
NextByte ==
  /\ Status = "IDLE"  => /\ used + 1 <= LineEnd
                         /\ \/ used = Before /\ Class = "method"
                            \/ used = Before + 1 /\ Class = "url"
  /\ Status = "URL"   => /\ Before + 1 < used
                         /\ \/ used + 1 <= LineEnd /\ Class \in FirstClasses
                            \/ used = LineEnd /\ Class = "field"
  /\ Status = "FIELD" => /\ LineEnd < used /\ used + 1 < HeadEnd
                         /\ \/ stream[used] = "field" /\ Class \in {"field", "colon"}
                            \/ stream[used] = "colon" /\ Class \in {"value", "line"}
  /\ Status = "VALUE" => /\ LineEnd < used
                         /\ \/ used + 1 < HeadEnd /\ used = ValueEnd - 1 /\ Class \in {"value", "line"}
                            \/ /\ used = ValueEnd /\ stream[used] = "line"
                               /\ \/ used + 1 < HeadEnd /\ Class = "field"
                                  \/ used + 1 = HeadEnd /\ Class = "end"
  /\ Status = "BODY"  => used = HeadEnd /\ Class = "body" /\ This.body > 0 /\ remaining = This.body

\* The invariant's part about a parser that is at a byte.
Parsed ==
  /\ Status \in {"IDLE", "URL", "FIELD", "VALUE", "BODY"} /\ Progress /\ Text(Len(scratch))
  /\ used = Source + at /\ Source + Len(scratch) = wire
  /\ offset <= at /\ at < Len(scratch) /\ Len(scratch) - offset <= BlockSize
  /\ parser.paused => /\ PutBack /\ parser.pre_parsed = Len(scratch) - LineOf(This)
                      /\ Status = "FIELD" /\ stream[used] = "field"
  /\ ~parser.paused => pending = <<>> /\ parser.pre_parsed = 0

\* The parser's byte is the one after the last used, of a class the request's shape admits.
LEMMA ByteComes ==
  ASSUME ParseInv, phase = "parse", ~Stopped
  PROVE  /\ Parsed /\ NextByte
         /\ Byte = used + 1 /\ Class = stream[used + 1] /\ used + 1 <= wire
<1>1. ParseTyped /\ PendingTail /\ ByteByByte
  BY DEF ParseInv
<1>2. /\ Len(scratch) \in Nat /\ at \in Nat /\ offset \in Nat /\ used \in Nat
      /\ Status \in Statuses /\ parser.paused \in BOOLEAN
      /\ parser.at \in Nat /\ parser.length \in Nat
  BY <1>1, Numbered
<1>3. at # Len(scratch) /\ Status \notin {"FAILED", "COMPLETE"}
      /\ (parser.paused => stream[scratch[at]] = "field")
  BY DEF Stopped
<1>4. /\ Progress /\ Text(Len(scratch))
      /\ used = Source + at /\ Source + Len(scratch) = wire
      /\ offset <= at /\ at <= Len(scratch) /\ Len(scratch) - offset <= BlockSize
      /\ parser.paused => PutBack /\ parser.pre_parsed = Len(scratch) - LineOf(This)
      /\ ~parser.paused => pending = <<>> /\ parser.pre_parsed = 0
  BY <1>1, <1>3 DEF ByteByByte
<1>5. Source \in Nat /\ Mark \in Nat /\ Mark <= used + 1
  BY <1>1, <1>4, Unmarked
<1>6. at < Len(scratch) /\ at + 1 \in 1..Len(scratch) /\ Source + (at + 1) = used + 1 /\ used + 1 <= wire
  BY <1>2, <1>3, <1>4, <1>5
<1>7. Byte = used + 1
  <2>1. scratch[at + 1] = IF stream[used + 1] = "line" /\ used + 1 < Mark THEN 0 ELSE used + 1
    BY <1>4, <1>6 DEF Text
  <2>2. ~ (used + 1 < Mark)
    BY <1>2, <1>5
  <2> QED BY <2>1, <2>2 DEF Byte
<1>8. Class = stream[used + 1]
  BY <1>7 DEF Class
<1>9. Layout /\ ClassesLie
  BY <1>1, Places
<1>10. /\ Before \in Nat /\ LineEnd \in Nat /\ HeadEnd \in Nat /\ This.body \in Nat
       /\ Before + 4 <= LineEnd /\ LineEnd + 4 <= HeadEnd
  BY <1>9 DEF Layout
<1>11. Status \in {"IDLE", "URL", "FIELD", "VALUE", "BODY"}
  BY <1>2, <1>3 DEF Statuses
<1>12. parser.paused => Status = "FIELD" /\ stream[used] = "field"
  <2> SUFFICES ASSUME parser.paused PROVE Status = "FIELD" /\ stream[used] = "field"
    OBVIOUS
  <2>1. Status = "FIELD" /\ LineEnd < used
    BY <1>4 DEF PutBack, Progress
  <2>2. Source = Before /\ Mark = 0
    BY <2>1 DEF Source, Mark, InFirstLine
  <2>3. at \in 1..Len(scratch) /\ Source + at = used /\ ~(used < 0)
    BY <2>1, <2>2, <1>2, <1>4, <1>10
  <2>4. scratch[at] = used
    BY <2>2, <2>3, <1>4 DEF Text
  <2> QED BY <2>1, <2>4, <1>3
<1>13. Parsed
  BY <1>4, <1>6, <1>11, <1>12 DEF Parsed
<1> DEFINE u == used
<1>14. /\ stream[Before + 1] = "method" /\ stream[Before + 2] = "url"
       /\ \A i \in (Before + 1)..LineEnd : stream[i] \in FirstClasses
       /\ stream[LineEnd + 1] = "field" /\ stream[HeadEnd] = "end"
       /\ \A i \in (LineEnd + 1)..(HeadEnd - 1) :
            stream[i] \in HeaderClasses /\ stream[i + 1] \in After(stream[i])
       /\ \A i \in (HeadEnd + 1)..(HeadEnd + This.body) : stream[i] = "body"
  BY <1>9 DEF ClassesLie
<1>15. Status = "IDLE" => /\ used + 1 <= LineEnd
                          /\ \/ used = Before /\ Class = "method"
                             \/ used = Before + 1 /\ Class = "url"
  <2> SUFFICES ASSUME Status = "IDLE"
               PROVE /\ used + 1 <= LineEnd
                     /\ \/ used = Before /\ Class = "method"
                        \/ used = Before + 1 /\ Class = "url"
    OBVIOUS
  <2>1. used \in {Before, Before + 1}
    BY <1>4 DEF Progress
  <2>2. (Before + 1) + 1 = Before + 2
    BY <1>10
  <2>3. used + 1 <= LineEnd
    BY <2>1, <1>10
  <2>4. CASE used = Before
    <3>1. Class = stream[Before + 1]
      BY <2>4, <1>8
    <3>2. Class = "method"
      BY <3>1, <1>14
    <3> QED BY <3>2, <2>3, <2>4, Zenon
  <2>5. CASE used = Before + 1
    <3>1. Class = stream[Before + 2]
      BY <2>2, <2>5, <1>8
    <3> QED BY <3>1, <2>3, <2>5, <1>14
  <2> QED BY <2>1, <2>4, <2>5
<1>16. Status = "URL" => /\ Before + 1 < used
                         /\ \/ used + 1 <= LineEnd /\ Class \in FirstClasses
                            \/ used = LineEnd /\ Class = "field"
  <2> SUFFICES ASSUME Status = "URL"
               PROVE /\ Before + 1 < used
                     /\ \/ used + 1 <= LineEnd /\ Class \in FirstClasses
                        \/ used = LineEnd /\ Class = "field"
    OBVIOUS
  <2>1. Before + 1 < used /\ used <= LineEnd
    BY <1>4 DEF Progress
  <2>2. CASE used = LineEnd
    BY <2>1, <2>2, <1>8, <1>14
  <2>3. CASE used # LineEnd
    <3>1. used + 1 \in (Before + 1)..LineEnd /\ used + 1 <= LineEnd
      BY <2>1, <2>3, <1>2, <1>10
    <3> QED BY <2>1, <3>1, <1>8, <1>14
  <2> QED BY <2>2, <2>3
<1>17. LineEnd < used /\ used < HeadEnd => stream[used] \in HeaderClasses /\ Class \in After(stream[used])
  <2> SUFFICES ASSUME LineEnd < used, used < HeadEnd
               PROVE stream[used] \in HeaderClasses /\ Class \in After(stream[used])
    OBVIOUS
  <2>1. used \in (LineEnd + 1)..(HeadEnd - 1)
    BY <1>2, <1>10
  <2> QED BY <2>1, <1>8, <1>14
<1>18. LineEnd < used /\ used < HeadEnd => used + 1 < HeadEnd \/ (used + 1 = HeadEnd /\ Class = "end")
  <2>1. LineEnd < used /\ used < HeadEnd => used + 1 < HeadEnd \/ used + 1 = HeadEnd
    BY <1>2, <1>10
  <2>2. used + 1 = HeadEnd => Class = "end"
    BY <1>8, <1>14
  <2> QED BY <2>1, <2>2
<1>19. LineEnd < used /\ used < HeadEnd /\ Class = "end" => used + 1 = HeadEnd
  <2> SUFFICES ASSUME LineEnd < used, used < HeadEnd, Class = "end", used + 1 < HeadEnd PROVE FALSE
    BY <1>18
  <2>1. used + 1 \in (LineEnd + 1)..(HeadEnd - 1)
    BY <1>2, <1>10
  <2> QED BY <2>1, <1>8, <1>14 DEF HeaderClasses
<1>20. Status = "FIELD" => /\ LineEnd < used /\ used + 1 < HeadEnd
                           /\ \/ stream[used] = "field" /\ Class \in {"field", "colon"}
                              \/ stream[used] = "colon" /\ Class \in {"value", "line"}
  <2> SUFFICES ASSUME Status = "FIELD"
               PROVE  /\ LineEnd < used /\ used + 1 < HeadEnd
                      /\ \/ stream[used] = "field" /\ Class \in {"field", "colon"}
                         \/ stream[used] = "colon" /\ Class \in {"value", "line"}
    OBVIOUS
  <2>1. LineEnd < used /\ used < HeadEnd /\ stream[used] \in {"field", "colon"}
    BY <1>4 DEF Progress
  <2>2. \/ stream[used] = "field" /\ Class \in {"field", "colon"}
        \/ stream[used] = "colon" /\ Class \in {"value", "line"}
    BY <2>1, <1>17 DEF After
  <2>3. Class # "end"
    BY <2>2
  <2> QED BY <2>1, <2>2, <2>3, <1>18
<1>21. Status = "VALUE" => /\ LineEnd < used
                           /\ \/ used + 1 < HeadEnd /\ used = ValueEnd - 1 /\ Class \in {"value", "line"}
                              \/ /\ used = ValueEnd /\ stream[used] = "line"
                                 /\ \/ used + 1 < HeadEnd /\ Class = "field"
                                    \/ used + 1 = HeadEnd /\ Class = "end"
  <2> SUFFICES ASSUME Status = "VALUE"
               PROVE  /\ LineEnd < used
                      /\ \/ used + 1 < HeadEnd /\ used = ValueEnd - 1 /\ Class \in {"value", "line"}
                         \/ /\ used = ValueEnd /\ stream[used] = "line"
                            /\ \/ used + 1 < HeadEnd /\ Class = "field"
                               \/ used + 1 = HeadEnd /\ Class = "end"
    OBVIOUS
  <2>1. /\ LineEnd < used /\ used < HeadEnd
        /\ \/ used = ValueEnd - 1 /\ stream[used] = "value"
           \/ used = ValueEnd /\ stream[used] = "line"
    BY <1>4 DEF Progress
  <2>2. CASE used = ValueEnd - 1 /\ stream[used] = "value"
    <3>1. Class \in {"value", "line"}
      BY <2>1, <2>2, <1>17 DEF After
    <3> QED BY <3>1, <2>1, <2>2, <1>18
  <2>3. CASE used = ValueEnd /\ stream[used] = "line"
    <3>1. Class \in {"field", "end"}
      BY <2>1, <2>3, <1>17 DEF After
    <3> QED BY <3>1, <2>1, <2>3, <1>18, <1>19
  <2> QED BY <2>1, <2>2, <2>3
<1>22. Status = "BODY" => used = HeadEnd /\ Class = "body" /\ This.body > 0 /\ remaining = This.body
  <2> SUFFICES ASSUME Status = "BODY" PROVE used = HeadEnd /\ Class = "body" /\ This.body > 0 /\ remaining = This.body
    OBVIOUS
  <2>1. used = HeadEnd /\ This.body > 0 /\ remaining = This.body
    BY <1>4 DEF Progress
  <2>2. used + 1 \in (HeadEnd + 1)..(HeadEnd + This.body)
    BY <2>1, <1>10
  <2> QED BY <2>1, <2>2, <1>8, <1>14
<1>23. NextByte
  BY <1>15, <1>16, <1>20, <1>21, <1>22 DEF NextByte
<1> QED BY <1>6, <1>7, <1>8, <1>13, <1>23

---------------------------------------------------------------------------
(* The callbacks.                                                           *)

\* What a step of the parser leaves alone, and what it counts.
Steps ==
  /\ phase = "parse" /\ ~Stopped /\ phase' = "parse" /\ at' = at + 1
  /\ IF Class = "body" THEN UNCHANGED bytes
     ELSE used' = Byte /\ inOrder' = (inOrder /\ Byte = used + 1)
  /\ UNCHANGED <<client, wire, nth, offset>>

\* What all callbacks may rely on.
LEMMA StepFacts ==
  ASSUME ParseInv, Steps
  PROVE  /\ ParseTyped /\ PendingTail /\ Completed /\ Refused /\ error # "too big" /\ Layout
         /\ UNCHANGED <<plan, stream, hangup, wire, nth, offset>>
         /\ This' = This /\ Before' = Before /\ LineEnd' = LineEnd /\ HeadEnd' = HeadEnd
         /\ Ends(plan, nth)' = Ends(plan, nth)
         /\ inOrder' = TRUE /\ at' \in 0..ScratchSize /\ at' \in Nat /\ used' \in Nat
         /\ (Class # "body" => used' = used + 1) /\ (Class = "body" => used' = used)
<1>1. ParseTyped /\ PendingTail /\ Completed /\ Refused /\ inOrder = TRUE /\ error # "too big"
  BY DEF ParseInv, Refused, Steps
<1>2. UNCHANGED <<plan, stream, hangup, wire, nth, offset>>
  BY DEF Steps, client
<1>3. /\ This' = This /\ Before' = Before /\ LineEnd' = LineEnd /\ HeadEnd' = HeadEnd
      /\ Ends(plan, nth)' = Ends(plan, nth)
  BY <1>2, SamePlaces
<1>4. Byte = used + 1 /\ at < Len(scratch)
  BY ByteComes DEF Steps, Parsed
<1>5. /\ Len(scratch) \in Nat /\ Len(scratch) <= ScratchSize /\ at \in Nat /\ used \in Nat
      /\ ScratchSize \in Nat
  BY <1>1, Numbered
<1>6. at' = at + 1
  BY DEF Steps
<1>7. (Class # "body" => used' = used + 1) /\ (Class = "body" => used' = used) /\ inOrder' = TRUE
  BY <1>1, <1>4 DEF Steps, bytes
<1>8. at' \in 0..ScratchSize /\ at' \in Nat /\ used' \in Nat
  BY <1>4, <1>5, <1>6, <1>7
<1>9. Layout
  BY <1>1, Places
<1> QED BY <1>1, <1>2, <1>3, <1>7, <1>8, <1>9

\* A step leaves the invariant when it leaves what the parser has in order.
LEMMA StepKeeps ==
  ASSUME ParseInv, Steps, parser' \in Parsers, remaining' \in Nat,
         error' \in {NoError, "url", "syntax", "upgrade"},
         scratch' \in Seq(0..Len(stream)), Len(scratch') <= ScratchSize,
         pending' \in Seq(1..Len(stream)), Len(pending') <= BlockSize, PendingTail',
         ByteByByte', Completed', parser'.status = "FAILED" => ~parser'.paused
  PROVE  ParseInv'
<1>1. /\ ParseTyped /\ UNCHANGED <<plan, stream, hangup, wire, nth, offset>>
      /\ inOrder' = TRUE /\ at' \in 0..ScratchSize /\ used' \in Nat
  BY StepFacts
<1>2. phase' = "parse" /\ UNCHANGED client
  BY DEF Steps
<1>3. ParseTyped'
  <2>1. /\ nth \in 1..Len(plan) /\ offset \in 0..ScratchSize /\ wire \in 0..Len(stream)
    BY <1>1 DEF ParseTyped
  <2>2. phase' \in Phases /\ error' \in {NoError, "url", "syntax", "upgrade", "too big"}
    BY <1>2 DEF Phases
  <2> QED BY <2>1, <2>2, <1>1, <1>2, StillTyped
<1>4. Reading' /\ Block'
  BY <1>2 DEF Reading, Block
<1>5. Refused'
  <2>1. error' # "too big"
    BY DEF NoError
  <2> QED BY <2>1 DEF Refused, Status
<1> QED BY <1>1, <1>3, <1>4, <1>5 DEF ParseInv

\* A refused request.
LEMMA RefuseKeeps ==
  ASSUME ParseInv, Steps, NEW err \in {"url", "syntax", "upgrade"}, Refuse(err), ~parser.paused
  PROVE  ParseInv'
<1>1. /\ ParseTyped /\ PendingTail /\ UNCHANGED <<wire, pending, scratch, remaining>> /\ error' = err
      /\ parser' = [parser EXCEPT !.status = "FAILED"] /\ phase' = "parse"
  BY StepFacts DEF Refuse, Steps
<1>2. parser \in Parsers
  BY <1>1, Numbered
<1>3. parser' \in Parsers /\ parser'.status = "FAILED" /\ parser'.paused = parser.paused
  BY <1>1, <1>2 DEF Parsers, Statuses
<1>4. ByteByByte' /\ Completed'
  BY <1>1, <1>3 DEF ByteByByte, Completed, Status
<1>5. PendingTail'
  BY <1>1, SameTail
<1>6. /\ scratch \in Seq(0..Len(stream)) /\ Len(scratch) <= ScratchSize /\ remaining \in Nat
      /\ pending \in Seq(1..Len(stream)) /\ Len(pending) <= BlockSize
  BY <1>1 DEF ParseTyped
<1> QED BY <1>1, <1>3, <1>4, <1>5, <1>6, StepKeeps

\* A byte in the middle of a block: what is in scratch stays as it is.
LEMMA OnlyKeeps ==
  ASSUME ParseInv, Steps, Class # "body", NEW p \in Parsers, Only(p),
         p.paused = parser.paused, p.pre_parsed = parser.pre_parsed,
         p.status \in {"IDLE", "URL", "FIELD", "VALUE", "BODY"},
         Progress', Source' = Source, parser.paused => p.status = "FIELD" /\ Class # "line",
         Mark' = Mark \/ (Mark = used + 1 /\ Mark' = used + 2 /\ Class # "line")
  PROVE  ParseInv'
<1>1. /\ ParseTyped /\ PendingTail /\ error # "too big" /\ used' = used + 1
      /\ UNCHANGED <<plan, stream, wire, nth, offset, pending, scratch, remaining, error>>
      /\ parser' = p /\ LineEnd' = LineEnd /\ This' = This /\ phase' = "parse" /\ at' = at + 1
  BY StepFacts DEF Only, Steps
<1>2. Parsed /\ Class = stream[used + 1]
  BY ByteComes DEF Steps
<1>3. /\ Progress /\ Text(Len(scratch))
      /\ used = Source + at /\ Source + Len(scratch) = wire
      /\ offset <= at /\ at < Len(scratch) /\ Len(scratch) - offset <= BlockSize
      /\ parser.paused => /\ PutBack /\ parser.pre_parsed = Len(scratch) - LineOf(This)
                          /\ Status = "FIELD" /\ stream[used] = "field"
      /\ ~parser.paused => pending = <<>> /\ parser.pre_parsed = 0
  BY <1>2 DEF Parsed
<1>4. /\ used \in Nat /\ Len(scratch) \in Nat /\ at \in Nat /\ offset \in Nat
  BY <1>1, Numbered
<1>5. Source \in Nat /\ Mark \in Nat /\ Mark <= used + 1
  BY <1>1, <1>3, Unmarked
<1>6. PendingTail' /\ Taken' = Taken
  BY <1>1, SameTail
<1>7. Text(Len(scratch))'
  <2> SUFFICES ASSUME NEW i \in 1..Len(scratch)
               PROVE  scratch[i] = IF stream[Source + i] = "line" /\ Source + i < Mark' THEN 0 ELSE Source + i
    BY <1>1 DEF Text
  <2>1. scratch[i] = IF stream[Source + i] = "line" /\ Source + i < Mark THEN 0 ELSE Source + i
    BY <1>3 DEF Text
  <2>2. CASE Mark' = Mark
    BY <2>1, <2>2
  <2>3. CASE Mark = used + 1 /\ Mark' = used + 2 /\ Class # "line"
    <3>1. CASE Source + i = used + 1
      BY <2>1, <2>3, <3>1, <1>2
    <3>2. CASE Source + i # used + 1
      <4>1. Source + i < used + 1 <=> Source + i < used + 2
        BY <3>2, <1>4, <1>5
      <4> QED BY <4>1, <2>1, <2>3
    <3> QED BY <3>1, <3>2
  <2> QED BY <2>2, <2>3
<1>8. ASSUME parser.paused PROVE PutBack'
  <2>1. Taken = LineEnd /\ \A i \in (LineEnd + 1)..used : stream[i] # "line"
    BY <1>3, <1>8 DEF PutBack
  <2>2. stream[used + 1] # "line" /\ Status' = "FIELD"
    BY <1>1, <1>2, <1>8 DEF Status
  <2>3. LineEnd \in Nat
    BY <1>1, Places DEF Layout
  <2>4. \A i \in (LineEnd + 1)..(used + 1) : i = used + 1 \/ i \in (LineEnd + 1)..used
    BY <2>3, <1>4
  <2> QED BY <2>1, <2>2, <2>4, <1>1, <1>6 DEF PutBack
<1>9. used' = Source' + at' /\ Source' + Len(scratch') = wire' /\ offset' <= at' /\ at' <= Len(scratch')
  <2>1. used' = used + 1 /\ at' = at + 1 /\ Source' = Source
    BY <1>1
  <2>2. used + 1 = Source + (at + 1) /\ offset <= at + 1 /\ at + 1 <= Len(scratch)
    BY <1>3, <1>4, <1>5
  <2>3. scratch' = scratch /\ wire' = wire /\ offset' = offset
    BY <1>1
  <2> QED BY <2>1, <2>2, <2>3, <1>3
<1>10. ByteByByte'
  <2>1. parser'.paused = parser.paused /\ parser'.pre_parsed = parser.pre_parsed
    BY <1>1
  <2>2. parser'.paused => PutBack' /\ parser'.pre_parsed = Len(scratch') - LineOf(This')
    BY <2>1, <1>1, <1>3, <1>8
  <2>3. ~parser'.paused => pending' = <<>> /\ parser'.pre_parsed = 0
    BY <2>1, <1>1, <1>3
  <2>4. Len(scratch') - offset' <= BlockSize
    BY <1>1, <1>3
  <2> QED BY <2>2, <2>3, <2>4, <1>7, <1>9 DEF ByteByByte
<1>11. Completed' /\ (parser'.status = "FAILED" => ~parser'.paused)
  BY <1>1 DEF Completed, Status
<1>12. /\ scratch \in Seq(0..Len(stream)) /\ Len(scratch) <= ScratchSize /\ remaining \in Nat
       /\ pending \in Seq(1..Len(stream)) /\ Len(pending) <= BlockSize
       /\ error \in {NoError, "url", "syntax", "upgrade"}
  BY <1>1 DEF ParseTyped
<1> QED BY <1>1, <1>6, <1>10, <1>11, <1>12, StepKeeps

\* The method, the URL and the version (httpd_parse.c:117-146).
LEMMA FirstLineKeeps ==
  ASSUME ParseInv, Steps, cb_url \/ Version
  PROVE  ParseInv'
<1>1. /\ ParseTyped /\ used' = used + 1 /\ phase' = "parse" /\ phase = "parse"
      /\ Before' = Before /\ LineEnd' = LineEnd /\ This' = This
      /\ Before \in Nat /\ LineEnd \in Nat /\ Before + 4 <= LineEnd
      /\ Class \in {"url", "version"}
  BY StepFacts DEF Steps, cb_url, Version, Layout
<1>2. Parsed /\ NextByte
  BY ByteComes DEF Steps
<1>3. /\ parser \in Parsers /\ used \in Nat /\ at \in Nat
      /\ parser.paused \in BOOLEAN /\ parser.at \in Nat /\ parser.length \in Nat
  BY <1>1, Numbered
<1>4. Status \in {"IDLE", "URL"} /\ ~parser.paused /\ Before + 1 < used + 1 /\ used + 1 <= LineEnd
      /\ (Status = "IDLE" => Class = "url")
  <2>1. Status \in {"IDLE", "URL"}
    BY <1>1, <1>2 DEF Parsed, NextByte
  <2>2. ~parser.paused
    BY <2>1, <1>2 DEF Parsed
  <2>3. Before + 1 < used + 1 /\ used + 1 <= LineEnd /\ (Status = "IDLE" => Class = "url")
    <3>1. CASE Status = "IDLE"
      BY <3>1, <1>1, <1>2, <1>3 DEF NextByte
    <3>2. CASE Status = "URL"
      <4>1. Before + 1 < used /\ used + 1 <= LineEnd
        BY <3>2, <1>1, <1>2 DEF NextByte
      <4> QED BY <4>1, <3>2, <1>1, <1>3
    <3> QED BY <2>1, <3>1, <3>2
  <2> QED BY <2>1, <2>2, <2>3
<1>5. ASSUME NEW p \in Parsers, Only(p), p.status = "URL", p.paused = parser.paused,
             p.pre_parsed = parser.pre_parsed
      PROVE  ParseInv'
  <2>1. Status' = "URL" /\ parser' = p
    BY <1>5 DEF Only, Status
  <2>2. Progress'
    BY <2>1, <1>1, <1>4 DEF Progress
  <2>3. InFirstLine /\ InFirstLine' /\ Source' = Source
    BY <2>1, <1>1, <1>4 DEF InFirstLine, Source
  <2>4. Mark = 0 /\ Mark' = 0
    BY <2>1, <2>3, <1>4 DEF Mark
  <2> QED BY <2>2, <2>3, <2>4, <1>1, <1>4, <1>5, OnlyKeeps
<1>6. CASE cb_url
  <2> DEFINE p == IF Status = "IDLE" THEN [parser EXCEPT !.status = "URL", !.at = at, !.length = 1]
                  ELSE [parser EXCEPT !.length = @ + 1]
  <2>1. Only(p)
    BY <1>6 DEF cb_url
  <2>2. /\ p \in Parsers /\ p.status = "URL" /\ p.paused = parser.paused /\ p.pre_parsed = parser.pre_parsed
    <3>1. CASE Status = "IDLE"
      BY <3>1, <1>3 DEF Parsers, Statuses
    <3>2. CASE Status = "URL"
      BY <3>2, <1>3 DEF Parsers, Statuses, Status
    <3> QED BY <3>1, <3>2, <1>4
  <2> HIDE DEF p
  <2> QED BY <2>1, <2>2, <1>5
<1>7. CASE Version
  <2>1. Status = "URL"
    BY <1>4, <1>7 DEF Version
  <2>2. CASE plan[nth].refuse = "syntax"
    <3>1. Refuse("syntax")
      BY <1>7, <2>2 DEF Version
    <3> QED BY <3>1, <1>4, RefuseKeeps
  <2>3. CASE plan[nth].refuse # "syntax"
    <3>1. Only(parser)
      BY <1>7, <2>3 DEF Version
    <3> QED BY <3>1, <2>1, <1>3, <1>5 DEF Status
  <2> QED BY <2>2, <2>3
<1> QED BY <1>6, <1>7

\* Bytes of a header that end no value of the one before.
LEMMA InHeaderKeeps ==
  ASSUME ParseInv, Steps, LineEnd < used, used + 1 < HeadEnd, Status \in {"FIELD", "VALUE"},
         Status = "VALUE" => used = ValueEnd - 1,
         NEW p \in Parsers, Only(p), p.paused = parser.paused, p.pre_parsed = parser.pre_parsed,
         p.status \in {"FIELD", "VALUE"}, parser.paused => p.status = "FIELD",
         p.status = "FIELD" => Status = "FIELD" /\ Class \in {"field", "colon"},
         p.status = "VALUE" => \/ LineEnd + p.at + p.length + 1 = used + 2 /\ Class = "value"
                               \/ LineEnd + p.at + p.length + 1 = used + 1 /\ Class = "line"
  PROVE  ParseInv'
<1>1. /\ ParseTyped /\ (Class # "body" => used' = used + 1) /\ phase' = "parse" /\ phase = "parse"
      /\ LineEnd' = LineEnd /\ HeadEnd' = HeadEnd /\ Before' = Before
      /\ LineEnd \in Nat /\ HeadEnd \in Nat /\ stream' = stream
  BY StepFacts DEF Steps, Layout
<1>2. Parsed /\ Class = stream[used + 1]
  BY ByteComes DEF Steps
<1>3. used \in Nat
  BY <1>1, Numbered
<1>4. Class # "body" /\ used' = used + 1
  BY <1>1
<1>12. parser.at \in Nat /\ parser.length \in Nat
  BY <1>1, Numbered
<1>5. parser' = p /\ Status' = p.status /\ remaining' = remaining
  BY DEF Only, Status
<1>6. ValueEnd' = LineEnd + p.at + p.length + 1
  BY <1>1, <1>5 DEF ValueEnd
<1>7. LineEnd < used + 1
  BY <1>1, <1>3
<1>8. Progress'
  <2>1. CASE p.status = "FIELD"
    <3>1. stream[used + 1] \in {"field", "colon"}
      BY <2>1, <1>2
    <3> QED BY <3>1, <2>1, <1>1, <1>4, <1>5, <1>7 DEF Progress
  <2>2. CASE p.status = "VALUE"
    <3>1. \/ used' = ValueEnd' - 1 /\ stream'[used'] = "value"
          \/ used' = ValueEnd' /\ stream'[used'] = "line"
      <4>1. CASE LineEnd + p.at + p.length + 1 = used + 2 /\ Class = "value"
        <5>1. ValueEnd' = used + 2 /\ used + 1 = (used + 2) - 1
          BY <4>1, <1>3, <1>6
        <5> QED BY <5>1, <4>1, <1>1, <1>2, <1>4
      <4>2. CASE LineEnd + p.at + p.length + 1 = used + 1 /\ Class = "line"
        BY <4>2, <1>1, <1>2, <1>4, <1>6
      <4> QED BY <2>2, <4>1, <4>2
    <3> QED BY <3>1, <2>2, <1>1, <1>4, <1>5, <1>7 DEF Progress
  <2> QED BY <2>1, <2>2
<1>9. InFirstLine' = InFirstLine
  BY <1>1, <1>5 DEF InFirstLine
<1>10. Source' = Source
  BY <1>1, <1>9 DEF Source
<1>11. Mark' = Mark \/ (Mark = used + 1 /\ Mark' = used + 2 /\ Class # "line")
  <2>1. CASE InFirstLine
    <3>1. Status = "FIELD" /\ parser.paused /\ p.status = "FIELD"
      BY <2>1, <1>1 DEF InFirstLine
    <3>2. Mark = 0 /\ Mark' = 0
      BY <2>1, <3>1, <1>5, <1>9 DEF Mark
    <3> QED BY <3>2
  <2>2. CASE ~InFirstLine
    <3>1. Mark = used + 1
      <4>1. CASE Status = "FIELD"
        BY <4>1, <2>2 DEF Mark
      <4>2. CASE Status = "VALUE"
        <5>1. Mark = ValueEnd /\ ValueEnd \in Nat /\ used = ValueEnd - 1
          BY <4>2, <2>2, <1>1, <1>12 DEF Mark, ValueEnd
        <5> QED BY <5>1, <1>3
      <4> QED BY <4>1, <4>2
    <3>2. CASE p.status = "FIELD"
      <4>1. Mark' = (used + 1) + 1
        BY <2>2, <3>2, <1>4, <1>5, <1>9 DEF Mark
      <4>2. (used + 1) + 1 = used + 2
        BY <1>3
      <4> QED BY <4>1, <4>2, <3>1, <3>2
    <3>3. CASE p.status = "VALUE"
      <4>1. Mark' = LineEnd + p.at + p.length + 1
        BY <2>2, <3>3, <1>5, <1>6, <1>9 DEF Mark
      <4> QED BY <4>1, <3>1, <3>3
    <3> QED BY <3>2, <3>3
  <2> QED BY <2>1, <2>2
<1>13. parser.paused => Class # "line"
  BY DEF Only
<1> QED BY <1>4, <1>8, <1>10, <1>11, <1>13, OnlyKeeps

\* The end of a value: its line end is '\0' from here on.
LEMMA Ended ==
  ASSUME ParseInv, Steps, Status = "VALUE", used = ValueEnd
  PROVE  /\ Source = LineEnd /\ parser.at + parser.length + 1 = at /\ at \in 1..Len(scratch)
         /\ Terminated \in Seq(0..Len(stream)) /\ Len(Terminated) = Len(scratch)
         /\ \A i \in 1..at : Terminated[i] = IF stream[LineEnd + i] = "line" THEN 0 ELSE LineEnd + i
         /\ \A i \in (at + 1)..Len(scratch) : Terminated[i] = LineEnd + i /\ scratch[i] = LineEnd + i
         /\ ~parser.paused
<1>1. ParseTyped /\ phase = "parse" /\ LineEnd \in Nat /\ Len(stream) \in Nat
  BY StepFacts DEF Steps, Layout
<1>2. Parsed /\ NextByte
  BY ByteComes DEF Steps
<1>3. /\ scratch \in Seq(0..Len(stream)) /\ Len(scratch) \in Nat /\ at \in Nat /\ used \in Nat
      /\ parser.at \in Nat /\ parser.length \in Nat
  BY <1>1, Numbered
<1>4. ~parser.paused
  BY <1>2 DEF Parsed
<1>5. ~InFirstLine /\ Source = LineEnd /\ Mark = used
  BY <1>4 DEF InFirstLine, Source, Mark
<1>6. used = LineEnd + at /\ LineEnd < used /\ at < Len(scratch) /\ Text(Len(scratch)) /\ stream[used] = "line"
  BY <1>2, <1>5 DEF Parsed, NextByte
<1>7. /\ parser.at + parser.length + 1 = at /\ at \in 1..Len(scratch)
  <2>1. used = LineEnd + parser.at + parser.length + 1
    BY DEF ValueEnd
  <2>2. LineEnd \in Nat
    BY <1>1
  <2>3. used = LineEnd + at /\ LineEnd < used /\ at < Len(scratch)
    BY <1>6
  <2>5. parser.at + parser.length + 1 = at
    <3> DEFINE x == parser.at
               y == parser.length
    <3>1. x \in Nat /\ y \in Nat /\ at \in Nat /\ LineEnd \in Nat
      BY <2>2, <1>3
    <3>2. LineEnd + x + y + 1 = LineEnd + at
      BY <2>1, <2>3
    <3> HIDE DEF x, y
    <3>3. x + y + 1 = at
      BY <3>1, <3>2
    <3> QED BY <3>3 DEF x, y
  <2>6. at > 0
    BY <2>2, <2>3, <1>3
  <2> QED BY <2>3, <2>5, <2>6, <1>3
<1>8. \A i \in 1..Len(scratch) :
        scratch[i] = IF stream[LineEnd + i] = "line" /\ LineEnd + i < used THEN 0 ELSE LineEnd + i
  BY <1>5, <1>6 DEF Text
<1>9. Terminated = [scratch EXCEPT ![at] = 0]
  BY <1>7 DEF Terminated
<1>10. /\ Terminated \in Seq(0..Len(stream)) /\ Len(Terminated) = Len(scratch)
       /\ \A i \in 1..Len(scratch) : Terminated[i] = IF i = at THEN 0 ELSE scratch[i]
  <2> DEFINE S == 0..Len(stream)
  <2>1. scratch \in Seq(S) /\ 0 \in S
    BY <1>1, <1>3
  <2> HIDE DEF S
  <2>2. /\ [scratch EXCEPT ![at] = 0] \in Seq(S)
        /\ Len([scratch EXCEPT ![at] = 0]) = Len(scratch)
        /\ \A j \in 1 .. Len(scratch) : [scratch EXCEPT ![at] = 0][j] = IF j = at THEN 0 ELSE scratch[j]
    BY <1>7, <2>1, ExceptSeq
  <2> QED BY <2>2, <1>9 DEF S
<1>11. \A i \in 1..at : Terminated[i] = IF stream[LineEnd + i] = "line" THEN 0 ELSE LineEnd + i
  <2> SUFFICES ASSUME NEW i \in 1..at
               PROVE  Terminated[i] = IF stream[LineEnd + i] = "line" THEN 0 ELSE LineEnd + i
    OBVIOUS
  <2>1. i \in 1..Len(scratch)
    BY <1>3, <1>6
  <2>2. CASE i = at
    BY <2>1, <2>2, <1>6, <1>10
  <2>3. CASE i # at
    <3>1. LineEnd + i < used
      BY <2>3, <1>1, <1>3, <1>6
    <3> QED BY <2>1, <2>3, <3>1, <1>8, <1>10
  <2> QED BY <2>2, <2>3
<1>12. \A i \in (at + 1)..Len(scratch) : Terminated[i] = LineEnd + i /\ scratch[i] = LineEnd + i
  <2> SUFFICES ASSUME NEW i \in (at + 1)..Len(scratch)
               PROVE  Terminated[i] = LineEnd + i /\ scratch[i] = LineEnd + i
    OBVIOUS
  <2>1. i \in 1..Len(scratch) /\ i # at /\ ~(LineEnd + i < used)
    BY <1>1, <1>3, <1>6
  <2> QED BY <2>1, <1>8, <1>10
<1> QED BY <1>4, <1>5, <1>7, <1>10, <1>11, <1>12

\* It is called back by the next field, or by the end of headers with a body behind.
LEMMA EndedKeeps ==
  ASSUME ParseInv, Steps, Status = "VALUE", used = ValueEnd, Class # "line", Class # "body",
         scratch' = Terminated, UNCHANGED <<pending, error>>, remaining' \in Nat,
         parser' \in Parsers, ~parser'.paused, parser'.pre_parsed = parser.pre_parsed,
         parser'.status \in {"FIELD", "BODY"}, Progress'
  PROVE  ParseInv'
<1>1. /\ ParseTyped /\ PendingTail /\ error # "too big" /\ used' = used + 1
      /\ UNCHANGED <<stream, wire, offset>> /\ LineEnd' = LineEnd /\ LineEnd \in Nat
      /\ phase' = "parse" /\ at' = at + 1
  BY StepFacts DEF Steps, Layout
<1>2. Parsed /\ Class = stream[used + 1]
  BY ByteComes DEF Steps
<1>3. /\ used \in Nat /\ Len(scratch) \in Nat /\ Len(scratch) <= ScratchSize /\ at \in Nat /\ offset \in Nat
  BY <1>1, Numbered
<1>4. /\ Source = LineEnd /\ at \in 1..Len(scratch)
      /\ Terminated \in Seq(0..Len(stream)) /\ Len(Terminated) = Len(scratch)
      /\ \A i \in 1..at : Terminated[i] = IF stream[LineEnd + i] = "line" THEN 0 ELSE LineEnd + i
      /\ \A i \in (at + 1)..Len(scratch) : Terminated[i] = LineEnd + i
      /\ ~parser.paused
  BY Ended
<1>5. /\ used = LineEnd + at /\ LineEnd + Len(scratch) = wire
      /\ offset <= at /\ at < Len(scratch) /\ Len(scratch) - offset <= BlockSize
      /\ pending = <<>> /\ parser.pre_parsed = 0
  BY <1>2, <1>4 DEF Parsed
<1> DEFINE l == LineEnd
           c == Len(scratch)
<1>15. /\ l \in Nat /\ used \in Nat /\ at \in Nat /\ c \in Nat /\ offset \in Nat
       /\ used = l + at /\ at < c /\ offset <= at
  BY <1>1, <1>3, <1>5
<1>16. used + 1 = l + (at + 1) /\ at + 1 <= c /\ offset <= at + 1 /\ (used + 1) + 1 = used + 2
  BY <1>15
<1>17. ASSUME NEW i \in 1..c
       PROVE  /\ i <= at => i \in 1..at /\ l + i < used + 2
              /\ ~(i <= at) => i \in (at + 1)..c
              /\ i = at + 1 => l + i = used + 1
              /\ ~(i <= at) /\ i # at + 1 => ~(l + i < used + 2)
  <2> HIDE DEF l, c
  <2> QED BY <1>15
<1>6. Status' \in {"FIELD", "BODY"}
  BY DEF Status
<1>7. Source' = LineEnd /\ Mark' = used + 2
  <2>1. ~InFirstLine'
    BY <1>6 DEF InFirstLine
  <2>2. Mark' = used' + 1
    BY <2>1, <1>6 DEF Mark
  <2>3. Mark' = used + 2
    BY <2>2, <1>1, <1>16
  <2> QED BY <2>1, <2>3, <1>1 DEF Source
<1>8. Text(Len(scratch))'
  <2> SUFFICES ASSUME NEW i \in 1..Len(scratch)
               PROVE  Terminated[i] = IF stream[LineEnd + i] = "line" /\ LineEnd + i < used + 2 THEN 0 ELSE LineEnd + i
    BY <1>1, <1>4, <1>7 DEF Text
  <2>1. CASE i <= at
    <3>1. i \in 1..at /\ LineEnd + i < used + 2
      BY <2>1, <1>17
    <3> QED BY <3>1, <1>4
  <2>2. CASE ~(i <= at)
    <3>1. i \in (at + 1)..Len(scratch)
      BY <2>2, <1>17
    <3>2. CASE i = at + 1
      <4>1. LineEnd + i = used + 1
        BY <3>2, <1>17
      <4> QED BY <4>1, <3>1, <1>2, <1>4
    <3>3. CASE i # at + 1
      <4>1. ~(LineEnd + i < used + 2)
        BY <2>2, <3>3, <1>17
      <4> QED BY <4>1, <3>1, <1>4
    <3> QED BY <3>2, <3>3
  <2> QED BY <2>1, <2>2
<1>9. used' = Source' + at' /\ Source' + Len(scratch') = wire' /\ offset' <= at' /\ at' <= Len(scratch')
  <2>1. used' = used + 1 /\ at' = at + 1 /\ Source' = LineEnd
    BY <1>1, <1>7
  <2>2. used + 1 = LineEnd + (at + 1) /\ offset <= at + 1 /\ at + 1 <= Len(scratch)
    BY <1>16
  <2>3. Len(scratch') = Len(scratch) /\ wire' = wire /\ offset' = offset
    BY <1>1, <1>4
  <2> QED BY <2>1, <2>2, <2>3, <1>5
<1>10. ByteByByte'
  <2>1. Len(scratch') - offset' <= BlockSize
    BY <1>1, <1>4, <1>5
  <2> QED BY <2>1, <1>5, <1>8, <1>9 DEF ByteByByte
<1>11. Completed' /\ (parser'.status = "FAILED" => ~parser'.paused)
  BY <1>1, <1>6 DEF Completed
<1>12. /\ pending' \in Seq(1..Len(stream)) /\ Len(pending') <= BlockSize
       /\ error' \in {NoError, "url", "syntax", "upgrade"}
  BY <1>1 DEF ParseTyped
<1>13. PendingTail'
  BY <1>1, SameTail
<1>14. scratch' \in Seq(0..Len(stream)) /\ Len(scratch') <= ScratchSize
  BY <1>3, <1>4
<1> QED BY <1>10, <1>11, <1>12, <1>13, <1>14, StepKeeps

\* Counting from one place further on.
LEMMA NextPlace == \A x, y \in Nat : (x + 1) + y - 1 = x + y
OBVIOUS

\* What Pause puts back comes next on the connection.
LEMMA PutsBack ==
  ASSUME ParseInv, Steps, ~parser.paused, NEW place \in Nat, at <= place, place <= Len(scratch),
         NEW b \in Nat, b + Len(scratch) = wire,
         \A i \in (place + 1)..Len(scratch) : scratch[i] = b + i,
         NEW p \in Parsers, Pause(p, place)
  PROVE  /\ Len(scratch) - place \in Nat /\ Len(scratch) - place <= BlockSize
         /\ Len(scratch) - place <= ScratchSize
         /\ pending' \in Seq(1..Len(stream)) /\ Len(pending') = Len(scratch) - place
         /\ Len(pending') <= BlockSize /\ PendingTail' /\ Taken' = b + place
         /\ parser' = [p EXCEPT !.paused = TRUE, !.pre_parsed = Len(scratch) - place]
         /\ parser' \in Parsers /\ error' = error
<1> DEFINE left == Len(scratch) - place
           n == Len(stream)
<1>1. ParseTyped /\ UNCHANGED wire
  BY StepFacts
<1>2. Parsed
  BY ByteComes DEF Steps
<1>3. /\ Len(scratch) \in Nat /\ Len(scratch) <= ScratchSize /\ at \in Nat /\ offset \in Nat
      /\ BlockSize \in Nat \ {0} /\ ScratchSize \in Nat \ {0}
  BY <1>1, Numbered
<1>4. n \in Nat /\ wire \in Nat /\ wire <= n
  BY <1>1, StreamEnd
<1>5. offset <= at /\ Len(scratch) - offset <= BlockSize
  BY <1>2 DEF Parsed
<1>6. left \in Nat /\ left <= BlockSize /\ left <= ScratchSize
  BY <1>3, <1>5
<1>7. Smaller(left, BlockSize) = left /\ place + left = Len(scratch) /\ ~(left > BlockSize)
  BY <1>3, <1>6 DEF Smaller
<1>8. /\ pending' = SubSeq(scratch, place + 1, place + Smaller(left, BlockSize))
      /\ parser' = IF left > BlockSize THEN [p EXCEPT !.status = "FAILED", !.pre_parsed = left]
                   ELSE [p EXCEPT !.paused = TRUE, !.pre_parsed = left]
      /\ error' = error
  BY DEF Pause
<1>9. pending' = SubSeq(scratch, place + 1, Len(scratch)) /\ parser' = [p EXCEPT !.paused = TRUE, !.pre_parsed = left]
  BY <1>7, <1>8
<1>10. /\ pending' \in Seq(1..n) /\ Len(pending') = left
       /\ \A i \in 1..left : pending'[i] = (b + place) + i
  <2> DEFINE S == 1..n
             c == Len(scratch)
             q == SubSeq(scratch, place + 1, c)
  <2>1. \A i \in (place + 1)..c : scratch[i] \in S
    <3> SUFFICES ASSUME NEW i \in (place + 1)..c PROVE scratch[i] \in S
      OBVIOUS
    <3>1. scratch[i] = b + i
      OBVIOUS
    <3>2. b + i \in S
      BY <1>3, <1>4
    <3> QED BY <3>1, <3>2
  <2>2. place + 1 \in Int /\ c \in Int
    BY <1>3
  <2>3. /\ q \in Seq(S) /\ Len(q) = (IF place + 1 <= c THEN c - (place + 1) + 1 ELSE 0)
        /\ \A i \in 1..(c - (place + 1) + 1) : q[i] = scratch[(place + 1) + i - 1]
    <3> HIDE DEF S, c
    <3> QED BY <2>1, <2>2, SubSeqProperties
  <2>4. c - (place + 1) + 1 = left /\ Len(q) = left
    BY <2>3, <1>3
  <2>5. ASSUME NEW i \in 1..left PROVE q[i] = (b + place) + i
    <3>1. q[i] = scratch[place + i]
      <4>0. place \in Nat /\ i \in Nat
        BY <1>3
      <4>1. (place + 1) + i - 1 = place + i
        BY ONLY <4>0, NextPlace, Zenon
      <4>2. i \in 1..(c - (place + 1) + 1)
        BY <2>4
      <4>3. q[i] = scratch[(place + 1) + i - 1]
        BY <2>3, <4>2
      <4> QED BY <4>1, <4>3
    <3>2. place + i \in (place + 1)..Len(scratch) /\ b + (place + i) = (b + place) + i
      BY <1>3, <1>6
    <3> QED BY <3>1, <3>2
  <2> QED BY <2>3, <2>4, <2>5, <1>9
<1>11. Taken' = b + place
  <2>1. Taken' = wire - left
    BY <1>1, <1>10 DEF Taken
  <2> QED BY <2>1, <1>3, <1>4
<1>12. PendingTail'
  <2>1. b + place \in Nat
    OBVIOUS
  <2> QED BY <2>1, <1>10, <1>11 DEF PendingTail
<1>13. parser' \in Parsers
  <2>1. left \in 0..BlockSize
    BY <1>3, <1>6
  <2> HIDE DEF left
  <2> QED BY <2>1, <1>9 DEF Parsers
<1> QED BY <1>6, <1>8, <1>9, <1>10, <1>11, <1>12, <1>13

\* A header's field: at the first one the parser pauses and puts the rest back, at a later
\* one the value before it is terminated (httpd_parse.c:188-233).
LEMMA FieldKeeps ==
  ASSUME ParseInv, Steps, cb_header_field
  PROVE  ParseInv'
<1>1. /\ ParseTyped /\ phase = "parse" /\ phase' = "parse" /\ used' = used + 1 /\ Class = "field"
      /\ This' = This /\ LineEnd' = LineEnd /\ HeadEnd' = HeadEnd /\ Before' = Before
      /\ LineEnd \in Nat /\ HeadEnd \in Nat /\ Before \in Nat /\ LineEnd + 4 <= HeadEnd
      /\ LineOf(This) = LineEnd - Before /\ Before + 4 <= LineEnd
      /\ stream' = stream /\ wire' = wire /\ at' = at + 1 /\ offset' = offset
  BY StepFacts DEF Steps, cb_header_field, Layout
<1>2. Parsed /\ NextByte /\ Class = stream[used + 1]
  BY ByteComes DEF Steps
<1>3. /\ parser \in Parsers /\ used \in Nat /\ at \in Nat /\ offset \in Nat /\ remaining \in Nat
      /\ Len(scratch) \in Nat /\ Len(scratch) <= ScratchSize /\ scratch \in Seq(0..Len(stream))
      /\ parser.paused \in BOOLEAN /\ parser.at \in Nat /\ parser.length \in Nat
      /\ parser.status = Status /\ BlockSize \in Nat \ {0} /\ parser.pre_parsed \in Nat
  BY <1>1, Numbered DEF Status
<1>4. \/ /\ Status = "URL" /\ plan[nth].refuse # "url" /\ UNCHANGED <<scratch, remaining>>
         /\ Pause([parser EXCEPT !.status = "FIELD", !.at = 0, !.length = 1], at)
      \/ Status = "URL" /\ plan[nth].refuse = "url" /\ Refuse("url")
      \/ /\ Status = "VALUE" /\ scratch' = Terminated /\ UNCHANGED <<pending, remaining, error>>
         /\ parser' = [parser EXCEPT !.status = "FIELD", !.at = at, !.length = 1]
      \/ Status = "FIELD" /\ Only([parser EXCEPT !.length = @ + 1])
  BY DEF cb_header_field
<1>5. error \in {NoError, "url", "syntax", "upgrade"}
  <2>1. error # "too big"
    BY StepFacts
  <2> QED BY <2>1, <1>1 DEF ParseTyped
\* The pause at the first header.
<1>6. CASE /\ Status = "URL" /\ UNCHANGED <<scratch, remaining>>
           /\ Pause([parser EXCEPT !.status = "FIELD", !.at = 0, !.length = 1], at)
  <2> DEFINE p == [parser EXCEPT !.status = "FIELD", !.at = 0, !.length = 1]
  <2>1. p \in Parsers /\ p.status = "FIELD" /\ p.at = 0 /\ p.length = 1
    BY <1>3 DEF Parsers, Statuses
  <2>2. used = LineEnd
    BY <1>1, <1>2, <1>6 DEF NextByte, FirstClasses
  <2>3. ~parser.paused /\ used = Source + at /\ Source + Len(scratch) = wire /\ at < Len(scratch)
        /\ Text(Len(scratch)) /\ offset <= at /\ Len(scratch) - offset <= BlockSize
    BY <1>2, <1>6 DEF Parsed
  <2>4. Source = Before /\ Mark = 0 /\ InFirstLine
    BY <1>6 DEF Source, Mark, InFirstLine
  <2>5. \A i \in 1..Len(scratch) : scratch[i] = Before + i
    <3> SUFFICES ASSUME NEW i \in 1..Len(scratch) PROVE scratch[i] = Before + i
      OBVIOUS
    <3>1. ~(Before + i < 0)
      BY <1>1, <1>3
    <3> QED BY <2>3, <2>4, <3>1 DEF Text
  <2>6. \A i \in (at + 1)..Len(scratch) : scratch[i] = Before + i
    BY <2>5, <1>3
  <2> HIDE DEF p
  <2>7. Pause(p, at)
    BY <1>6 DEF p
  <2>8. /\ Len(scratch) - at \in Nat /\ Len(scratch) - at <= BlockSize
        /\ pending' \in Seq(1..Len(stream)) /\ Len(pending') = Len(scratch) - at
        /\ Len(pending') <= BlockSize /\ PendingTail' /\ Taken' = Before + at
        /\ parser' = [p EXCEPT !.paused = TRUE, !.pre_parsed = Len(scratch) - at]
        /\ parser' \in Parsers /\ error' = error
    <3>1. at <= at /\ at <= Len(scratch) /\ Before + Len(scratch) = wire
      BY <2>3, <2>4, <1>3
    <3> QED BY <2>1, <2>3, <2>6, <2>7, <3>1, <1>1, <1>3, PutsBack
  <2>9. /\ parser'.status = "FIELD" /\ parser'.paused = TRUE /\ parser'.pre_parsed = Len(scratch) - at
    BY <2>1, <2>8 DEF Parsers
  <2>10. Status' = "FIELD" /\ InFirstLine' /\ Source' = Before /\ Mark' = 0
    <3>1. Status' = "FIELD" /\ InFirstLine'
      BY <2>9, <1>1 DEF Status, InFirstLine
    <3> QED BY <3>1, <1>1 DEF Source, Mark
  <2>11. at = LineOf(This) /\ Taken' = LineEnd
    <3>1. LineEnd = Before + at /\ Taken' = Before + at
      BY <2>2, <2>3, <2>4, <2>8
    <3>2. at = LineEnd - Before
      BY <3>1, <1>1, <1>3
    <3> QED BY <3>1, <3>2, <1>1
  <2>12. Progress'
    <3>1. LineEnd < used + 1 /\ used + 1 < HeadEnd
      BY <2>2, <1>1
    <3>2. stream'[used'] = "field"
      BY <1>1, <1>2
    <3> QED BY <2>10, <3>1, <3>2, <1>1 DEF Progress
  <2>13. PutBack'
    <3>1. \A i \in (LineEnd + 1)..(used + 1) : i = used + 1
      BY <2>2, <1>1
    <3>2. \A i \in (LineEnd' + 1)..used' : stream'[i] # "line"
      BY <3>1, <1>1, <1>2
    <3> QED BY <2>10, <2>11, <3>2, <1>1 DEF PutBack
  <2>14. Text(Len(scratch))'
    <3> SUFFICES ASSUME NEW i \in 1..Len(scratch) PROVE ~(Before + i < 0)
      BY <2>5, <2>10, <1>1, <1>6 DEF Text
    <3> QED BY <1>1, <1>3
  <2>15. used' = Source' + at' /\ Source' + Len(scratch') = wire' /\ offset' <= at' /\ at' <= Len(scratch')
    <3>1. used + 1 = Before + (at + 1) /\ Before + Len(scratch) = wire /\ offset <= at + 1 /\ at + 1 <= Len(scratch)
      BY <2>3, <2>4, <1>1, <1>3
    <3> QED BY <2>10, <3>1, <1>1, <1>6
  <2>16. ByteByByte'
    <3>1. parser'.pre_parsed = Len(scratch') - LineOf(This') /\ Len(scratch') - offset' <= BlockSize
      BY <2>3, <2>9, <2>11, <1>1, <1>6
    <3> QED BY <2>9, <2>12, <2>13, <2>14, <2>15, <3>1 DEF ByteByByte
  <2>17. Completed' /\ (parser'.status = "FAILED" => ~parser'.paused)
    BY <2>9, <2>10, <1>1 DEF Completed
  <2>18. remaining' \in Nat /\ scratch' \in Seq(0..Len(stream)) /\ Len(scratch') <= ScratchSize
         /\ error' \in {NoError, "url", "syntax", "upgrade"}
    BY <2>8, <1>3, <1>5, <1>6
  <2> QED BY <2>8, <2>16, <2>17, <2>18, StepKeeps
<1>7. CASE Status = "URL" /\ Refuse("url")
  <2>1. ~parser.paused
    BY <1>2, <1>7 DEF Parsed
  <2> QED BY <2>1, <1>7, RefuseKeeps
\* The value before it ends.
<1>8. CASE /\ Status = "VALUE" /\ scratch' = Terminated /\ UNCHANGED <<pending, remaining, error>>
           /\ parser' = [parser EXCEPT !.status = "FIELD", !.at = at, !.length = 1]
  <2>1. used = ValueEnd /\ LineEnd < used /\ used + 1 < HeadEnd
    BY <1>1, <1>2, <1>8 DEF NextByte
  <2>2. ~parser.paused
    BY <1>2, <1>8 DEF Parsed
  <2>3. /\ parser' \in Parsers /\ parser'.status = "FIELD" /\ ~parser'.paused
        /\ parser'.pre_parsed = parser.pre_parsed
    BY <2>2, <1>3, <1>8 DEF Parsers, Statuses
  <2>4. Progress'
    <3>1. LineEnd < used + 1 /\ stream[used + 1] = "field"
      BY <2>1, <1>1, <1>2, <1>3
    <3> QED BY <2>1, <2>3, <3>1, <1>1 DEF Progress, Status
  <2>5. remaining' \in Nat
    BY <1>3, <1>8
  <2> QED BY <2>1, <2>3, <2>4, <2>5, <1>1, <1>8, EndedKeeps
<1>9. CASE Status = "FIELD" /\ Only([parser EXCEPT !.length = @ + 1])
  <2> DEFINE p == [parser EXCEPT !.length = @ + 1]
  <2>1. /\ p \in Parsers /\ p.status = "FIELD" /\ p.paused = parser.paused /\ p.pre_parsed = parser.pre_parsed
    <3>1. Status = "FIELD"
      BY <1>9
    <3> DEFINE k == parser.length + 1
    <3>4. p = [parser EXCEPT !.length = k] /\ k \in Nat
      BY <1>3
    <3> HIDE DEF k, p
    <3>2. p = [status |-> parser.status, at |-> parser.at, length |-> k,
               paused |-> parser.paused, pre_parsed |-> parser.pre_parsed]
      BY <3>4, <1>3 DEF Parsers
    <3>3. parser.status = "FIELD" /\ parser.pre_parsed \in 0..BlockSize
      BY <3>1, <1>3 DEF Parsers
    <3> QED BY <3>2, <3>3, <3>4, <1>3 DEF Parsers, Statuses
  <2>2. LineEnd < used /\ used + 1 < HeadEnd
    BY <1>2, <1>9 DEF NextByte
  <2> HIDE DEF p
  <2>3. Only(p)
    BY <1>9 DEF p
  <2> QED BY <2>1, <2>2, <2>3, <1>1, <1>9, InHeaderKeeps
<1> QED BY <1>4, <1>6, <1>7, <1>8, <1>9

\* A header's value, in one or several blocks (httpd_parse.c:238-263).
LEMMA ValueKeeps ==
  ASSUME ParseInv, Steps, cb_header_value
  PROVE  ParseInv'
<1> DEFINE length == IF Class = "value" THEN 1 ELSE 0
           p == IF Status = "FIELD"
                THEN [parser EXCEPT !.status = "VALUE", !.at = at, !.length = length]
                ELSE [parser EXCEPT !.length = @ + length]
<1>1. /\ ParseTyped /\ phase = "parse" /\ LineEnd \in Nat
  BY StepFacts DEF Steps, Layout
<1>2. Parsed /\ NextByte
  BY ByteComes DEF Steps
<1>3. /\ parser \in Parsers /\ used \in Nat /\ at \in Nat
      /\ parser.paused \in BOOLEAN /\ parser.at \in Nat /\ parser.length \in Nat
      /\ parser.status = Status
  BY <1>1, Numbered DEF Status
<1>4. Only(p) /\ (Class = "value" \/ (Class = "line" /\ Status = "FIELD"))
  BY DEF cb_header_value
<1>5. CASE Status = "FIELD"
  <2>1. LineEnd < used /\ used + 1 < HeadEnd /\ stream[used] = "colon" /\ Class \in {"value", "line"}
    BY <1>2, <1>4, <1>5 DEF NextByte
  <2>2. ~parser.paused /\ used = Source + at
    BY <2>1, <1>2 DEF Parsed
  <2>3. Source = LineEnd
    BY <2>2, <1>5 DEF Source, InFirstLine
  <2>4. /\ p \in Parsers /\ p.status = "VALUE" /\ p.paused = parser.paused
        /\ p.pre_parsed = parser.pre_parsed /\ p.at = at /\ p.length = length
    BY <1>3, <1>5 DEF Parsers, Statuses
  <2>5. \/ LineEnd + p.at + p.length + 1 = used + 2 /\ Class = "value"
        \/ LineEnd + p.at + p.length + 1 = used + 1 /\ Class = "line"
    <3> HIDE DEF p
    <3>1. CASE Class = "value"
      <4>1. p.at = at /\ p.length = 1 /\ used = LineEnd + at
        BY <2>2, <2>3, <2>4, <3>1
      <4> QED BY <4>1, <3>1, <1>1, <1>3
    <3>2. CASE Class = "line"
      <4>1. p.at = at /\ p.length = 0 /\ used = LineEnd + at
        BY <2>2, <2>3, <2>4, <3>2
      <4> QED BY <4>1, <3>2, <1>1, <1>3
    <3> QED BY <2>1, <3>1, <3>2
  <2> HIDE DEF p
  <2> QED BY <2>1, <2>2, <2>4, <2>5, <1>4, <1>5, InHeaderKeeps
<1>6. CASE Status # "FIELD"
  <2>1. Class = "value" /\ Status = "VALUE"
    BY <1>2, <1>4, <1>6 DEF NextByte, FirstClasses, Parsed
  <2>2. LineEnd < used /\ used + 1 < HeadEnd /\ used = ValueEnd - 1
    BY <2>1, <1>2 DEF NextByte
  <2>3. ~parser.paused
    BY <2>1, <1>2 DEF Parsed
  <2>4. /\ p \in Parsers /\ p.status = "VALUE" /\ p.paused = parser.paused
        /\ p.pre_parsed = parser.pre_parsed /\ p.at = parser.at /\ p.length = parser.length + 1
    BY <2>1, <1>3 DEF Parsers, Statuses
  <2> HIDE DEF p
  <2>5. LineEnd + p.at + p.length + 1 = used + 2
    <3>1. used = (LineEnd + parser.at + parser.length + 1) - 1
      BY <2>2 DEF ValueEnd
    <3> QED BY <2>4, <3>1, <1>1, <1>3
  <2> QED BY <2>1, <2>2, <2>3, <2>4, <2>5, <1>4, InHeaderKeeps
<1> QED BY <1>5, <1>6

\* Bytes the server is not called back for.
LEMMA NoCallbackKeeps ==
  ASSUME ParseInv, Steps, NoCallback
  PROVE  ParseInv'
<1>1. /\ ParseTyped /\ phase = "parse" /\ phase' = "parse" /\ LineEnd \in Nat /\ Before \in Nat
      /\ (Class # "body" => used' = used + 1) /\ Before' = Before /\ LineEnd' = LineEnd
  BY StepFacts DEF Steps, Layout
<1>2. Parsed /\ NextByte
  BY ByteComes DEF Steps
<1>3. /\ parser \in Parsers /\ used \in Nat /\ at \in Nat
      /\ parser.paused \in BOOLEAN /\ parser.at \in Nat /\ parser.length \in Nat
      /\ parser.status = Status
  BY <1>1, Numbered DEF Status
<1>4. Only(parser) /\ (Class \in {"method", "colon"} \/ (Class = "line" /\ Status # "FIELD"))
  BY DEF NoCallback
<1>5. CASE Status \in {"IDLE", "URL"}
  <2>1. ~parser.paused
    BY <1>2, <1>5 DEF Parsed
  <2>2. Status' = Status /\ used' = used + 1
    BY <1>1, <1>4 DEF Only, Status
  <2>3. Progress'
    <3>1. CASE Status = "IDLE"
      <4>1. used = Before
        BY <3>1, <1>2, <1>4 DEF NextByte
      <4> QED BY <4>1, <3>1, <2>2, <1>1 DEF Progress
    <3>2. CASE Status = "URL"
      <4>1. Before + 1 < used /\ used + 1 <= LineEnd
        BY <3>2, <1>2, <1>4 DEF NextByte
      <4>2. Before + 1 < used + 1
        BY <4>1, <1>1, <1>3
      <4> QED BY <4>1, <4>2, <3>2, <2>2, <1>1 DEF Progress
    <3> QED BY <1>5, <3>1, <3>2
  <2>4. InFirstLine /\ InFirstLine' /\ Source' = Source
    BY <2>2, <1>1, <1>5 DEF InFirstLine, Source
  <2>5. Mark = 0 /\ Mark' = 0
    BY <2>2, <2>4, <1>5 DEF Mark
  <2>6. Class # "body" /\ Status \in {"IDLE", "URL", "FIELD", "VALUE", "BODY"}
    BY <1>4, <1>5
  <2> QED BY <2>1, <2>3, <2>4, <2>5, <2>6, <1>3, <1>4, OnlyKeeps
<1>6. CASE Status = "FIELD"
  <2>1. LineEnd < used /\ used + 1 < HeadEnd /\ Class = "colon"
    BY <1>2, <1>4, <1>6 DEF NextByte
  <2> QED BY <2>1, <1>3, <1>4, <1>6, InHeaderKeeps
<1>7. CASE Status = "VALUE"
  <2>1. LineEnd < used /\ used + 1 < HeadEnd /\ Class = "line" /\ used = ValueEnd - 1
    BY <1>2, <1>4, <1>7 DEF NextByte
  <2>2. ~parser.paused
    BY <1>2, <1>7 DEF Parsed
  <2>3. LineEnd + parser.at + parser.length + 1 = used + 1
    <3>1. used = (LineEnd + parser.at + parser.length + 1) - 1
      BY <2>1 DEF ValueEnd
    <3> QED BY <3>1, <1>1, <1>3
  <2> QED BY <2>1, <2>2, <2>3, <1>3, <1>4, <1>7, InHeaderKeeps
<1>8. Status # "BODY"
  BY <1>2, <1>4 DEF NextByte
<1>9. Status \in {"IDLE", "URL", "FIELD", "VALUE", "BODY"}
  BY <1>2 DEF Parsed
<1> QED BY <1>5, <1>6, <1>7, <1>8, <1>9

\* What cb_headers_complete makes of the parser's data (httpd_parse.c:281-308).
LEMMA BodyParser ==
  ASSUME parser \in Parsers
  PROVE  /\ Body \in Parsers /\ Body.status = "BODY" /\ Body.at = parser.at + parser.length
         /\ Body.paused = parser.paused /\ Body.pre_parsed = parser.pre_parsed
<1> DEFINE a == parser.at + parser.length
<1>1. /\ parser.at \in Nat /\ parser.length \in Nat /\ parser.paused \in BOOLEAN
      /\ parser.pre_parsed \in 0..BlockSize
  BY DEF Parsers
<1>2. a \in Nat
  BY <1>1
<1>3. Body = [parser EXCEPT !.status = "BODY", !.at = a]
  BY DEF Body
<1> HIDE DEF a
<1>4. Body = [status |-> "BODY", at |-> a, length |-> parser.length, paused |-> parser.paused,
              pre_parsed |-> parser.pre_parsed]
  BY <1>3 DEF Parsers
<1>5. Body \in Parsers
  BY <1>1, <1>2, <1>4 DEF Parsers, Statuses
<1> QED BY <1>4, <1>5 DEF a

\* The end of the headers of a request with a body.
LEMMA HeadersCompleteKeeps ==
  ASSUME ParseInv, Steps, cb_headers_complete
  PROVE  ParseInv'
<1>1. /\ ParseTyped /\ used' = used + 1 /\ Class = "end" /\ This' = This /\ HeadEnd' = HeadEnd
      /\ This.body \in Nat
  BY StepFacts DEF Steps, cb_headers_complete, Layout
<1>2. Parsed /\ NextByte
  BY ByteComes DEF Steps
<1>3. Status = "VALUE" /\ used = ValueEnd /\ used + 1 = HeadEnd
  BY <1>1, <1>2 DEF Parsed, NextByte, FirstClasses
<1>4. /\ parser \in Parsers /\ parser.paused \in BOOLEAN /\ parser.at \in Nat /\ parser.length \in Nat
  BY <1>1, Numbered
<1>5. ~parser.paused
  BY <1>2, <1>3 DEF Parsed
<1>6. /\ This.body > 0 /\ scratch' = Terminated /\ remaining' = This.body /\ parser' = Body
      /\ UNCHANGED <<pending, error>>
  BY DEF cb_headers_complete, This
<1>7. /\ parser' \in Parsers /\ ~parser'.paused /\ parser'.pre_parsed = parser.pre_parsed
      /\ parser'.status = "BODY"
  BY <1>4, <1>5, <1>6, BodyParser
<1>8. Progress'
  BY <1>1, <1>3, <1>6, <1>7 DEF Progress, Status
<1>9. Class # "line" /\ Class # "body" /\ remaining' \in Nat
  BY <1>1, <1>6
<1> QED BY <1>3, <1>6, <1>7, <1>8, <1>9, EndedKeeps

\* An upgrade is refused at the end of the headers (httpd_parse.c:301-306).
LEMMA HeadersRefusedKeep ==
  ASSUME ParseInv, Steps, cb_headers_refused
  PROVE  ParseInv'
<1>1. Class = "end" /\ Refuse("upgrade")
  BY DEF cb_headers_refused
<1>2. Parsed /\ NextByte
  BY ByteComes DEF Steps
<1>3. Status = "VALUE"
  BY <1>1, <1>2 DEF Parsed, NextByte, FirstClasses
<1>4. ~parser.paused
  BY <1>2, <1>3 DEF Parsed
<1> QED BY <1>1, <1>4, RefuseKeeps

\* The message is complete: its headers are kept and its body comes next.
LEMMA CompletesKeep ==
  ASSUME ParseInv, Steps, NEW place \in Nat, at <= place, place <= at + 1, place <= Len(scratch),
         ~parser.paused, LineEnd + Len(scratch) = wire,
         \A i \in (place + 1)..Len(scratch) : scratch[i] = LineEnd + i,
         NEW p \in Parsers, Pause(Complete(p), place),
         scratch' \in Seq(0..Len(stream)), Len(scratch') = Len(scratch), HeadEnd - LineEnd <= Len(scratch),
         \A i \in 1..(HeadEnd - LineEnd - 1) :
           scratch'[i] = IF stream[LineEnd + i] = "line" THEN 0 ELSE LineEnd + i,
         used' = LineEnd + place, remaining' \in Nat, used' + remaining' = HeadEnd + This.body
  PROVE  ParseInv'
<1>1. /\ ParseTyped /\ phase' = "parse" /\ This' = This /\ LineEnd' = LineEnd /\ stream' = stream
      /\ Ends(plan, nth)' = Ends(plan, nth) /\ Ends(plan, nth) = HeadEnd + This.body
      /\ HeaderOf(This) = HeadEnd - LineEnd /\ LineEnd \in Nat /\ at' = at + 1
      /\ error # "too big"
  BY StepFacts DEF Steps, Layout
<1>2. /\ Len(scratch) \in Nat /\ Len(scratch) <= ScratchSize /\ at \in Nat
  BY <1>1, Numbered
<1>3. Complete(p) \in Parsers /\ Complete(p).status = "COMPLETE"
  BY DEF Complete, Parsers, Statuses
<1> DEFINE q == Complete(p)
           left == Len(scratch) - place
<1> HIDE DEF q
<1>4. /\ left \in Nat /\ left <= BlockSize /\ left <= ScratchSize
      /\ pending' \in Seq(1..Len(stream)) /\ Len(pending') = left
      /\ Len(pending') <= BlockSize /\ PendingTail' /\ Taken' = LineEnd + place
      /\ parser' = [q EXCEPT !.paused = TRUE, !.pre_parsed = left]
      /\ parser' \in Parsers /\ error' = error
  <2>1. q \in Parsers /\ Pause(q, place)
    BY <1>3 DEF q
  <2> QED BY <2>1, <1>1, PutsBack
<1>5. parser'.status = "COMPLETE" /\ parser'.paused = TRUE /\ parser'.pre_parsed = left
  <2>1. q \in Parsers /\ q.status = "COMPLETE"
    BY <1>3 DEF q
  <2> HIDE DEF left
  <2> QED BY <2>1, <1>4 DEF Parsers
<1>6. Kept'
  <2>1. LineEnd' = LineEnd /\ HeaderOf(This)' = HeadEnd - LineEnd
    BY <1>1
  <2> QED BY <2>1, <1>1 DEF Kept
<1>7. Served'
  <2>1. used' = Taken' /\ used' + remaining' = Ends(plan, nth)' /\ Len(pending') <= ScratchSize
    BY <1>1, <1>4
  <2> QED BY <2>1 DEF Served
<1>8. at' <= Len(scratch') /\ Len(scratch') - at' <= parser'.pre_parsed
  <2>1. CASE at + 1 <= Len(scratch)
    <3>1. Len(scratch) - (at + 1) <= left
      BY <2>1, <1>2
    <3> QED BY <2>1, <3>1, <1>1, <1>5
  <2>2. at < Len(scratch)
    BY ByteComes DEF Steps, Parsed
  <2>3. at + 1 <= Len(scratch)
    BY <2>2, <1>2
  <2> QED BY <2>1, <2>3
<1>9. Completed'
  BY <1>1, <1>5, <1>6, <1>7, <1>8 DEF Completed
<1>10. ByteByByte'
  BY <1>5 DEF ByteByByte, Status
<1>11. Len(scratch') <= ScratchSize /\ error' \in {NoError, "url", "syntax", "upgrade"}
  <2>1. error \in {NoError, "url", "syntax", "upgrade", "too big"}
    BY <1>1 DEF ParseTyped
  <2> QED BY <2>1, <1>1, <1>2, <1>4
<1>12. parser'.status = "FAILED" => ~parser'.paused
  BY <1>5
<1> QED BY <1>4, <1>9, <1>10, <1>11, <1>12, StepKeeps

\* A request without a body is complete at the end of its headers, and what follows is put
\* back (httpd_parse.c:346-381).
LEMMA NoBodyKeeps ==
  ASSUME ParseInv, Steps, cb_no_body
  PROVE  ParseInv'
<1>1. /\ ParseTyped /\ used' = used + 1 /\ Class = "end" /\ This.body \in Nat
      /\ LineEnd \in Nat /\ HeadEnd \in Nat
  BY StepFacts DEF Steps, cb_no_body, Layout
<1>2. Parsed /\ NextByte
  BY ByteComes DEF Steps
<1>3. Status = "VALUE" /\ used = ValueEnd /\ used + 1 = HeadEnd
  BY <1>1, <1>2 DEF Parsed, NextByte, FirstClasses
<1>4. /\ parser \in Parsers /\ parser.paused \in BOOLEAN /\ parser.at \in Nat /\ parser.length \in Nat
      /\ Len(scratch) \in Nat /\ at \in Nat /\ used \in Nat
  BY <1>1, Numbered
<1>5. /\ Source = LineEnd /\ parser.at + parser.length + 1 = at /\ at \in 1..Len(scratch)
      /\ Terminated \in Seq(0..Len(stream)) /\ Len(Terminated) = Len(scratch)
      /\ \A i \in 1..at : Terminated[i] = IF stream[LineEnd + i] = "line" THEN 0 ELSE LineEnd + i
      /\ \A i \in (at + 1)..Len(scratch) : Terminated[i] = LineEnd + i /\ scratch[i] = LineEnd + i
      /\ ~parser.paused
  BY <1>3, Ended
<1>6. used = LineEnd + at /\ LineEnd + Len(scratch) = wire /\ at < Len(scratch)
  BY <1>2, <1>5 DEF Parsed
<1>7. /\ This.body = 0 /\ scratch' = Terminated /\ remaining' = 0
      /\ Pause(Complete(Body), Body.at + 2)
  BY DEF cb_no_body, This
<1>8. Body \in Parsers /\ Body.at + 2 = at + 1
  <2>1. Body \in Parsers /\ Body.at = parser.at + parser.length
    BY <1>4, BodyParser
  <2>2. (parser.at + parser.length) + 2 = (parser.at + parser.length + 1) + 1
    BY <1>4
  <2> QED BY <2>1, <2>2, <1>5
<1> DEFINE p == Body
           place == at + 1
<1>9. /\ place \in Nat /\ at <= place /\ place <= at + 1 /\ place <= Len(scratch)
      /\ HeadEnd - LineEnd = place /\ HeadEnd - LineEnd - 1 = at /\ HeadEnd = LineEnd + place
  BY <1>1, <1>3, <1>4, <1>6
<1>10. \A i \in (place + 1)..Len(scratch) : scratch[i] = LineEnd + i
  <2> SUFFICES ASSUME NEW i \in (place + 1)..Len(scratch) PROVE scratch[i] = LineEnd + i
    OBVIOUS
  <2>1. i \in (at + 1)..Len(scratch)
    BY <1>4
  <2> QED BY <2>1, <1>5
<1>11. Pause(Complete(p), place) /\ p \in Parsers
  BY <1>7, <1>8
<1>12. used' = LineEnd + place /\ used' + remaining' = HeadEnd + This.body /\ remaining' \in Nat
  <2>1. used' = HeadEnd /\ remaining' = This.body
    BY <1>1, <1>3, <1>7
  <2> QED BY <2>1, <1>1, <1>9
<1>13. \A i \in 1..(HeadEnd - LineEnd - 1) :
         scratch'[i] = IF stream[LineEnd + i] = "line" THEN 0 ELSE LineEnd + i
  BY <1>5, <1>7, <1>9
<1>14. scratch' \in Seq(0..Len(stream)) /\ Len(scratch') = Len(scratch) /\ HeadEnd - LineEnd <= Len(scratch)
  BY <1>5, <1>7, <1>9
<1> HIDE DEF p, place
<1> QED BY <1>5, <1>6, <1>9, <1>10, <1>11, <1>12, <1>13, <1>14, CompletesKeep

\* A request with a body is complete at its first byte, which is put back with what follows
\* (httpd_parse.c:316-341).
LEMMA OnBodyKeeps ==
  ASSUME ParseInv, Steps, cb_on_body
  PROVE  ParseInv'
<1>1. /\ ParseTyped /\ used' = used /\ Class = "body" /\ This.body \in Nat
      /\ LineEnd \in Nat /\ HeadEnd \in Nat
  BY StepFacts DEF Steps, cb_on_body, Layout
<1>2. Parsed /\ NextByte
  BY ByteComes DEF Steps
<1>3. Status = "BODY" /\ used = HeadEnd /\ remaining = This.body
  BY <1>1, <1>2 DEF Parsed, NextByte, FirstClasses
<1>4. /\ parser \in Parsers /\ Len(scratch) \in Nat /\ at \in Nat /\ used \in Nat
      /\ scratch \in Seq(0..Len(stream))
  BY <1>1, Numbered
<1>5. ~parser.paused
  BY <1>2, <1>3 DEF Parsed
<1>6. Source = LineEnd /\ Mark = used + 1
  BY <1>3, <1>5 DEF Source, InFirstLine, Mark
<1>7. used = LineEnd + at /\ LineEnd + Len(scratch) = wire /\ at < Len(scratch) /\ Text(Len(scratch))
  BY <1>2, <1>6 DEF Parsed
<1>8. scratch' = scratch /\ remaining' = remaining /\ Pause(Complete(parser), at)
  BY DEF cb_on_body
<1>9. /\ at <= at /\ at <= at + 1 /\ at <= Len(scratch) /\ HeadEnd - LineEnd = at /\ HeadEnd - LineEnd - 1 = at - 1
  BY <1>1, <1>3, <1>4, <1>7
<1>10. \A i \in 1..Len(scratch) :
         scratch[i] = IF stream[LineEnd + i] = "line" /\ LineEnd + i < used + 1 THEN 0 ELSE LineEnd + i
  BY <1>6, <1>7 DEF Text
<1>11. \A i \in (at + 1)..Len(scratch) : scratch[i] = LineEnd + i
  <2> SUFFICES ASSUME NEW i \in (at + 1)..Len(scratch) PROVE scratch[i] = LineEnd + i
    OBVIOUS
  <2>1. i \in 1..Len(scratch) /\ ~(LineEnd + i < used + 1)
    BY <1>1, <1>4, <1>7
  <2> QED BY <2>1, <1>10
<1>12. \A i \in 1..(HeadEnd - LineEnd - 1) :
         scratch'[i] = IF stream[LineEnd + i] = "line" THEN 0 ELSE LineEnd + i
  <2> SUFFICES ASSUME NEW i \in 1..(at - 1)
               PROVE  scratch[i] = IF stream[LineEnd + i] = "line" THEN 0 ELSE LineEnd + i
    BY <1>8, <1>9
  <2>1. i \in 1..Len(scratch) /\ LineEnd + i < used + 1
    BY <1>1, <1>4, <1>7
  <2> QED BY <2>1, <1>10
<1>13. used' = LineEnd + at /\ used' + remaining' = HeadEnd + This.body /\ remaining' \in Nat
  BY <1>1, <1>3, <1>7, <1>8
<1>14. scratch' \in Seq(0..Len(stream)) /\ Len(scratch') = Len(scratch) /\ HeadEnd - LineEnd <= Len(scratch)
  BY <1>4, <1>8, <1>9
<1> QED BY <1>4, <1>5, <1>7, <1>8, <1>9, <1>11, <1>12, <1>13, <1>14, CompletesKeep

\* Each callback keeps the invariant (httpd_parse.c:445-447).
LEMMA ParseByteKeeps ==
  ASSUME ParseInv, ParseByte
  PROVE  ParseInv'
<1>1. Steps
  BY DEF ParseByte, Steps
<1>2. Callback
  BY DEF ParseByte
<1> QED BY <1>1, <1>2, FirstLineKeeps, FieldKeeps, ValueKeeps, NoCallbackKeeps, HeadersCompleteKeeps,
           HeadersRefusedKeep, NoBodyKeeps, OnBodyKeeps DEF Callback

---------------------------------------------------------------------------
(* The theorems.                                                            *)

\* The invariant holds when the connection is made (httpd_parse.c:496-507).
LEMMA ParseInitHolds ==
  ASSUME ParseInit
  PROVE  ParseInv
<1>1. /\ plan \in UNION {[1..n -> Requests] : n \in 1..MaxRequests}
      /\ stream = FlattenSeq([k \in DOMAIN plan |-> Bytes(plan[k])])
      /\ wire = 0 /\ pending = <<>> /\ phase = "read" /\ nth = 1
      /\ scratch = <<>> /\ offset = 0 /\ at = 0 /\ remaining = 0
      /\ parser = NewParser /\ error = NoError /\ used = 0 /\ inOrder = TRUE
  BY DEF ParseInit
<1>2. PICK n \in 1..MaxRequests : plan \in [1..n -> Requests]
  BY <1>1
<1>3. n \in Nat \ {0} /\ BlockSize \in Nat \ {0} /\ ScratchSize \in Nat \ {0}
  BY ParseAssumption
<1>4. stream \in Seq(Classes) /\ Len(stream) \in Nat /\ Len(plan) = n /\ Shape(plan, stream)
  BY <1>1, <1>2, <1>3, StreamShaped
<1>5. ParseTyped
  <2>1. /\ pending \in Seq(1..Len(stream)) /\ Len(pending) = 0 /\ 0 <= BlockSize
        /\ scratch \in Seq(0..Len(stream)) /\ Len(scratch) = 0 /\ 0 <= ScratchSize
    BY <1>1, <1>3, EmptySeq
  <2>2. 0 \in 0..ScratchSize /\ 0 \in 0..Len(stream) /\ 1 \in 1..Len(plan) /\ 0 \in Nat
    BY <1>3, <1>4
  <2>3. NewParser \in Parsers
    BY <1>3 DEF NewParser, Parsers, Statuses
  <2>4. phase \in Phases /\ error \in {NoError, "url", "syntax", "upgrade", "too big"}
    BY <1>1 DEF Phases
  <2>5. Len(plan) \in Nat /\ plan \in [1..Len(plan) -> Requests]
    BY <1>2, <1>3, <1>4
  <2> QED BY <2>1, <2>2, <2>3, <2>4, <2>5, <1>1, <1>4 DEF ParseTyped
<1>6. Taken = 0 /\ PendingTail
  <2>1. Len(pending) = 0
    BY <1>1
  <2>2. Taken = 0
    BY <2>1, <1>1 DEF Taken
  <2> QED BY <2>1, <2>2 DEF PendingTail
<1>7. Status = "IDLE" /\ parser.paused = FALSE /\ parser.pre_parsed = 0
  BY <1>1 DEF Status, NewParser
<1>8. Before = 0
  <2>1. Ends(plan, 0) = 0
    BY <1>4 DEF Shape
  <2> QED BY <2>1, <1>1 DEF Before
<1>9. Source = 0 /\ Progress
  BY <1>1, <1>7, <1>8 DEF Source, InFirstLine, Progress
<1>10. Reading
  <2>1. Text(offset) /\ Len(scratch) = 0
    BY <1>1 DEF Text
  <2> QED BY <2>1, <1>1, <1>6, <1>7, <1>9 DEF Reading
<1>11. Block /\ ByteByByte /\ Completed /\ Refused
  BY <1>1 DEF Block, ByteByByte, Completed, Refused, NoError
<1> QED BY <1>1, <1>5, <1>6, <1>10, <1>11 DEF ParseInv

\* Every step of the server keeps it.
LEMMA ParseStep ==
  ASSUME ParseInv, [ParseNext]_parseVars
  PROVE  ParseInv'
<1>1. CASE ParseNext
  <2>1. CASE HandlerReads
    <3>1. PICK length \in Takes : BodyRead(length)
      BY <2>1 DEF HandlerReads
    <3>2. length \in Nat
      BY ParseAssumption
    <3> QED BY <2>1, <3>1, <3>2, BodyReadKeeps DEF HandlerReads
  <2>2. CASE PurgeBody
    <3>1. PurgeSize \in Nat
      BY ParseAssumption
    <3> QED BY <2>2, <3>1, BodyReadKeeps DEF PurgeBody
  <2> QED BY <1>1, <2>1, <2>2, ReadBlockKeeps, TooBigKeeps, LeavesKeep, ContinueKeeps, ParseByteKeeps,
             BlockEndKeeps, NextRequestKeeps DEF ParseNext
<1>2. CASE UNCHANGED parseVars
  <2>1. UNCHANGED <<plan, stream, hangup, wire, pending, phase, nth, scratch, offset, at, remaining,
                    parser, error, used, inOrder>>
    BY <1>2 DEF parseVars, client, bytes
  <2>2. Status' = Status /\ Progress' = Progress /\ This' = This /\ LineEnd' = LineEnd
        /\ Before' = Before /\ HeadEnd' = HeadEnd /\ ValueEnd' = ValueEnd
        /\ Ends(plan, nth)' = Ends(plan, nth)
    BY <2>1, SameProgress
  <2>3. Taken' = Taken /\ InFirstLine' = InFirstLine
    BY <2>1, <2>2 DEF Taken, InFirstLine
  <2>4. Source' = Source /\ Mark' = Mark /\ PutBack' = PutBack
    BY <2>1, <2>2, <2>3 DEF Source, Mark, PutBack
  <2>5. Kept' = Kept /\ Served' = Served /\ TooBigIsBig' = TooBigIsBig
    BY <2>1, <2>2, <2>3 DEF Kept, Served, TooBigIsBig
  <2>6. Text(offset)' = Text(offset) /\ Text(Len(scratch))' = Text(Len(scratch))
    BY <2>1, <2>4 DEF Text
  <2>7. ParseTyped' /\ PendingTail' /\ inOrder' = TRUE
    BY <2>1, <2>3 DEF ParseInv, ParseTyped, PendingTail, Parsers
  <2>8. Reading'
    BY <2>1, <2>2, <2>3, <2>4, <2>6 DEF ParseInv, Reading
  <2>9. Block'
    BY <2>1, <2>2, <2>3, <2>4, <2>6 DEF ParseInv, Block
  <2>10. ByteByByte'
    BY <2>1, <2>2, <2>3, <2>4, <2>6 DEF ParseInv, ByteByByte
  <2>11. Completed'
    BY <2>1, <2>2, <2>5 DEF ParseInv, Completed
  <2>12. Refused'
    BY <2>1, <2>2, <2>5 DEF ParseInv, Refused
  <2> QED BY <2>7, <2>8, <2>9, <2>10, <2>11, <2>12 DEF ParseInv
<1> QED BY <1>1, <1>2

\* The invariant of a connection's bytes, of the parser's place in scratch and of what is put
\* back holds at every step of httpd_parse_req, httpd_req_recv and httpd_req_delete.
THEOREM ParseInvariant == ParseSpec => []ParseInv
<1>1. ParseInit => ParseInv
  BY ParseInitHolds
<1>2. ParseInv /\ [ParseNext]_parseVars => ParseInv'
  BY ParseStep
<1> QED BY <1>1, <1>2, PTL DEF ParseSpec

\* Each byte of a connection is used once, in order and by the request it belongs to: however
\* the network cuts the requests into blocks, whatever pauses put back, and whatever part of
\* a body a handler leaves (httpd_parse.c:148-183, 474, 586-600; httpd_txrx.c:92-142).
THEOREM BytesTheorem == ParseSpec => []BytesInOrder
<1>1. ParseInv => BytesInOrder
  <2> SUFFICES ASSUME ParseInv PROVE BytesInOrder
    OBVIOUS
  <2>1. ParseTyped /\ Completed /\ inOrder = TRUE
    BY DEF ParseInv
  <2>2. parser.pre_parsed \in 0..BlockSize
    BY <2>1 DEF ParseTyped, Parsers
  <2>3. ParseTypeOK
    BY <2>1, <2>2 DEF ParseTyped, Phases, ParseTypeOK
  <2>4. LastOf(nth) = Ends(plan, nth)
    BY DEF LastOf, Ends
  <2>5. phase \in {"handler", "purge"} => used + remaining = LastOf(nth)
    BY <2>1, <2>4 DEF Completed, Served
  <2> QED BY <2>1, <2>3, <2>5 DEF BytesInOrder, UsedInOrder, BodyIsItsOwn
<1> QED BY <1>1, ParseInvariant, PTL

\* When a handler is called scratch holds all headers of its request, from its start and with
\* every line end terminated; and a request refused as too big does not fit into scratch
\* (httpd_parse.c:188-263, 383-433).
THEOREM HeadersTheorem == ParseSpec => []HeadersFit
<1>1. ParseInv => HeadersFit
  <2> SUFFICES ASSUME ParseInv PROVE HeadersFit
    OBVIOUS
  <2>1. ParseTyped /\ Completed /\ Refused
    BY DEF ParseInv
  <2>2. TooBigIsBig
    <3>1. CASE error = "too big"
      BY <2>1, <3>1 DEF Refused
    <3>2. CASE error # "too big"
      BY <3>2 DEF TooBigIsBig
    <3> QED BY <3>1, <3>2
  <2>3. ASSUME phase = "handler"
        PROVE  LET first == EndOf(nth) - HeaderOf(plan[nth]) + 1
                   kept  == [i \in 1..HeaderOf(plan[nth]) - 1 |->
                               IF stream[first + i - 1] = "line" THEN 0 ELSE first + i - 1]
               IN  SubSeq(scratch, 1, HeaderOf(plan[nth]) - 1) = kept
    <3> DEFINE h == HeaderOf(This)
               n == Len(stream)
               first == EndOf(nth) - h + 1
               kept == [i \in 1..h - 1 |-> IF stream[first + i - 1] = "line" THEN 0 ELSE first + i - 1]
               s == SubSeq(scratch, 1, h - 1)
    <3>1. Kept
      BY <2>1, <2>3 DEF Completed
    <3>2. /\ LineEnd \in Nat /\ HeadEnd \in Nat /\ h = HeadEnd - LineEnd /\ LineEnd + 4 <= HeadEnd
          /\ Ends(plan, nth) = HeadEnd + This.body /\ This.body \in Nat /\ n \in Nat
          /\ HeadEnd + This.body <= n
      BY <2>1, Places DEF Layout
    <3>3. EndOf(nth) = HeadEnd
      <4>1. EndOf(nth) = Ends(plan, nth) - This.body
        BY DEF EndOf, LastOf, Ends, This
      <4> QED BY <4>1, <3>2
    <3>4. scratch \in Seq(0..n) /\ Len(scratch) \in Nat
      BY <2>1, Numbered
    <3>5. /\ h <= Len(scratch)
          /\ \A i \in 1..h - 1 : scratch[i] = IF stream[LineEnd + i] = "line" THEN 0 ELSE LineEnd + i
      BY <3>1 DEF Kept
    <3> HIDE DEF h, n
    <3>6. first = LineEnd + 1
      BY <3>2, <3>3
    <3>7. \A i \in 1..h - 1 : first + i - 1 = LineEnd + i /\ LineEnd + i \in 0..n /\ 0 \in 0..n
      <4> SUFFICES ASSUME NEW i \in 1..h - 1
                   PROVE  first + i - 1 = LineEnd + i /\ LineEnd + i \in 0..n /\ 0 \in 0..n
        OBVIOUS
      <4> HIDE DEF first
      <4> QED BY <3>2, <3>6
    <3> HIDE DEF first
    <3>8. kept = [i \in 1..h - 1 |-> IF stream[LineEnd + i] = "line" THEN 0 ELSE LineEnd + i]
      BY <3>7
    <3> DEFINE S == 0..n
    <3>9. /\ s \in Seq(S) /\ Len(s) = h - 1 /\ \A i \in 1..h - 1 : s[i] = scratch[i]
      <4>1. h - 1 \in Nat /\ h - 1 <= Len(scratch)
        BY <3>2, <3>4, <3>5
      <4>2. scratch \in Seq(S)
        BY <3>4
      <4> HIDE DEF S
      <4> QED BY <4>1, <4>2, Cut
    <3>10. s = kept
      <4>1. s = [i \in 1..h - 1 |-> s[i]]
        <5>1. s \in [1..Len(s) -> S]
          BY <3>9, LenProperties
        <5> HIDE DEF s, S
        <5> QED BY <5>1, <3>9
      <4> HIDE DEF s, kept
      <4> QED BY <4>1, <3>5, <3>8, <3>9
    <3> QED BY <3>10 DEF first, h, This
  <2>4. HeadersKept
    BY <2>3 DEF HeadersKept
  <2> QED BY <2>2, <2>4 DEF HeadersFit
<1> QED BY <1>1, ParseInvariant, PTL

=============================================================================

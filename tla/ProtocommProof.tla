--------------------------- MODULE ProtocommProof ---------------------------
(***************************************************************************)
(* Client and device stay in step, and the transport's session is security1's *)
(* until the service is stopped: for any number of clients, connections,     *)
(* requests and faults, and any number of starts and stops.                  *)
(***************************************************************************)
EXTENDS Protocomm, FiniteSetTheorems, SequenceTheorems, NaturalsInduction, TLAPS

Eps      == {"proto-ver", "prov-session", "prov-scan"}
Orders   == [act : {"register", "insert", "unregister", "remove", "secure", "cleanup", "halt"},
             ep : Eps \cup {"none"}]
Sessions == [id : Fds, gen : Gens \cup {0}, ctx : Gens \cup {0}, pos : Nat]
Sockets  == [client : Clients, fd : Fds, there : BOOLEAN, reset : BOOLEAN]
Steps    == {"away", "waiting", "connected", "versioned", "agreed", "up"}
Peers    == [step : Steps, gen : Gens \cup {0}, pos : Nat, visits : Nat]
Places   == {"idle", "close", "open", "receive", "dispatch", "handler", "encrypt", "send"}

Typed ==
  /\ app \in [todo : Seq(Orders), services : 1..MaxServices]
  /\ uris \subseteq Eps /\ endpoints \subseteq Eps /\ sec \in BOOLEAN
  /\ session_id \in Fds \cup {NO_SESSION_ID} /\ cur_session \in Sessions \cup {NULL}
  /\ conn \in Sockets \cup {NULL} /\ backlog \in Seq(Clients)
  /\ client \in [Clients -> Peers]
  /\ wire \in [req : Messages \cup {NULL}, body : BOOLEAN, answer : Messages \cup {NULL}]
  /\ server \in [pc : Places, req : Messages \cup {NULL}, clear : BOOLEAN]
  /\ early \in BOOLEAN /\ garbled \in BOOLEAN

---------------------------------------------------------------------------
(* The order of a start and of a stop.                                      *)

Acts == {app.todo[i].act : i \in 1..Len(app.todo)}

\* A list that is worked off belongs to a start, which sets the security before its end, or
\* to a stop, which ends with the halt.
InOrder ==
  /\ \A i \in 1..Len(app.todo) :
       /\ app.todo[i].act \in {"register", "insert", "unregister", "remove"} => app.todo[i].ep \in Eps
       /\ app.todo[i].act = "secure" => \A j \in 1..Len(app.todo) : app.todo[j].act = "secure" => i = j
       /\ app.todo[i].act = "halt" => i = Len(app.todo)
  /\ "secure" \in Acts => Acts \subseteq {"register", "insert", "secure"}
  /\ app.todo # <<>> => \/ "halt" \in Acts
                        \/ /\ Acts \subseteq {"register", "insert", "secure"}
                           /\ app.todo[Len(app.todo)] = [act |-> "insert", ep |-> "prov-scan"]
                           /\ "prov-scan" \in uris \/ \E i \in 1..Len(app.todo) :
                                app.todo[i] = [act |-> "register", ep |-> "prov-scan"]

\* What has been done of a stop, and that nothing is left behind it.
Stopping ==
  /\ ~sec => cur_session = NULL
  /\ "secure" \in Acts => ~sec
  /\ "halt" \in Acts /\ "cleanup" \notin Acts => ~sec
  /\ app.todo = <<>> /\ uris = {} =>
       /\ ~sec /\ conn = NULL /\ backlog = <<>> /\ wire = Quiet /\ server.pc = "idle"
       /\ \A c \in Clients : client[c].step = "away"

---------------------------------------------------------------------------
(* The connection, the request on it, and the client at its other end.      *)

Queued ==
  /\ \A c \in Clients : client[c].step = "waiting" <=> \E i \in 1..Len(backlog) : backlog[i] = c
  /\ \A i, j \in 1..Len(backlog) : backlog[i] = backlog[j] => i = j

Peered ==
  /\ \A c \in Clients : Open(c) <=> client[c].step \notin {"away", "waiting"}
  /\ \A c \in Clients : client[c].step \in {"agreed", "up"} <=> client[c].gen # 0

\* One message at a time, on the wire or at the server.
OneMessage ==
  /\ conn = NULL => wire = Quiet
  /\ wire.req # NULL => wire.answer = NULL
  /\ wire.req = NULL => ~wire.body
  /\ server.pc # "idle" => conn # NULL /\ wire.req # NULL /\ server.req # NULL
  /\ server.pc \notin {"idle", "send"} => server.req = wire.req
  /\ server.pc = "send" => server.req.kind \in {wire.req.kind, "404"}
  /\ server.pc \in {"handler", "encrypt"} => server.req.kind = "scan"

\* A client asks what its step calls for, and only what is encrypted has a key.
Suits(c, kind) ==
  CASE kind \in {"version", "command0"} -> client[c].step \in {"connected", "versioned"}
    [] kind = "command1"                -> client[c].step = "agreed"
    [] kind = "scan"                    -> client[c].step = "up"
    [] OTHER                            -> TRUE

Asked ==
  /\ wire.req # NULL =>
       /\ wire.req.kind # "404"
       /\ wire.req.gen # 0 <=> wire.req.kind \in {"command1", "scan"}
       /\ \A c \in Clients : Open(c) => Suits(c, wire.req.kind)
  /\ wire.answer # NULL => \A c \in Clients : Open(c) => Suits(c, wire.answer.kind)

\* Until security is set nobody holds a key.
NoKeys ==
  "secure" \in Acts =>
    /\ \A c \in Clients : client[c].gen = 0
    /\ wire.req # NULL => wire.req.gen = 0
    /\ wire.answer # NULL => wire.answer.gen = 0
    /\ server.pc # "idle" => server.req.gen = 0

---------------------------------------------------------------------------
(* Both ends of the session.                                                *)

\* The device's session is this connection's, and stands at this place of this key stream.
Sync(gen, pos) ==
  /\ session_id = conn.fd /\ Current(session_id)
  /\ cur_session.gen = gen /\ cur_session.ctx = gen /\ cur_session.pos = pos

Encrypted(msg) == msg.kind \in {"command1", "scan"} /\ msg.gen # 0

\* Where the two stand at each point of a request's way.
Both ==
  sec =>
    /\ \A c \in Clients :
         client[c].step = "up" /\ Open(c) /\ wire = Quiet /\ server.pc = "idle" =>
           Sync(client[c].gen, client[c].pos)
    /\ server.pc = "idle" /\ wire.req # NULL /\ wire.req.kind = "scan" => Sync(wire.req.gen, wire.req.pos)
    /\ server.pc \in {"close", "open"} => server.req.kind # "scan"
    /\ server.pc \in {"receive", "dispatch"} /\ server.req.kind = "scan" =>
         Sync(server.req.gen, server.req.pos)
    /\ server.pc \in {"handler", "encrypt"} /\ ~server.clear => Sync(server.req.gen, server.req.pos + 1)
    /\ server.pc = "send" /\ Encrypted(server.req) => Sync(server.req.gen, server.req.pos + 1)
    /\ wire.answer # NULL /\ Encrypted(wire.answer) => Sync(wire.answer.gen, wire.answer.pos + 1)

\* The connection the request in hand is for.
SameSocket ==
  /\ server.pc = "open" => session_id = NO_SESSION_ID
  /\ server.pc \in {"receive", "dispatch", "handler", "encrypt"} => session_id = conn.fd

\* In the first service the transport's session is there, or none.
Linked ==
  app.services = 1 /\ ~early =>
    /\ "secure" \in Acts => session_id = NO_SESSION_ID
    /\ sec /\ session_id # NO_SESSION_ID => Current(session_id)

IInv == /\ Typed /\ InOrder /\ Stopping /\ Queued /\ Peered /\ OneMessage /\ Asked /\ NoKeys
        /\ Both /\ SameSocket /\ Linked /\ HandlersHear

---------------------------------------------------------------------------
(* Numbers, sequences and records.                                          *)

\* A set of numbers has a least one.
LEMMA LeastExists ==
  ASSUME NEW S \in SUBSET Nat, S # {}
  PROVE  \E x \in S : \A y \in S : x <= y
<1>1. PICK x \in S : \A y \in S : <<y, x>> \notin OpToRel(<, Nat)
  BY WFMin, NatLessThanWellFounded
<1>2. \A y \in S : ~(y < x)
  BY <1>1 DEF OpToRel
<1> QED BY <1>2

\* Min finds it.
LEMMA MinIs ==
  ASSUME NEW S \in SUBSET Nat, S # {}
  PROVE  Min(S) \in S
BY LeastExists DEF Min

\* A sequence without its first.
LEMMA TailIs ==
  ASSUME NEW S, NEW s \in Seq(S), s # <<>>
  PROVE  /\ Len(s) \in Nat /\ Len(s) >= 1 /\ s[1] \in S /\ Head(s) = s[1]
         /\ Tail(s) \in Seq(S) /\ Len(Tail(s)) = Len(s) - 1
         /\ \A i \in 1..(Len(s) - 1) : Tail(s)[i] = s[i + 1]
         /\ Tail(s) = <<>> <=> Len(s) = 1
<1>1. Len(s) \in Nat /\ Len(s) >= 1
  BY EmptySeq
<1>2. Tail(s) \in Seq(S) /\ Len(Tail(s)) = Len(s) - 1 /\ \A i \in 1..(Len(s) - 1) : Tail(s)[i] = s[i + 1]
  BY <1>1, HeadTailProperties
<1>3. Tail(s) = <<>> <=> Len(s) = 1
  <2> DEFINE t == Tail(s)
  <2>1. t \in Seq(S) /\ Len(t) = Len(s) - 1
    BY <1>2
  <2> HIDE DEF t
  <2>2. t # <<>> => Len(t) \in Nat \ {0}
    BY <2>1, EmptySeq
  <2>3. Len(<<>>) = 0
    BY EmptySeq
  <2>4. t = <<>> => Len(t) = 0
    BY <2>3
  <2>5. t = <<>> <=> Len(s) = 1
    BY <1>1, <2>1, <2>2, <2>4
  <2> QED BY <2>5 DEF t
<1>4. s[1] \in S /\ Head(s) = s[1]
  BY <1>1, ElementOfSeq
<1> QED BY <1>1, <1>2, <1>3, <1>4

\* A sequence without its k-th.
LEMMA RemoveAtIs ==
  ASSUME NEW S, NEW s \in Seq(S), NEW k \in 1..Len(s)
  PROVE  /\ RemoveAt(s, k) \in Seq(S) /\ Len(RemoveAt(s, k)) = Len(s) - 1
         /\ \A i \in 1..(Len(s) - 1) : RemoveAt(s, k)[i] = IF i < k THEN s[i] ELSE s[i + 1]
<1> DEFINE n == Len(s)
           a == SubSeq(s, 1, k - 1)
           b == SubSeq(s, k + 1, n)
<1>1. n \in Nat /\ k \in 1..n /\ \A i \in 1..n : s[i] \in S
  BY ElementOfSeq
<1>2. a \in Seq(S) /\ Len(a) = k - 1 /\ \A i \in 1..(k - 1) : a[i] = s[i]
  <2>1. \A i \in 1..(k - 1) : s[i] \in S
    BY <1>1
  <2>2. /\ a \in Seq(S) /\ Len(a) = IF 1 <= k - 1 THEN (k - 1) - 1 + 1 ELSE 0
        /\ \A i \in 1..((k - 1) - 1 + 1) : a[i] = s[1 + i - 1]
    BY <1>1, <2>1, SubSeqProperties
  <2> QED BY <1>1, <2>2
<1>3. b \in Seq(S) /\ Len(b) = n - k /\ \A i \in 1..(n - k) : b[i] = s[k + i]
  <2>1. \A i \in (k + 1)..n : s[i] \in S
    BY <1>1
  <2>2. /\ b \in Seq(S) /\ Len(b) = IF k + 1 <= n THEN n - (k + 1) + 1 ELSE 0
        /\ \A i \in 1..(n - (k + 1) + 1) : b[i] = s[(k + 1) + i - 1]
    BY <1>1, <2>1, SubSeqProperties
  <2> QED BY <1>1, <2>2
<1>4. RemoveAt(s, k) = a \o b
  BY DEF RemoveAt
<1> HIDE DEF a, b, n
<1>5. /\ a \o b \in Seq(S) /\ Len(a \o b) = Len(a) + Len(b)
      /\ \A i \in 1..(Len(a) + Len(b)) : (a \o b)[i] = IF i <= Len(a) THEN a[i] ELSE b[i - Len(a)]
  BY <1>2, <1>3, ConcatProperties
<1>6. Len(a \o b) = n - 1
  BY <1>1, <1>2, <1>3, <1>5
<1>7. ASSUME NEW i \in 1..(n - 1) PROVE (a \o b)[i] = IF i < k THEN s[i] ELSE s[i + 1]
  <2>1. CASE i < k
    BY <1>1, <1>2, <1>3, <1>5, <2>1
  <2>2. CASE ~(i < k)
    <3>1. i - (k - 1) \in 1..(n - k) /\ k + (i - (k - 1)) = i + 1
      BY <1>1, <2>2
    <3>2. b[i - (k - 1)] = s[i + 1]
      BY <1>3, <3>1
    <3> QED BY <1>1, <1>2, <1>3, <1>5, <2>2, <3>2
  <2> QED BY <2>1, <2>2
<1> QED BY <1>4, <1>5, <1>6, <1>7 DEF n

Wires   == [req : Messages \cup {NULL}, body : BOOLEAN, answer : Messages \cup {NULL}]
Servers == [pc : Places, req : Messages \cup {NULL}, clear : BOOLEAN]

\* NULL is none of what it stands for the absence of.
LEMMA NullIs == NULL \notin Messages /\ NULL \notin Sessions /\ NULL \notin Sockets
<1>1. NULL \notin Messages
  BY DEF NULL, Messages
<1>2. NULL \notin Sessions
  BY DEF NULL, Sessions
<1>3. NULL \notin Sockets
  BY DEF NULL, Sockets
<1> QED BY <1>1, <1>2, <1>3

\* The numbers of the key agreements, of which 0 is none.
LEMMA GensIs == Cardinality(Clients) \in Nat /\ Gens \subseteq Nat /\ 0 \notin Gens
<1>1. Cardinality(Clients) \in Nat
  BY ProtocommAssumption, FS_CardinalityType
<1> QED BY <1>1 DEF Gens

LEMMA QuietIs ==
  /\ Quiet \in Wires /\ Quiet.req = NULL /\ Quiet.body = FALSE /\ Quiet.answer = NULL
  /\ \A w \in Wires : w.req = NULL /\ w.body = FALSE /\ w.answer = NULL => w = Quiet
BY DEF Quiet, Wires

LEMMA IdleIs == Idle \in Servers /\ Idle.pc = "idle" /\ Idle.req = NULL
BY DEF Idle, Servers, Places

LEMMA NotFoundIs == NotFound \in Messages /\ NotFound.kind = "404" /\ NotFound.gen = 0
BY DEF NotFound, Messages

---------------------------------------------------------------------------
(* The scripts.                                                             *)

\* What is at the places of a sequence put together of two.
LEMMA ConcatIs ==
  ASSUME NEW S, NEW s \in Seq(S), NEW t \in Seq(S)
  PROVE  /\ s \o t \in Seq(S) /\ Len(s \o t) = Len(s) + Len(t)
         /\ \A i \in 1..Len(s) : (s \o t)[i] = s[i]
         /\ \A i \in 1..Len(t) : (s \o t)[Len(s) + i] = t[i]
<1> DEFINE m == Len(s)
           n == Len(t)
<1>1. m \in Nat /\ n \in Nat
  OBVIOUS
<1>2. /\ s \o t \in Seq(S) /\ Len(s \o t) = m + n
      /\ \A i \in 1..(m + n) : (s \o t)[i] = IF i <= m THEN s[i] ELSE t[i - m]
  BY ConcatProperties
<1> HIDE DEF m, n
<1>3. ASSUME NEW i \in 1..m PROVE (s \o t)[i] = s[i]
  BY <1>1, <1>2
<1>4. ASSUME NEW i \in 1..n PROVE (s \o t)[m + i] = t[i]
  <2>1. m + i \in 1..(m + n) /\ ~(m + i <= m) /\ (m + i) - m = i
    BY <1>1
  <2> QED BY <1>2, <2>1
<1> QED BY <1>2, <1>3, <1>4 DEF m, n

\* A start registers an endpoint, then lists it, and sets the security before the last.
LEMMA StartIs ==
  /\ StartScript \in Seq(Orders) /\ Len(StartScript) = 7
  /\ \A i \in {1, 3, 6} : StartScript[i].act = "register" /\ StartScript[i].ep \in Eps
  /\ \A i \in {2, 4, 7} : StartScript[i].act = "insert" /\ StartScript[i].ep \in Eps
  /\ StartScript[5].act = "secure"
  /\ StartScript[6] = [act |-> "register", ep |-> "prov-scan"]
  /\ StartScript[7] = [act |-> "insert", ep |-> "prov-scan"]
<1>1. StartScript \in Seq(Orders)
  BY DEF StartScript, Act, AddEp, Orders, Eps
<1>2. Len(StartScript) = 7
  BY DEF StartScript, Act, AddEp
<1>3. StartScript[1] = [act |-> "register", ep |-> "proto-ver"]
  BY DEF StartScript, Act, AddEp
<1>4. StartScript[2] = [act |-> "insert", ep |-> "proto-ver"]
  BY DEF StartScript, Act, AddEp
<1>5. StartScript[3] = [act |-> "register", ep |-> "prov-session"]
  BY DEF StartScript, Act, AddEp
<1>6. StartScript[4] = [act |-> "insert", ep |-> "prov-session"]
  BY DEF StartScript, Act, AddEp
<1>7. StartScript[5].act = "secure"
  <2> DEFINE a == AddEp("proto-ver") \o AddEp("prov-session")
             b == Act("secure", "none")
             c == AddEp("prov-scan")
  <2>1. a \in Seq(Orders) /\ Len(a) = 4
    BY DEF Act, AddEp, Orders, Eps
  <2>2. b \in Seq(Orders) /\ Len(b) = 1 /\ b[1].act = "secure"
    BY DEF Act, Orders, Eps
  <2>3. c \in Seq(Orders)
    BY DEF Act, AddEp, Orders, Eps
  <2>4. StartScript = (a \o b) \o c
    BY DEF StartScript
  <2> HIDE DEF a, b, c
  <2> DEFINE d == a \o b
  <2>5. d \in Seq(Orders) /\ Len(d) = Len(a) + Len(b) /\ \A i \in 1..Len(b) : d[Len(a) + i] = b[i]
    <3>1. a \in Seq(Orders) /\ b \in Seq(Orders)
      BY <2>1, <2>2
    <3> QED BY <3>1, ConcatIs
  <2>6. d \in Seq(Orders) /\ Len(d) = 5 /\ d[5] = b[1]
    <3> HIDE DEF d
    <3>1. Len(a) + Len(b) = 5 /\ Len(a) + 1 = 5 /\ 1 \in 1..Len(b)
      BY <2>1, <2>2
    <3>2. d[Len(a) + 1] = b[1]
      BY <2>5, <3>1
    <3> QED BY <2>5, <3>1, <3>2
  <2> HIDE DEF d
  <2>7. \A i \in 1..Len(d) : (d \o c)[i] = d[i]
    BY ZenonT(40), <2>3, <2>6, ConcatIs
  <2>8. 5 \in 1..Len(d)
    BY <2>6
  <2>9. (d \o c)[5] = d[5]
    BY <2>7, <2>8
  <2>10. StartScript[5] = (d \o c)[5]
    BY <2>4 DEF d
  <2> QED BY <2>2, <2>6, <2>9, <2>10
<1>8. StartScript[6] = [act |-> "register", ep |-> "prov-scan"]
  BY DEF StartScript, Act, AddEp
<1>9. StartScript[7] = [act |-> "insert", ep |-> "prov-scan"]
  BY DEF StartScript, Act, AddEp
<1> HIDE DEF StartScript
<1>10. \A i \in {1, 3, 6} : StartScript[i].act = "register" /\ StartScript[i].ep \in Eps
  BY <1>3, <1>5, <1>8 DEF Eps
<1>11. \A i \in {2, 4, 7} : StartScript[i].act = "insert" /\ StartScript[i].ep \in Eps
  BY <1>4, <1>6, <1>9 DEF Eps
<1> QED BY <1>1, <1>2, <1>7, <1>8, <1>9, <1>10, <1>11

\* A stop begins with the security and ends with the server.
LEMMA StopIs ==
  /\ StopScript \in Seq(Orders) /\ Len(StopScript) = 6
  /\ StopScript[1].act = "cleanup" /\ StopScript[6].act = "halt"
  /\ \A i \in {2, 4} : StopScript[i].act = "unregister" /\ StopScript[i].ep \in Eps
  /\ \A i \in {3, 5} : StopScript[i].act = "remove" /\ StopScript[i].ep \in Eps
<1>1. StopScript \in Seq(Orders)
  BY DEF StopScript, Act, RemoveEp, Orders, Eps
<1>2. Len(StopScript) = 6
  BY DEF StopScript, Act, RemoveEp
<1>3. StopScript[1].act = "cleanup"
  <2>1. StopScript[1] = [act |-> "cleanup", ep |-> "none"]
    BY DEF StopScript, Act, RemoveEp
  <2> QED BY <2>1
<1>4. StopScript[2] = [act |-> "unregister", ep |-> "prov-session"]
  BY DEF StopScript, Act, RemoveEp
<1>5. StopScript[3] = [act |-> "remove", ep |-> "prov-session"]
  BY DEF StopScript, Act, RemoveEp
<1>6. StopScript[4] = [act |-> "unregister", ep |-> "proto-ver"]
  BY DEF StopScript, Act, RemoveEp
<1>7. StopScript[5] = [act |-> "remove", ep |-> "proto-ver"]
  BY DEF StopScript, Act, RemoveEp
<1>8. StopScript[6].act = "halt"
  <2> DEFINE a == Act("cleanup", "none") \o RemoveEp("prov-session") \o RemoveEp("proto-ver")
             b == Act("halt", "none")
  <2>1. a \in Seq(Orders) /\ Len(a) = 5
    BY DEF Act, RemoveEp, Orders, Eps
  <2>2. b \in Seq(Orders) /\ Len(b) = 1 /\ b[1].act = "halt"
    BY DEF Act, Orders, Eps
  <2>3. StopScript = a \o b
    BY DEF StopScript
  <2> HIDE DEF a, b
  <2>4. \A i \in 1..Len(b) : (a \o b)[Len(a) + i] = b[i]
    <3>1. a \in Seq(Orders) /\ b \in Seq(Orders)
      BY <2>1, <2>2
    <3> QED BY <3>1, ConcatIs
  <2>5. Len(a) + 1 = 6 /\ 1 \in 1..Len(b)
    BY <2>1, <2>2
  <2>6. (a \o b)[Len(a) + 1] = b[1]
    BY <2>4, <2>5
  <2> HIDE DEF StopScript
  <2>7. StopScript[6] = (a \o b)[Len(a) + 1]
    BY <2>3, <2>5
  <2> QED BY <2>2, <2>6, <2>7
<1> HIDE DEF StopScript
<1>9. \A i \in {2, 4} : StopScript[i].act = "unregister" /\ StopScript[i].ep \in Eps
  BY <1>4, <1>6 DEF Eps
<1>10. \A i \in {3, 5} : StopScript[i].act = "remove" /\ StopScript[i].ep \in Eps
  BY <1>5, <1>7 DEF Eps
<1> QED BY <1>1, <1>2, <1>3, <1>8, <1>9, <1>10

---------------------------------------------------------------------------
(* What the steps have in common.                                           *)

LEMMA ForgetIs ==
  ASSUME client \in [Clients -> Peers], NEW c \in Clients
  PROVE  /\ Forget(c) \in Peers
         /\ Forget(c).step = "away" /\ Forget(c).gen = 0 /\ Forget(c).pos = 0
BY GensIs DEF Forget, Peers, Steps

\* A client that is cut off has no connection and no key; the others stay.
LEMMA CutIs ==
  ASSUME client \in [Clients -> Peers], NEW c \in Clients, Cut(c)
  PROVE  /\ client' \in [Clients -> Peers]
         /\ client'[c].step = "away" /\ client'[c].gen = 0
         /\ \A d \in Clients \ {c} : client'[d] = client[d]
BY ForgetIs DEF Cut

\* A handler that fails leaves no connection and an idle thread; whoever was at the
\* connection's other end is away.
LEMMA FailIs ==
  ASSUME Typed, conn # NULL, Fail
  PROVE  /\ conn' = NULL /\ wire' = Quiet /\ server' = Idle /\ backlog' = backlog
         /\ client' \in [Clients -> Peers]
         /\ \A c \in Clients : IF Open(c) THEN client'[c].step = "away" /\ client'[c].gen = 0
                                          ELSE client'[c] = client[c]
<1>1. conn \in Sockets /\ client \in [Clients -> Peers]
  BY DEF Typed
<1>2. conn.client \in Clients /\ conn.there \in BOOLEAN
  BY <1>1 DEF Sockets
<1>3. conn' = NULL /\ wire' = Quiet /\ server' = Idle /\ backlog' = backlog
  BY DEF Fail
<1>4. CASE conn.there
  <2>1. Cut(conn.client)
    BY <1>4 DEF Fail
  <2>2. /\ client' \in [Clients -> Peers]
        /\ client'[conn.client].step = "away" /\ client'[conn.client].gen = 0
        /\ \A d \in Clients \ {conn.client} : client'[d] = client[d]
    BY <1>1, <1>2, <2>1, CutIs
  <2> QED BY <1>3, <1>4, <2>2 DEF Open
<1>5. CASE ~conn.there
  BY <1>1, <1>3, <1>5 DEF Open, Fail
<1> QED BY <1>2, <1>4, <1>5

\* What IInv says of the clients, the wire and the thread holds of that, too.
LEMMA FailKeeps ==
  ASSUME IInv, conn # NULL, Fail, UNCHANGED app
  PROVE  Queued' /\ Peered' /\ OneMessage' /\ Asked' /\ NoKeys' /\ Both' /\ SameSocket'
<1>1. Typed /\ Queued /\ Peered /\ NoKeys
  BY DEF IInv
<1>2. /\ conn' = NULL /\ wire' = Quiet /\ server' = Idle /\ backlog' = backlog
      /\ client' \in [Clients -> Peers]
      /\ \A c \in Clients : IF Open(c) THEN client'[c].step = "away" /\ client'[c].gen = 0
                                       ELSE client'[c] = client[c]
  BY <1>1, FailIs
<1>3. /\ wire'.req = NULL /\ wire'.body = FALSE /\ wire'.answer = NULL /\ server'.pc = "idle"
      /\ \A c \in Clients : ~Open(c)'
  BY <1>2, QuietIs, IdleIs DEF Open
<1>4. \A c \in Clients : client'[c].step = "waiting" <=> client[c].step = "waiting"
  BY <1>1, <1>2 DEF Peered
<1>5. Queued'
  BY <1>1, <1>2, <1>4 DEF Queued
<1>6. Peered'
  BY <1>1, <1>2, <1>3 DEF Peered
<1>7. OneMessage'
  BY <1>2, <1>3 DEF OneMessage
<1>8. Asked'
  BY <1>3 DEF Asked
<1>9. NoKeys'
  BY <1>1, <1>2, <1>3 DEF NoKeys, Acts
<1>10. Both'
  BY <1>3 DEF Both
<1>11. SameSocket'
  BY <1>3 DEF SameSocket
<1> QED BY <1>5, <1>6, <1>7, <1>8, <1>9, <1>10, <1>11

\* The thread works only while the service is there.
LEMMA NotDown ==
  ASSUME IInv, conn # NULL \/ backlog # <<>>
  PROVE  app.todo # <<>> \/ uris # {}
BY DEF IInv, Stopping

\* The thread's steps leave the application's script and the endpoints alone.
LEMMA ThreadKeeps ==
  ASSUME IInv, conn # NULL \/ backlog # <<>>, UNCHANGED <<app, uris, sec>>,
         ~sec => cur_session' = NULL
  PROVE  InOrder' /\ Stopping'
<1>1. InOrder /\ Stopping
  BY DEF IInv
<1>2. InOrder'
  BY <1>1 DEF InOrder, Acts
<1>3. Stopping'
  BY <1>1, NotDown DEF Stopping, Acts
<1> QED BY <1>2, <1>3

\* The types of what a failure sets.
LEMMA FailTyped ==
  ASSUME IInv, conn # NULL, Fail, UNCHANGED <<app, uris, endpoints, sec>>,
         session_id' \in Fds \cup {NO_SESSION_ID}, cur_session' \in Sessions \cup {NULL},
         early' \in BOOLEAN, garbled' \in BOOLEAN
  PROVE  Typed'
<1>1. Typed
  BY DEF IInv
<1>2. /\ conn' = NULL /\ wire' = Quiet /\ server' = Idle /\ backlog' = backlog
      /\ client' \in [Clients -> Peers]
  BY <1>1, FailIs
<1>3. wire' \in Wires /\ server' \in Servers
  BY <1>2, QuietIs, IdleIs
<1> QED BY <1>1, <1>2, <1>3 DEF Typed, Wires, Servers

\* The types of the records in hand.
LEMMA Known ==
  ASSUME IInv
  PROVE  /\ Typed /\ wire \in Wires /\ server \in Servers
         /\ conn # NULL => conn \in Sockets /\ conn.fd \in Fds /\ conn.client \in Clients
         /\ cur_session # NULL => cur_session \in Sessions
         /\ 0 \notin Fds
         /\ sec => "secure" \notin Acts
BY ProtocommAssumption DEF IInv, Typed, Wires, Servers, Sockets, Stopping

\* While the thread is at a request there is a connection, and no answer on it.
LEMMA AtRequest ==
  ASSUME IInv, server.pc # "idle"
  PROVE  /\ conn # NULL /\ conn \in Sockets /\ server.req \in Messages
         /\ wire.req \in Messages /\ wire.req # NULL /\ wire.answer = NULL /\ wire # Quiet
BY Known, QuietIs DEF IInv, OneMessage, Servers, Wires

---------------------------------------------------------------------------
(* The application's steps.                                                 *)

\* An order done is the first, and the rest stays in order.
LEMMA ActDoneIs ==
  ASSUME IInv, app.todo # <<>>, ActDone
  PROVE  /\ app'.todo \in Seq(Orders) /\ app'.services = app.services
         /\ app' \in [todo : Seq(Orders), services : 1..MaxServices]
         /\ Acts = {app.todo[1].act} \cup Acts' /\ app.todo[1].act \in Acts
         /\ Len(app.todo) \in Nat /\ Len(app.todo) >= 1
         /\ app'.todo = <<>> <=> Len(app.todo) = 1
         /\ Len(app'.todo) = Len(app.todo) - 1
         /\ \A i \in 1..(Len(app.todo) - 1) : app'.todo[i] = app.todo[i + 1]
<1>1. app \in [todo : Seq(Orders), services : 1..MaxServices] /\ app.todo \in Seq(Orders)
  BY DEF IInv, Typed
<1>2. app' = [app EXCEPT !.todo = Tail(app.todo)]
  BY DEF ActDone
<1>3. app'.todo = Tail(app.todo) /\ app'.services = app.services
  BY <1>1, <1>2
<1> DEFINE s == app.todo
           t == Tail(s)
<1>4. /\ Len(s) \in Nat /\ Len(s) >= 1 /\ t \in Seq(Orders) /\ Len(t) = Len(s) - 1
      /\ \A i \in 1..(Len(s) - 1) : t[i] = s[i + 1]
      /\ t = <<>> <=> Len(s) = 1
  BY <1>1, TailIs
<1>5. app' \in [todo : Seq(Orders), services : 1..MaxServices]
  BY <1>1, <1>2, <1>4
<1>6. Acts = {s[i].act : i \in 1..Len(s)} /\ Acts' = {t[i].act : i \in 1..Len(t)}
  BY <1>3 DEF Acts
<1> HIDE DEF s, t
<1>7. {s[i].act : i \in 1..Len(s)} = {s[1].act} \cup {t[i].act : i \in 1..Len(t)}
  <2>1. ASSUME NEW i \in 1..Len(s) PROVE s[i].act \in {s[1].act} \cup {t[k].act : k \in 1..Len(t)}
    <3>1. CASE i = 1
      BY <3>1
    <3>2. CASE i # 1
      <4>1. i - 1 \in 1..(Len(s) - 1) /\ (i - 1) + 1 = i
        BY <1>4, <3>2
      <4>2. i - 1 \in 1..Len(t) /\ t[i - 1] = s[i]
        BY <1>4, <4>1
      <4> QED BY <4>2
    <3> QED BY <3>1, <3>2
  <2>2. ASSUME NEW i \in 1..Len(t) PROVE t[i].act \in {s[k].act : k \in 1..Len(s)}
    <3>1. i + 1 \in 1..Len(s) /\ t[i] = s[i + 1]
      BY <1>4
    <3> QED BY <3>1
  <2>3. 1 \in 1..Len(s)
    BY <1>4
  <2> QED BY <2>1, <2>2, <2>3
<1>8. s[1].act \in {s[i].act : i \in 1..Len(s)}
  BY <1>4
<1>9. Acts = {s[1].act} \cup Acts' /\ s[1].act \in Acts
  BY <1>6, <1>7, <1>8
<1> QED BY <1>3, <1>4, <1>5, <1>9 DEF s, t

\* Where the halt is in what is left of a stop.
LEMMA HaltIsLast ==
  ASSUME IInv, "halt" \in Acts
  PROVE  Len(app.todo) >= 1 /\ app.todo[Len(app.todo)].act = "halt"
<1>1. PICK i \in 1..Len(app.todo) : app.todo[i].act = "halt"
  BY DEF Acts
<1>2. i = Len(app.todo)
  BY <1>1 DEF IInv, InOrder
<1>3. Len(app.todo) \in Nat
  BY DEF IInv, Typed
<1> QED BY <1>1, <1>2, <1>3

\* What is left of a script is in order when prov-scan is registered by the order for it
\* and stays registered until a stop.
LEMMA StaysInOrder ==
  ASSUME IInv, app.todo # <<>>, ActDone,
         "prov-scan" \in uris /\ "halt" \notin Acts => "prov-scan" \in uris',
         app.todo[1] = [act |-> "register", ep |-> "prov-scan"] => "prov-scan" \in uris'
  PROVE  InOrder'
<1> DEFINE n == Len(app.todo)
           t == app'.todo
<1>1. /\ Acts = {app.todo[1].act} \cup Acts' /\ app.todo[1].act \in Acts
      /\ n \in Nat /\ n >= 1
      /\ t = <<>> <=> n = 1
      /\ Len(t) = n - 1
      /\ \A i \in 1..(n - 1) : t[i] = app.todo[i + 1]
  BY ActDoneIs
<1>2. InOrder
  BY DEF IInv
<1> HIDE DEF n, t
<1>3. \A i \in 1..Len(t) : i + 1 \in 1..n /\ t[i] = app.todo[i + 1]
  <2>1. n \in Nat /\ Len(t) = n - 1 /\ \A i \in 1..(n - 1) : t[i] = app.todo[i + 1]
    BY <1>1
  <2>2. ASSUME NEW i \in 1..Len(t) PROVE i + 1 \in 1..n /\ i \in 1..(n - 1)
    BY <2>1
  <2> QED BY <2>1, <2>2
<1>4. \A i \in 1..n :
       /\ app.todo[i].act \in {"register", "insert", "unregister", "remove"} => app.todo[i].ep \in Eps
       /\ app.todo[i].act = "secure" => \A j \in 1..n : app.todo[j].act = "secure" => i = j
       /\ app.todo[i].act = "halt" => i = n
  BY <1>2 DEF InOrder, n
<1>5. ASSUME NEW i \in 1..Len(t)
      PROVE  /\ t[i].act \in {"register", "insert", "unregister", "remove"} => t[i].ep \in Eps
             /\ t[i].act = "secure" => \A j \in 1..Len(t) : t[j].act = "secure" => i = j
             /\ t[i].act = "halt" => i = Len(t)
  <2>1. i + 1 \in 1..n /\ t[i] = app.todo[i + 1] /\ i \in Int
    BY <1>1, <1>3
  <2>2. t[i].act \in {"register", "insert", "unregister", "remove"} => t[i].ep \in Eps
    BY <1>4, <2>1
  <2>3. ASSUME t[i].act = "secure", NEW j \in 1..Len(t), t[j].act = "secure" PROVE i = j
    <3>1. j + 1 \in 1..n /\ t[j] = app.todo[j + 1] /\ j \in Int
      BY <1>1, <1>3
    <3>2. i + 1 = j + 1
      BY <1>4, <2>1, <2>3, <3>1
    <3> QED BY <2>1, <3>1, <3>2
  <2>4. ASSUME t[i].act = "halt" PROVE i = Len(t)
    <3>1. i + 1 = n
      BY <1>4, <2>1, <2>4
    <3> QED BY <1>1, <2>1, <3>1
  <2> QED BY <2>2, <2>3, <2>4
<1>6. "secure" \in Acts' => Acts' \subseteq {"register", "insert", "secure"}
  BY <1>1, <1>2 DEF InOrder
<1>7. ASSUME t # <<>>
      PROVE \/ "halt" \in Acts'
            \/ /\ Acts' \subseteq {"register", "insert", "secure"}
               /\ t[Len(t)] = [act |-> "insert", ep |-> "prov-scan"]
               /\ \/ "prov-scan" \in uris'
                  \/ \E i \in 1..Len(t) : t[i] = [act |-> "register", ep |-> "prov-scan"]
  <2>1. n >= 2 /\ Len(t) \in 1..Len(t) /\ t[Len(t)] = app.todo[n]
    <3>1. n \in Nat /\ n >= 1 /\ Len(t) = n - 1 /\ n # 1
      BY <1>1, <1>7
    <3>2. n >= 2 /\ Len(t) \in 1..Len(t) /\ Len(t) + 1 = n
      BY <3>1
    <3> QED BY <1>3, <3>2
  <2>2. CASE "halt" \in Acts
    <3>1. app.todo[n].act = "halt"
      BY <2>2, HaltIsLast DEF n
    <3>2. t[Len(t)].act = "halt"
      BY <2>1, <3>1
    <3> QED BY <2>1, <3>2 DEF Acts, t
  <2>3. CASE "halt" \notin Acts
    <3>1. /\ Acts \subseteq {"register", "insert", "secure"}
          /\ app.todo[n] = [act |-> "insert", ep |-> "prov-scan"]
          /\ \/ "prov-scan" \in uris
             \/ \E i \in 1..n : app.todo[i] = [act |-> "register", ep |-> "prov-scan"]
      BY <1>2, <2>3 DEF InOrder, n
    <3>2. ASSUME NEW i \in 1..n, app.todo[i] = [act |-> "register", ep |-> "prov-scan"]
          PROVE  \/ "prov-scan" \in uris'
                 \/ \E k \in 1..Len(t) : t[k] = [act |-> "register", ep |-> "prov-scan"]
      <4>1. CASE i = 1
        BY <3>2, <4>1
      <4>2. CASE i # 1
        <5> n \in Nat
          BY <1>1
        <5>1. i - 1 \in 1..(n - 1) /\ (i - 1) + 1 = i
          BY <4>2
        <5>2. i - 1 \in 1..Len(t) /\ t[i - 1] = app.todo[i]
          BY <1>1, <5>1
        <5> QED BY <3>2, <5>2
      <4> QED BY <4>1, <4>2
    <3>3. \/ "prov-scan" \in uris'
          \/ \E k \in 1..Len(t) : t[k] = [act |-> "register", ep |-> "prov-scan"]
      BY <2>3, <3>1, <3>2
    <3>4. t[Len(t)] = [act |-> "insert", ep |-> "prov-scan"]
      BY <2>1, <3>1
    <3>5. Acts' \subseteq {"register", "insert", "secure"}
      BY <1>1, <3>1
    <3> QED BY <3>3, <3>4, <3>5
  <2> QED BY <2>2, <2>3
<1> QED BY <1>5, <1>6, <1>7 DEF InOrder, t

\* The end of a start leaves prov-scan registered; that of a stop is the halt.
LEMMA LastOrder ==
  ASSUME IInv, app.todo # <<>>, ActDone, app'.todo = <<>>
  PROVE  \/ app.todo[1].act = "halt"
         \/ app.todo[1].act = "insert" /\ "prov-scan" \in uris
<1>1. Len(app.todo) = 1 /\ InOrder
  BY ActDoneIs DEF IInv
<1>2. CASE "halt" \in Acts
  BY <1>1, <1>2, HaltIsLast
<1>3. CASE "halt" \notin Acts
  <2>1. /\ app.todo[1] = [act |-> "insert", ep |-> "prov-scan"]
        /\ \/ "prov-scan" \in uris
           \/ \E i \in 1..1 : app.todo[i] = [act |-> "register", ep |-> "prov-scan"]
    BY <1>1, <1>3 DEF InOrder
  <2>2. app.todo[1] # [act |-> "register", ep |-> "prov-scan"]
    BY <2>1
  <2>3. \A i \in 1..1 : i = 1
    OBVIOUS
  <2> QED BY <2>1, <2>2, <2>3
<1> QED BY <1>2, <1>3

\* Steps of the application alone.
LEMMA NetKeeps ==
  ASSUME IInv, UNCHANGED <<server, net, client>>
  PROVE  Queued' /\ Peered' /\ OneMessage' /\ Asked'
<1>1. UNCHANGED <<server, conn, backlog, wire, client>>
  BY DEF net
<1>2. Queued /\ Peered /\ OneMessage /\ Asked
  BY DEF IInv
<1>3. Queued' /\ OneMessage'
  BY <1>1, <1>2 DEF Queued, OneMessage
<1>4. Peered' /\ Asked'
  BY <1>1, <1>2 DEF Peered, Asked, Open, Suits
<1> QED BY <1>3, <1>4

LEMMA NoKeysKeeps ==
  ASSUME IInv, UNCHANGED <<server, net, client>>, "secure" \in Acts' => "secure" \in Acts
  PROVE  NoKeys'
BY DEF IInv, NoKeys, net

LEMMA BothKeeps ==
  ASSUME IInv, UNCHANGED <<server, net, client, session_id, cur_session, sec>>
  PROVE  Both' /\ SameSocket'
<1>1. UNCHANGED <<server, conn, backlog, wire, client>>
  BY DEF net
<1>2. Both'
  BY <1>1 DEF IInv, Both, Sync, Current, Open, Encrypted
<1>3. SameSocket'
  BY <1>1 DEF IInv, SameSocket
<1> QED BY <1>2, <1>3

LEMMA AppListInv == ASSUME IInv, AppList PROVE IInv'
<1> DEFINE a == app.todo[1].act
<1>1. /\ app.todo # <<>> /\ ActDone
      /\ a \in {"register", "insert", "unregister", "remove"}
      /\ uris' = IF a = "register" THEN uris \cup {Ep} ELSE
                 IF a = "unregister" THEN uris \ {Ep} ELSE uris
      /\ endpoints' = IF a = "insert" THEN endpoints \cup {Ep} ELSE
                      IF a = "remove" THEN endpoints \ {Ep} ELSE endpoints
      /\ UNCHANGED <<sec, session_id, cur_session, server, net, client, faults, hist>>
  BY DEF AppList, Doing
<1>2. UNCHANGED <<conn, backlog, wire, early, garbled>>
  BY <1>1 DEF net, hist
<1>3. /\ app' \in [todo : Seq(Orders), services : 1..MaxServices] /\ app'.services = app.services
      /\ Acts = {a} \cup Acts' /\ a \in Acts
      /\ Len(app.todo) \in Nat /\ Len(app.todo) >= 1
  BY <1>1, ActDoneIs
<1>4. Typed /\ InOrder /\ Stopping /\ Linked /\ HandlersHear
  BY DEF IInv
<1>5. Ep \in Eps
  BY <1>1, <1>3, <1>4 DEF InOrder, Ep
<1> HIDE DEF a
<1>6. Typed'
  BY <1>1, <1>2, <1>3, <1>4, <1>5 DEF Typed
<1>7. InOrder'
  <2>1. ASSUME "prov-scan" \in uris, "halt" \notin Acts PROVE "prov-scan" \in uris'
    <3>1. Acts \subseteq {"register", "insert", "secure"}
      BY <1>1, <1>4, <2>1 DEF InOrder
    <3> QED BY <1>1, <1>3, <2>1, <3>1
  <2>2. app.todo[1] = [act |-> "register", ep |-> "prov-scan"] => "prov-scan" \in uris'
    BY <1>1 DEF a, Ep
  <2> QED BY <1>1, <2>1, <2>2, StaysInOrder
<1>8. Stopping'
  <2>1. app'.todo # <<>> \/ uris' # {}
    <3>1. ASSUME app'.todo = <<>> PROVE a = "insert" /\ "prov-scan" \in uris
      BY <1>1, <3>1, LastOrder DEF a
    <3> QED BY <1>1, <3>1
  <2>2. ~sec' => cur_session' = NULL
    BY <1>1, <1>4 DEF Stopping
  <2>3. "secure" \in Acts' => ~sec'
    BY <1>1, <1>3, <1>4 DEF Stopping
  <2>4. "halt" \in Acts' /\ "cleanup" \notin Acts' => ~sec'
    BY <1>1, <1>3, <1>4 DEF Stopping
  <2> QED BY <2>1, <2>2, <2>3, <2>4 DEF Stopping
<1>9. Queued' /\ Peered' /\ OneMessage' /\ Asked'
  BY <1>1, NetKeeps
<1>10. NoKeys'
  BY <1>1, <1>3, NoKeysKeeps
<1>11. Both' /\ SameSocket'
  BY <1>1, BothKeeps
<1>12. Linked'
  BY <1>1, <1>2, <1>3, <1>4 DEF Linked, Current
<1>13. HandlersHear'
  BY <1>2, <1>4 DEF HandlersHear
<1> QED BY <1>6, <1>7, <1>8, <1>9, <1>10, <1>11, <1>12, <1>13 DEF IInv

\* The security is set while nobody holds a key, so that nothing is out of step.
LEMMA NobodyIsUp ==
  ASSUME IInv, "secure" \in Acts
  PROVE  /\ \A c \in Clients : client[c].step # "up"
         /\ wire.req # NULL => wire.req.kind # "scan"
         /\ wire.answer # NULL => ~Encrypted(wire.answer)
         /\ server.pc \notin {"idle", "send"} => ~Encrypted(server.req) /\ server.req.kind # "scan"
         /\ server.pc = "send" => ~Encrypted(server.req)
<1>1. NoKeys /\ Peered /\ Asked /\ OneMessage
  BY DEF IInv
<1>2. \A c \in Clients : client[c].step # "up"
  BY <1>1 DEF NoKeys, Peered
<1>3. wire.req # NULL => wire.req.kind # "scan"
  BY <1>1 DEF NoKeys, Asked
<1>4. wire.answer # NULL => ~Encrypted(wire.answer)
  BY <1>1 DEF NoKeys, Encrypted
<1>5. server.pc # "idle" => ~Encrypted(server.req)
  BY <1>1 DEF NoKeys, Encrypted
<1>6. server.pc \notin {"idle", "send"} => server.req.kind # "scan"
  BY <1>1, <1>3 DEF OneMessage
<1> QED BY <1>2, <1>3, <1>4, <1>5, <1>6

LEMMA AppSecurityInv == ASSUME IInv, AppSecurity PROVE IInv'
<1> DEFINE a == app.todo[1].act
<1>1. /\ app.todo # <<>> /\ ActDone
      /\ \/ a = "secure" /\ sec' = TRUE /\ cur_session' = cur_session
         \/ a = "cleanup" /\ sec' = FALSE /\ cur_session' = NULL
      /\ UNCHANGED <<uris, endpoints, session_id, server, net, client, faults, hist>>
  BY DEF AppSecurity, Doing
<1>2. UNCHANGED <<conn, backlog, wire, early, garbled>>
  BY <1>1 DEF net, hist
<1>3. /\ app' \in [todo : Seq(Orders), services : 1..MaxServices] /\ app'.services = app.services
      /\ Acts = {a} \cup Acts' /\ a \in Acts
      /\ Len(app.todo) \in Nat /\ Len(app.todo) >= 1
      /\ Len(app'.todo) = Len(app.todo) - 1
      /\ \A i \in 1..(Len(app.todo) - 1) : app'.todo[i] = app.todo[i + 1]
  BY <1>1, ActDoneIs
<1>4. Typed /\ InOrder /\ Stopping /\ Linked /\ HandlersHear
  BY DEF IInv
<1>5. a = "secure" => /\ "secure" \notin Acts' /\ "halt" \notin Acts'
                      /\ "secure" \in Acts /\ sec = FALSE
  <2> SUFFICES ASSUME a = "secure" PROVE "secure" \notin Acts' /\ "halt" \notin Acts /\ "secure" \in Acts /\ sec = FALSE
    BY <1>3
  <2>1. "halt" \notin Acts /\ "secure" \in Acts /\ sec = FALSE
    BY <1>3, <1>4 DEF InOrder, Stopping, Typed
  <2>2. ASSUME NEW i \in 1..Len(app'.todo), app'.todo[i].act = "secure" PROVE FALSE
    <3>1. i \in 1..(Len(app.todo) - 1) /\ i + 1 \in 1..Len(app.todo) /\ 1 \in 1..Len(app.todo) /\ i + 1 # 1
      BY <1>3
    <3>2. app.todo[i + 1].act = "secure"
      BY <1>3, <2>2, <3>1
    <3>3. app.todo[1].act = "secure"
      OBVIOUS
    <3> QED BY <1>4, <3>1, <3>2, <3>3 DEF InOrder
  <2> QED BY <2>1, <2>2 DEF Acts
<1>6. a = "cleanup" => "secure" \notin Acts'
  BY <1>3, <1>4 DEF InOrder
<1>7. app'.todo # <<>>
  BY <1>1, LastOrder
<1> HIDE DEF a
<1>8. Typed'
  BY <1>1, <1>2, <1>3, <1>4 DEF Typed
<1>9. InOrder'
  <2>1. app.todo[1] # [act |-> "register", ep |-> "prov-scan"]
    BY <1>1 DEF a
  <2> QED BY <1>1, <2>1, StaysInOrder
<1>10. Stopping'
  BY <1>1, <1>4, <1>5, <1>6, <1>7 DEF Stopping
<1>11. Queued' /\ Peered' /\ OneMessage' /\ Asked'
  BY <1>1, NetKeeps
<1>12. NoKeys'
  BY <1>1, <1>3, NoKeysKeeps
<1>13. Both'
  <2>1. CASE a = "secure"
    <3>1. /\ \A c \in Clients : client'[c].step # "up"
          /\ wire'.req # NULL => wire'.req.kind # "scan"
          /\ wire'.answer # NULL => ~Encrypted(wire'.answer)
          /\ server'.pc \notin {"idle", "send"} => ~Encrypted(server'.req) /\ server'.req.kind # "scan"
          /\ server'.pc = "send" => ~Encrypted(server'.req)
      BY <1>1, <1>2, <1>5, <2>1, NobodyIsUp DEF Encrypted
    <3>2. server'.pc \in {"handler", "encrypt"} => server'.req.kind = "scan"
      BY <1>11 DEF OneMessage
    <3> QED BY <3>1, <3>2 DEF Both
  <2>2. CASE a = "cleanup"
    BY <1>1, <2>2 DEF Both
  <2> QED BY <1>1, <2>1, <2>2
<1>14. SameSocket'
  BY <1>1, <1>2 DEF IInv, SameSocket
<1>15. Linked'
  BY <1>1, <1>2, <1>3, <1>4, <1>5, <1>6 DEF Linked
<1>16. HandlersHear'
  BY <1>2, <1>4 DEF HandlersHear
<1> QED BY <1>8, <1>9, <1>10, <1>11, <1>12, <1>13, <1>14, <1>15, <1>16 DEF IInv

\* The thread ends, and with it all connections.
LEMMA AppHaltInv == ASSUME IInv, AppHalt PROVE IInv'
<1>1. /\ app.todo # <<>> /\ ActDone /\ app.todo[1].act = "halt" /\ server.pc = "idle"
      /\ uris' = {} /\ endpoints' = {} /\ conn' = NULL /\ backlog' = <<>> /\ wire' = Quiet
      /\ client' = [c \in Clients |-> Forget(c)]
      /\ UNCHANGED <<sec, session_id, cur_session, server, early, garbled>>
  BY DEF AppHalt, Doing, hist
<1>2. /\ app' \in [todo : Seq(Orders), services : 1..MaxServices] /\ app'.services = app.services
      /\ app'.todo \in Seq(Orders)
      /\ Acts = {app.todo[1].act} \cup Acts' /\ app.todo[1].act \in Acts
      /\ Len(app.todo) \in Nat /\ Len(app.todo) >= 1
      /\ Len(app'.todo) = Len(app.todo) - 1
  BY <1>1, ActDoneIs
<1>3. Typed /\ InOrder /\ Stopping /\ Linked /\ HandlersHear
  BY DEF IInv
<1>4. Len(app'.todo) = 0 /\ Acts' = {} /\ Acts = {"halt"} /\ app'.todo = <<>>
  <2>1. 1 \in 1..Len(app.todo)
    BY <1>2
  <2>2. Len(app.todo) = 1
    BY <1>1, <1>3, <2>1 DEF InOrder
  <2>3. Len(app'.todo) = 0
    BY <1>2, <2>2
  <2>4. Acts' = {}
    BY <2>3 DEF Acts
  <2>5. app'.todo = <<>>
    BY <1>2, <2>3, EmptySeq
  <2> QED BY <1>1, <1>2, <2>3, <2>4, <2>5
<1>5. /\ wire'.req = NULL /\ wire'.body = FALSE /\ wire'.answer = NULL /\ wire' \in Wires
      /\ \A c \in Clients : ~Open(c)'
  BY <1>1, QuietIs DEF Open
<1>6. /\ client' \in [Clients -> Peers]
      /\ \A c \in Clients : client'[c].step = "away" /\ client'[c].gen = 0
  <2>1. client \in [Clients -> Peers]
    BY <1>3 DEF Typed
  <2> QED BY <1>1, <2>1, ForgetIs
<1>7. ~sec
  BY <1>3, <1>4 DEF Stopping
<1>8. backlog' \in Seq(Clients) /\ Len(backlog') = 0
  BY <1>1, EmptySeq
<1>9. Typed'
  <2>1. wire' \in [req : Messages \cup {NULL}, body : BOOLEAN, answer : Messages \cup {NULL}]
    BY <1>5 DEF Wires
  <2> QED BY <1>1, <1>2, <1>3, <1>6, <1>8, <2>1 DEF Typed
<1>10. InOrder'
  BY <1>4 DEF InOrder
<1>11. Stopping'
  BY <1>1, <1>3, <1>4, <1>6, <1>7 DEF Stopping
<1>12. Queued'
  BY <1>6, <1>8 DEF Queued
<1>13. Peered'
  BY <1>5, <1>6 DEF Peered
<1>14. OneMessage'
  BY <1>1, <1>5 DEF OneMessage
<1>15. Asked' /\ NoKeys'
  BY <1>4, <1>5 DEF Asked, NoKeys
<1>16. Both' /\ SameSocket'
  BY <1>1, <1>7 DEF Both, SameSocket
<1>17. Linked'
  BY <1>1, <1>4, <1>7 DEF Linked
<1>18. HandlersHear'
  BY <1>1, <1>3 DEF HandlersHear
<1> QED BY <1>9, <1>10, <1>11, <1>12, <1>13, <1>14, <1>15, <1>16, <1>17, <1>18 DEF IInv

LEMMA StopServiceInv == ASSUME IInv, StopService PROVE IInv'
<1>1. /\ app.todo = <<>> /\ uris # {} /\ app' = [app EXCEPT !.todo = StopScript]
      /\ UNCHANGED <<uris, endpoints, sec, session_id, cur_session, server, net, client, faults, hist>>
  BY DEF StopService, Running, state
<1>2. UNCHANGED <<conn, backlog, wire, early, garbled>>
  BY <1>1 DEF net, hist
<1>3. Typed /\ Stopping /\ Linked /\ HandlersHear
  BY DEF IInv
<1>4. /\ app' \in [todo : Seq(Orders), services : 1..MaxServices] /\ app'.services = app.services
      /\ app'.todo = StopScript
  BY <1>1, <1>3, StopIs DEF Typed
<1>5. \A i \in 1..6 : i = 1 \/ i \in {2, 4} \/ i \in {3, 5} \/ i = 6
  OBVIOUS
<1>6. \A i \in 1..6 : StopScript[i].act # "secure" /\ (StopScript[i].act = "halt" => i = 6)
  BY <1>5, StopIs
<1>7. "secure" \notin Acts' /\ "halt" \in Acts' /\ "cleanup" \in Acts' /\ app'.todo # <<>>
  <2>1. Acts' = {StopScript[i].act : i \in 1..6}
    BY <1>4, StopIs DEF Acts
  <2>2. 1 \in 1..6 /\ 6 \in 1..6
    OBVIOUS
  <2>3. StopScript # <<>>
    <3>1. Len(<<>>) = 0 /\ Len(StopScript) = 6
      BY StopIs, EmptySeq
    <3> QED BY <3>1
  <2> QED BY <1>4, <1>6, <2>1, <2>2, <2>3, StopIs
<1>8. Typed'
  BY <1>1, <1>2, <1>3, <1>4 DEF Typed
<1>9. InOrder'
  <2>1. \A i \in 1..6 : StopScript[i].act \in {"register", "insert", "unregister", "remove"}
                          => StopScript[i].ep \in Eps
    BY <1>5, StopIs
  <2>2. Len(app'.todo) = 6
    BY <1>4, StopIs
  <2> QED BY <1>4, <1>6, <1>7, <2>1, <2>2 DEF InOrder
<1>10. Stopping'
  BY <1>1, <1>3, <1>7 DEF Stopping
<1>11. Queued' /\ Peered' /\ OneMessage' /\ Asked'
  BY <1>1, NetKeeps
<1>12. NoKeys'
  BY <1>7 DEF NoKeys
<1>13. Both' /\ SameSocket'
  BY <1>1, BothKeeps
<1>14. Linked'
  BY <1>1, <1>2, <1>3, <1>4, <1>7 DEF Linked, Current
<1>15. HandlersHear'
  BY <1>2, <1>3 DEF HandlersHear
<1> QED BY <1>8, <1>9, <1>10, <1>11, <1>12, <1>13, <1>14, <1>15 DEF IInv

\* What a start has in hand.
LEMMA Starting ==
  ASSUME app' \in [todo : Seq(Orders), services : 1..MaxServices], app'.todo = StartScript
  PROVE  /\ InOrder'
         /\ "secure" \in Acts' /\ "halt" \notin Acts' /\ app'.todo # <<>>
<1>1. \A i \in 1..7 : i \in {1, 3, 6} \/ i \in {2, 4, 7} \/ i = 5
  OBVIOUS
<1>2. Len(app'.todo) = 7
  BY StartIs
<1>3. Acts' = {StartScript[i].act : i \in 1..7}
  BY StartIs DEF Acts
<1>4. \A i \in 1..7 : /\ StartScript[i].act \in {"register", "insert", "secure"}
                      /\ StartScript[i].act = "secure" => i = 5
                      /\ StartScript[i].act # "secure" => StartScript[i].ep \in Eps
  BY <1>1, StartIs
<1>5. "secure" \in Acts' /\ Acts' \subseteq {"register", "insert", "secure"}
  <2>1. 5 \in 1..7
    OBVIOUS
  <2> QED BY <1>3, <1>4, <2>1, StartIs
<1>6. app'.todo # <<>>
  BY SMTT(40), <1>2, EmptySeq
<1>7. InOrder'
  <2>1. 6 \in 1..7
    OBVIOUS
  <2>2. ASSUME NEW i \in 1..Len(app'.todo)
        PROVE  /\ app'.todo[i].act \in {"register", "insert", "unregister", "remove"} => app'.todo[i].ep \in Eps
               /\ app'.todo[i].act = "secure" =>
                    \A j \in 1..Len(app'.todo) : app'.todo[j].act = "secure" => i = j
               /\ app'.todo[i].act = "halt" => i = Len(app'.todo)
    BY <1>2, <1>4
  <2>3. /\ app'.todo[Len(app'.todo)] = [act |-> "insert", ep |-> "prov-scan"]
        /\ \E i \in 1..Len(app'.todo) : app'.todo[i] = [act |-> "register", ep |-> "prov-scan"]
    BY <1>2, <2>1, StartIs
  <2> QED BY <1>5, <2>2, <2>3 DEF InOrder
<1> QED BY <1>5, <1>6, <1>7

LEMMA StartServiceInv == ASSUME IInv, StartService PROVE IInv'
<1>1. /\ app.todo = <<>> /\ uris = {} /\ app.services < MaxServices
      /\ app' = [todo |-> StartScript, services |-> app.services + 1]
      /\ UNCHANGED <<uris, endpoints, sec, session_id, cur_session, server, net, client, faults, hist>>
  BY DEF StartService, Down, state
<1>2. UNCHANGED <<conn, backlog, wire, early, garbled>>
  BY <1>1 DEF net, hist
<1>3. Typed /\ Stopping /\ Peered /\ HandlersHear
  BY DEF IInv
<1>4. app.services \in 1..MaxServices /\ MaxServices \in Nat
  BY <1>3, ProtocommAssumption DEF Typed
<1>5. app' \in [todo : Seq(Orders), services : 1..MaxServices] /\ app'.todo = StartScript /\ app'.services # 1
  <2>1. app.services + 1 \in 1..MaxServices /\ app.services + 1 # 1
    BY <1>1, <1>4
  <2> QED BY <1>1, <2>1, StartIs
<1>6. InOrder' /\ "secure" \in Acts' /\ "halt" \notin Acts' /\ app'.todo # <<>>
  BY <1>5, Starting
<1>7. /\ ~sec /\ conn = NULL /\ wire = Quiet /\ server.pc = "idle"
      /\ \A c \in Clients : client[c].step = "away" /\ client[c].gen = 0
  BY <1>1, <1>3 DEF Stopping, Peered
<1>8. Typed'
  BY <1>1, <1>2, <1>3, <1>5 DEF Typed
<1>9. Stopping'
  BY <1>1, <1>3, <1>6, <1>7 DEF Stopping
<1>10. Queued' /\ Peered' /\ OneMessage' /\ Asked'
  BY <1>1, NetKeeps
<1>11. NoKeys'
  BY <1>1, <1>2, <1>7, QuietIs DEF NoKeys
<1>12. Both' /\ SameSocket'
  BY <1>1, BothKeeps
<1>13. Linked'
  BY <1>5 DEF Linked
<1>14. HandlersHear'
  BY <1>2, <1>3 DEF HandlersHear
<1> QED BY <1>6, <1>8, <1>9, <1>10, <1>11, <1>12, <1>13, <1>14 DEF IInv

LEMMA InitInv == ASSUME Init PROVE IInv
<1>1. /\ app = [todo |-> StartScript, services |-> 1]
      /\ uris = {} /\ endpoints = {} /\ sec = FALSE
      /\ session_id = NO_SESSION_ID /\ cur_session = NULL
      /\ server = Idle /\ conn = NULL /\ backlog = <<>> /\ wire = Quiet
      /\ client = [c \in Clients |-> Stranger]
      /\ early = FALSE /\ garbled = FALSE
  BY DEF Init
<1>2. app \in [todo : Seq(Orders), services : 1..MaxServices] /\ app.todo = StartScript
  <2>1. 1 \in 1..MaxServices
    BY ProtocommAssumption
  <2> QED BY <1>1, <2>1, StartIs
<1>3. /\ Len(app.todo) = 7 /\ app.todo # <<>>
      /\ "secure" \in Acts /\ "halt" \notin Acts /\ InOrder
  <2>1. \A i \in 1..7 : i \in {1, 3, 6} \/ i \in {2, 4, 7} \/ i = 5
    OBVIOUS
  <2>2. Len(app.todo) = 7
    BY <1>2, StartIs
  <2>3. \A i \in 1..7 : /\ StartScript[i].act \in {"register", "insert", "secure"}
                        /\ StartScript[i].act = "secure" => i = 5
                        /\ StartScript[i].act # "secure" => StartScript[i].ep \in Eps
    BY <2>1, StartIs
  <2>4. 5 \in 1..7 /\ 6 \in 1..7
    OBVIOUS
  <2>5. "secure" \in Acts /\ Acts \subseteq {"register", "insert", "secure"}
    BY <1>2, <2>2, <2>3, <2>4, StartIs DEF Acts
  <2>6. app.todo # <<>>
    BY SMTT(40), <2>2, EmptySeq
  <2>7. ASSUME NEW i \in 1..Len(app.todo)
        PROVE  /\ app.todo[i].act \in {"register", "insert", "unregister", "remove"} => app.todo[i].ep \in Eps
               /\ app.todo[i].act = "secure" =>
                    \A j \in 1..Len(app.todo) : app.todo[j].act = "secure" => i = j
               /\ app.todo[i].act = "halt" => i = Len(app.todo)
    BY <1>2, <2>2, <2>3
  <2>8. /\ app.todo[Len(app.todo)] = [act |-> "insert", ep |-> "prov-scan"]
        /\ \E i \in 1..Len(app.todo) : app.todo[i] = [act |-> "register", ep |-> "prov-scan"]
    BY <1>2, <2>2, <2>4, StartIs
  <2>9. InOrder
    BY <2>5, <2>7, <2>8 DEF InOrder
  <2> QED BY <2>2, <2>5, <2>6, <2>9
<1>4. \A c \in Clients : client[c].step = "away" /\ client[c].gen = 0
  BY <1>1 DEF Stranger
<1>5. backlog \in Seq(Clients) /\ Len(backlog) = 0
  BY <1>1, EmptySeq
<1>6. /\ wire \in Wires /\ wire.req = NULL /\ wire.body = FALSE /\ wire.answer = NULL
      /\ server \in Servers /\ server.pc = "idle"
  BY <1>1, QuietIs, IdleIs
<1>7. Typed
  <2>1. client \in [Clients -> Peers]
    BY <1>1 DEF Stranger, Peers, Steps
  <2> QED BY <1>1, <1>2, <1>5, <1>6, <2>1 DEF Typed, Wires, Servers
<1>8. Stopping /\ NoKeys /\ Asked
  BY <1>1, <1>3, <1>4, <1>6 DEF Stopping, NoKeys, Asked
<1>9. Queued /\ Peered
  BY <1>1, <1>4, <1>5 DEF Queued, Peered, Open
<1>10. OneMessage /\ Both /\ SameSocket
  BY <1>1, <1>6 DEF OneMessage, Both, SameSocket
<1>11. Linked /\ HandlersHear
  BY <1>1 DEF Linked, HandlersHear
<1> QED BY <1>3, <1>7, <1>8, <1>9, <1>10, <1>11 DEF IInv

---------------------------------------------------------------------------
(* The thread's steps.                                                      *)

LEMMA NetStays ==
  ASSUME IInv, UNCHANGED <<net, client>>
  PROVE  Queued' /\ Peered' /\ Asked'
<1>1. UNCHANGED <<conn, backlog, wire, client>>
  BY DEF net
<1>2. Queued /\ Peered /\ Asked
  BY DEF IInv
<1>3. Queued'
  BY <1>1, <1>2 DEF Queued
<1>4. Peered' /\ Asked'
  BY <1>1, <1>2 DEF Peered, Asked, Open, Suits
<1> QED BY <1>3, <1>4

LEMMA BeginInv == ASSUME IInv, Begin PROVE IInv'
<1>1. /\ server.pc = "idle" /\ conn # NULL /\ wire.req # NULL
      /\ UNCHANGED <<app, uris, endpoints, sec, session_id, cur_session, net, client, faults, early, garbled>>
  BY DEF Begin, state, hist
<1>2. UNCHANGED <<conn, backlog, wire>>
  BY <1>1 DEF net
<1>3. Typed /\ conn \in Sockets /\ wire \in Wires /\ OneMessage /\ Both /\ Linked /\ HandlersHear /\ NoKeys /\ Stopping
  BY <1>1, Known DEF IInv
<1>4. wire.req \in Messages
  BY <1>1, <1>3 DEF Wires
<1>5. /\ server' \in Servers
      /\ \/ /\ server'.pc = IF conn.fd # session_id THEN "close" ELSE "receive"
            /\ server'.req = wire.req
         \/ server'.pc = "send" /\ server'.req = NotFound
  <2>1. CASE Endpoint(wire.req.kind) \in uris
    <3>1. server' = [pc |-> IF conn.fd # session_id THEN "close" ELSE "receive", req |-> wire.req, clear |-> FALSE]
      BY <2>1 DEF Begin
    <3> QED BY <1>4, <3>1 DEF Servers, Places
  <2>2. CASE Endpoint(wire.req.kind) \notin uris
    <3>1. server' = [pc |-> "send", req |-> NotFound, clear |-> FALSE]
      BY <2>2 DEF Begin
    <3> QED BY <3>1, NotFoundIs DEF Servers, Places
  <2> QED BY <2>1, <2>2
<1>6. Typed'
  BY <1>1, <1>2, <1>3, <1>5 DEF Typed, Servers
<1>7. InOrder' /\ Stopping'
  BY <1>1, <1>3, ThreadKeeps DEF Stopping
<1>8. Queued' /\ Peered' /\ Asked'
  BY <1>1, NetStays
<1>9. OneMessage'
  BY <1>1, <1>2, <1>3, <1>4, <1>5, NotFoundIs, NullIs DEF OneMessage
<1>10. NoKeys'
  BY <1>1, <1>2, <1>3, <1>5, NotFoundIs DEF NoKeys, Acts
<1>11. Both'
  <2>1. /\ wire'.req # NULL /\ wire'.answer = NULL /\ wire' # Quiet
        /\ server'.pc \notin {"idle", "dispatch", "handler", "encrypt", "open"}
    BY <1>1, <1>2, <1>3, <1>5, QuietIs DEF OneMessage
  <2>2. CASE server'.req = wire.req
    <3>1. sec /\ wire.req.kind = "scan" => Sync(wire.req.gen, wire.req.pos)
      BY <1>1, <1>3 DEF Both
    <3>2. server'.pc # "send" /\ (server'.pc = "close" => conn.fd # session_id)
      <4>1. wire.req.kind # "404"
        BY <1>1 DEF IInv, Asked
      <4> QED BY <1>5, <2>2, <4>1, NotFoundIs
    <3>3. sec /\ wire.req.kind = "scan" => server'.pc # "close" /\ Sync(wire.req.gen, wire.req.pos)'
      BY <1>1, <1>2, <3>1, <3>2 DEF Sync, Current
    <3> QED BY <1>1, <1>2, <2>1, <2>2, <3>2, <3>3 DEF Both, Sync, Current
  <2>3. CASE server'.pc = "send" /\ server'.req = NotFound
    BY <2>1, <2>3, NotFoundIs DEF Both, Encrypted
  <2> QED BY <1>5, <2>2, <2>3
<1>12. SameSocket'
  BY <1>1, <1>2, <1>5 DEF SameSocket
<1>13. Linked' /\ HandlersHear'
  BY <1>1, <1>3 DEF Linked, HandlersHear, Acts, Current
<1> QED BY <1>6, <1>7, <1>8, <1>9, <1>10, <1>11, <1>12, <1>13 DEF IInv

\* A thread that goes on with its request, at another place.
LEMMA GotoIs ==
  ASSUME IInv, server.pc # "idle", NEW p \in Places, Goto(p)
  PROVE  server' \in Servers /\ server'.pc = p /\ server'.req = server.req /\ server'.clear = server.clear
<1>1. server \in Servers
  BY Known
<1> QED BY <1>1 DEF Goto, Servers

LEMMA CloseOldInv == ASSUME IInv, CloseOld PROVE IInv'
<1>1. /\ server.pc = "close"
      /\ UNCHANGED <<app, uris, endpoints, sec, faults, early, garbled>>
  BY DEF CloseOld, hist
<1>2. /\ Typed /\ conn # NULL /\ conn \in Sockets /\ server.req \in Messages
      /\ wire.req # NULL /\ wire.answer = NULL /\ wire # Quiet
  BY <1>1, Known, AtRequest
<1>3. Stopping /\ OneMessage /\ Both /\ Linked /\ HandlersHear /\ NoKeys
  BY DEF IInv
<1>4. HandlersHear'
  BY <1>1, <1>3 DEF HandlersHear
<1>5. CASE session_id # NO_SESSION_ID /\ sec /\ ~Current(session_id)
  <2>1. Fail /\ UNCHANGED <<session_id, cur_session>>
    BY <1>5 DEF CloseOld
  <2>2. Typed'
    BY <1>1, <1>2, <2>1, FailTyped DEF Typed
  <2>3. InOrder' /\ Stopping'
    BY <1>1, <1>2, <1>3, <2>1, ThreadKeeps DEF Stopping
  <2>4. Queued' /\ Peered' /\ OneMessage' /\ Asked' /\ NoKeys' /\ Both' /\ SameSocket'
    BY <1>1, <1>2, <2>1, FailKeeps
  <2>5. Linked'
    BY <1>1, <1>3, <2>1 DEF Linked, Acts, Current
  <2> QED BY <1>4, <2>2, <2>3, <2>4, <2>5 DEF IInv
<1>6. CASE ~(session_id # NO_SESSION_ID /\ sec /\ ~Current(session_id))
  <2>1. /\ cur_session' \in {NULL, cur_session} /\ session_id' = NO_SESSION_ID
        /\ Goto("open") /\ UNCHANGED <<net, client>>
    BY <1>6 DEF CloseOld
  <2>2. UNCHANGED <<conn, backlog, wire>>
    BY <2>1 DEF net
  <2>3. server' \in Servers /\ server'.pc = "open" /\ server'.req = server.req
    BY <1>1, <2>1, GotoIs DEF Places
  <2>4. Typed'
    BY <1>1, <1>2, <2>1, <2>2, <2>3 DEF Typed, Servers
  <2>5. InOrder' /\ Stopping'
    BY <1>1, <1>2, <1>3, <2>1, ThreadKeeps DEF Stopping
  <2>6. Queued' /\ Peered' /\ Asked'
    BY <2>1, NetStays
  <2>7. OneMessage'
    BY <1>1, <1>2, <1>3, <2>2, <2>3, NullIs DEF OneMessage
  <2>8. NoKeys'
    BY <1>1, <1>3, <2>1, <2>2, <2>3 DEF NoKeys, Acts
  <2>9. Both'
    BY <1>1, <1>2, <1>3, <2>2, <2>3 DEF Both
  <2>10. SameSocket'
    BY <2>1, <2>3 DEF SameSocket
  <2>11. Linked'
    BY <1>1, <2>1 DEF Linked
  <2> QED BY <1>4, <2>4, <2>5, <2>6, <2>7, <2>8, <2>9, <2>10, <2>11 DEF IInv
<1> QED BY <1>5, <1>6

LEMMA OpenNewInv == ASSUME IInv, OpenNew PROVE IInv'
<1>1. /\ server.pc = "open"
      /\ UNCHANGED <<app, uris, endpoints, sec, garbled>>
      /\ \/ /\ sec /\ ~Current(conn.fd) /\ Fail /\ cur_session' = NULL
            /\ UNCHANGED <<session_id, early>>
         \/ /\ cur_session' = IF sec /\ ~Current(conn.fd) THEN NewSession(conn.fd) ELSE cur_session
            /\ session_id' = conn.fd
            /\ early' = (early \/ ~sec)
            /\ Goto("receive") /\ UNCHANGED <<net, client, faults>>
  BY DEF OpenNew
<1>2. /\ Typed /\ conn # NULL /\ conn \in Sockets /\ conn.fd \in Fds /\ server.req \in Messages
      /\ wire.req # NULL /\ wire.answer = NULL /\ wire # Quiet
  BY <1>1, Known, AtRequest
<1>3. Stopping /\ OneMessage /\ Both /\ SameSocket /\ Linked /\ HandlersHear /\ NoKeys
  BY DEF IInv
<1>4. HandlersHear'
  BY <1>1, <1>3 DEF HandlersHear
<1>5. session_id = NO_SESSION_ID
  BY <1>1, <1>3 DEF SameSocket
<1>6. ASSUME Fail, cur_session' = NULL, UNCHANGED <<session_id, early>> PROVE IInv'
  <2>1. Typed'
    BY <1>1, <1>2, <1>6, FailTyped DEF Typed
  <2>2. InOrder' /\ Stopping'
    BY <1>1, <1>2, <1>6, ThreadKeeps
  <2>3. Queued' /\ Peered' /\ OneMessage' /\ Asked' /\ NoKeys' /\ Both' /\ SameSocket'
    BY <1>1, <1>2, <1>6, FailKeeps
  <2>4. Linked'
    BY <1>1, <1>5, <1>6 DEF Linked
  <2> QED BY <1>4, <2>1, <2>2, <2>3, <2>4 DEF IInv
<1>7. ASSUME cur_session' = IF sec /\ ~Current(conn.fd) THEN NewSession(conn.fd) ELSE cur_session,
             session_id' = conn.fd, early' = (early \/ ~sec), Goto("receive"), UNCHANGED <<net, client>>
      PROVE  IInv'
  <2>1. UNCHANGED <<conn, backlog, wire, client>>
    BY <1>7 DEF net
  <2>2. server' \in Servers /\ server'.pc = "receive" /\ server'.req = server.req
    BY <1>1, <1>7, GotoIs DEF Places
  <2>3. NewSession(conn.fd) \in Sessions /\ NewSession(conn.fd).id = conn.fd
    BY <1>2, GensIs DEF NewSession, Sessions
  <2>4. cur_session' \in Sessions \cup {NULL}
    BY <1>2, <1>7, <2>3 DEF Typed
  <2>5. Typed'
    <3>1. early' \in BOOLEAN
      BY <1>2, <1>7, Zenon DEF Typed
    <3> QED BY <1>1, <1>2, <1>7, <2>1, <2>2, <2>4, <3>1 DEF Typed, Servers
  <2>6. InOrder' /\ Stopping'
    BY <1>1, <1>2, <1>3, <1>7, ThreadKeeps DEF Stopping
  <2>7. Queued' /\ Peered' /\ Asked'
    BY <1>7, NetStays
  <2>8. OneMessage'
    BY <1>1, <1>2, <1>3, <2>1, <2>2, NullIs DEF OneMessage
  <2>9. NoKeys'
    BY <1>1, <1>3, <2>1, <2>2 DEF NoKeys, Acts
  <2>10. Both'
    BY <1>1, <1>2, <1>3, <2>1, <2>2 DEF Both
  <2>11. SameSocket'
    BY <1>7, <2>1, <2>2 DEF SameSocket
  <2>12. Linked'
    <3>1. sec => Current(session_id)'
      BY <1>2, <1>7, <2>3, NullIs DEF Current
    <3>2. "secure" \in Acts' => ~sec
      BY <1>1, <1>3 DEF Stopping, Acts
    <3>3. ~early' => sec
      BY <1>7, Zenon
    <3> QED BY <1>1, <3>1, <3>2, <3>3 DEF Linked
  <2> QED BY <1>4, <2>5, <2>6, <2>7, <2>8, <2>9, <2>10, <2>11, <2>12 DEF IInv
<1> QED BY <1>1, <1>6, <1>7

\* Steps that fail and leave the session and what is set of the service.
LEMMA FailsInv ==
  ASSUME IInv, conn # NULL, Fail, UNCHANGED <<app, uris, endpoints, sec, session_id, early, garbled>>,
         \/ cur_session' = cur_session
         \/ /\ cur_session # NULL /\ sec
            /\ cur_session' \in Sessions /\ cur_session'.id = cur_session.id
  PROVE  IInv'
<1>1. Typed /\ Stopping /\ Linked /\ HandlersHear
  BY DEF IInv
<1>2. Typed'
  BY <1>1, FailTyped DEF Typed
<1>3. InOrder' /\ Stopping'
  BY <1>1, ThreadKeeps DEF Stopping
<1>4. Queued' /\ Peered' /\ OneMessage' /\ Asked' /\ NoKeys' /\ Both' /\ SameSocket'
  BY FailKeeps
<1>5. Linked'
  BY <1>1, NullIs DEF Linked, Acts, Current
<1>6. HandlersHear'
  BY <1>1 DEF HandlersHear
<1> QED BY <1>2, <1>3, <1>4, <1>5, <1>6 DEF IInv

LEMMA ReceiveInv == ASSUME IInv, Receive PROVE IInv'
<1>1. /\ server.pc = "receive"
      /\ UNCHANGED <<app, uris, endpoints, sec, session_id, cur_session, early, garbled>>
      /\ Fail \/ (Goto("dispatch") /\ UNCHANGED <<net, client>>)
  BY DEF Receive, state, hist
<1>2. /\ Typed /\ conn # NULL /\ server.req \in Messages
      /\ wire.req # NULL /\ wire.answer = NULL /\ wire # Quiet
  BY <1>1, Known, AtRequest
<1>3. CASE Fail
  BY <1>1, <1>2, <1>3, FailsInv
<1>4. ASSUME Goto("dispatch"), UNCHANGED <<net, client>> PROVE IInv'
  <2>1. UNCHANGED <<conn, backlog, wire>>
    BY <1>4 DEF net
  <2>2. server' \in Servers /\ server'.pc = "dispatch" /\ server'.req = server.req
    BY <1>1, <1>4, GotoIs DEF Places
  <2>3. Stopping /\ OneMessage /\ Both /\ SameSocket /\ Linked /\ HandlersHear /\ NoKeys
    BY DEF IInv
  <2>4. Typed'
    BY <1>1, <1>2, <1>4, <2>1, <2>2 DEF Typed, Servers
  <2>5. InOrder' /\ Stopping'
    BY <1>1, <1>2, <2>3, ThreadKeeps DEF Stopping
  <2>6. Queued' /\ Peered' /\ Asked'
    BY <1>4, NetStays
  <2>7. OneMessage'
    BY <1>1, <1>2, <2>1, <2>2, <2>3, NullIs DEF OneMessage
  <2>8. NoKeys'
    BY <1>1, <1>4, <2>1, <2>2, <2>3 DEF NoKeys, Acts
  <2>9. Both'
    BY <1>1, <1>2, <2>1, <2>2, <2>3 DEF Both, Sync, Current
  <2>10. SameSocket'
    BY <1>1, <2>1, <2>2, <2>3 DEF SameSocket
  <2>11. Linked' /\ HandlersHear'
    BY <1>1, <2>3 DEF Linked, HandlersHear, Acts, Current
  <2> QED BY <2>4, <2>5, <2>6, <2>7, <2>8, <2>9, <2>10, <2>11 DEF IInv
<1> QED BY <1>1, <1>3, <1>4

LEMMA HandlerInv == ASSUME IInv, Handler PROVE IInv'
<1>1. /\ server.pc = "handler"
      /\ UNCHANGED <<app, uris, endpoints, sec, session_id, cur_session, early, garbled>>
      /\ Fail \/ (Goto("encrypt") /\ UNCHANGED <<net, client>>)
  BY DEF Handler, state, hist
<1>2. /\ Typed /\ conn # NULL /\ server.req \in Messages
      /\ wire.req # NULL /\ wire.answer = NULL /\ wire # Quiet
  BY <1>1, Known, AtRequest
<1>3. CASE Fail
  BY <1>1, <1>2, <1>3, FailsInv
<1>4. ASSUME Goto("encrypt"), UNCHANGED <<net, client>> PROVE IInv'
  <2>1. UNCHANGED <<conn, backlog, wire>>
    BY <1>4 DEF net
  <2>2. server' \in Servers /\ server'.pc = "encrypt" /\ server'.req = server.req /\ server'.clear = server.clear
    BY <1>1, <1>4, GotoIs DEF Places
  <2>3. Stopping /\ OneMessage /\ Both /\ SameSocket /\ Linked /\ HandlersHear /\ NoKeys
    BY DEF IInv
  <2>4. Typed'
    BY <1>1, <1>2, <1>4, <2>1, <2>2 DEF Typed, Servers
  <2>5. InOrder' /\ Stopping'
    BY <1>1, <1>2, <2>3, ThreadKeeps DEF Stopping
  <2>6. Queued' /\ Peered' /\ Asked'
    BY <1>4, NetStays
  <2>7. OneMessage'
    BY <1>1, <1>2, <2>1, <2>2, <2>3, NullIs DEF OneMessage
  <2>8. NoKeys'
    BY <1>1, <1>4, <2>1, <2>2, <2>3 DEF NoKeys, Acts
  <2>9. Both'
    BY <1>1, <1>2, <2>1, <2>2, <2>3 DEF Both, Sync, Current
  <2>10. SameSocket'
    BY <1>1, <2>1, <2>2, <2>3 DEF SameSocket
  <2>11. Linked' /\ HandlersHear'
    BY <1>1, <2>3 DEF Linked, HandlersHear, Acts, Current
  <2> QED BY <2>4, <2>5, <2>6, <2>7, <2>8, <2>9, <2>10, <2>11 DEF IInv
<1> QED BY <1>1, <1>3, <1>4

LEMMA PurgeInv == ASSUME IInv, Purge PROVE IInv'
<1>1. /\ conn # NULL /\ Fail
      /\ UNCHANGED <<app, uris, endpoints, sec, session_id, cur_session, early, garbled>>
  BY DEF Purge, state, hist
<1> QED BY <1>1, FailsInv

LEMMA NoticeInv == ASSUME IInv, Notice PROVE IInv'
<1>1. /\ conn # NULL /\ Fail
      /\ UNCHANGED <<app, uris, endpoints, sec, session_id, cur_session, early, garbled>>
  BY DEF Notice, state, hist
<1> QED BY <1>1, FailsInv

\* There is always a key agreement nobody has used: the client at the open connection holds
\* none when it asks for one, and the others hold none.
LEMMA FreshIs ==
  ASSUME IInv, conn # NULL, cur_session \in Sessions,
         \A c \in Clients : Open(c) => client[c].gen = 0
  PROVE  Fresh \in Gens
<1> DEFINE used == {client[c].gen : c \in Clients} \cup {cur_session.gen, cur_session.ctx}
<1>1. Peered /\ Cardinality(Clients) \in Nat
  BY GensIs DEF IInv
<1>2. \A c \in Clients : client[c].gen = 0
  BY <1>1 DEF Peered
<1>3. used \subseteq {0, cur_session.gen, cur_session.ctx}
  BY <1>2
<1>4. Cardinality(Clients) >= 1
  <2>1. IsFiniteSet(Clients) /\ Clients # {}
    BY ProtocommAssumption
  <2>2. Cardinality(Clients) # 0
    BY <2>1, FS_EmptySet
  <2> QED BY <1>1, <2>2
<1>5. {1, 2, 3} \subseteq Gens
  BY <1>1, <1>4 DEF Gens
<1>6. Gens \ used # {}
  BY <1>3, <1>5
<1>7. Gens \ used \in SUBSET Nat
  BY GensIs
<1>8. Fresh = Min(Gens \ used)
  BY NullIs DEF Fresh
<1> HIDE DEF used
<1> DEFINE free == Gens \ used
<1> HIDE DEF free
<1>9. free # {} /\ free \in SUBSET Nat
  BY <1>6, <1>7 DEF free
<1>10. Min(free) \in free
  BY <1>9, MinIs
<1> QED BY <1>8, <1>10 DEF free

\* What an answer is.
LEMMA AnswerIs ==
  ASSUME IInv, server.pc # "idle", NEW g \in Gens \cup {0}, NEW p \in Nat, Answer(<<g, p>>)
  PROVE  /\ server' \in Servers /\ server'.pc = "send" /\ server'.req \in Messages
         /\ server'.req.kind = server.req.kind /\ server'.req.gen = g /\ server'.req.pos = p
<1>1. server \in Servers /\ server.req \in Messages
  BY Known, AtRequest
<1>2. server' = [server EXCEPT !.pc = "send", !.req = [server.req EXCEPT !.gen = g, !.pos = p]]
  BY DEF Answer
<1> DEFINE r == [server.req EXCEPT !.gen = g, !.pos = p]
<1>3. r \in Messages /\ r.kind = server.req.kind /\ r.gen = g /\ r.pos = p
  BY <1>1 DEF Messages
<1> HIDE DEF r
<1>4. server' = [server EXCEPT !.pc = "send", !.req = r]
  BY <1>2 DEF r
<1>5. server' \in Servers /\ server'.pc = "send" /\ server'.req = r
  BY <1>1, <1>3, <1>4 DEF Servers, Places
<1> QED BY <1>3, <1>5

\* An answer that is ready to be sent: encrypted ones are where the session stands.
LEMMA AnswersInv ==
  ASSUME IInv, server.pc \in {"dispatch", "encrypt"},
         UNCHANGED <<app, uris, endpoints, sec, session_id, net, client, early, garbled>>,
         \/ cur_session' = cur_session
         \/ /\ cur_session # NULL /\ sec
            /\ cur_session' \in Sessions /\ cur_session'.id = cur_session.id,
         NEW g \in Gens \cup {0}, NEW p \in Nat, Answer(<<g, p>>),
         server.req.kind \in {"command1", "scan"} /\ g # 0 /\ sec => Sync(g, p + 1)',
         ~sec => g = 0
  PROVE  IInv'
<1>1. /\ server' \in Servers /\ server'.pc = "send" /\ server'.req \in Messages
      /\ server'.req.kind = server.req.kind /\ server'.req.gen = g /\ server'.req.pos = p
  BY AnswerIs
<1>2. /\ Typed /\ conn # NULL /\ server.req \in Messages
      /\ wire.req # NULL /\ wire.answer = NULL /\ wire # Quiet
  BY Known, AtRequest
<1>3. UNCHANGED <<conn, backlog, wire>>
  BY DEF net
<1>4. Stopping /\ OneMessage /\ Linked /\ HandlersHear
  BY DEF IInv
<1>5. Typed'
  BY <1>1, <1>2, <1>3 DEF Typed, Servers
<1>6. InOrder' /\ Stopping'
  BY <1>2, <1>4, ThreadKeeps DEF Stopping
<1>7. Queued' /\ Peered' /\ Asked'
  BY NetStays
<1>8. OneMessage'
  BY <1>1, <1>2, <1>3, <1>4, NullIs DEF OneMessage
<1>9. NoKeys'
  <2>1. "secure" \in Acts' => g = 0 /\ NoKeys /\ "secure" \in Acts
    BY <1>4 DEF Stopping, Acts, IInv
  <2> QED BY <1>1, <1>2, <1>3, <2>1 DEF NoKeys
<1>10. Both'
  <2>1. sec /\ Encrypted(server.req)' => Sync(g, p + 1)'
    BY <1>1 DEF Encrypted
  <2>2. sec /\ Encrypted(server.req)' => Sync(server.req.gen, server.req.pos + 1)'
    BY <1>1, <2>1 DEF Sync, Current
  <2> QED BY <1>1, <1>2, <1>3, <2>2 DEF Both
<1>11. SameSocket'
  BY <1>1 DEF SameSocket
<1>12. Linked'
  BY <1>4, NullIs DEF Linked, Acts, Current
<1>13. HandlersHear'
  BY <1>4 DEF HandlersHear
<1> QED BY <1>5, <1>6, <1>7, <1>8, <1>9, <1>10, <1>11, <1>12, <1>13 DEF IInv

LEMMA Command1Is ==
  ASSUME cur_session \in Sessions
  PROVE  /\ Command1 \in Sessions /\ Command1.id = cur_session.id
         /\ Command1.gen = cur_session.gen /\ Command1.ctx = cur_session.gen
         /\ Command1.pos = cur_session.pos + 1
<1>1. PICK g \in Gens \cup {0}, p \in Nat : g = cur_session.gen /\ p = cur_session.pos + 1
  BY DEF Sessions
<1>2. Command1 = [cur_session EXCEPT !.ctx = g, !.pos = p]
  BY <1>1 DEF Command1
<1>3. Command1 \in Sessions
  BY <1>2 DEF Sessions
<1>4. Command1.id = cur_session.id /\ Command1.gen = cur_session.gen
  BY <1>2 DEF Sessions
<1>5. Command1.ctx = g /\ Command1.pos = p
  BY <1>2 DEF Sessions
<1> QED BY <1>1, <1>3, <1>4, <1>5

LEMMA DispatchInv == ASSUME IInv, Dispatch PROVE IInv'
<1> DEFINE req == server.req
           known == Endpoint(req.kind) \in endpoints
<1>1. /\ server.pc = "dispatch" /\ req.kind # "scan"
      /\ UNCHANGED <<app, uris, endpoints, sec, session_id, early, garbled>>
  BY DEF Dispatch, hist
<1>2. \/ /\ Answer(<<0, 0>>) /\ UNCHANGED <<net, client, cur_session>>
         /\ req.kind = "version" \/ ~sec
      \/ /\ sec /\ req.kind = "command0" /\ Current(session_id)
         /\ \/ /\ cur_session' = Command0 /\ Answer(<<Fresh, 0>>) /\ UNCHANGED <<net, client>>
            \/ /\ Fail /\ cur_session' = [cur_session EXCEPT !.gen = 0]
      \/ /\ sec /\ req.kind = "command1" /\ Current(session_id)
         /\ IF Proven(req)
              THEN /\ cur_session' = [Command1 EXCEPT !.pos = @ + 1]
                   /\ Answer(<<req.gen, req.pos + 1>>) /\ UNCHANGED <<net, client>>
              ELSE cur_session' = Command1 /\ Fail
      \/ Fail /\ UNCHANGED cur_session
  BY DEF Dispatch
<1>3. /\ Typed /\ conn # NULL /\ conn \in Sockets /\ req \in Messages
      /\ wire.req # NULL /\ wire.answer = NULL
  BY <1>1, Known, AtRequest
<1>4. SameSocket /\ session_id = conn.fd
  BY <1>1 DEF IInv, SameSocket
<1>5. Current(session_id) => cur_session # NULL /\ cur_session \in Sessions /\ cur_session.id = session_id
  BY <1>3 DEF Current, Typed
<1>6. req.gen \in Gens \cup {0} /\ req.pos \in Nat
  BY <1>3 DEF Messages
<1>7. ASSUME Answer(<<0, 0>>), UNCHANGED <<net, client, cur_session>> PROVE IInv'
  BY <1>1, <1>7, GensIs, AnswersInv
<1>8. ASSUME sec, req.kind = "command0", Current(session_id), cur_session' = Command0,
             Answer(<<Fresh, 0>>), UNCHANGED <<net, client>>
      PROVE  IInv'
  <2>1. Fresh \in Gens
    <3>1. ASSUME NEW c \in Clients, Open(c) PROVE client[c].gen = 0
      <4>1. wire.req.kind = "command0"
        BY <1>1, <1>8 DEF IInv, OneMessage
      <4>2. client[c].step \in {"connected", "versioned"}
        BY <1>3, <3>1, <4>1 DEF IInv, Asked, Suits
      <4> QED BY <4>2 DEF IInv, Peered
    <3> QED BY <1>3, <1>5, <1>8, <3>1, FreshIs
  <2>2. cur_session' \in Sessions /\ cur_session'.id = cur_session.id
    BY <1>5, <1>8, <2>1 DEF Command0, Sessions
  <2> QED BY <1>1, <1>5, <1>8, <2>1, <2>2, AnswersInv
<1>9. ASSUME sec, Current(session_id), Fail, cur_session' = [cur_session EXCEPT !.gen = 0] PROVE IInv'
  <2>1. cur_session' \in Sessions /\ cur_session'.id = cur_session.id
    BY <1>5, <1>9 DEF Sessions
  <2> QED BY <1>1, <1>3, <1>5, <1>9, <2>1, FailsInv
<1>10. Current(session_id) => /\ Command1 \in Sessions /\ Command1.id = cur_session.id
                              /\ Command1.gen = cur_session.gen /\ Command1.ctx = cur_session.gen
                              /\ Command1.pos = cur_session.pos + 1
  BY <1>5, Command1Is
<1>11. ASSUME sec, Current(session_id), Proven(req), cur_session' = [Command1 EXCEPT !.pos = @ + 1],
              Answer(<<req.gen, req.pos + 1>>), UNCHANGED <<net, client>>
       PROVE  IInv'
  <2>1. PICK g \in Gens \cup {0}, p \in Nat : req.gen = g /\ req.pos = p
    BY <1>6
  <2>2. /\ cur_session' \in Sessions /\ cur_session'.id = cur_session.id
        /\ cur_session'.gen = g /\ cur_session'.ctx = g /\ cur_session'.pos = (p + 1) + 1
    BY <1>10, <1>11, <2>1 DEF Sessions, Proven
  <2>3. UNCHANGED <<conn, session_id>>
    BY <1>1, <1>11 DEF net
  <2>4. Sync(g, (p + 1) + 1)'
    BY <1>4, <1>5, <1>11, <2>2, <2>3, NullIs DEF Sync, Current
  <2>5. p + 1 \in Nat /\ Answer(<<g, p + 1>>)
    BY <1>11, <2>1
  <2> QED BY <1>1, <1>5, <1>11, <2>2, <2>4, <2>5, AnswersInv
<1>12. ASSUME sec, Current(session_id), cur_session' = Command1, Fail PROVE IInv'
  BY <1>1, <1>3, <1>5, <1>10, <1>12, FailsInv
<1>13. ASSUME Fail, UNCHANGED cur_session PROVE IInv'
  BY <1>1, <1>3, <1>13, FailsInv
<1> QED BY <1>2, <1>7, <1>8, <1>9, <1>11, <1>12, <1>13

LEMMA MovedIs ==
  ASSUME cur_session \in Sessions
  PROVE  /\ Moved \in Sessions /\ Moved.id = cur_session.id
         /\ Moved.gen = cur_session.gen /\ Moved.ctx = cur_session.ctx
         /\ Moved.pos = cur_session.pos + 1
BY DEF Moved, Sessions

LEMMA EncryptInv == ASSUME IInv, Encrypt PROVE IInv'
<1>1. /\ server.pc = "encrypt"
      /\ server.clear \/ sec
      /\ UNCHANGED <<app, uris, endpoints, sec, session_id, net, client, early, garbled>>
      /\ \/ Answer(<<0, 0>>) /\ UNCHANGED cur_session
         \/ /\ ~server.clear /\ Current(session_id)
            /\ Answer(<<cur_session.ctx, cur_session.pos>>) /\ cur_session' = Moved
  BY DEF Encrypt, hist
<1>2. Typed /\ Both /\ session_id = conn.fd
  BY <1>1 DEF IInv, SameSocket
<1>3. ASSUME Answer(<<0, 0>>), UNCHANGED cur_session PROVE IInv'
  BY <1>1, <1>3, GensIs, AnswersInv
<1>4. ASSUME ~server.clear, Current(session_id),
             Answer(<<cur_session.ctx, cur_session.pos>>), cur_session' = Moved
      PROVE  IInv'
  <2>1. sec /\ cur_session # NULL /\ cur_session \in Sessions
    BY <1>1, <1>2, <1>4 DEF Current, Typed
  <2>2. PICK g \in Gens \cup {0}, p \in Nat : cur_session.ctx = g /\ cur_session.pos = p
    BY <2>1 DEF Sessions
  <2>3. Sync(server.req.gen, server.req.pos + 1)
    BY <1>1, <1>2, <1>4, <2>1, Zenon DEF Both
  <2>4. cur_session.gen = g
    BY <2>2, <2>3 DEF Sync
  <2>5. /\ cur_session' \in Sessions /\ cur_session'.id = cur_session.id
        /\ cur_session'.gen = g /\ cur_session'.ctx = g /\ cur_session'.pos = p + 1
    BY <1>4, <2>1, <2>2, <2>4, MovedIs
  <2>6. UNCHANGED <<conn, session_id>>
    BY <1>1 DEF net
  <2>7. Sync(g, p + 1)'
    BY <1>2, <1>4, <2>5, <2>6, NullIs DEF Sync, Current
  <2>8. Answer(<<g, p>>)
    BY <1>4, <2>2
  <2> QED BY <1>1, <2>1, <2>5, <2>7, <2>8, AnswersInv
<1> QED BY <1>1, <1>3, <1>4

LEMMA DecryptInv == ASSUME IInv, Decrypt PROVE IInv'
<1>1. /\ server.pc = "dispatch" /\ server.req.kind = "scan"
      /\ UNCHANGED <<app, uris, endpoints, sec, session_id, early>>
      /\ \/ Fail /\ UNCHANGED <<cur_session, garbled>>
         \/ /\ cur_session' = IF sec /\ Current(session_id) THEN Moved ELSE cur_session
            /\ garbled' = (garbled \/ (sec /\ ~Understood(server.req)))
            /\ server' = [server EXCEPT !.pc = "handler", !.clear = ~sec]
            /\ UNCHANGED <<net, client>>
  BY DEF Decrypt
<1>2. /\ Typed /\ conn # NULL /\ server.req \in Messages
      /\ wire.req # NULL /\ wire.answer = NULL /\ wire # Quiet
  BY <1>1, Known, AtRequest
<1>3. CASE Fail /\ UNCHANGED <<cur_session, garbled>>
  BY <1>1, <1>2, <1>3, FailsInv
<1>4. ASSUME cur_session' = IF sec /\ Current(session_id) THEN Moved ELSE cur_session,
             garbled' = (garbled \/ (sec /\ ~Understood(server.req))),
             server' = [server EXCEPT !.pc = "handler", !.clear = ~sec],
             UNCHANGED <<net, client>>
      PROVE  IInv'
  <2>1. UNCHANGED <<conn, backlog, wire>>
    BY <1>4 DEF net
  <2>2. Stopping /\ OneMessage /\ Both /\ SameSocket /\ Linked /\ HandlersHear /\ NoKeys
    BY DEF IInv
  <2>3. server \in Servers /\ sec \in BOOLEAN
    BY <1>2, Known DEF Typed
  <2>4. server' \in Servers /\ server'.pc = "handler" /\ server'.req = server.req
    BY <1>4, <2>3 DEF Servers, Places
  <2>5. server'.clear = ~sec
    BY <1>4, <2>3 DEF Servers
  <2>6. cur_session # NULL => cur_session \in Sessions
    BY Known
  <2>7. cur_session' = cur_session \/
        (cur_session # NULL /\ sec /\ cur_session' \in Sessions /\ cur_session'.id = cur_session.id)
    BY <1>4, <2>6, MovedIs DEF Current
  <2>8. PICK g \in Gens \cup {0}, p \in Nat : server.req.gen = g /\ server.req.pos = p
    BY <1>2 DEF Messages
  <2>9. session_id = conn.fd
    BY <1>1, <2>2 DEF SameSocket
  <2>10. sec => Sync(g, p)
    BY <1>1, <2>2, <2>8 DEF Both
  <2>11. sec => Understood(server.req)
    BY <2>8, <2>10 DEF Sync, Understood
  <2>12. sec => Sync(g, p + 1)'
    <3> SUFFICES ASSUME sec PROVE Sync(g, p + 1)'
      OBVIOUS
    <3>1. Current(session_id) /\ cur_session.gen = g /\ cur_session.ctx = g /\ cur_session.pos = p
      BY <2>10 DEF Sync
    <3>2. cur_session # NULL /\ cur_session \in Sessions /\ cur_session.id = session_id
      BY <2>6, <3>1 DEF Current
    <3>3. /\ cur_session' \in Sessions /\ cur_session'.id = session_id
          /\ cur_session'.gen = g /\ cur_session'.ctx = g /\ cur_session'.pos = p + 1
      BY <1>4, <3>1, <3>2, MovedIs
    <3> QED BY <1>1, <2>1, <2>9, <3>3, NullIs DEF Sync, Current
  <2>13. ~garbled'
    BY <1>4, <2>2, <2>11, Zenon DEF HandlersHear
  <2>14. garbled' \in BOOLEAN
    BY <1>2, <1>4, Zenon DEF Typed
  <2>15. Typed'
    BY <1>1, <1>2, <1>4, <2>1, <2>4, <2>7, <2>14 DEF Typed, Servers
  <2>16. InOrder' /\ Stopping'
    BY <1>1, <1>2, <2>2, <2>7, ThreadKeeps DEF Stopping
  <2>17. Queued' /\ Peered' /\ Asked'
    BY <1>4, NetStays
  <2>18. OneMessage'
    BY <1>1, <1>2, <2>1, <2>2, <2>4, NullIs DEF OneMessage
  <2>19. NoKeys'
    BY <1>1, <1>4, <2>1, <2>2, <2>4 DEF NoKeys, Acts
  <2>20. Both'
    <3>1. sec' => sec
      BY <1>1
    <3>2. sec => Sync(server.req.gen, server.req.pos + 1)'
      BY <2>4, <2>8, <2>12 DEF Sync, Current
    <3> QED BY <1>2, <2>1, <2>4, <3>1, <3>2 DEF Both
  <2>21. SameSocket'
    BY <1>1, <2>1, <2>4, <2>9 DEF SameSocket
  <2>22. Linked'
    BY <1>1, <2>2, <2>7, NullIs DEF Linked, Acts, Current
  <2> QED BY <2>13, <2>15, <2>16, <2>17, <2>18, <2>19, <2>20, <2>21, <2>22 DEF IInv, HandlersHear
<1> QED BY <1>1, <1>3, <1>4

\* A wire with one answer, and one with one request.
LEMMA OneIs ==
  ASSUME NEW m \in Messages
  PROVE  /\ [Quiet EXCEPT !.answer = m] \in Wires /\ [Quiet EXCEPT !.answer = m].req = NULL
         /\ ~[Quiet EXCEPT !.answer = m].body /\ [Quiet EXCEPT !.answer = m].answer = m
         /\ [Quiet EXCEPT !.req = m] \in Wires /\ [Quiet EXCEPT !.req = m].answer = NULL
         /\ ~[Quiet EXCEPT !.req = m].body /\ [Quiet EXCEPT !.req = m].req = m
BY QuietIs DEF Wires

LEMMA SendInv == ASSUME IInv, Send PROVE IInv'
<1>1. /\ server.pc = "send"
      /\ UNCHANGED <<app, uris, endpoints, sec, session_id, cur_session, early, garbled>>
      /\ \/ Fail
         \/ /\ conn.there /\ wire' = [Quiet EXCEPT !.answer = server.req]
            /\ server' = Idle /\ UNCHANGED <<conn, backlog, client>>
  BY DEF Send, state, hist
<1>2. /\ Typed /\ conn # NULL /\ server.req \in Messages
      /\ wire.req # NULL /\ wire.req \in Messages /\ wire.answer = NULL
  BY <1>1, Known, AtRequest
<1>3. CASE Fail
  BY <1>1, <1>2, <1>3, FailsInv
<1>4. ASSUME wire' = [Quiet EXCEPT !.answer = server.req], server' = Idle,
             UNCHANGED <<conn, backlog, client>>
      PROVE  IInv'
  <2>1. /\ wire' \in Wires /\ wire'.req = NULL /\ wire'.body = FALSE /\ wire'.answer = server.req
        /\ wire'.answer # NULL /\ wire' # Quiet
    <3>1. /\ wire' \in Wires /\ wire'.req = NULL /\ ~wire'.body /\ wire'.answer = server.req
      BY <1>2, <1>4, OneIs
    <3>2. wire'.body \in BOOLEAN /\ server.req # NULL
      BY <1>2, <3>1, NullIs DEF Wires
    <3>3. wire' # Quiet
      BY <3>1, <3>2, QuietIs
    <3> QED BY <3>1, <3>2, <3>3
  <2>2. server' \in Servers /\ server'.pc = "idle"
    BY <1>4, IdleIs
  <2>3. Stopping /\ Queued /\ Peered /\ OneMessage /\ Asked /\ Both /\ SameSocket /\ Linked /\ HandlersHear /\ NoKeys
    BY DEF IInv
  <2>4. Typed'
    BY <1>1, <1>2, <1>4, <2>1, <2>2 DEF Typed, Servers, Wires
  <2>5. InOrder' /\ Stopping'
    BY <1>1, <1>2, <2>3, ThreadKeeps DEF Stopping
  <2>6. Queued' /\ Peered'
    BY <1>4, <2>3 DEF Queued, Peered, Open
  <2>7. OneMessage'
    BY <1>2, <1>4, <2>1, <2>2 DEF OneMessage
  <2>8. Asked'
    <3>1. server.req.kind \in {wire.req.kind, "404"}
      BY <1>1, <2>3 DEF OneMessage
    <3>2. \A c \in Clients : Open(c) => Suits(c, server.req.kind)
      BY <1>2, <2>3, <3>1 DEF Asked, Suits
    <3> QED BY <1>4, <2>1, <3>2 DEF Asked, Suits, Open
  <2>9. NoKeys'
    BY <1>1, <1>4, <2>1, <2>2, <2>3 DEF NoKeys, Acts
  <2>10. Both'
    <3>1. sec /\ Encrypted(server.req) => Sync(server.req.gen, server.req.pos + 1)
      BY <1>1, <2>3 DEF Both
    <3>2. sec /\ Encrypted(wire.answer)' => Sync(wire.answer.gen, wire.answer.pos + 1)'
      BY <1>1, <1>4, <2>1, <3>1 DEF Encrypted, Sync, Current
    <3> QED BY <1>1, <2>1, <2>2, <3>2 DEF Both
  <2>11. SameSocket'
    BY <2>2 DEF SameSocket
  <2>12. Linked' /\ HandlersHear'
    BY <1>1, <2>3 DEF Linked, HandlersHear, Acts, Current
  <2> QED BY <2>4, <2>5, <2>6, <2>7, <2>8, <2>9, <2>10, <2>11, <2>12 DEF IInv
<1> QED BY <1>1, <1>3, <1>4

LEMMA AcceptInv == ASSUME IInv, Accept PROVE IInv'
<1>1. /\ server.pc = "idle" /\ conn = NULL /\ backlog # <<>>
      /\ \E fd \in Fds : conn' = [client |-> Head(backlog), fd |-> fd, there |-> TRUE, reset |-> FALSE]
      /\ backlog' = Tail(backlog)
      /\ client' = [client EXCEPT ![Head(backlog)].step = "connected"]
      /\ UNCHANGED <<app, uris, endpoints, sec, session_id, cur_session, server, wire, early, garbled>>
  BY DEF Accept, state, hist
<1>2. Typed /\ backlog \in Seq(Clients) /\ client \in [Clients -> Peers]
  BY DEF IInv, Typed
<1>3. Stopping /\ Queued /\ Peered /\ OneMessage /\ Linked /\ HandlersHear /\ NoKeys
  BY DEF IInv
<1> DEFINE n == Len(backlog)
<1>4. /\ n \in Nat /\ n >= 1 /\ backlog[1] \in Clients /\ Head(backlog) = backlog[1]
      /\ backlog' \in Seq(Clients) /\ Len(backlog') = n - 1
      /\ \A i \in 1..(n - 1) : backlog'[i] = backlog[i + 1]
  BY <1>1, <1>2, TailIs
<1>5. PICK h \in Clients : h = Head(backlog) /\ h = backlog[1]
  BY <1>4
<1> HIDE DEF n
<1>6. /\ conn' \in Sockets /\ conn' # NULL /\ conn'.client = h /\ conn'.there
  <2>1. PICK fd \in Fds : conn' = [client |-> h, fd |-> fd, there |-> TRUE, reset |-> FALSE]
    BY <1>1, <1>5
  <2>2. conn' \in Sockets /\ conn'.client = h /\ conn'.there
    BY <2>1 DEF Sockets
  <2> QED BY <2>2, NullIs
<1>7. client[h].step = "waiting"
  <2>1. 1 \in 1..n
    BY <1>4
  <2> QED BY <1>3, <1>5, <2>1 DEF Queued, n
<1>8. /\ client' \in [Clients -> Peers]
      /\ client'[h].step = "connected" /\ client'[h].gen = client[h].gen
      /\ \A c \in Clients \ {h} : client'[c] = client[c]
  <2>1. client' = [client EXCEPT ![h].step = "connected"]
    BY <1>1, <1>5
  <2> QED BY <1>2, <2>1 DEF Peers, Steps
<1>9. \A c \in Clients : Open(c)' <=> c = h
  BY <1>6 DEF Open
<1>10. wire = Quiet /\ wire.req = NULL /\ wire.body = FALSE /\ wire.answer = NULL
  BY <1>1, <1>3, QuietIs DEF OneMessage
<1>11. Typed'
  BY <1>1, <1>2, <1>4, <1>6, <1>8 DEF Typed
<1>12. InOrder' /\ Stopping'
  BY <1>1, <1>3, ThreadKeeps DEF Stopping
<1>13. Queued'
  <2>1. \A i \in 1..Len(backlog') : i + 1 \in 1..n /\ i + 1 # 1 /\ i \in Int /\ backlog'[i] = backlog[i + 1]
    <3>1. ASSUME NEW i \in 1..Len(backlog') PROVE i + 1 \in 1..n /\ i + 1 # 1 /\ i \in 1..(n - 1) /\ i \in Int
      BY <1>4
    <3> QED BY <1>4, <3>1
  <2>2. /\ \A c \in Clients : client[c].step = "waiting" <=> \E i \in 1..n : backlog[i] = c
        /\ \A i, j \in 1..n : backlog[i] = backlog[j] => i = j
    BY <1>3 DEF Queued, n
  <2>3. 1 \in 1..n
    BY <1>4
  <2>4. ASSUME NEW c \in Clients
        PROVE  client'[c].step = "waiting" <=> \E i \in 1..Len(backlog') : backlog'[i] = c
    <3>1. ASSUME NEW i \in 1..Len(backlog'), backlog'[i] = c PROVE client'[c].step = "waiting"
      <4>1. c # h /\ client[c].step = "waiting"
        BY <1>5, <2>1, <2>2, <2>3, <3>1
      <4> QED BY <1>8, <4>1
    <3>2. ASSUME client'[c].step = "waiting" PROVE \E i \in 1..Len(backlog') : backlog'[i] = c
      <4>1. c # h /\ client[c].step = "waiting"
        BY <1>8, <3>2
      <4>2. PICK k \in 1..n : backlog[k] = c
        BY <2>2, <4>1
      <4>3. k # 1
        BY <1>5, <4>1, <4>2
      <4>4. k - 1 \in 1..(n - 1) /\ (k - 1) + 1 = k
        BY <1>4, <4>3
      <4>5. k - 1 \in 1..Len(backlog') /\ backlog'[k - 1] = c
        BY <1>4, <4>2, <4>4
      <4> QED BY <4>5
    <3> QED BY <3>1, <3>2
  <2>5. ASSUME NEW i \in 1..Len(backlog'), NEW j \in 1..Len(backlog'), backlog'[i] = backlog'[j] PROVE i = j
    <3>1. i + 1 = j + 1 /\ i \in Int /\ j \in Int
      BY <2>1, <2>2, <2>5
    <3> QED BY <3>1
  <2> QED BY <2>4, <2>5 DEF Queued
<1>14. Peered'
  <2>1. \A c \in Clients : Open(c)' <=> client'[c].step \notin {"away", "waiting"}
    <3>1. \A c \in Clients : client[c].step \in {"away", "waiting"}
      BY <1>1, <1>3 DEF Peered, Open
    <3> QED BY <1>8, <1>9, <3>1
  <2>2. \A c \in Clients : client'[c].step \in {"agreed", "up"} <=> client'[c].gen # 0
    BY <1>3, <1>7, <1>8 DEF Peered
  <2> QED BY <2>1, <2>2 DEF Peered
<1>15. OneMessage'
  BY <1>1, <1>6, <1>10 DEF OneMessage
<1>16. Asked'
  BY <1>1, <1>10 DEF Asked
<1>17. NoKeys'
  BY <1>1, <1>3, <1>8, <1>10 DEF NoKeys, Acts
<1>18. Both'
  <2>1. \A c \in Clients : Open(c)' => client'[c].step # "up"
    BY <1>8, <1>9
  <2> QED BY <1>1, <1>10, <2>1 DEF Both
<1>19. SameSocket'
  BY <1>1 DEF SameSocket
<1>20. Linked' /\ HandlersHear'
  BY <1>1, <1>3 DEF Linked, HandlersHear, Acts, Current
<1> QED BY <1>11, <1>12, <1>13, <1>14, <1>15, <1>16, <1>17, <1>18, <1>19, <1>20 DEF IInv

---------------------------------------------------------------------------
(* The clients' steps.                                                      *)

\* A client's step leaves the service alone.
LEMMA ClientKeeps ==
  ASSUME IInv, UNCHANGED <<app, state, server, hist>>,
         app.todo # <<>> \/ uris # {}, conn' = conn \/ (conn # NULL /\ conn'.fd = conn.fd)
  PROVE  InOrder' /\ Stopping' /\ SameSocket' /\ Linked' /\ HandlersHear'
<1>1. UNCHANGED <<app, uris, endpoints, sec, session_id, cur_session, server, early, garbled>>
  BY DEF state, hist
<1>2. InOrder /\ Stopping /\ SameSocket /\ Linked /\ HandlersHear
  BY DEF IInv
<1>3. InOrder'
  BY <1>1, <1>2 DEF InOrder, Acts
<1>4. Stopping'
  BY <1>1, <1>2 DEF Stopping, Acts
<1>5. SameSocket'
  BY <1>1, <1>2 DEF SameSocket
<1>6. Linked' /\ HandlersHear'
  BY <1>1, <1>2 DEF Linked, Acts, Current, HandlersHear
<1> QED BY <1>3, <1>4, <1>5, <1>6

LEMMA ConnectInv == ASSUME IInv, NEW c \in Clients, Connect(c) PROVE IInv'
<1>1. /\ client[c].step = "away" /\ Serving
      /\ client' = [client EXCEPT ![c].step = "waiting", ![c].visits = IF c = Phone THEN 0 ELSE @ + 1]
      /\ backlog' = Append(backlog, c)
      /\ UNCHANGED <<app, state, server, conn, wire, hist>>
  BY DEF Connect
<1>2. UNCHANGED <<app, uris, endpoints, sec, session_id, cur_session, server, conn, wire, early, garbled>>
  BY <1>1 DEF state, hist
<1>3. Typed /\ backlog \in Seq(Clients) /\ client \in [Clients -> Peers]
  BY DEF IInv, Typed
<1>4. Queued /\ Peered /\ OneMessage /\ Asked /\ NoKeys /\ Both
  BY DEF IInv
<1>5. /\ client' \in [Clients -> Peers]
      /\ client'[c].step = "waiting" /\ client'[c].gen = client[c].gen /\ client'[c].pos = client[c].pos
      /\ \A d \in Clients \ {c} : client'[d] = client[d]
  <2>1. PICK k \in Nat : k = IF c = Phone THEN 0 ELSE client[c].visits + 1
    BY <1>3 DEF Peers
  <2>2. client' = [client EXCEPT ![c] = [client[c] EXCEPT !.step = "waiting", !.visits = k]]
    BY <1>1, <1>3, <2>1
  <2>3. client[c] \in Peers
    BY <1>3
  <2> DEFINE p == [client[c] EXCEPT !.step = "waiting", !.visits = k]
  <2>4. p \in Peers /\ p.step = "waiting" /\ p.gen = client[c].gen /\ p.pos = client[c].pos
    BY <2>1, <2>3 DEF Peers, Steps
  <2> HIDE DEF p
  <2>5. client' = [client EXCEPT ![c] = p]
    BY <2>2 DEF p
  <2> QED BY <1>3, <2>4, <2>5
<1> DEFINE n == Len(backlog)
<1>6. /\ n \in Nat /\ backlog' \in Seq(Clients) /\ Len(backlog') = n + 1
      /\ \A i \in 1..n : backlog'[i] = backlog[i]
      /\ backlog'[n + 1] = c
  BY <1>1, <1>3, AppendProperties
<1> HIDE DEF n
<1>7. /\ \A d \in Clients : client[d].step = "waiting" <=> \E i \in 1..n : backlog[i] = d
      /\ \A i, j \in 1..n : backlog[i] = backlog[j] => i = j
  BY <1>4 DEF Queued, n
<1>8. ~Open(c)
  BY <1>1, <1>4 DEF Peered
<1>9. Typed'
  BY <1>2, <1>3, <1>5, <1>6 DEF Typed
<1>10. InOrder' /\ Stopping' /\ SameSocket' /\ Linked' /\ HandlersHear'
  BY <1>1, ClientKeeps DEF Serving
<1>11. Queued'
  <2>1. \A i \in 1..n : backlog[i] # c
    BY <1>1, <1>7
  <2>2. \A i \in 1..(n + 1) : i \in 1..n \/ i = n + 1
    BY <1>6
  <2>3. 1..n \subseteq 1..(n + 1) /\ n + 1 \in 1..(n + 1)
    BY <1>6
  <2>4. ASSUME NEW d \in Clients
        PROVE  client'[d].step = "waiting" <=> \E i \in 1..(n + 1) : backlog'[i] = d
    <3>1. CASE d = c
      BY <1>5, <1>6, <2>3, <3>1
    <3>2. CASE d # c
      <4>1. client'[d].step = "waiting" <=> \E i \in 1..n : backlog[i] = d
        BY <1>5, <1>7, <3>2
      <4>2. (\E i \in 1..n : backlog[i] = d) <=> \E i \in 1..(n + 1) : backlog'[i] = d
        BY <1>6, <2>2, <2>3, <3>2
      <4> QED BY <4>1, <4>2
    <3> QED BY <3>1, <3>2
  <2>5. ASSUME NEW i \in 1..(n + 1), NEW j \in 1..(n + 1), backlog'[i] = backlog'[j] PROVE i = j
    BY <1>6, <1>7, <2>1, <2>2, <2>5
  <2> QED BY <1>6, <2>4, <2>5 DEF Queued
<1>12. Peered'
  <2>1. \A d \in Clients : Open(d)' <=> client'[d].step \notin {"away", "waiting"}
    BY <1>2, <1>4, <1>5, <1>8 DEF Peered, Open
  <2>2. \A d \in Clients : client'[d].step \in {"agreed", "up"} <=> client'[d].gen # 0
    BY <1>1, <1>4, <1>5 DEF Peered
  <2> QED BY <2>1, <2>2 DEF Peered
<1>13. OneMessage'
  BY <1>2, <1>4 DEF OneMessage
<1>14. Asked'
  BY <1>2, <1>4, <1>5, <1>8 DEF Asked, Suits, Open
<1>15. NoKeys'
  BY <1>2, <1>4, <1>5 DEF NoKeys, Acts
<1>16. Both'
  BY <1>2, <1>4, <1>5, <1>8 DEF Both, Sync, Current, Open, Encrypted
<1> QED BY <1>9, <1>10, <1>11, <1>12, <1>13, <1>14, <1>15, <1>16 DEF IInv

LEMMA AskInv == ASSUME IInv, NEW c \in Clients, Ask(c) PROVE IInv'
<1>1. /\ Open(c) /\ wire = Quiet /\ server.pc = "idle"
      /\ UNCHANGED <<app, state, server, conn, backlog, hist>>
  BY DEF Ask
<1>2. PICK kind \in MayAsk(c) :
       /\ wire' = [Quiet EXCEPT !.req = [kind |-> kind, gen |-> client[c].gen, pos |-> client[c].pos]]
       /\ client' = IF kind \in {"version", "command0"} THEN client
                                                        ELSE [client EXCEPT ![c].pos = @ + 1]
  BY DEF Ask
<1>3. UNCHANGED <<app, uris, endpoints, sec, session_id, cur_session, server, conn, backlog, early, garbled>>
  BY <1>1 DEF state, hist
<1>4. Typed /\ client \in [Clients -> Peers] /\ client[c] \in Peers
  BY DEF IInv, Typed
<1>5. Queued /\ Peered /\ OneMessage /\ Asked /\ NoKeys /\ Both
  BY DEF IInv
<1>6. \/ kind \in {"version", "command0"} /\ client[c].step \in {"connected", "versioned"}
      \/ kind = "command1" /\ client[c].step = "agreed"
      \/ kind = "scan" /\ client[c].step = "up"
  BY <1>2 DEF MayAsk
<1>7. PICK m \in Messages : m = [kind |-> kind, gen |-> client[c].gen, pos |-> client[c].pos]
  BY <1>4, <1>6 DEF Peers, Messages, Kinds
<1>8. m.kind = kind /\ m.gen = client[c].gen /\ m.pos = client[c].pos
  BY <1>7
<1>9. /\ wire' \in Wires /\ wire'.req = m /\ wire'.answer = NULL /\ wire'.body = FALSE
      /\ wire'.req # NULL /\ wire' # Quiet
  <2>1. wire' = [Quiet EXCEPT !.req = m]
    BY <1>2, <1>7
  <2>2. wire' \in Wires /\ wire'.req = m /\ wire'.answer = NULL /\ ~wire'.body
    BY <2>1, OneIs
  <2>3. wire'.body \in BOOLEAN /\ wire'.req # NULL
    BY <2>2, NullIs DEF Wires
  <2> QED BY <2>2, <2>3, QuietIs
<1>10. /\ client' \in [Clients -> Peers]
       /\ client'[c].step = client[c].step /\ client'[c].gen = client[c].gen
       /\ \A d \in Clients \ {c} : client'[d] = client[d]
  <2>1. CASE kind \in {"version", "command0"}
    BY <1>2, <1>4, <2>1
  <2>2. CASE kind \notin {"version", "command0"}
    <3>1. client' = [client EXCEPT ![c].pos = @ + 1]
      BY <1>2, <2>2
    <3> QED BY <1>4, <3>1 DEF Peers
  <2> QED BY <2>1, <2>2
<1>11. conn # NULL /\ conn.client = c
  BY <1>1 DEF Open
<1>12. Typed'
  BY <1>3, <1>4, <1>9, <1>10 DEF Typed, Wires
<1>13. InOrder' /\ Stopping' /\ SameSocket' /\ Linked' /\ HandlersHear'
  BY <1>1, <1>11, NotDown, ClientKeeps
<1>14. Queued'
  BY <1>3, <1>5, <1>10 DEF Queued
<1>15. Peered'
  BY <1>3, <1>5, <1>10 DEF Peered, Open
<1>16. OneMessage'
  BY <1>1, <1>3, <1>9, <1>11 DEF OneMessage
<1>17. Asked'
  <2>1. m.kind # "404"
    BY <1>6, <1>8
  <2>2. m.gen # 0 <=> m.kind \in {"command1", "scan"}
    BY <1>5, <1>6, <1>8 DEF Peered
  <2>3. \A d \in Clients : Open(d)' => Suits(d, m.kind)'
    <3>1. ASSUME NEW d \in Clients, Open(d)' PROVE d = c
      BY <1>3, <1>11, <3>1 DEF Open
    <3>2. Suits(c, m.kind)'
      BY <1>6, <1>8, <1>10 DEF Suits
    <3> QED BY <3>1, <3>2
  <2> QED BY <1>9, <2>1, <2>2, <2>3 DEF Asked, Suits
<1>18. NoKeys'
  BY <1>1, <1>3, <1>5, <1>8, <1>9, <1>10 DEF NoKeys, Acts
<1>19. Both'
  <2>1. sec /\ m.kind = "scan" => Sync(m.gen, m.pos)
    BY <1>1, <1>5, <1>6, <1>8 DEF Both
  <2>2. sec /\ m.kind = "scan" => Sync(m.gen, m.pos)'
    BY <1>3, <2>1 DEF Sync, Current
  <2>3. (sec /\ wire'.req # NULL /\ wire'.req.kind = "scan") => Sync(wire.req.gen, wire.req.pos)'
    BY <1>3, <1>9, <2>2 DEF Sync, Current
  <2> QED BY <1>1, <1>3, <1>9, <2>3 DEF Both
<1> QED BY <1>12, <1>13, <1>14, <1>15, <1>16, <1>17, <1>18, <1>19 DEF IInv

LEMMA SendBodyInv == ASSUME IInv, NEW c \in Clients, SendBody(c) PROVE IInv'
<1>1. /\ Open(c) /\ wire.req # NULL /\ ~wire.body /\ wire' = [wire EXCEPT !.body = TRUE]
      /\ UNCHANGED <<app, state, server, conn, backlog, client, hist>>
  BY DEF SendBody
<1>2. UNCHANGED <<app, uris, endpoints, sec, session_id, cur_session, server, conn, backlog, client, early, garbled>>
  BY <1>1 DEF state, hist
<1>3. Typed /\ wire \in Wires /\ conn # NULL
  BY <1>1, Known DEF Open
<1>4. Queued /\ Peered /\ OneMessage /\ Asked /\ NoKeys /\ Both
  BY DEF IInv
<1>5. wire' \in Wires /\ wire'.req = wire.req /\ wire'.answer = wire.answer /\ wire'.req # NULL
  BY <1>1, <1>3 DEF Wires
<1>6. wire' # Quiet /\ wire # Quiet
  BY <1>1, <1>5, QuietIs
<1>7. Typed'
  BY <1>2, <1>3, <1>5 DEF Typed, Wires
<1>8. InOrder' /\ Stopping' /\ SameSocket' /\ Linked' /\ HandlersHear'
  BY <1>1, <1>3, NotDown, ClientKeeps
<1>9. Queued' /\ Peered'
  BY <1>2, <1>4 DEF Queued, Peered, Open
<1>10. OneMessage'
  BY <1>2, <1>3, <1>4, <1>5 DEF OneMessage
<1>11. Asked'
  BY <1>2, <1>4, <1>5 DEF Asked, Suits, Open
<1>12. NoKeys'
  BY <1>2, <1>4, <1>5 DEF NoKeys, Acts
<1>13. Both'
  BY <1>2, <1>4, <1>5, <1>6 DEF Both, Sync, Current, Open, Encrypted
<1> QED BY <1>7, <1>8, <1>9, <1>10, <1>11, <1>12, <1>13 DEF IInv

\* What an open connection is once its client has closed it.
LEMMA ClosedIs ==
  ASSUME IInv, NEW c \in Clients, Open(c), Closed(c)
  PROVE  /\ conn # NULL /\ conn' \in Sockets /\ conn' # NULL /\ conn'.fd = conn.fd
         /\ \A d \in Clients : ~Open(d)'
<1>1. conn # NULL /\ conn \in Sockets
  BY Known DEF Open
<1>2. PICK how \in BOOLEAN : conn' = [conn EXCEPT !.there = FALSE, !.reset = how]
  BY DEF Closed
<1>3. conn' \in Sockets /\ conn'.fd = conn.fd
  BY <1>1, <1>2 DEF Sockets
<1>4. ~conn'.there
  BY <1>1, <1>2 DEF Sockets
<1> QED BY <1>1, <1>3, <1>4, NullIs DEF Open

LEMMA HearInv == ASSUME IInv, NEW c \in Clients, Hear(c) PROVE IInv'
<1> DEFINE a == wire.answer
<1>1. /\ Open(c) /\ wire.answer # NULL /\ wire' = Quiet
      /\ UNCHANGED <<app, state, server, backlog, hist>>
      /\ IF Sense(c, wire.answer)
           THEN client' = [client EXCEPT ![c] = Heard(c, wire.answer)] /\ UNCHANGED conn
           ELSE Cut(c) /\ Closed(c)
  BY DEF Hear
<1>2. UNCHANGED <<app, uris, endpoints, sec, session_id, cur_session, server, backlog, early, garbled>>
  BY <1>1 DEF state, hist
<1>3. /\ Typed /\ client \in [Clients -> Peers] /\ client[c] \in Peers /\ wire \in Wires
      /\ conn # NULL /\ conn.client = c
  BY <1>1, Known DEF IInv, Typed, Open
<1>4. Queued /\ Peered /\ OneMessage /\ Asked /\ NoKeys /\ Both
  BY DEF IInv
<1>5. wire.answer \in Messages
  BY <1>1, <1>3 DEF Wires
<1>6. PICK g \in Gens \cup {0}, p \in Nat : wire.answer.gen = g /\ wire.answer.pos = p
  BY <1>5 DEF Messages
<1>7. server.pc = "idle" /\ wire.req = NULL
  BY <1>1, <1>4 DEF OneMessage
<1>8. wire' \in Wires /\ wire'.req = NULL /\ wire'.body = FALSE /\ wire'.answer = NULL
  BY <1>1, QuietIs
<1>9. OneMessage'
  BY <1>1, <1>2, <1>7, <1>8 DEF OneMessage
<1>10. Asked'
  BY <1>8 DEF Asked
<1>11. client[c].step \notin {"away", "waiting"}
  BY <1>1, <1>4 DEF Peered
<1>12. CASE ~Sense(c, wire.answer)
  <2>1. Cut(c) /\ Closed(c)
    BY <1>1, <1>12
  <2>2. conn' \in Sockets /\ conn' # NULL /\ conn'.fd = conn.fd /\ \A d \in Clients : ~Open(d)'
    BY <1>1, <2>1, ClosedIs
  <2>3. /\ client' \in [Clients -> Peers]
        /\ client'[c].step = "away" /\ client'[c].gen = 0
        /\ \A d \in Clients \ {c} : client'[d] = client[d]
    BY <1>3, <2>1, CutIs
  <2>4. Typed'
    BY <1>2, <1>3, <1>8, <2>2, <2>3 DEF Typed, Wires
  <2>5. InOrder' /\ Stopping' /\ SameSocket' /\ Linked' /\ HandlersHear'
    BY <1>1, <1>3, <2>2, NotDown, ClientKeeps
  <2>6. Queued'
    BY <1>2, <1>4, <1>11, <2>3 DEF Queued
  <2>7. Peered'
    <3>1. \A d \in Clients \ {c} : ~Open(d)
      BY <1>3 DEF Open
    <3> QED BY <1>4, <2>2, <2>3, <3>1 DEF Peered
  <2>8. NoKeys'
    BY <1>2, <1>4, <1>8, <2>3 DEF NoKeys, Acts
  <2>9. Both'
    BY <1>2, <1>7, <1>8, <2>2 DEF Both
  <2> QED BY <1>9, <1>10, <2>4, <2>5, <2>6, <2>7, <2>8, <2>9 DEF IInv
<1>13. CASE Sense(c, wire.answer)
  <2>1. client' = [client EXCEPT ![c] = Heard(c, wire.answer)] /\ conn' = conn
    BY <1>1, <1>13
  <2>2. Suits(c, wire.answer.kind)
    BY <1>1, <1>4 DEF Asked
  <2>3. wire.answer.kind \in Kinds \cup {"404"} /\ wire.answer.kind # "404"
    BY <1>5, <1>13 DEF Messages, Sense
  <2>4. \/ /\ wire.answer.kind = "version" /\ client[c].step \in {"connected", "versioned"}
           /\ Heard(c, wire.answer) = [client[c] EXCEPT !.step = "versioned"]
        \/ /\ wire.answer.kind = "command0" /\ g # 0
           /\ Heard(c, wire.answer) = [client[c] EXCEPT !.step = "agreed", !.gen = g, !.pos = 0]
        \/ /\ wire.answer.kind \in {"command1", "scan"} /\ client[c].step \in {"agreed", "up"}
           /\ client[c].gen = g /\ client[c].pos = p
           /\ Heard(c, wire.answer) = [client[c] EXCEPT !.step = "up", !.pos = @ + 1]
    BY <1>6, <1>13, <2>2, <2>3 DEF Kinds, Suits, Sense, Heard
  <2>5. PICK s \in {"versioned", "agreed", "up"}, k \in Gens \cup {0}, q \in Nat :
          /\ Heard(c, wire.answer) \in Peers
          /\ Heard(c, wire.answer).step = s /\ Heard(c, wire.answer).gen = k /\ Heard(c, wire.answer).pos = q
          /\ s \in {"agreed", "up"} <=> k # 0
          /\ s = "up" => Encrypted(wire.answer) /\ k = g /\ q = p + 1
          /\ k # client[c].gen => k = g /\ g # 0
    <3>1. CASE wire.answer.kind = "version"
      <4>1. client[c].step \in {"connected", "versioned"} /\ Heard(c, wire.answer) = [client[c] EXCEPT !.step = "versioned"]
        BY <2>4, <3>1
      <4>2. client[c].gen = 0
        BY <1>4, <4>1 DEF Peered
      <4>3. [client[c] EXCEPT !.step = "versioned"] \in Peers
        BY <1>3 DEF Peers, Steps
      <4> QED BY <1>3, <4>1, <4>2, <4>3 DEF Peers
    <3>2. CASE wire.answer.kind = "command0"
      <4>1. g # 0 /\ Heard(c, wire.answer) = [client[c] EXCEPT !.step = "agreed", !.gen = g, !.pos = 0]
        BY <2>4, <3>2
      <4>2. [client[c] EXCEPT !.step = "agreed", !.gen = g, !.pos = 0] \in Peers
        BY <1>3 DEF Peers, Steps
      <4>3. Heard(c, wire.answer).step = "agreed" /\ Heard(c, wire.answer).gen = g /\ Heard(c, wire.answer).pos = 0
        BY <1>3, <4>1 DEF Peers
      <4> QED BY <4>1, <4>2, <4>3
    <3>3. CASE wire.answer.kind \in {"command1", "scan"}
      <4>1. /\ client[c].step \in {"agreed", "up"} /\ client[c].gen = g /\ client[c].pos = p
            /\ Heard(c, wire.answer) = [client[c] EXCEPT !.step = "up", !.pos = @ + 1]
        BY <2>4, <3>3
      <4>2. g # 0
        BY <1>4, <4>1 DEF Peered
      <4>3. Heard(c, wire.answer) \in Peers
        <5>1. PICK q \in Nat : q = p + 1
          OBVIOUS
        <5>2. Heard(c, wire.answer) = [client[c] EXCEPT !.step = "up", !.pos = q]
          BY <4>1, <5>1
        <5>3. [client[c] EXCEPT !.step = "up", !.pos = q] \in Peers
          BY <1>3 DEF Peers, Steps
        <5> QED BY <5>2, <5>3
      <4>4. Heard(c, wire.answer).step = "up" /\ Heard(c, wire.answer).gen = g /\ Heard(c, wire.answer).pos = p + 1
        BY <1>3, <4>1 DEF Peers
      <4>5. Encrypted(wire.answer)
        BY <1>6, <3>3, <4>2 DEF Encrypted
      <4>6. p + 1 \in Nat
        OBVIOUS
      <4> QED BY <4>1, <4>2, <4>3, <4>4, <4>5, <4>6
    <3> QED BY <2>4, <3>1, <3>2, <3>3
  <2>6. /\ client' \in [Clients -> Peers]
        /\ client'[c].step = s /\ client'[c].gen = k /\ client'[c].pos = q
        /\ \A d \in Clients \ {c} : client'[d] = client[d]
    BY <1>3, <2>1, <2>5
  <2>7. Typed'
    BY <1>2, <1>3, <1>8, <2>1, <2>6 DEF Typed, Wires
  <2>8. InOrder' /\ Stopping' /\ SameSocket' /\ Linked' /\ HandlersHear'
    BY <1>1, <1>3, <2>1, NotDown, ClientKeeps
  <2>9. Queued'
    BY <1>2, <1>4, <1>11, <2>6 DEF Queued
  <2>10. Peered'
    <3>1. \A d \in Clients : Open(d)' <=> Open(d)
      BY <2>1 DEF Open
    <3>2. \A d \in Clients : Open(d)' <=> client'[d].step \notin {"away", "waiting"}
      BY <1>1, <1>4, <2>6, <3>1 DEF Peered
    <3>3. \A d \in Clients : client'[d].step \in {"agreed", "up"} <=> client'[d].gen # 0
      BY <1>4, <2>5, <2>6 DEF Peered
    <3> QED BY <3>2, <3>3 DEF Peered
  <2>11. NoKeys'
    <3>1. ASSUME "secure" \in Acts PROVE k = 0
      <4>1. g = 0 /\ client[c].gen = 0
        BY <1>1, <1>4, <1>6, <3>1 DEF NoKeys
      <4> QED BY <2>5, <4>1
    <3> QED BY <1>2, <1>4, <1>7, <1>8, <2>6, <3>1 DEF NoKeys, Acts
  <2>12. Both'
    <3>1. ASSUME sec, NEW d \in Clients, client'[d].step = "up", Open(d)'
          PROVE  Sync(client[d].gen, client[d].pos)'
      <4>1. d = c
        BY <1>3, <2>1, <3>1 DEF Open
      <4>2. s = "up" /\ k = g /\ q = p + 1 /\ Encrypted(wire.answer)
        BY <2>5, <2>6, <3>1, <4>1
      <4>3. Sync(wire.answer.gen, wire.answer.pos + 1)
        BY <1>1, <1>4, <3>1, <4>2 DEF Both
      <4>4. Sync(g, p + 1)
        BY <1>6, <4>3
      <4>5. Sync(k, q)'
        BY <1>2, <2>1, <4>2, <4>4 DEF Sync, Current
      <4> QED BY <2>6, <4>1, <4>5 DEF Sync, Current
    <3> QED BY <1>2, <1>7, <1>8, <3>1 DEF Both
  <2> QED BY <1>9, <1>10, <2>7, <2>8, <2>9, <2>10, <2>11, <2>12 DEF IInv
<1> QED BY <1>12, <1>13

\* A client that leaves the queue takes its place along, and nobody else's.
LEMMA LeaveQueue ==
  ASSUME IInv, NEW c \in Clients, NEW k \in 1..Len(backlog), backlog[k] = c,
         backlog' = RemoveAt(backlog, k), client'[c].step = "away",
         \A d \in Clients \ {c} : client'[d] = client[d]
  PROVE  backlog' \in Seq(Clients) /\ Queued'
<1> DEFINE n == Len(backlog)
<1>1. backlog \in Seq(Clients) /\ n \in Nat /\ Queued
  BY DEF IInv, Typed
<1>2. /\ backlog' \in Seq(Clients) /\ Len(backlog') = n - 1
      /\ \A i \in 1..(n - 1) : backlog'[i] = IF i < k THEN backlog[i] ELSE backlog[i + 1]
  BY <1>1, RemoveAtIs
<1>3. /\ \A d \in Clients : client[d].step = "waiting" <=> \E i \in 1..n : backlog[i] = d
      /\ \A i, j \in 1..n : backlog[i] = backlog[j] => i = j
  BY <1>1 DEF Queued
<1>4. k \in 1..n /\ backlog[k] = c
  OBVIOUS
<1> HIDE DEF n
<1> DEFINE old(i) == IF i < k THEN i ELSE i + 1
<1>5. \A i \in 1..(n - 1) : old(i) \in 1..n /\ old(i) # k /\ backlog'[i] = backlog[old(i)]
  BY <1>1, <1>2, <1>4
<1>6. \A i, j \in 1..(n - 1) : old(i) = old(j) => i = j
  BY <1>1, <1>4
<1>7. \A i \in 1..n : i # k => \E j \in 1..(n - 1) : old(j) = i
  <2> TAKE i \in 1..n
  <2> HAVE i # k
  <2>1. CASE i < k
    <3>1. i \in 1..(n - 1) /\ old(i) = i
      BY <1>1, <1>4, <2>1
    <3> QED BY <3>1
  <2>2. CASE ~(i < k)
    <3>1. i - 1 \in 1..(n - 1) /\ old(i - 1) = i
      BY <1>1, <1>4, <2>2
    <3> QED BY <3>1
  <2> QED BY <2>1, <2>2
<1> HIDE DEF old
<1>8. ASSUME NEW d \in Clients
      PROVE  client'[d].step = "waiting" <=> \E i \in 1..(n - 1) : backlog'[i] = d
  <2>1. CASE d = c
    <3>1. \A i \in 1..(n - 1) : backlog'[i] # c
      BY <1>3, <1>4, <1>5
    <3> QED BY <2>1, <3>1
  <2>2. CASE d # c
    <3>1. client'[d].step = "waiting" <=> \E i \in 1..n : backlog[i] = d
      BY <1>3, <2>2
    <3>2. ASSUME NEW i \in 1..n, backlog[i] = d PROVE \E j \in 1..(n - 1) : backlog'[j] = d
      <4>1. i # k
        BY <1>4, <2>2, <3>2
      <4>2. PICK j \in 1..(n - 1) : old(j) = i
        BY <1>7, <4>1
      <4> QED BY <1>5, <3>2, <4>2
    <3>3. ASSUME NEW j \in 1..(n - 1), backlog'[j] = d PROVE \E i \in 1..n : backlog[i] = d
      BY <1>5, <3>3
    <3> QED BY <3>1, <3>2, <3>3
  <2> QED BY <2>1, <2>2
<1>9. ASSUME NEW i \in 1..(n - 1), NEW j \in 1..(n - 1), backlog'[i] = backlog'[j] PROVE i = j
  BY <1>3, <1>5, <1>6, <1>9
<1> QED BY ZenonT(40), <1>2, <1>8, <1>9 DEF Queued

LEMMA LeaveInv == ASSUME IInv, NEW c \in Clients, Leave(c) PROVE IInv'
<1>1. /\ client[c].step # "away" /\ Cut(c)
      /\ UNCHANGED <<app, state, server, hist>>
      /\ IF Open(c) THEN /\ Closed(c) /\ wire' = [wire EXCEPT !.answer = NULL] /\ backlog' = backlog
                    ELSE /\ \E i \in DOMAIN backlog : backlog[i] = c /\ backlog' = RemoveAt(backlog, i)
                         /\ UNCHANGED <<conn, wire>>
  BY DEF Leave
<1>2. UNCHANGED <<app, uris, endpoints, sec, session_id, cur_session, server, early, garbled>>
  BY <1>1 DEF state, hist
<1>3. Typed /\ client \in [Clients -> Peers] /\ wire \in Wires /\ backlog \in Seq(Clients)
  BY Known DEF Typed
<1>4. Queued /\ Peered /\ OneMessage /\ Asked /\ NoKeys /\ Both
  BY DEF IInv
<1>5. /\ client' \in [Clients -> Peers]
      /\ client'[c].step = "away" /\ client'[c].gen = 0
      /\ \A d \in Clients \ {c} : client'[d] = client[d]
  BY <1>1, <1>3, CutIs
<1>6. CASE Open(c)
  <2>1. /\ conn # NULL /\ conn' \in Sockets /\ conn' # NULL /\ conn'.fd = conn.fd
        /\ \A d \in Clients : ~Open(d)'
    BY <1>1, <1>6, ClosedIs
  <2>2. wire' \in Wires /\ wire'.req = wire.req /\ wire'.body = wire.body /\ wire'.answer = NULL
    BY <1>1, <1>3, <1>6 DEF Wires
  <2>3. backlog' = backlog
    BY <1>1, <1>6
  <2>4. Typed'
    BY <1>2, <1>3, <1>5, <2>1, <2>2, <2>3 DEF Typed, Wires
  <2>5. InOrder' /\ Stopping' /\ SameSocket' /\ Linked' /\ HandlersHear'
    BY <1>1, <2>1, NotDown, ClientKeeps
  <2>6. client[c].step # "waiting" /\ \A d \in Clients \ {c} : ~Open(d)
    BY <1>4, <1>6 DEF Peered, Open
  <2>7. Queued'
    BY <1>4, <1>5, <2>3, <2>6 DEF Queued
  <2>8. Peered'
    BY <1>4, <1>5, <2>1, <2>6 DEF Peered
  <2>9. OneMessage'
    BY <1>2, <1>4, <2>1, <2>2 DEF OneMessage
  <2>10. Asked'
    BY <1>4, <2>1, <2>2 DEF Asked
  <2>11. NoKeys'
    BY <1>2, <1>4, <1>5, <2>2 DEF NoKeys, Acts
  <2>12. Both'
    BY <1>2, <1>4, <2>1, <2>2 DEF Both, Sync, Current, Encrypted
  <2> QED BY <2>4, <2>5, <2>7, <2>8, <2>9, <2>10, <2>11, <2>12 DEF IInv
<1>7. CASE ~Open(c)
  <2>1. UNCHANGED <<conn, wire>>
    BY <1>1, <1>7
  <2>2. PICK k \in 1..Len(backlog) : backlog[k] = c /\ backlog' = RemoveAt(backlog, k)
    <3>1. PICK k \in DOMAIN backlog : backlog[k] = c /\ backlog' = RemoveAt(backlog, k)
      BY <1>1, <1>7
    <3> QED BY <1>3, <3>1
  <2>3. backlog' \in Seq(Clients) /\ Queued'
    BY <1>5, <2>2, LeaveQueue
  <2>4. Typed'
    BY <1>2, <1>3, <1>5, <2>1, <2>3 DEF Typed
  <2>5. backlog # <<>>
    <3>1. Len(backlog) # 0
      BY <1>3, <2>2
    <3>2. Len(<<>>) = 0
      BY EmptySeq
    <3> QED BY <3>1, <3>2
  <2>6. InOrder' /\ Stopping' /\ SameSocket' /\ Linked' /\ HandlersHear'
    BY <1>1, <2>1, <2>5, NotDown, ClientKeeps
  <2>7. Peered'
    <3>1. \A d \in Clients : Open(d)' <=> Open(d)
      BY <2>1 DEF Open
    <3> QED BY <1>4, <1>5, <1>7, <3>1 DEF Peered
  <2>8. OneMessage'
    BY <1>2, <1>4, <2>1 DEF OneMessage
  <2>9. Asked'
    BY <1>4, <1>5, <1>7, <2>1 DEF Asked, Suits, Open
  <2>10. NoKeys'
    BY <1>2, <1>4, <1>5, <2>1 DEF NoKeys, Acts
  <2>11. Both'
    BY <1>2, <1>4, <1>5, <1>7, <2>1 DEF Both, Sync, Current, Encrypted, Open
  <2> QED BY <2>3, <2>4, <2>6, <2>7, <2>8, <2>9, <2>10, <2>11 DEF IInv
<1> QED BY <1>6, <1>7

LEMMA StutterInv == ASSUME IInv, UNCHANGED vars PROVE IInv'
<1>1. UNCHANGED <<app, uris, endpoints, sec, session_id, cur_session, server, conn, backlog, wire,
                  client, faults, early, garbled>>
  BY DEF vars, state, net, hist
<1>2. UNCHANGED <<server, net, client>>
  BY <1>1 DEF net
<1>3. Queued' /\ Peered' /\ OneMessage' /\ Asked'
  BY <1>2, NetKeeps
<1>4. NoKeys'
  BY <1>1, <1>2, NoKeysKeeps DEF Acts
<1>5. Both' /\ SameSocket'
  BY <1>1, <1>2, BothKeeps
<1>6. Typed'
  BY <1>1 DEF IInv, Typed
<1>7. InOrder' /\ Stopping'
  BY ZenonT(40), <1>1 DEF IInv, InOrder, Stopping, Acts
<1>8. Linked' /\ HandlersHear'
  BY <1>1 DEF IInv, Acts, Linked, Current, HandlersHear
<1> QED BY <1>3, <1>4, <1>5, <1>6, <1>7, <1>8 DEF IInv

---------------------------------------------------------------------------
(* The invariant, and what it gives.                                        *)

\* Every step of the application, the server's thread and the clients keeps the invariant.
THEOREM Invariance == Spec => []IInv
<1>1. Init => IInv
  BY InitInv
<1>2. IInv /\ [Next]_vars => IInv'
  <2> SUFFICES ASSUME IInv, [Next]_vars PROVE IInv'
    OBVIOUS
  <2>1. CASE AppStep
    BY <2>1, AppListInv, AppSecurityInv, AppHaltInv DEF AppStep
  <2>2. CASE StopService \/ StartService
    BY <2>2, StopServiceInv, StartServiceInv
  <2>3. CASE Begin \/ CloseOld \/ OpenNew \/ Receive
    BY <2>3, BeginInv, CloseOldInv, OpenNewInv, ReceiveInv
  <2>4. CASE Dispatch \/ Decrypt \/ Handler \/ Encrypt
    BY <2>4, DispatchInv, DecryptInv, HandlerInv, EncryptInv
  <2>5. CASE Send \/ Accept \/ Purge \/ Notice
    BY <2>5, SendInv, AcceptInv, PurgeInv, NoticeInv
  <2>6. ASSUME NEW c \in Clients, ClientStep(c) \/ Leave(c) PROVE IInv'
    BY <2>6, ConnectInv, AskInv, SendBodyInv, HearInv, LeaveInv DEF ClientStep
  <2>7. CASE UNCHANGED vars
    BY <2>7, StutterInv
  <2> QED BY <2>1, <2>2, <2>3, <2>4, <2>5, <2>6, <2>7 DEF Next, ServerStep
<1> QED BY <1>1, <1>2, PTL DEF Spec

\* Whenever a client that is up and the device wait for one another they hold the same key
\* at the same place of its key stream, and no endpoint's handler was ever given bytes
\* that were decrypted wrong while security was set: with any number of connections,
\* purges, faults and restarts (security1.c, protocomm_httpd.c).
THEOREM StepTheorem == Spec => []SessionInStep
<1>1. IInv => SessionInStep
  <2> SUFFICES ASSUME IInv PROVE SessionInStep
    OBVIOUS
  <2>1. Typed /\ Queued /\ OneMessage /\ Both /\ HandlersHear
    BY DEF IInv
  <2>2. Eps = {Endpoint(k) : k \in Kinds}
    BY DEF Eps, Kinds, Endpoint
  <2>3. app.services \in 1..MaxServices
    BY <2>1 DEF Typed
  <2>4. cur_session \in {NULL} \cup [id : Fds, gen : Gens \cup {0}, ctx : Gens \cup {0}, pos : Nat]
    BY <2>1 DEF Typed, Sessions
  <2>5. server.pc \in Places /\ server.req \in Messages \cup {NULL}
    BY <2>1 DEF Typed
  <2>6. wire.req \in Messages \cup {NULL} /\ wire.answer \in Messages \cup {NULL}
    BY <2>1 DEF Typed
  <2>7. DOMAIN backlog = 1..Len(backlog)
    BY <2>1 DEF Typed
  <2>8. ProtoTypeOK
    BY <2>1, <2>2, <2>3, <2>4, <2>5, <2>6, <2>7 DEF ProtoTypeOK, Typed, Queued, OneMessage, Places
  <2>9. InStep
    BY <2>1 DEF InStep, Both, Sync
  <2> QED BY <2>1, <2>8, <2>9 DEF SessionInStep
<1> QED BY <1>1, Invariance, PTL

\* The session protocomm_httpd.c names is the one security1.c has, until a request came
\* before the security was set or the service was stopped: failures of memory and clients
\* that come and go at any moment never leave one without the other.
THEOREM OrphanTheorem == Spec => []NoOrphan
<1>1. IInv => NoOrphan
  <2> SUFFICES ASSUME IInv, Orphaned, app.services = 1, ~early PROVE FALSE
    BY DEF NoOrphan, IInv, Typed
  <2>1. Current(session_id)
    BY DEF IInv, Linked, Orphaned
  <2> QED BY <2>1 DEF Orphaned
<1> QED BY <1>1, Invariance, PTL

---------------------------------------------------------------------------
(* SecureSession: the session as its two ends see it.                       *)

\* A request that began without security is not finished with it (protocomm.c:160, 196).
Cleared == server.pc \in {"handler", "encrypt"} /\ server.clear => ~sec

\* The device's end, and what is under way, of a client that is up.
LEMMA UpIs ==
  ASSUME IInv
  PROVE  /\ Up # {} => /\ sec /\ conn \in Sockets /\ conn # NULL /\ conn.there /\ conn.client \in Clients
                       /\ Up = {conn.client} /\ client[conn.client].step = "up" /\ Open(conn.client)
         /\ Up # {} /\ wire.req # NULL => wire.req.kind = "scan"
         /\ Up # {} /\ wire.answer # NULL => wire.answer.kind \in {"scan", "404"}
<1>1. Typed /\ Asked /\ wire \in Wires /\ (conn # NULL => conn \in Sockets /\ conn.client \in Clients)
  BY Known DEF IInv
<1>2. ASSUME Up # {}
      PROVE  /\ sec /\ conn \in Sockets /\ conn # NULL /\ conn.there /\ conn.client \in Clients
             /\ Up = {conn.client} /\ client[conn.client].step = "up" /\ Open(conn.client)
  <2>1. PICK c \in Clients : client[c].step = "up" /\ Open(c) /\ sec
    BY <1>2 DEF Up
  <2>2. \A d \in Clients : Open(d) => d = conn.client
    BY DEF Open
  <2>3. c = conn.client /\ conn # NULL /\ conn.there
    BY <2>1 DEF Open
  <2>4. Up = {conn.client}
    BY <2>1, <2>2, <2>3 DEF Up
  <2> QED BY <1>1, <2>1, <2>3, <2>4
<1>3. ASSUME Up # {}, NEW k, Suits(conn.client, k), k \in Kinds \cup {"404"} PROVE k \in {"scan", "404"}
  BY <1>2, <1>3 DEF Suits, Kinds
<1>4. ASSUME Up # {}, wire.req # NULL PROVE wire.req.kind = "scan"
  <2>1. wire.req.kind \in Kinds \cup {"404"} /\ wire.req.kind # "404" /\ Suits(conn.client, wire.req.kind)
    BY <1>1, <1>2, <1>4 DEF Asked, Wires, Messages
  <2> QED BY <1>3, <1>4, <2>1
<1>5. ASSUME Up # {}, wire.answer # NULL PROVE wire.answer.kind \in {"scan", "404"}
  <2>1. wire.answer.kind \in Kinds \cup {"404"} /\ Suits(conn.client, wire.answer.kind)
    BY <1>1, <1>2, <1>5 DEF Asked, Wires, Messages
  <2> QED BY <1>3, <1>5, <2>1
<1> QED BY <1>2, <1>4, <1>5

\* Without a client that is up there is no session.
LEMMA Dropped ==
  ASSUME Up' = {}
  PROVE  Session!Drop
BY DEF Session!Drop, Session!Nowhere, Turn, Mine, Theirs

\* What neither end sees.
LEMMA Unseen ==
  ASSUME IInv, Up' = Up, UNCHANGED <<client, cur_session>>,
         Up # {} => conn'.client = conn.client,
         Up # {} => Turn' = Turn
  PROVE  UNCHANGED Session!sessionVars
<1>1. CASE Up = {}
  BY <1>1 DEF Session!sessionVars, Turn, Mine, Theirs
<1>2. CASE Up # {}
  BY <1>2 DEF Session!sessionVars, Mine, Theirs
<1> QED BY <1>1, <1>2

\* Whoever is up stays, when the connection, the client and the security do.
LEMMA SameUp ==
  ASSUME UNCHANGED <<conn, client, sec>>
  PROVE  Up' = Up
BY DEF Up, Open

\* A handler that fails ends the session.
LEMMA FailDrops ==
  ASSUME IInv, conn # NULL, Fail
  PROVE  Up' = {}
BY DEF Fail, Up, Open

\* Whose turn it is, by where the message under way is.
LEMMA TurnIs ==
  ASSUME Up # {}
  PROVE  /\ wire = Quiet => Turn = "client"
         /\ wire # Quiet =>
              /\ server.pc \in {"handler", "encrypt"} => Turn = "handler"
              /\ server.pc \notin {"handler", "encrypt"} => Turn = IF Told THEN "answer" ELSE "device"
BY DEF Turn

\* The same in the next state.
LEMMA TurnBecomes ==
  ASSUME Up' # {}
  PROVE  /\ wire' = Quiet => Turn' = "client"
         /\ wire' # Quiet =>
              /\ server'.pc \in {"handler", "encrypt"} => Turn' = "handler"
              /\ server'.pc \notin {"handler", "encrypt"} => Turn' = IF Told' THEN "answer" ELSE "device"
BY DEF Turn

\* The security is set before a request needs it, and unset for good.
LEMMA ClearedStep ==
  ASSUME IInv, Cleared, [Next]_vars
  PROVE  Cleared'
<1>1. server \in Servers /\ OneMessage
  BY Known DEF IInv
<1>2. CASE AppSecurity
  <2>1. UNCHANGED server
    BY <1>2 DEF AppSecurity
  <2>2. CASE Doing("cleanup") /\ sec' = FALSE
    BY <2>2 DEF Cleared
  <2>3. CASE Doing("secure")
    <3>1. app.todo # <<>> /\ app.todo[1].act = "secure" /\ ActDone
      BY <1>2, <2>3 DEF AppSecurity, Doing
    <3>2. "secure" \in Acts
      BY <3>1, ActDoneIs
    <3>3. server.pc \notin {"handler", "encrypt"}
      BY <1>1, <3>2, NobodyIsUp DEF OneMessage
    <3> QED BY <2>1, <3>3 DEF Cleared
  <2> QED BY <1>2, <2>2, <2>3 DEF AppSecurity
<1>3. CASE AppList \/ AppHalt \/ StopService \/ StartService \/ UNCHANGED vars
  BY <1>3 DEF Cleared, AppList, AppHalt, StopService, StartService, state, vars
<1>4. CASE Fail \/ Begin \/ CloseOld \/ OpenNew \/ Receive \/ Dispatch \/ Send
  <2>1. server'.pc \notin {"handler", "encrypt"}
    <3>1. CASE Fail
      BY <3>1, IdleIs DEF Fail
    <3>2. CASE Begin
      BY <3>2 DEF Begin
    <3>3. CASE CloseOld \/ OpenNew \/ Receive
      <4>1. Fail \/ Goto("open") \/ Goto("receive") \/ Goto("dispatch")
        BY <3>3 DEF CloseOld, OpenNew, Receive
      <4> QED BY <1>1, <3>1, <4>1 DEF Goto, Servers
    <3>4. CASE Dispatch
      <4>1. Fail \/ \E a : Answer(a)
        BY <3>4 DEF Dispatch
      <4> QED BY <1>1, <3>1, <4>1 DEF Answer, Servers
    <3>5. CASE Send
      BY <3>1, <3>5, IdleIs DEF Send
    <3> QED BY <1>4, <3>1, <3>2, <3>3, <3>4, <3>5
  <2> QED BY <2>1 DEF Cleared
<1>5. CASE Decrypt
  <2>1. Fail \/ (server' = [server EXCEPT !.pc = "handler", !.clear = ~sec] /\ UNCHANGED sec)
    BY <1>5 DEF Decrypt
  <2>2. CASE server' = [server EXCEPT !.pc = "handler", !.clear = ~sec] /\ UNCHANGED sec
    <3>1. server'.clear = ~sec
      BY <1>1, <2>2 DEF Servers
    <3> QED BY <2>2, <3>1 DEF Cleared
  <2> QED BY <1>4, <2>1, <2>2
<1>6. CASE Handler
  <2>1. server.pc = "handler" /\ (Fail \/ Goto("encrypt")) /\ UNCHANGED sec
    BY <1>6 DEF Handler, state
  <2>2. CASE Goto("encrypt")
    <3>1. server'.clear = server.clear
      BY <1>1, <2>2 DEF Goto, Servers
    <3> QED BY <2>1, <3>1 DEF Cleared
  <2> QED BY <1>4, <2>1, <2>2
<1>7. CASE Encrypt
  <2>1. \E a : Answer(a)
    BY <1>7 DEF Encrypt
  <2>2. server'.pc = "send"
    BY <1>1, <2>1 DEF Answer, Servers
  <2> QED BY <2>2 DEF Cleared
<1>8. CASE Accept \/ Purge \/ Notice
  BY <1>4, <1>8 DEF Accept, Purge, Notice, state, Cleared
<1>9. ASSUME NEW c \in Clients, ClientStep(c) \/ Leave(c) PROVE Cleared'
  BY <1>9 DEF ClientStep, Connect, Ask, SendBody, Hear, Leave, Cleared, state
<1> QED BY <1>2, <1>3, <1>4, <1>5, <1>6, <1>7, <1>8, <1>9 DEF Next, AppStep, ServerStep

\* What the application does, the session does not see, or it ends.
LEMMA AppSession ==
  ASSUME IInv, AppStep \/ StopService \/ StartService
  PROVE  [Session!SessionNext]_Session!sessionVars
<1>1. CASE AppList \/ StopService \/ StartService
  <2>1. UNCHANGED <<server, conn, wire, client, sec, cur_session>>
    BY <1>1 DEF AppList, StopService, StartService, net, state
  <2>2. Up' = Up
    BY <2>1, SameUp
  <2>3. Turn' = Turn
    BY <2>1, <2>2 DEF Turn, Told
  <2> QED BY <2>1, <2>2, <2>3, Unseen
<1>2. CASE AppSecurity
  <2>1. UNCHANGED <<client, conn>> /\ (sec' = FALSE \/ (Doing("secure") /\ ActDone))
    BY <1>2 DEF AppSecurity, net
  <2>2. CASE sec' = FALSE
    BY <2>2, Dropped DEF Up, Session!SessionNext
  <2>3. CASE Doing("secure") /\ ActDone
    <3>1. "secure" \in Acts
      BY <2>3, ActDoneIs DEF Doing
    <3>2. \A c \in Clients : client'[c].step # "up"
      BY <2>1, <3>1, NobodyIsUp
    <3>3. Up' = {}
      BY <3>2 DEF Up
    <3> QED BY <3>3, Dropped DEF Session!SessionNext
  <2> QED BY <2>1, <2>2, <2>3
<1>3. CASE AppHalt
  <2>1. Up' = {}
    BY <1>3 DEF AppHalt, Up, Open
  <2> QED BY <2>1, Dropped DEF Session!SessionNext
<1> QED BY <1>1, <1>2, <1>3 DEF AppStep

\* Without a session the server's thread makes none: it leaves the clients and their connection
\* as they are, or cuts them off.
LEMMA NoneMade ==
  ASSUME IInv, Up = {}, conn # NULL, Fail \/ (UNCHANGED <<conn, client>>), UNCHANGED sec
  PROVE  [Session!SessionNext]_Session!sessionVars
<1>1. Up' = {}
  BY FailDrops, SameUp
<1> QED BY <1>1, Dropped DEF Session!SessionNext

\* A request on its way to the endpoint is not deciphered yet, one that is answered with 404
\* never will be (httpd_uri.c:182-222, protocomm_httpd.c:33-96).
LEMMA BeginSession ==
  ASSUME IInv, Begin \/ CloseOld \/ OpenNew \/ Receive
  PROVE  [Session!SessionNext]_Session!sessionVars
<1>1. /\ OneMessage /\ Both /\ server \in Servers /\ wire \in Wires
  BY Known DEF IInv
<1>2. CASE Begin
  <2>1. /\ server.pc = "idle" /\ conn # NULL /\ wire.req # NULL /\ UNCHANGED <<conn, wire, client, sec, cur_session>>
    BY <1>2 DEF Begin, net, state
  <2>2. Up' = Up
    BY <2>1, SameUp
  <2>3. ASSUME Up # {} PROVE Turn' = Turn
    <3>1. wire # Quiet /\ wire.answer = NULL
      BY <1>1, <2>1, QuietIs DEF OneMessage
    <3>2. server'.pc \in {"close", "receive"} \/ (server'.pc = "send" /\ server'.req = NotFound)
      BY <1>2 DEF Begin
    <3>3. ~Told /\ ~Told'
      BY <2>1, <3>1, <3>2, NotFoundIs DEF Told
    <3> QED BY <2>1, <2>2, <2>3, <3>1, <3>2, <3>3, TurnIs, TurnBecomes
  <2> QED BY <2>1, <2>2, <2>3, Unseen
<1>3. CASE CloseOld \/ OpenNew
  <2>1. /\ server.pc \in {"close", "open"} /\ UNCHANGED sec /\ (Fail \/ UNCHANGED <<conn, client>>)
    BY <1>3 DEF CloseOld, OpenNew, net
  <2>2. conn # NULL
    BY <2>1, AtRequest
  <2>3. Up = {}
    <3> SUFFICES ASSUME Up # {} PROVE FALSE
      OBVIOUS
    <3>1. sec /\ wire.req # NULL /\ wire.req.kind = "scan"
      BY <2>1, UpIs, AtRequest
    <3>2. server.req = wire.req
      BY <1>1, <2>1 DEF OneMessage
    <3> QED BY <1>1, <2>1, <3>1, <3>2 DEF Both
  <2> QED BY <2>1, <2>2, <2>3, NoneMade
<1>4. CASE Receive
  <2>1. /\ server.pc = "receive" /\ UNCHANGED <<sec, cur_session>>
        /\ Fail \/ (Goto("dispatch") /\ UNCHANGED <<conn, wire, client>>)
    BY <1>4 DEF Receive, state, net
  <2>2. /\ conn # NULL /\ wire # Quiet /\ wire.answer = NULL
    BY <2>1, AtRequest
  <2>3. CASE Fail
    BY <2>2, <2>3, FailDrops, Dropped DEF Session!SessionNext
  <2>4. CASE Goto("dispatch") /\ UNCHANGED <<conn, wire, client>>
    <3>1. Up' = Up
      BY <2>1, <2>4, SameUp
    <3>2. server'.pc = "dispatch"
      BY <1>1, <2>4 DEF Goto, Servers
    <3>3. ~Told /\ ~Told'
      BY <2>1, <2>2, <2>4, <3>2 DEF Told
    <3>4. Up # {} => Turn' = Turn
      BY <2>1, <2>2, <2>4, <3>1, <3>2, <3>3, TurnIs, TurnBecomes
    <3> QED BY <2>1, <2>4, <3>1, <3>4, Unseen
  <2> QED BY <2>1, <2>3, <2>4
<1> QED BY <1>2, <1>3, <1>4

\* The device's end moves on by one message.
LEMMA TheirsMoves ==
  ASSUME IInv, Up # {}, Up' = Up, UNCHANGED <<conn, client>>, cur_session \in Sessions, cur_session' = Moved
  PROVE  Mine' = Mine /\ Theirs' = Session!Moved(Theirs)
<1>1. cur_session'.ctx = cur_session.ctx /\ cur_session'.pos = cur_session.pos + 1
  BY MovedIs
<1>2. Mine' = Mine
  BY DEF Mine
<1>3. Theirs = [key |-> cur_session.ctx, at |-> cur_session.pos]
  BY DEF Theirs
<1>4. Theirs' = [key |-> cur_session'.ctx, at |-> cur_session'.pos]
  BY DEF Theirs
<1> QED BY <1>1, <1>2, <1>3, <1>4 DEF Session!Moved

\* What is not encrypted is not for a client that is up; what is moves the device on, for
\* the request and for the answer (protocomm.c:139-204).
LEMMA HandleSession ==
  ASSUME IInv, Cleared, Dispatch \/ Decrypt \/ Handler \/ Encrypt
  PROVE  [Session!SessionNext]_Session!sessionVars
<1>1. /\ OneMessage /\ Both /\ SameSocket /\ server \in Servers /\ wire \in Wires
      /\ server.pc # "idle" /\ conn # NULL /\ wire.req # NULL /\ wire # Quiet /\ wire.answer = NULL
      /\ server.req = wire.req /\ UNCHANGED sec
      /\ cur_session # NULL => cur_session \in Sessions
  <2>1. server.pc \in {"dispatch", "handler", "encrypt"} /\ UNCHANGED sec
    BY DEF Dispatch, Decrypt, Handler, Encrypt, state
  <2> QED BY <2>1, Known, AtRequest DEF IInv, OneMessage
<1>2. ASSUME Fail PROVE [Session!SessionNext]_Session!sessionVars
  BY <1>1, <1>2, FailDrops, Dropped DEF Session!SessionNext
<1>3. CASE Up = {}
  <2>1. Fail \/ UNCHANGED <<conn, client>>
    BY DEF Dispatch, Decrypt, Handler, Encrypt, net
  <2> QED BY <1>1, <1>3, <2>1, NoneMade
<1>4. CASE Up # {} /\ ~Fail
  <2>1. sec /\ wire.req.kind = "scan" /\ server.req.kind = "scan"
    BY <1>1, <1>4, UpIs
  <2>2. ~Dispatch
    BY <2>1 DEF Dispatch
  <2>3. UNCHANGED <<conn, wire, client>>
    BY <1>4, <2>2 DEF Decrypt, Handler, Encrypt, net
  <2>4. Up' = Up
    BY <1>1, <2>3, SameUp
  <2>5. CASE Decrypt
    <3>1. /\ server.pc = "dispatch" /\ server' = [server EXCEPT !.pc = "handler", !.clear = ~sec]
          /\ cur_session' = IF sec /\ Current(session_id) THEN Moved ELSE cur_session
      BY <1>4, <2>5 DEF Decrypt
    <3>2. Sync(server.req.gen, server.req.pos)
      BY <1>1, <2>1, <3>1 DEF Both
    <3>3. cur_session \in Sessions /\ cur_session' = Moved
      BY <1>1, <2>1, <3>1, <3>2 DEF Sync, Current
    <3>4. server'.pc = "handler"
      BY <1>1, <3>1 DEF Servers
    <3>5. ~Told
      BY <1>1, <3>1 DEF Told
    <3>6. Turn = "device" /\ Turn' = "handler"
      BY <1>1, <1>4, <2>3, <2>4, <3>1, <3>4, <3>5, TurnIs, TurnBecomes
    <3>7. Mine' = Mine /\ Theirs' = Session!Moved(Theirs)
      BY <1>4, <2>3, <2>4, <3>3, TheirsMoves
    <3> QED BY <1>4, <2>4, <3>6, <3>7 DEF Session!SessionNext, Session!Decipher, Session!Turns
  <2>6. CASE Handler
    <3>1. server.pc = "handler" /\ Goto("encrypt") /\ UNCHANGED cur_session
      BY <1>4, <2>6 DEF Handler, state
    <3>2. server'.pc = "encrypt"
      BY <1>1, <3>1 DEF Goto, Servers
    <3>3. Turn' = Turn
      BY <1>1, <1>4, <2>3, <2>4, <3>1, <3>2, TurnIs, TurnBecomes
    <3> QED BY <2>3, <2>4, <3>1, <3>3, Unseen
  <2>7. CASE Encrypt
    <3>1. server.pc = "encrypt" /\ ~server.clear
      BY <2>1, <2>7 DEF Encrypt, Cleared
    <3>2. Sync(server.req.gen, server.req.pos + 1) /\ session_id = conn.fd
      BY <1>1, <2>1, <3>1 DEF Both, SameSocket
    <3>3. Current(session_id) /\ cur_session \in Sessions
      BY <1>1, <3>2 DEF Sync, Current
    <3>4. Answer(<<cur_session.ctx, cur_session.pos>>) /\ cur_session' = Moved
      BY <2>7, <3>1, <3>3 DEF Encrypt
    <3>5. server'.pc = "send" /\ server'.req.kind = server.req.kind
      <4>1. server.req \in Messages
        BY <1>1, AtRequest
      <4>2. server' = [server EXCEPT !.pc = "send", !.req = [server.req EXCEPT !.gen = cur_session.ctx, !.pos = cur_session.pos]]
        BY <3>4 DEF Answer
      <4> QED BY <1>1, <4>1, <4>2 DEF Servers, Messages
    <3>6. Told'
      BY <2>1, <3>5 DEF Told
    <3>7. Turn = "handler" /\ Turn' = "answer"
      BY <1>1, <1>4, <2>3, <2>4, <3>1, <3>5, <3>6, TurnIs, TurnBecomes
    <3>8. Mine' = Mine /\ Theirs' = Session!Moved(Theirs)
      BY <1>4, <2>3, <2>4, <3>3, <3>4, TheirsMoves
    <3> QED BY <1>4, <2>4, <3>7, <3>8 DEF Session!SessionNext, Session!Reply, Session!Turns
  <2> QED BY <2>2, <2>5, <2>6, <2>7
<1> QED BY <1>2, <1>3, <1>4

\* The answer goes out as it is; a connection that is made has no session yet, one that is
\* closed has none any more (protocomm_httpd.c:110-125, httpd_main.c:29-72).
LEMMA SendSession ==
  ASSUME IInv, Send \/ Accept \/ Purge \/ Notice
  PROVE  [Session!SessionNext]_Session!sessionVars
<1>1. OneMessage /\ server \in Servers /\ wire \in Wires
  BY Known DEF IInv
<1>2. CASE Send
  <2>1. /\ server.pc = "send" /\ UNCHANGED <<sec, cur_session>>
        /\ \/ Fail
           \/ /\ wire' = [Quiet EXCEPT !.answer = server.req] /\ server' = Idle
              /\ UNCHANGED <<conn, client>>
    BY <1>2 DEF Send, state
  <2>2. /\ conn # NULL /\ wire # Quiet /\ wire.answer = NULL /\ server.req \in Messages
    BY <2>1, AtRequest
  <2>3. CASE Fail
    BY <2>2, <2>3, FailDrops, Dropped DEF Session!SessionNext
  <2>4. CASE /\ wire' = [Quiet EXCEPT !.answer = server.req] /\ server' = Idle
             /\ UNCHANGED <<conn, client>>
    <3>1. Up' = Up
      BY <2>1, <2>4, SameUp
    <3>2. wire'.answer = server.req /\ server.req # NULL /\ wire' # Quiet
      <4>1. wire'.answer = server.req
        BY <2>2, <2>4, OneIs
      <4>2. server.req # NULL
        BY <2>2, NullIs
      <4> QED BY <4>1, <4>2, QuietIs
    <3>3. server'.pc = "idle"
      BY <2>4, IdleIs
    <3>4. Told' <=> Told
      BY <2>1, <2>2, <3>2, <3>3 DEF Told
    <3>5. Up # {} => Turn' = Turn
      BY <2>1, <2>2, <3>1, <3>2, <3>3, <3>4, TurnIs, TurnBecomes
    <3> QED BY <2>1, <2>4, <3>1, <3>5, Unseen
  <2> QED BY <2>1, <2>3, <2>4
<1>3. CASE Accept
  <2>1. /\ backlog # <<>> /\ conn' # NULL /\ conn'.client = Head(backlog)
        /\ client' = [client EXCEPT ![Head(backlog)].step = "connected"]
    <3>1. PICK fd \in Fds : conn' = [client |-> Head(backlog), fd |-> fd, there |-> TRUE, reset |-> FALSE]
      BY <1>3 DEF Accept
    <3>2. conn' # NULL /\ conn'.client = Head(backlog)
      BY <3>1 DEF NULL
    <3> QED BY <1>3, <3>2 DEF Accept
  <2>2. backlog \in Seq(Clients) /\ client \in [Clients -> Peers]
    BY DEF IInv, Typed
  <2>3. Head(backlog) \in Clients
    BY <2>1, <2>2, TailIs
  <2>4. client'[Head(backlog)].step = "connected"
    BY <2>1, <2>2, <2>3 DEF Peers
  <2>5. Up' = {}
    BY <2>1, <2>4 DEF Up, Open
  <2> QED BY <2>5, Dropped DEF Session!SessionNext
<1>4. CASE Purge \/ Notice
  <2>1. conn # NULL /\ Fail
    BY <1>4 DEF Purge, Notice
  <2> QED BY <2>1, FailDrops, Dropped DEF Session!SessionNext
<1> QED BY <1>2, <1>3, <1>4

\* A client that comes, or goes without having been connected, is not the one that is up.
LEMMA Others ==
  ASSUME IInv, NEW c \in Clients, c # conn.client \/ Up = {}, client' \in [Clients -> Peers],
         \A d \in Clients \ {c} : client'[d] = client[d], client'[c].step # "up",
         UNCHANGED <<conn, wire, sec, cur_session, server>>
  PROVE  UNCHANGED Session!sessionVars
<1>1. Up' = Up
  <2>1. \A d \in Clients : Open(d)' <=> Open(d)
    BY DEF Open
  <2>2. c \notin Up
    BY UpIs
  <2>3. \A d \in Clients : d \in Up' <=> d \in Up
    BY <2>1, <2>2 DEF Up
  <2> QED BY <2>3 DEF Up
<1>2. CASE Up = {}
  BY <1>1, <1>2 DEF Session!sessionVars, Turn, Mine, Theirs
<1>3. CASE Up # {}
  <2>1. conn.client \in Clients \ {c}
    BY <1>3, UpIs
  <2>2. client'[conn.client] = client[conn.client]
    BY <2>1
  <2> QED BY <1>1, <1>3, <2>2 DEF Session!sessionVars, Turn, Told, Mine, Theirs
<1> QED BY <1>2, <1>3

\* A client that connects.
LEMMA ConnectSession ==
  ASSUME IInv, NEW c \in Clients, Connect(c)
  PROVE  [Session!SessionNext]_Session!sessionVars
<1>1. /\ client[c].step = "away" /\ client \in [Clients -> Peers] /\ Peered
      /\ UNCHANGED <<conn, wire, sec, cur_session, server>>
      /\ client' = [client EXCEPT ![c].step = "waiting",
                                  ![c].visits = IF c = Phone THEN 0 ELSE client[c].visits + 1]
  BY DEF IInv, Typed, Connect, state
<1>2. /\ client' \in [Clients -> Peers] /\ client'[c].step # "up"
      /\ \A d \in Clients \ {c} : client'[d] = client[d]
  <2>1. PICK k \in Nat : k = IF c = Phone THEN 0 ELSE client[c].visits + 1
    BY <1>1 DEF Peers
  <2> DEFINE p == [client[c] EXCEPT !.step = "waiting", !.visits = k]
  <2>2. client' = [client EXCEPT ![c] = p]
    BY <1>1, <2>1
  <2>3. p \in Peers /\ p.step = "waiting"
    BY <1>1, <2>1 DEF Peers, Steps
  <2> HIDE DEF p
  <2> QED BY <1>1, <2>2, <2>3
<1>3. c # conn.client \/ Up = {}
  BY <1>1, UpIs
<1> QED BY <1>1, <1>2, <1>3, Others

\* A request that is encrypted moves the client's end on.
LEMMA AskSession ==
  ASSUME IInv, NEW c \in Clients, Ask(c)
  PROVE  [Session!SessionNext]_Session!sessionVars
<1>1. /\ Open(c) /\ wire = Quiet /\ server.pc = "idle" /\ client \in [Clients -> Peers]
      /\ UNCHANGED <<conn, sec, cur_session, server>>
  BY DEF IInv, Typed, Ask, state
<1>2. PICK kind \in MayAsk(c) :
         /\ wire' = [Quiet EXCEPT !.req = [kind |-> kind, gen |-> client[c].gen, pos |-> client[c].pos]]
         /\ client' = IF kind \in {"version", "command0"} THEN client
                      ELSE [client EXCEPT ![c].pos = client[c].pos + 1]
  BY DEF Ask
<1>3. kind \in Kinds /\ (client[c].step = "up" => kind = "scan")
  BY DEF MayAsk, Kinds
<1>4. \A d \in Clients : client'[d].step = client[d].step
  BY <1>1, <1>2 DEF Peers
<1>5. Up' = Up
  BY <1>1, <1>4 DEF Up, Open
<1>6. CASE Up = {}
  BY <1>5, <1>6, Dropped DEF Session!SessionNext
<1>7. CASE Up # {}
  <2>1. conn.client = c /\ client[c].step = "up" /\ kind = "scan"
    BY <1>1, <1>3, <1>7, UpIs DEF Open
  <2>2. client'[c].pos = client[c].pos + 1 /\ client'[c].gen = client[c].gen
    BY <1>1, <1>2, <2>1 DEF Peers
  <2>3. Mine' = Session!Moved(Mine)
    <3>1. Mine = [key |-> client[c].gen, at |-> client[c].pos]
      BY <1>7, <2>1 DEF Mine
    <3>2. Mine' = [key |-> client'[c].gen, at |-> client'[c].pos]
      BY <1>1, <1>5, <1>7, <2>1 DEF Mine
    <3> QED BY <2>2, <3>1, <3>2 DEF Session!Moved
  <2>4. Theirs' = Theirs
    BY <1>1, <1>5 DEF Theirs
  <2>5. [kind |-> kind, gen |-> client[c].gen, pos |-> client[c].pos] \in Messages
    BY <1>1, <1>3 DEF Messages, Peers
  <2>6. wire'.req # NULL /\ wire'.answer = NULL /\ wire' # Quiet
    <3>1. wire'.answer = NULL /\ wire'.req = [kind |-> kind, gen |-> client[c].gen, pos |-> client[c].pos]
      BY <1>2, <2>5, OneIs
    <3>2. wire'.req # NULL
      BY <2>5, <3>1, NullIs
    <3> QED BY <3>1, <3>2, QuietIs
  <2>7. ~Told'
    BY <1>1, <2>6 DEF Told
  <2>8. Turn = "client" /\ Turn' = "device"
    BY <1>1, <1>5, <1>7, <2>6, <2>7, TurnIs, TurnBecomes
  <2> QED BY <1>5, <1>7, <2>3, <2>4, <2>8 DEF Session!SessionNext, Session!Encipher, Session!Turns
<1> QED BY <1>6, <1>7

\* The rest of a request moves nothing.
LEMMA BodySession ==
  ASSUME IInv, NEW c \in Clients, SendBody(c)
  PROVE  [Session!SessionNext]_Session!sessionVars
<1>1. /\ wire \in Wires /\ wire.req # NULL /\ wire' = [wire EXCEPT !.body = TRUE]
      /\ UNCHANGED <<conn, client, sec, cur_session, server>>
  BY Known DEF SendBody, state
<1>2. /\ wire'.req = wire.req /\ wire'.answer = wire.answer /\ wire # Quiet /\ wire' # Quiet
  BY <1>1, QuietIs DEF Wires
<1>3. Up' = Up
  BY <1>1, SameUp
<1>4. Told' <=> Told
  BY <1>1, <1>2 DEF Told
<1>5. Up # {} => Turn' = Turn
  BY <1>1, <1>2, <1>3, <1>4, TurnIs, TurnBecomes
<1> QED BY <1>1, <1>3, <1>5, Unseen

\* An answer that makes sense moves the client's end on, or begins its session; another one
\* ends it.
LEMMA HearSession ==
  ASSUME IInv, NEW c \in Clients, Hear(c)
  PROVE  [Session!SessionNext]_Session!sessionVars
<1> DEFINE a == wire.answer
<1>1. /\ Open(c) /\ a # NULL /\ wire' = Quiet /\ UNCHANGED <<sec, cur_session, server>>
      /\ conn \in Sockets /\ conn.client = c /\ wire \in Wires /\ client \in [Clients -> Peers]
      /\ OneMessage /\ Asked /\ Peered /\ Both /\ a \in Messages
  BY Known DEF IInv, Typed, Hear, state, Open, Wires
<1>2. server.pc = "idle" /\ wire # Quiet
  BY <1>1, AtRequest, QuietIs
<1>3. CASE ~Sense(c, a)
  <2>1. Closed(c)
    BY <1>3 DEF Hear
  <2>2. ~conn'.there
    BY <1>1, <2>1 DEF Closed, Sockets
  <2>3. Up' = {}
    BY <2>2 DEF Up, Open
  <2> QED BY <2>3, Dropped DEF Session!SessionNext
<1>4. CASE Sense(c, a)
  <2>1. client' = [client EXCEPT ![c] = Heard(c, a)] /\ UNCHANGED conn
    BY <1>4 DEF Hear
  <2>2. a.kind # "404"
    BY <1>4 DEF Sense
  <2>3. a.kind \in Kinds
    BY <1>1, <2>2 DEF Messages
  <2>4. Suits(c, a.kind) /\ client[c] \in Peers
    BY <1>1 DEF Asked
  <2>5. client'[c] = Heard(c, a) /\ \A d \in Clients \ {c} : client'[d] = client[d]
    BY <1>1, <2>1
  <2>6. CASE a.kind \in {"version", "command0"}
    <3>1. client'[c].step \in {"versioned", "agreed"}
      BY <2>4, <2>5, <2>6 DEF Heard, Peers
    <3>2. Up' = {}
      BY <1>1, <2>1, <3>1 DEF Up, Open
    <3> QED BY <3>2, Dropped DEF Session!SessionNext
  <2>7. CASE a.kind \in {"command1", "scan"}
    <3>1. client'[c] = [client[c] EXCEPT !.step = "up", !.pos = client[c].pos + 1]
      BY <2>5, <2>7 DEF Heard
    <3>2. /\ client'[c].step = "up" /\ client'[c].gen = client[c].gen
          /\ client'[c].pos = client[c].pos + 1
      BY <2>4, <3>1 DEF Peers
    <3>3. a.gen = client[c].gen /\ a.pos = client[c].pos
      BY <1>4, <2>7 DEF Sense
    <3>4. CASE ~sec
      <4>1. Up' = {}
        BY <1>1, <3>4 DEF Up
      <4> QED BY <4>1, Dropped DEF Session!SessionNext
    <3>5. CASE sec
      <4>1. Up' = {c}
        BY <1>1, <2>1, <3>2, <3>5 DEF Up, Open
      <4>2. Turn' = "client"
        BY <1>1, <4>1, TurnBecomes
      <4>3. Mine' = [key |-> client[c].gen, at |-> client[c].pos + 1]
        BY <1>1, <2>1, <3>2, <4>1 DEF Mine
      <4>4. Theirs' = [key |-> cur_session.ctx, at |-> cur_session.pos]
        BY <1>1, <4>1 DEF Theirs
      <4>5. CASE a.kind = "scan"
        <5>1. client[c].step = "up"
          BY <2>4, <4>5 DEF Suits
        <5>2. Up # {}
          BY <1>1, <3>5, <5>1 DEF Up
        <5>3. Up = {c}
          BY <1>1, <5>2, UpIs
        <5>4. Told
          BY <1>1, <2>2 DEF Told
        <5>5. Turn = "answer"
          BY <1>2, <5>2, <5>4, TurnIs
        <5>6. Mine = [key |-> client[c].gen, at |-> client[c].pos]
          BY <1>1, <5>2 DEF Mine
        <5>7. Theirs = [key |-> cur_session.ctx, at |-> cur_session.pos]
          BY <5>2 DEF Theirs
        <5>8. Mine' = Session!Moved(Mine) /\ Theirs' = Theirs
          BY <4>3, <4>4, <5>6, <5>7 DEF Session!Moved
        <5> QED BY <4>1, <4>2, <5>2, <5>3, <5>5, <5>8 DEF Session!SessionNext, Session!Learn, Session!Turns
      <4>6. CASE a.kind = "command1"
        <5>1. client[c].step = "agreed"
          BY <2>4, <4>6 DEF Suits
        <5>2. Up = {}
          BY <1>1, <5>1, UpIs
        <5>3. client[c].gen # 0 /\ client[c].gen \in Gens /\ client[c].pos \in Nat
          BY <1>1, <2>4, <5>1 DEF Peered, Peers
        <5>4. Sync(a.gen, a.pos + 1)
          BY <1>1, <3>3, <3>5, <4>6, <5>3 DEF Both, Encrypted
        <5>5. cur_session.ctx = client[c].gen /\ cur_session.pos = client[c].pos + 1
          BY <3>3, <5>4 DEF Sync
        <5>6. Theirs' = Mine' /\ Mine' \in Session!Ends
          BY <4>3, <4>4, <5>3, <5>5 DEF Session!Ends
        <5> QED BY <4>1, <4>2, <5>2, <5>6 DEF Session!SessionNext, Session!Establish
      <4> QED BY <2>7, <4>5, <4>6
    <3> QED BY <3>4, <3>5
  <2> QED BY <2>3, <2>6, <2>7 DEF Kinds
<1> QED BY <1>3, <1>4

\* A client that leaves takes its session along.
LEMMA LeaveSession ==
  ASSUME IInv, NEW c \in Clients, Leave(c)
  PROVE  [Session!SessionNext]_Session!sessionVars
<1>1. client \in [Clients -> Peers] /\ Cut(c) /\ UNCHANGED <<sec, cur_session, server>>
  BY DEF IInv, Typed, Leave, state
<1>2. CASE Open(c)
  <2>1. Closed(c) /\ conn \in Sockets
    BY <1>2, Known DEF Leave, Open
  <2>2. ~conn'.there
    BY <2>1 DEF Closed, Sockets
  <2>3. Up' = {}
    BY <2>2 DEF Up, Open
  <2> QED BY <2>3, Dropped DEF Session!SessionNext
<1>3. CASE ~Open(c)
  <2>1. UNCHANGED <<conn, wire>>
    BY <1>3 DEF Leave
  <2>2. /\ client' \in [Clients -> Peers] /\ client'[c].step # "up"
        /\ \A d \in Clients \ {c} : client'[d] = client[d]
    BY <1>1, CutIs
  <2>3. c # conn.client \/ Up = {}
    BY <1>3, UpIs
  <2> QED BY <1>1, <2>1, <2>2, <2>3, Others
<1> QED BY <1>2, <1>3

\* Every step is one of the session, or the session does not see it.
LEMMA SessionStep ==
  ASSUME IInv, Cleared, [Next]_vars
  PROVE  [Session!SessionNext]_Session!sessionVars
<1>1. CASE AppStep \/ StopService \/ StartService
  BY <1>1, AppSession
<1>2. CASE ServerStep
  BY <1>2, BeginSession, HandleSession, SendSession DEF ServerStep
<1>3. ASSUME NEW c \in Clients, ClientStep(c) \/ Leave(c)
      PROVE  [Session!SessionNext]_Session!sessionVars
  BY <1>3, ConnectSession, AskSession, BodySession, HearSession, LeaveSession DEF ClientStep
<1>4. CASE UNCHANGED vars
  <2>1. UNCHANGED <<server, conn, wire, client, sec, cur_session>>
    BY <1>4 DEF vars, state, net
  <2>2. Up' = Up
    BY <2>1, SameUp
  <2>3. Turn' = Turn
    BY <2>1, <2>2 DEF Turn, Told
  <2> QED BY <2>1, <2>2, <2>3, Unseen
<1> QED BY <1>1, <1>2, <1>3, <1>4 DEF Next

\* protocomm implements SecureSession: from the answer to a client's proof until the connection
\* or the security ends, each end moves in its turn and by its own message only, whatever
\* other clients, purges, failing handlers, starts and stops come between (security1.c,
\* protocomm.c:139-204, protocomm_httpd.c:33-125).
THEOREM SessionTheorem == Spec => SessionKept
<1>1. Init => Cleared /\ Session!SessionInit
  <2> SUFFICES ASSUME Init PROVE Cleared /\ Session!SessionInit
    OBVIOUS
  <2>1. sec = FALSE
    BY DEF Init
  <2>2. Up = {}
    BY <2>1 DEF Up
  <2> QED BY <2>1, <2>2 DEF Cleared, Session!SessionInit, Session!Nowhere, Turn, Mine, Theirs
<1>2. IInv /\ Cleared /\ [Next]_vars => Cleared' /\ [Session!SessionNext]_Session!sessionVars
  BY ClearedStep, SessionStep
<1> QED BY <1>1, <1>2, Invariance, PTL DEF Spec, SessionKept, Session!SessionSpec

\* So their places in the key stream never differ by more than the message under way, at any
\* moment of a request and not only between requests.
THEOREM TogetherTheorem == Spec => []Session!Together
<1> DEFINE Placed == Up # {} => Mine \in Session!Ends /\ Theirs \in Session!Ends
<1>1. Session!SessionInit => Session!Together /\ Placed
  BY DEF Session!SessionInit, Session!Together
<1>2. Session!Together /\ Placed /\ [Session!SessionNext]_Session!sessionVars => Session!Together' /\ Placed'
  <2> SUFFICES ASSUME Session!Together, Placed, [Session!SessionNext]_Session!sessionVars
               PROVE  Session!Together' /\ Placed'
    OBVIOUS
  <2>1. \A end \in Session!Ends :
          /\ end.at \in Nat /\ Session!Moved(end).key = end.key /\ Session!Moved(end).at = end.at + 1
          /\ Session!Moved(end) \in Session!Ends
    BY DEF Session!Ends, Session!Moved
  <2>2. CASE Session!Establish
    <3>1. Up' # {} /\ Turn' = "client" /\ Mine' \in Session!Ends /\ Theirs' = Mine'
      BY <2>2 DEF Session!Establish
    <3> QED BY <3>1 DEF Session!Together
  <2>3. CASE Session!Encipher
    <3>1. /\ Up # {} /\ Turn = "client" /\ Turn' = "device"
          /\ Mine' = Session!Moved(Mine) /\ Theirs' = Theirs
      BY <2>3 DEF Session!Encipher, Session!Turns
    <3> QED BY <2>1, <3>1 DEF Session!Together
  <2>4. CASE Session!Decipher
    <3>1. /\ Up # {} /\ Turn = "device" /\ Turn' = "handler"
          /\ Theirs' = Session!Moved(Theirs) /\ Mine' = Mine
      BY <2>4 DEF Session!Decipher, Session!Turns
    <3> QED BY <2>1, <3>1 DEF Session!Together
  <2>5. CASE Session!Reply
    <3>1. /\ Up # {} /\ Turn = "handler" /\ Turn' = "answer"
          /\ Theirs' = Session!Moved(Theirs) /\ Mine' = Mine
      BY <2>5 DEF Session!Reply, Session!Turns
    <3> QED BY <2>1, <3>1 DEF Session!Together
  <2>6. CASE Session!Learn
    <3>1. /\ Up # {} /\ Turn = "answer" /\ Turn' = "client"
          /\ Mine' = Session!Moved(Mine) /\ Theirs' = Theirs
      BY <2>6 DEF Session!Learn, Session!Turns
    <3> QED BY <2>1, <3>1 DEF Session!Together
  <2>7. CASE Session!Drop
    BY <2>7 DEF Session!Drop, Session!Together
  <2>8. CASE UNCHANGED Session!sessionVars
    BY <2>8 DEF Session!sessionVars, Session!Together
  <2> QED BY <2>2, <2>3, <2>4, <2>5, <2>6, <2>7, <2>8 DEF Session!SessionNext
<1> QED BY <1>1, <1>2, SessionTheorem, PTL DEF SessionKept, Session!SessionSpec

=============================================================================

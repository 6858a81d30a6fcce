------------------------------- MODULE Httpd -------------------------------
(***************************************************************************)
(* components/http_server: the server's thread (httpd_main.c), its table of  *)
(* sessions (httpd_sess.c), the control socket other tasks queue work on     *)
(* (util/ctrl_sock.c), and the application task that queues closes, touches  *)
(* timestamps and stops the server.  Clients and the TCP stack are external: *)
(* connections wait in the backlog, descriptors are given out lowest first.  *)
(* A request is one of a few kinds; what its bytes are is left out.          *)
(***************************************************************************)
EXTENDS Integers, Sequences, FiniteSets, SequencesExt

CONSTANTS MaxSockets,  \* config.max_open_sockets
          Clients,
          Kinds,       \* what clients send: "req", "bad" (refused by the parser),
                       \* "cut" (its rest never comes)
          LruModes,    \* values of config.lru_purge_enable
          QueueSize,   \* messages the control socket holds; a further one is lost
          MaxAhead,    \* bound: requests a client sends before an answer
          MaxConnects, \* bound: connections made
          MaxSends,    \* bound: requests sent
          MaxAppCalls  \* bound: calls of the application task

ASSUME HttpdAssumption ==
  /\ MaxSockets \in Nat \ {0} /\ QueueSize \in Nat \ {0}
  /\ Kinds \subseteq {"req", "bad", "cut"} /\ LruModes \subseteq BOOLEAN
  /\ "none" \notin Clients
  /\ MaxAhead \in Nat /\ MaxConnects \in Nat /\ MaxSends \in Nat /\ MaxAppCalls \in Nat

NoFd  == -1
Fds   == 1..MaxSockets + 1  \* one more while a connection is refused
Slots == 1..MaxSockets

VARIABLES
  sd,       \* hd->hd_sd: fd, timestamp, ctx set, the further request in pending_data
  pc, rset, cur, req,  \* the thread: where it is, select's answer, the session's fd, its request
  ctrl, arrived,       \* messages sent to the control socket, and how many of them are there
  lru,
  app,      \* the application task: its place and the session it has looked up
  sock, conn, inbox, backlog,  \* the TCP stack: fd -> client, clients, unread requests
  heap, lost,  \* contexts allocated, and those no session or request holds any more
  visited,     \* history: sessions that had their turn in this round
  count        \* history: connections, requests and application calls so far

threadVars == <<pc, rset, cur, req, visited>>
ctrlVars   == <<ctrl, arrived>>
tcpVars    == <<sock, conn, inbox, backlog>>
ctxVars    == <<heap, lost>>
vars       == <<sd, threadVars, ctrlVars, lru, app, tcpVars, ctxVars, count>>

NoSession == [fd |-> NoFd, timestamp |-> 0, ctx |-> FALSE, pending |-> "none"]
NoRequest == [kind |-> "none", ctx |-> FALSE]
Nothing   == [ctrl |-> FALSE, listen |-> FALSE, fds |-> {}]

\* httpd_start
Init ==
  /\ sd = [i \in Slots |-> NoSession]
  /\ pc = "select" /\ rset = Nothing /\ cur = NoFd /\ req = NoRequest /\ visited = {}
  /\ ctrl = <<>> /\ arrived = 0
  /\ lru \in LruModes
  /\ app = [pc |-> "idle", slot |-> 0]
  /\ sock = [fd \in Fds |-> "none"]
  /\ conn = [c \in Clients |-> "away"] /\ inbox = [c \in Clients |-> <<>>] /\ backlog = <<>>
  /\ heap = 0 /\ lost = 0
  /\ count = [connects |-> 0, sends |-> 0, calls |-> 0]

---------------------------------------------------------------------------
(* The session table: operators of the functions of httpd_sess.c.           *)

Table      == {sd[i].fd : i \in Slots} \ {NoFd}
FreeSlots  == {i \in Slots : sd[i].fd = NoFd}

\* httpd_sess_get: the first slot with this descriptor, 0 for none.
SlotOf(fd) == LET Found == {i \in Slots : sd[i].fd = fd}
              IN  IF Found = {} THEN 0 ELSE Min(Found)

\* Mutant: goes on two places further.
Iterate_skips(fd) ==
  LET From == {i \in Slots : i > SlotOf(fd) + (IF fd = NoFd THEN 0 ELSE 1) /\ sd[i].fd # NoFd}
  IN  IF From = {} THEN NoFd ELSE sd[Min(From)].fd

\* httpd_sess_iterate: the session after this one, from the first for NoFd.
Iterate(fd) ==
  LET start == IF fd = NoFd THEN 0 ELSE SlotOf(fd)
      After == {i \in Slots : i > start /\ sd[i].fd # NoFd}
  IN  IF After = {} THEN NoFd ELSE sd[Min(After)].fd

\* What httpd_sess_delete returns.
Preceding(fd) ==
  LET Before == {i \in Slots : i < SlotOf(fd) /\ sd[i].fd # NoFd}
  IN  IF Before = {} THEN NoFd ELSE sd[Max(Before)].fd

\* httpd_sess_delete frees the session's context.  What it leaves in a free slot
\* httpd_sess_new clears.
DeleteSession(fd) ==
  /\ sd' = [i \in Slots |-> IF i = SlotOf(fd) THEN NoSession ELSE sd[i]]
  /\ heap' = IF SlotOf(fd) # 0 /\ sd[SlotOf(fd)].ctx THEN heap - 1 ELSE heap

\* Mutant: the search starts from 0 instead of INT64_MAX and finds no session.
Victim_none == NoFd

\* httpd_sess_close_lru: the first of the sessions with the earliest timestamp.
Victim ==
  LET Earliest == {i \in Slots : \A j \in Slots : sd[i].timestamp <= sd[j].timestamp}
  IN  sd[Min(Earliest)].fd

\* close() of a session's socket.
Close(fd) ==
  IF fd = NoFd THEN UNCHANGED tcpVars
  ELSE /\ sock' = [sock EXCEPT ![fd] = "none"]
       /\ conn' = [conn EXCEPT ![sock[fd]] = "away"]
       /\ inbox' = [inbox EXCEPT ![sock[fd]] = <<>>]
       /\ UNCHANGED backlog

\* httpd_queue_work, httpd_stop: a datagram that a full socket drops.
Send(msg) == /\ ctrl' = IF Len(ctrl) < QueueSize /\ pc # "stopped" THEN Append(ctrl, msg) ELSE ctrl
             /\ UNCHANGED arrived

\* httpd_os_get_timestamp, up to the order of the timestamps in the table.
Now == Max({sd[i].timestamp : i \in Slots}) + 1

CloseMsg(slot) == [type |-> "close", slot |-> slot]
Shutdown       == [type |-> "shutdown", slot |-> 0]

Peer(fd)     == sock[fd]
Readable(fd) == inbox[Peer(fd)] # <<>> \/ conn[Peer(fd)] = "left"
CurSlot      == SlotOf(cur)

---------------------------------------------------------------------------
(* The server's thread: httpd_server, one round after the other.            *)

Goto(place) == pc' = place

\* It looks at the sockets only, never at pending_data.
Select ==
  /\ pc = "select"
  /\ arrived > 0 \/ backlog # <<>> \/ \E fd \in Table : Readable(fd)
  /\ rset' = [ctrl |-> arrived > 0, listen |-> backlog # <<>>,
              fds |-> {fd \in Table : Readable(fd)}]
  /\ Goto("ctrl")
  /\ UNCHANGED <<sd, cur, req, visited, ctrlVars, lru, app, tcpVars, ctxVars, count>>

\* Mutant: the thread is told to stop and goes on.
ProcessCtrl_deaf ==
  /\ pc = "ctrl"
  /\ IF rset.ctrl
     THEN /\ ctrl' = Tail(ctrl) /\ arrived' = arrived - 1 /\ Goto("next")
          /\ IF Head(ctrl).type = "close"
             THEN LET fd == sd[Head(ctrl).slot].fd IN DeleteSession(fd) /\ Close(fd)
             ELSE UNCHANGED <<sd, heap, tcpVars>>
     ELSE Goto("next") /\ UNCHANGED <<sd, ctrlVars, heap, tcpVars>>
  /\ UNCHANGED <<rset, cur, req, visited, lru, app, lost, count>>

\* One message a round; the work of a queued close is httpd_sess_close, whose
\* argument is the slot, whatever session is in it by now.
ProcessCtrl ==
  /\ pc = "ctrl"
  /\ IF rset.ctrl
     THEN /\ ctrl' = Tail(ctrl) /\ arrived' = arrived - 1
          /\ IF Head(ctrl).type = "close"
             THEN LET fd == sd[Head(ctrl).slot].fd
                  IN  DeleteSession(fd) /\ Close(fd) /\ Goto("next")
             ELSE Goto("exit") /\ UNCHANGED <<sd, heap, tcpVars>>
     ELSE Goto("next") /\ UNCHANGED <<sd, ctrlVars, heap, tcpVars>>
  /\ UNCHANGED <<rset, cur, req, visited, lru, app, lost, count>>

\* The walk over the sessions: a session of select's answer, or one with pending data.
NextSession ==
  /\ pc = "next"
  /\ LET fd == Iterate(cur)
     IN  /\ cur' = fd
         /\ visited' = visited \cup ({fd} \ {NoFd})
         /\ Goto(CASE fd = NoFd -> "accept"
                  [] fd # NoFd /\ (fd \in rset.fds \/ sd[SlotOf(fd)].pending # "none") -> "request"
                  [] OTHER -> "next")
  /\ UNCHANGED <<sd, rset, req, ctrlVars, lru, app, tcpVars, ctxVars, count>>

\* httpd_req_new: the request in pending_data before what is on the socket.  A
\* block read from the socket may hold the next request too: put in pending_data,
\* dropped after a refused one.  The parser finds an end, refuses (and answers), or
\* waits in vain.
Request ==
  /\ pc = "request"
  /\ LET c == Peer(cur)
         waiting == sd[CurSlot].pending
         Parsed(kind) ==
           /\ req' = [kind |-> kind, ctx |-> sd[CurSlot].ctx]
           /\ \/ kind # "bad" /\ Goto("handler")
              \/ kind = "bad" /\ Goto("done")
              \/ kind # "req" /\ Goto("fail")
     IN  \/ /\ waiting # "none"
            /\ sd' = [sd EXCEPT ![CurSlot].pending = "none"]
            /\ UNCHANGED inbox /\ Parsed(waiting)
         \/ /\ waiting = "none" /\ inbox[c] # <<>>
            /\ \/ inbox' = [inbox EXCEPT ![c] = Tail(@)] /\ UNCHANGED sd
               \/ /\ inbox[c][1] # "cut" /\ Len(inbox[c]) > 1
                  /\ inbox' = [inbox EXCEPT ![c] = Tail(Tail(@))]
                  /\ sd' = IF inbox[c][1] = "bad" THEN sd
                           ELSE [sd EXCEPT ![CurSlot].pending = inbox[c][2]]
            /\ Parsed(inbox[c][1])
         \/ /\ waiting = "none" /\ inbox[c] = <<>> /\ Goto("fail")
            /\ UNCHANGED <<sd, req, inbox>>
  /\ UNCHANGED <<rset, cur, visited, ctrlVars, lru, app, sock, conn, backlog, ctxVars, count>>

\* The URI's handler, or the answer that there is none: it may give the session its
\* context, and may fail.
Handler ==
  /\ pc = "handler"
  /\ \/ UNCHANGED <<req, heap>>
     \/ ~req.ctx /\ req' = [req EXCEPT !.ctx = TRUE] /\ heap' = heap + 1
  /\ Goto("purge") \/ Goto("fail")
  /\ UNCHANGED <<sd, rset, cur, visited, ctrlVars, lru, app, tcpVars, lost, count>>

\* httpd_req_delete reads the rest of the body.  It times out when the rest does
\* not come; from a peer that has closed recv returns 0, and the loop has no end.
EndlessPurge == pc = "purge" /\ req.kind = "cut" /\ conn[Peer(cur)] = "left"

Purge ==
  /\ pc = "purge" /\ ~EndlessPurge
  /\ Goto(IF req.kind = "cut" THEN "fail" ELSE "done")
  /\ UNCHANGED <<sd, rset, cur, req, visited, ctrlVars, lru, app, tcpVars, ctxVars, count>>

Done ==
  /\ pc = "done"
  /\ sd' = [sd EXCEPT ![CurSlot].ctx = req.ctx, ![CurSlot].timestamp = Now]
  /\ req' = NoRequest /\ Goto("next")
  /\ UNCHANGED <<rset, cur, visited, ctrlVars, lru, app, tcpVars, ctxVars, count>>

\* The session is closed and the walk goes on from the one before it.  A context
\* that this request made is in the request only, and lost with it.
Fail ==
  /\ pc = "fail"
  /\ Close(cur) /\ DeleteSession(cur) /\ cur' = Preceding(cur)
  /\ lost' = IF req.ctx /\ ~sd[CurSlot].ctx THEN lost + 1 ELSE lost
  /\ req' = NoRequest /\ Goto("next")
  /\ UNCHANGED <<rset, visited, ctrlVars, lru, app, count>>

\* Mutant: a connection there is no room for stays open.
Accept_keeps ==
  /\ pc = "accept" /\ Goto("select") /\ rset' = Nothing /\ visited' = {}
  /\ IF ~rset.listen THEN UNCHANGED <<sd, ctrlVars, tcpVars>>
     ELSE LET fd == Min({f \in Fds : sock[f] = "none"})
          IN  /\ backlog' = Tail(backlog) /\ UNCHANGED <<inbox, ctrlVars>>
              /\ sock' = [sock EXCEPT ![fd] = Head(backlog)]
              /\ conn' = [conn EXCEPT ![Head(backlog)] = "open"]
              /\ sd' = IF FreeSlots = {} THEN sd
                       ELSE [sd EXCEPT ![Min(FreeSlots)] = [NoSession EXCEPT !.fd = fd]]
  /\ UNCHANGED <<cur, req, lru, app, ctxVars, count>>

\* httpd_accept_conn: with no room either the session used longest ago is told to
\* close, and the connection waits, or it is accepted and closed at once.
Accept ==
  /\ pc = "accept" /\ Goto("select") /\ rset' = Nothing /\ visited' = {}
  /\ \/ ~rset.listen /\ UNCHANGED <<sd, ctrlVars, tcpVars>>
     \/ /\ rset.listen /\ FreeSlots = {} /\ lru
        /\ IF SlotOf(Victim) = 0 THEN UNCHANGED ctrlVars
           ELSE Send(CloseMsg(SlotOf(Victim)))
        /\ UNCHANGED <<sd, tcpVars>>
     \/ /\ rset.listen /\ FreeSlots = {} /\ ~lru
        /\ backlog' = Tail(backlog) /\ conn' = [conn EXCEPT ![Head(backlog)] = "away"]
        /\ inbox' = [inbox EXCEPT ![Head(backlog)] = <<>>]
        /\ UNCHANGED <<sd, ctrlVars, sock>>
     \/ /\ rset.listen /\ FreeSlots # {}
        /\ LET fd == Min({f \in Fds : sock[f] = "none"})
           IN  /\ sock' = [sock EXCEPT ![fd] = Head(backlog)]
               /\ sd' = [sd EXCEPT ![Min(FreeSlots)] = [NoSession EXCEPT !.fd = fd]]
        /\ backlog' = Tail(backlog) /\ conn' = [conn EXCEPT ![Head(backlog)] = "open"]
        /\ UNCHANGED <<inbox, ctrlVars>>
  /\ UNCHANGED <<cur, req, lru, app, ctxVars, count>>

\* The end of httpd_thread: sockets closed, every session deleted.
Exit ==
  /\ pc = "exit" /\ Goto("stopped") /\ rset' = Nothing
  /\ ctrl' = <<>> /\ arrived' = 0
  /\ heap' = heap - Cardinality({i \in Slots : sd[i].ctx})
  /\ sd' = [i \in Slots |-> NoSession]
  /\ sock' = [fd \in Fds |-> IF fd \in Table THEN "none" ELSE sock[fd]]
  /\ conn' = [c \in Clients |-> IF c \in {sock[fd] : fd \in Table} \cup ToSet(backlog)
                                THEN "away" ELSE conn[c]]
  /\ inbox' = [c \in Clients |-> IF conn'[c] = "away" THEN <<>> ELSE inbox[c]]
  /\ backlog' = <<>>
  /\ UNCHANGED <<cur, req, visited, lru, app, lost, count>>

Server == \/ Select \/ ProcessCtrl \/ NextSession \/ Request \/ Handler \/ Purge
          \/ Done \/ Fail \/ Accept \/ Exit

---------------------------------------------------------------------------
(* The application task, on a descriptor it was given when it was open.     *)

MayCall == app.pc = "idle" /\ count.calls < MaxAppCalls

\* httpd_trigger_sess_close, httpd_sess_update_timestamp: the look-up in a table
\* the thread may change before the slot is used.
LookUp(what) ==
  /\ MayCall /\ pc # "stopped"
  /\ \E fd \in Table : app' = [pc |-> what, slot |-> SlotOf(fd)]
  /\ count' = [count EXCEPT !.calls = @ + 1]
  /\ UNCHANGED <<sd, threadVars, ctrlVars, lru, tcpVars, ctxVars>>

TriggerClose ==
  /\ app.pc = "close" /\ Send(CloseMsg(app.slot)) /\ app' = [pc |-> "idle", slot |-> 0]
  /\ UNCHANGED <<sd, threadVars, lru, tcpVars, ctxVars, count>>

Touch ==
  /\ app.pc = "touch" /\ app' = [pc |-> "idle", slot |-> 0]
  /\ sd' = [sd EXCEPT ![app.slot].timestamp = Now]
  /\ UNCHANGED <<threadVars, ctrlVars, lru, tcpVars, ctxVars, count>>

\* httpd_stop: the message is sent once, then the task sleeps until THREAD_STOPPED.
Stop ==
  /\ app.pc = "idle" /\ Send(Shutdown) /\ app' = [pc |-> "stopping", slot |-> 0]
  /\ UNCHANGED <<sd, threadVars, lru, tcpVars, ctxVars, count>>

StopReturn ==
  /\ app.pc = "stopping" /\ pc = "stopped" /\ app' = [pc |-> "stopped", slot |-> 0]
  /\ UNCHANGED <<sd, threadVars, ctrlVars, lru, tcpVars, ctxVars, count>>

---------------------------------------------------------------------------
(* The TCP stack and the clients.                                           *)

\* A datagram to the control socket comes through the loopback interface.
Deliver ==
  /\ arrived < Len(ctrl) /\ arrived' = arrived + 1
  /\ UNCHANGED <<sd, threadVars, ctrl, lru, app, tcpVars, ctxVars, count>>

Connect(c) ==
  /\ pc # "stopped" /\ conn[c] = "away" /\ count.connects < MaxConnects
  /\ conn' = [conn EXCEPT ![c] = "waiting"] /\ backlog' = Append(backlog, c)
  /\ count' = [count EXCEPT !.connects = @ + 1]
  /\ UNCHANGED <<sd, threadVars, ctrlVars, lru, app, sock, inbox, ctxVars>>

\* A request whose rest c never sends.
CutShort(c) == \/ inbox[c] # <<>> /\ Last(inbox[c]) = "cut"
               \/ \E i \in Slots : sd[i].fd # NoFd /\ Peer(sd[i].fd) = c /\ sd[i].pending = "cut"
               \/ req.kind = "cut" /\ Peer(cur) = c

\* Also before the connection is accepted.
SendRequest(c) ==
  /\ conn[c] \in {"waiting", "open"} /\ count.sends < MaxSends /\ Len(inbox[c]) < MaxAhead
  /\ ~CutShort(c)
  /\ \E kind \in Kinds : inbox' = [inbox EXCEPT ![c] = Append(@, kind)]
  /\ count' = [count EXCEPT !.sends = @ + 1]
  /\ UNCHANGED <<sd, threadVars, ctrlVars, lru, app, sock, conn, backlog, ctxVars>>

Leave(c) ==
  /\ conn[c] = "open" /\ conn' = [conn EXCEPT ![c] = "left"]
  /\ UNCHANGED <<sd, threadVars, ctrlVars, lru, app, sock, inbox, backlog, ctxVars, count>>

Next == \/ Server
        \/ LookUp("close") \/ TriggerClose \/ LookUp("touch") \/ Touch \/ Stop \/ StopReturn
        \/ Deliver
        \/ \E c \in Clients : Connect(c) \/ SendRequest(c) \/ Leave(c)

Spec == Init /\ [][Next]_vars

\* The server's thread is scheduled, datagrams come through, and the application
\* task goes on with a call it has begun; clients do as they like.
FairSpec == /\ Spec /\ WF_vars(Server) /\ WF_vars(Deliver)
            /\ WF_vars(TriggerClose \/ Touch \/ StopReturn)

---------------------------------------------------------------------------
(* Properties.                                                              *)

\* The type invariant.
HttpdTypeOK ==
  /\ sd \in [Slots -> [fd : Fds \cup {NoFd}, timestamp : Nat, ctx : BOOLEAN,
                       pending : Kinds \cup {"none"}]]
  /\ pc \in {"select", "ctrl", "next", "request", "handler", "purge", "done", "fail",
             "accept", "exit", "stopped"}
  /\ rset \in [ctrl : BOOLEAN, listen : BOOLEAN, fds : SUBSET Fds]
  /\ cur \in Fds \cup {NoFd} /\ visited \subseteq Fds
  /\ req \in [kind : Kinds \cup {"none"}, ctx : BOOLEAN]
  /\ Len(ctrl) <= QueueSize /\ arrived \in 0..Len(ctrl)
  /\ app \in [pc : {"idle", "close", "touch", "stopping", "stopped"}, slot : 0..MaxSockets]
  /\ sock \in [Fds -> Clients \cup {"none"}]
  /\ conn \in [Clients -> {"away", "waiting", "open", "left"}]
  /\ heap \in Nat /\ lost \in Nat

\* Between rounds every open socket is the socket of exactly one session, so that
\* none is leaked, and no queued close or failed request closed a descriptor that
\* the table still holds (httpd_main.c:184-191, httpd_sess.c:235-244).
SocketsOwned ==
  pc \in {"select", "accept", "stopped"} =>
    /\ {fd \in Fds : sock[fd] # "none"} = Table
    /\ \A i, j \in Slots : sd[i].fd = sd[j].fd /\ sd[i].fd # NoFd => i = j

\* When the walk over the sessions ends, every session select reported has had its
\* turn, also when sessions were deleted under the walk (httpd_main.c:181-193).
NobodySkipped == pc = "accept" => rset.fds \cap Table \subseteq visited

\* A session whose turn it is has something to read, or its peer has closed: the
\* one thread never sits in recv for a session with nothing on its socket while
\* the others wait, however the table changed since select (httpd_main.c:183).
TurnHasData ==
  pc = "request" => sd[CurSlot].pending # "none" \/ Readable(cur)

\* The walk over a table that changes under it gives each ready session its turn, and
\* no other.
TurnsAreRight == NobodySkipped /\ TurnHasData

\* Between rounds every context the handlers made is that of one session still in
\* the table or one that a failed request took with it; none is freed twice, none
\* stays behind a deleted session (httpd_sess.c:95-121, httpd_parse.c:603-604).
ContextsOwned ==
  pc \in {"select", "stopped"} => heap = Cardinality({i \in Slots : sd[i].ctx}) + lost

\* Sockets and contexts have one owner each.
OneOwner == HttpdTypeOK /\ SocketsOwned /\ ContextsOwned

\* A connection that waits is served or refused, also with a full table, which the
\* purge of the session used longest ago then makes room in, unless the thread is
\* in the purge that has no end (httpd_main.c:29-48).
NewcomerServed ==
  \A c \in Clients : conn[c] = "waiting" ~> conn[c] # "waiting" \/ EndlessPurge

\* A request on a socket is read, or its connection closed, whatever the other
\* sessions do, unless the thread is in the purge that has no end.
RequestRead ==
  \A c \in Clients : inbox[c] # <<>> ~> inbox[c] = <<>> \/ EndlessPurge

\* Clients are served, those that wait and those that are in.
ClientsServed == NewcomerServed /\ RequestRead

\* httpd_stop returns once its message got into the control socket, whatever is
\* queued before it, unless the thread is in the purge that has no end
\* (httpd_main.c:357-376).
StopReturns ==
  (\E k \in 1..Len(ctrl) : ctrl[k] = Shutdown) ~> app.pc = "stopped" \/ EndlessPurge
=============================================================================

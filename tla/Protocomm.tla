----------------------------- MODULE Protocomm -----------------------------
(***************************************************************************)
(* Protocomm over HTTP: protocomm_httpd.c switches the transport session,    *)
(* protocomm.c finds the endpoint and decrypts for it, security1.c holds the *)
(* one cur_session.  The application starts and stops the service in a task  *)
(* of its own, without a lock, while the server's thread handles requests.   *)
(* The server keeps one socket (max_open_sockets = 1, lru_purge_enable); a   *)
(* client sends its next request when it has the answer to the last.         *)
(* A key agreement (sym_key and rand) is a number; the position in its key   *)
(* stream counts messages: CTR encrypts a message the same way it decrypts   *)
(* it, and moves on.                                                         *)
(***************************************************************************)
EXTENDS Integers, Sequences, SequencesExt, FiniteSetsExt

CONSTANTS Clients, Phone,  \* the phone comes back until it has a session
          Fds,             \* numbers a new socket may get
          MaxVisits,       \* connections of another client
          MaxRequests,     \* encrypted requests in a session
          MaxFaults,       \* clients that leave, time-outs, memory that runs out
          MaxServices      \* times the application starts the service

ASSUME ProtocommAssumption ==
  /\ Phone \in Clients /\ IsFiniteSet(Clients) /\ Fds # {} /\ 0 \notin Fds
  /\ {MaxVisits, MaxRequests, MaxFaults, MaxServices} \subseteq Nat /\ MaxServices # 0

VARIABLES
  app,          \* what is left of the start or stop in progress, and the services so far
  uris,         \* endpoints with a handler in the HTTP server
  endpoints,    \* pc->endpoints
  sec,          \* pc->sec is set
  session_id,   \* of protocomm_httpd.c
  cur_session,  \* of security1.c
  server,       \* where the server's thread is in common_post_handler, for which request
  conn, backlog,\* the one open socket, and the connections that wait
  client, wire, \* the clients; the request under way and its answer
  faults,
  early,        \* history: a request was handled before pc->sec was set
  garbled       \* history: an endpoint handler got bytes that were decrypted wrong

state == <<uris, endpoints, sec, session_id, cur_session>>
net   == <<conn, backlog, wire>>
hist  == <<early, garbled>>
vars  == <<app, state, server, net, client, faults, hist>>

NO_SESSION_ID == 0   \* a number no socket has (PROTOCOMM_NO_SESSION_ID is UINT32_MAX)
NULL  == [null |-> TRUE]
Gens  == 1..(Cardinality(Clients) + 2)
Kinds == {"version", "command0", "command1", "scan"}
Endpoint(kind) == CASE kind = "version" -> "proto-ver" [] kind = "scan" -> "prov-scan"
                    [] OTHER -> "prov-session"

Stranger == [step |-> "away", gen |-> 0, pos |-> 0, visits |-> 0]
Quiet    == [req |-> NULL, body |-> FALSE, answer |-> NULL]
NotFound == [kind |-> "404", gen |-> 0, pos |-> 0]
Idle     == [pc |-> "idle", req |-> NULL, clear |-> FALSE]

---------------------------------------------------------------------------
(* Start and stop of a service (conn_mgr_prov.c).                           *)

Act(a, e)  == <<[act |-> a, ep |-> e]>>
AddEp(e)   == Act("register", e) \o Act("insert", e)
RemoveEp(e) == Act("unregister", e) \o Act("remove", e)

StartScript == AddEp("proto-ver") \o AddEp("prov-session") \o Act("secure", "none")
                 \o AddEp("prov-scan")
StopScript  == Act("cleanup", "none") \o RemoveEp("prov-session")
                 \o RemoveEp("proto-ver") \o Act("halt", "none")

\* protocomm_httpd_start has returned when the rest of the start goes on.  prov-scan
\* stands for the encrypted endpoints; a stop leaves it to prov_stop.
Init ==
  /\ app = [todo |-> StartScript, services |-> 1]
  /\ uris = {} /\ endpoints = {} /\ sec = FALSE
  /\ session_id = NO_SESSION_ID /\ cur_session = NULL
  /\ server = Idle /\ conn = NULL /\ backlog = <<>> /\ wire = Quiet
  /\ client = [c \in Clients |-> Stranger]
  /\ faults = 0 /\ early = FALSE /\ garbled = FALSE

Doing(a) == app.todo # <<>> /\ app.todo[1].act = a
Ep       == app.todo[1].ep
ActDone  == app' = [app EXCEPT !.todo = Tail(@)]

\* protocomm_add_endpoint_internal and protocomm_remove_endpoint.
AppList ==
  /\ \/ Doing("register")   /\ uris' = uris \cup {Ep} /\ UNCHANGED endpoints
     \/ Doing("insert")     /\ endpoints' = endpoints \cup {Ep} /\ UNCHANGED uris
     \/ Doing("unregister") /\ uris' = uris \ {Ep} /\ UNCHANGED endpoints
     \/ Doing("remove")     /\ endpoints' = endpoints \ {Ep} /\ UNCHANGED uris
  /\ ActDone
  /\ UNCHANGED <<sec, session_id, cur_session, server, net, client, faults, hist>>

\* protocomm_set_security and, with sec1_cleanup, protocomm_unset_security.
AppSecurity ==
  /\ \/ Doing("secure") /\ sec' = TRUE /\ UNCHANGED cur_session
     \/ Doing("cleanup") /\ sec' = FALSE /\ cur_session' = NULL
  /\ ActDone
  /\ UNCHANGED <<uris, endpoints, session_id, server, net, client, faults, hist>>

\* A connection that ends takes its request and answer along.
Forget(c) == [client[c] EXCEPT !.step = "away", !.gen = 0, !.pos = 0]
Cut(c)    == client' = [client EXCEPT ![c] = Forget(c)]

\* protocomm_httpd_stop: httpd_stop waits for the thread, which closes all.
AppHalt ==
  /\ Doing("halt") /\ server.pc = "idle"
  /\ uris' = {} /\ endpoints' = {}
  /\ conn' = NULL /\ backlog' = <<>> /\ wire' = Quiet
  /\ client' = [c \in Clients |-> Forget(c)]
  /\ ActDone
  /\ UNCHANGED <<sec, session_id, cur_session, server, faults, hist>>

Running == app.todo = <<>> /\ uris # {}
Down    == app.todo = <<>> /\ uris = {}

StopService  == /\ Running /\ app' = [app EXCEPT !.todo = StopScript]
                /\ UNCHANGED <<state, server, net, client, faults, hist>>
StartService == /\ Down /\ app.services < MaxServices
                /\ app' = [todo |-> StartScript, services |-> app.services + 1]
                /\ UNCHANGED <<state, server, net, client, faults, hist>>

AppStep == AppList \/ AppSecurity \/ AppHalt

---------------------------------------------------------------------------
(* security1.c.                                                             *)

\* Is there a session for this socket?
Current(id) == cur_session # NULL /\ cur_session.id = id

NewSession(id) == [id |-> id, gen |-> 0, ctx |-> 0, pos |-> 0]

\* A key agreement nobody has used lately.
Fresh == Min(Gens \ ({client[c].gen : c \in Clients}
                      \cup (IF cur_session = NULL THEN {} ELSE {cur_session.gen, cur_session.ctx})))

\* handle_session_command0: new keys and a new rand, the cipher's context as it was.
Command0 == [cur_session EXCEPT !.gen = Fresh, !.pos = 0]

\* handle_session_command1: the context takes the key; the client's proof is
\* decrypted where the key stream stands.
Command1 == [cur_session EXCEPT !.ctx = cur_session.gen, !.pos = @ + 1]
Proven(req) == req.gen = cur_session.gen /\ req.pos = cur_session.pos

\* Mutant: the cipher's context is set up anew for each message.
Moved_restart == [cur_session EXCEPT !.pos = 1]

\* sec1_decrypt, which is also encrypt.
Moved == [cur_session EXCEPT !.pos = @ + 1]
Understood(req) == /\ Current(session_id) /\ req.gen = cur_session.ctx
                   /\ cur_session.ctx = cur_session.gen /\ req.pos = cur_session.pos

---------------------------------------------------------------------------
(* The server's thread: common_post_handler and protocomm_req_handle.       *)

Fault == faults < MaxFaults /\ faults' = faults + 1

\* The handler fails: httpd closes the socket.
Fail == /\ server' = Idle /\ conn' = NULL /\ wire' = Quiet
        /\ IF conn.there THEN Cut(conn.client) ELSE UNCHANGED client
        /\ UNCHANGED backlog

Goto(pc) == server' = [server EXCEPT !.pc = pc]

\* httpd_uri: the handler of a registered endpoint, or a 404 (whose purge of the
\* body is left out).
Begin ==
  /\ server.pc = "idle" /\ conn # NULL /\ wire.req # NULL
  /\ IF Endpoint(wire.req.kind) \in uris
       THEN /\ server' = [pc |-> IF conn.fd # session_id THEN "close" ELSE "receive",
                          req |-> wire.req, clear |-> FALSE]
       ELSE server' = [pc |-> "send", req |-> NotFound, clear |-> FALSE]
  /\ UNCHANGED <<app, state, net, client, faults, hist>>

\* Mutant: closes the session of the new socket.
CloseOld_new ==
  /\ server.pc = "close"
  /\ IF session_id # NO_SESSION_ID /\ sec /\ ~Current(conn.fd)
       THEN Fail /\ UNCHANGED <<session_id, cur_session>>
       ELSE /\ cur_session' = IF session_id # NO_SESSION_ID /\ sec THEN NULL ELSE cur_session
            /\ session_id' = NO_SESSION_ID
            /\ Goto("open") /\ UNCHANGED <<net, client>>
  /\ UNCHANGED <<app, uris, endpoints, sec, faults, hist>>

\* The session of another socket is closed when the next one makes a request.
CloseOld ==
  /\ server.pc = "close"
  /\ IF session_id # NO_SESSION_ID /\ sec /\ ~Current(session_id)
       THEN Fail /\ UNCHANGED <<session_id, cur_session>>
       ELSE /\ cur_session' = IF session_id # NO_SESSION_ID /\ sec THEN NULL ELSE cur_session
            /\ session_id' = NO_SESSION_ID
            /\ Goto("open") /\ UNCHANGED <<net, client>>
  /\ UNCHANGED <<app, uris, endpoints, sec, faults, hist>>

\* Mutant: session_id is set first.
OpenNew_first ==
  /\ server.pc = "open"
  /\ \/ /\ sec /\ ~Current(conn.fd) /\ Fault /\ Fail
        /\ cur_session' = NULL
        /\ session_id' = conn.fd /\ UNCHANGED early
     \/ /\ cur_session' = IF sec /\ ~Current(conn.fd) THEN NewSession(conn.fd) ELSE cur_session
        /\ session_id' = conn.fd
        /\ early' = (early \/ ~sec)
        /\ Goto("receive") /\ UNCHANGED <<net, client, faults>>
  /\ UNCHANGED <<app, uris, endpoints, sec, garbled>>

\* sec1_new_session, which may find no memory.
OpenNew ==
  /\ server.pc = "open"
  /\ \/ /\ sec /\ ~Current(conn.fd) /\ Fault /\ Fail
        /\ cur_session' = NULL
        /\ UNCHANGED <<session_id, early>>
     \/ /\ cur_session' = IF sec /\ ~Current(conn.fd) THEN NewSession(conn.fd) ELSE cur_session
        /\ session_id' = conn.fd
        /\ early' = (early \/ ~sec)
        /\ Goto("receive") /\ UNCHANGED <<net, client, faults>>
  /\ UNCHANGED <<app, uris, endpoints, sec, garbled>>

\* The body arrives, the receive times out, or the socket is reset; of a peer
\* that has closed in order it gets 0, again and again (Endless).
Receive ==
  /\ server.pc = "receive"
  /\ \/ wire.body /\ Goto("dispatch") /\ UNCHANGED <<net, client, faults>>
     \/ /\ ~wire.body /\ conn.there /\ Fail
        /\ IF conn.client = Phone THEN Fault ELSE UNCHANGED faults
     \/ ~conn.there /\ conn.reset /\ Fail /\ UNCHANGED faults
  /\ UNCHANGED <<app, state, hist>>

Endless == server.pc = "receive" /\ ~conn.there /\ ~conn.reset /\ ~wire.body

Answer(a) == server' = [server EXCEPT !.pc = "send", !.req = [server.req EXCEPT !.gen = a[1], !.pos = a[2]]]

\* The session and version endpoints.  Without pc->sec the session endpoint
\* answers nothing that makes sense (outlen is not set).
Dispatch ==
  /\ server.pc = "dispatch" /\ server.req.kind # "scan"
  /\ LET req == server.req
         known == Endpoint(req.kind) \in endpoints
     IN  \/ /\ known /\ (req.kind = "version" \/ ~sec)
            /\ Answer(<<0, 0>>)
            /\ UNCHANGED <<net, client, cur_session, faults>>
         \/ /\ known /\ sec /\ req.kind = "command0" /\ Current(session_id)
            /\ \/ /\ cur_session' = Command0 /\ Answer(<<Fresh, 0>>)
                  /\ UNCHANGED <<net, client, faults>>
               \/ /\ Fault /\ Fail /\ cur_session' = [cur_session EXCEPT !.gen = 0]
         \/ /\ known /\ sec /\ req.kind = "command1" /\ Current(session_id)
            /\ IF Proven(req)
                 THEN /\ cur_session' = [Command1 EXCEPT !.pos = @ + 1]
                      /\ Answer(<<req.gen, req.pos + 1>>) /\ UNCHANGED <<net, client>>
                 ELSE cur_session' = Command1 /\ Fail
            /\ UNCHANGED faults
         \/ /\ ~known \/ (sec /\ req.kind # "version" /\ ~Current(session_id))
            /\ Fail /\ UNCHANGED <<cur_session, faults>>
  /\ UNCHANGED <<app, uris, endpoints, sec, session_id, hist>>

\* A request endpoint: the result of decrypt is ignored.
Decrypt ==
  /\ server.pc = "dispatch" /\ server.req.kind = "scan"
  /\ IF Endpoint(server.req.kind) \in endpoints
       THEN /\ cur_session' = IF sec /\ Current(session_id) THEN Moved ELSE cur_session
            /\ garbled' = (garbled \/ (sec /\ ~Understood(server.req)))
            /\ server' = [server EXCEPT !.pc = "handler", !.clear = ~sec]
            /\ UNCHANGED <<net, client>>
       ELSE Fail /\ UNCHANGED <<cur_session, garbled>>
  /\ UNCHANGED <<app, uris, endpoints, sec, session_id, faults, early>>

\* The endpoint's handler takes its time, and may fail.
Handler ==
  /\ server.pc = "handler"
  /\ \/ Goto("encrypt") /\ UNCHANGED <<net, client>>
     \/ Fail
  /\ UNCHANGED <<app, state, faults, hist>>

\* Mutant: the answer does not move the key stream on.
Encrypt_still ==
  /\ server.pc = "encrypt" /\ (server.clear \/ sec)
  /\ IF server.clear THEN Answer(<<0, 0>>) /\ UNCHANGED cur_session
     ELSE IF Current(session_id)
       THEN Answer(<<cur_session.ctx, cur_session.pos>>) /\ UNCHANGED cur_session
       ELSE Answer(<<0, 0>>) /\ UNCHANGED cur_session
  /\ UNCHANGED <<app, uris, endpoints, sec, session_id, net, client, faults, hist>>

\* pc->sec is read again for the answer.
Encrypt ==
  /\ server.pc = "encrypt" /\ (server.clear \/ sec)
  /\ IF server.clear THEN Answer(<<0, 0>>) /\ UNCHANGED cur_session
     ELSE IF Current(session_id)
       THEN Answer(<<cur_session.ctx, cur_session.pos>>) /\ cur_session' = Moved
       ELSE Answer(<<0, 0>>) /\ UNCHANGED cur_session
  /\ UNCHANGED <<app, uris, endpoints, sec, session_id, net, client, faults, hist>>

\* protocomm_unset_security has cleared pc->sec while the handler ran.
Undefined == server.pc = "encrypt" /\ ~server.clear /\ ~sec

Send ==
  /\ server.pc = "send"
  /\ IF conn.there THEN /\ wire' = [Quiet EXCEPT !.answer = server.req]
                        /\ server' = Idle /\ UNCHANGED <<conn, backlog, client>>
                   ELSE Fail
  /\ UNCHANGED <<app, state, faults, hist>>

\* httpd_accept_conn
Accept ==
  /\ server.pc = "idle" /\ conn = NULL /\ backlog # <<>>
  /\ \E fd \in Fds : conn' = [client |-> Head(backlog), fd |-> fd, there |-> TRUE, reset |-> FALSE]
  /\ backlog' = Tail(backlog)
  /\ client' = [client EXCEPT ![Head(backlog)].step = "connected"]
  /\ UNCHANGED <<app, state, server, wire, faults, hist>>

\* With the table full the open connection is closed for the
\* one that waits; a second close that was queued meanwhile hits the newcomer.
Purge ==
  /\ server.pc = "idle" /\ conn # NULL
  /\ \/ backlog # <<>> /\ UNCHANGED faults
     \/ Fault
  /\ Fail
  /\ UNCHANGED <<app, state, hist>>

\* recv tells that the client has gone.
Notice ==
  /\ server.pc = "idle" /\ conn # NULL /\ ~conn.there /\ wire.req = NULL
  /\ Fail
  /\ UNCHANGED <<app, state, faults, hist>>

ServerStep == \/ Begin \/ CloseOld \/ OpenNew \/ Receive \/ Dispatch \/ Decrypt \/ Handler
              \/ Encrypt \/ Send \/ Accept \/ Purge \/ Notice

---------------------------------------------------------------------------
(* The clients, which follow the protocol.                                  *)

Open(c)   == conn # NULL /\ conn.client = c /\ conn.there
Serving   == app.todo # <<>> \/ uris # {}
MayAsk(c) == CASE client[c].step = "connected" -> {"version", "command0"}
               [] client[c].step = "versioned" -> {"command0"}
               [] client[c].step = "agreed"    -> {"command1"}
               [] client[c].step = "up" /\ client[c].pos < 2 + 2 * MaxRequests -> {"scan"}
               [] OTHER -> {}

Connect(c) ==
  /\ client[c].step = "away" /\ Serving
  /\ c # Phone => client[c].visits < MaxVisits
  /\ client' = [client EXCEPT ![c].step = "waiting",
                              ![c].visits = IF c = Phone THEN 0 ELSE @ + 1]
  /\ backlog' = Append(backlog, c)
  /\ UNCHANGED <<app, state, server, conn, wire, faults, hist>>

\* A command1 and what follows it are encrypted.
Ask(c) ==
  /\ Open(c) /\ wire = Quiet /\ server.pc = "idle"
  /\ \E kind \in MayAsk(c) :
       /\ wire' = [Quiet EXCEPT !.req = [kind |-> kind, gen |-> client[c].gen, pos |-> client[c].pos]]
       /\ client' = IF kind \in {"version", "command0"} THEN client
                                                        ELSE [client EXCEPT ![c].pos = @ + 1]
  /\ UNCHANGED <<app, state, server, conn, backlog, faults, hist>>

SendBody(c) ==
  /\ Open(c) /\ wire.req # NULL /\ ~wire.body
  /\ wire' = [wire EXCEPT !.body = TRUE]
  /\ UNCHANGED <<app, state, server, conn, backlog, client, faults, hist>>

\* The client is the first to close: in order, or with a reset.
Closed(c) == \E how \in BOOLEAN : conn' = [conn EXCEPT !.there = FALSE, !.reset = how]

\* What the answer makes of the client, when it makes sense.
Heard(c, a) == CASE a.kind = "version"  -> [client[c] EXCEPT !.step = "versioned"]
                 [] a.kind = "command0" -> [client[c] EXCEPT !.step = "agreed", !.gen = a.gen, !.pos = 0]
                 [] OTHER               -> [client[c] EXCEPT !.step = "up", !.pos = @ + 1]
Sense(c, a) == CASE a.kind = "version"  -> TRUE
                 [] a.kind = "404"      -> FALSE
                 [] a.kind = "command0" -> a.gen # 0
                 [] OTHER               -> a.gen = client[c].gen /\ a.pos = client[c].pos

Hear(c) ==
  /\ Open(c) /\ wire.answer # NULL
  /\ wire' = Quiet
  /\ IF Sense(c, wire.answer)
       THEN client' = [client EXCEPT ![c] = Heard(c, wire.answer)] /\ UNCHANGED conn
       ELSE Cut(c) /\ Closed(c)
  /\ UNCHANGED <<app, state, server, backlog, faults, hist>>

Leave(c) ==
  /\ client[c].step # "away"
  /\ IF c = Phone THEN Fault ELSE UNCHANGED faults
  /\ Cut(c)
  /\ IF Open(c) THEN /\ Closed(c) /\ wire' = [wire EXCEPT !.answer = NULL]
                     /\ UNCHANGED backlog
                ELSE /\ \E i \in DOMAIN backlog : backlog[i] = c /\ backlog' = RemoveAt(backlog, i)
                     /\ UNCHANGED <<conn, wire>>
  /\ UNCHANGED <<app, state, server, hist>>

ClientStep(c) == Connect(c) \/ Ask(c) \/ SendBody(c) \/ Hear(c)

Next == \/ AppStep \/ StopService \/ StartService \/ ServerStep
        \/ \E c \in Clients : ClientStep(c) \/ Leave(c)

Spec == Init /\ [][Next]_vars

(* The tasks and the phone go on when they can; the application does what it  *)
(* has begun, and need not stop the service.                                *)
FairSpec == Spec /\ WF_vars(AppStep) /\ WF_vars(ServerStep) /\ WF_vars(ClientStep(Phone))

---------------------------------------------------------------------------
(* Properties.                                                              *)

Messages == [kind : Kinds \cup {"404"}, gen : Gens \cup {0}, pos : Nat]

\* The session of SecureSession: who has one, whose turn it is, and the two ends.  A 404
\* leaves the request undeciphered.
Up     == {c \in Clients : client[c].step = "up" /\ Open(c) /\ sec}
Told   == \/ server.pc = "send" /\ server.req.kind # "404"
          \/ wire.answer # NULL /\ wire.answer.kind # "404"
Turn   == IF Up = {} \/ wire = Quiet THEN "client"
          ELSE IF server.pc \in {"handler", "encrypt"} THEN "handler"
          ELSE IF Told THEN "answer" ELSE "device"
Mine   == IF Up = {} THEN [key |-> 0, at |-> 0]
          ELSE [key |-> client[conn.client].gen, at |-> client[conn.client].pos]
Theirs == IF Up = {} THEN [key |-> 0, at |-> 0] ELSE [key |-> cur_session.ctx, at |-> cur_session.pos]

Session == INSTANCE SecureSession WITH Keys <- Gens, up <- Up, turn <- Turn, mine <- Mine, theirs <- Theirs

\* Type invariant.
ProtoTypeOK ==
  /\ app.services \in 1..MaxServices
  /\ uris \subseteq {Endpoint(k) : k \in Kinds} /\ endpoints \subseteq {Endpoint(k) : k \in Kinds}
  /\ session_id \in Fds \cup {NO_SESSION_ID}
  /\ cur_session \in {NULL} \cup [id : Fds, gen : Gens \cup {0}, ctx : Gens \cup {0}, pos : Nat]
  /\ server.pc \in {"idle", "close", "open", "receive", "dispatch", "handler", "encrypt", "send"}
  /\ server.req \in Messages \cup {NULL} /\ (server.pc # "idle" => conn # NULL)
  /\ \A c \in Clients : client[c].step = "waiting" <=> \E i \in DOMAIN backlog : backlog[i] = c
  /\ wire.req \in Messages \cup {NULL} /\ wire.answer \in Messages \cup {NULL}

\* Whenever a client with a session and the device wait for one another, they
\* hold the same key and stand at the same place in its key stream, in the session
\* of the socket they share: whatever was purged, lost, failed or retried before.
InStep ==
  \A c \in Clients :
    (client[c].step = "up" /\ Open(c) /\ wire = Quiet /\ server.pc = "idle" /\ sec) =>
      /\ session_id = conn.fd /\ Current(session_id)
      /\ cur_session.gen = client[c].gen /\ cur_session.ctx = client[c].gen
      /\ cur_session.pos = client[c].pos

\* While security is set an endpoint's handler gets what the client wrote:
\* protocomm_req_handle ignores what decrypt says.
HandlersHear == ~garbled

\* Both ends of a session stay together, between requests and in them.
SessionInStep == ProtoTypeOK /\ InStep /\ HandlersHear

\* As long as a client's session lasts, each end moves in its turn, by its own messages:
\* no request of another kind, no other client, purge, fault, start or stop moves it or
\* puts another session in its place (security1.c:463-482, protocomm_httpd.c:43-69).
SessionKept == Session!SessionSpec

\* session_id names a session that is not there: it can be neither used nor closed.
Orphaned == server.pc = "idle" /\ sec /\ session_id # NO_SESSION_ID /\ ~Current(session_id)

\* The transport and security1 lose one another only by a request before pc->sec
\* is set, or by a stop of the service: not by memory that runs out, nor clients.
NoOrphan == Orphaned => early \/ app.services > 1

\* The phone, which comes back as long as it has no session, gets one.
PhoneGetsSession ==
  (Running /\ client[Phone].step # "up") ~> (client[Phone].step = "up" \/ ~Running \/ Orphaned \/ Endless)
=============================================================================

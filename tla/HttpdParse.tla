----------------------------- MODULE HttpdParse -----------------------------
(***************************************************************************)
(* How the HTTP server cuts a connection's bytes into requests: the parser's *)
(* callbacks and their pauses (httpd_parse.c), the blocks read into the      *)
(* scratch buffer, the bytes put back into pending_data and the body that is *)
(* read by the handler or thrown away (httpd_txrx.c).  Bytes are numbered by *)
(* their place in the connection; a byte of the model stands for one or more *)
(* of a request (a line end is one).  http_parser is external: it calls back *)
(* at the end of a token or of a block, and stops after the callback that    *)
(* paused it.                                                                *)
(***************************************************************************)
EXTENDS Integers, Sequences, SequencesExt

CONSTANTS BlockSize,   \* PARSER_BLOCK_SIZE, also the size of pending_data
          ScratchSize, \* sizeof(scratch)
          Requests,    \* what a client may send
          MaxRequests, \* bound: requests on the connection
          HangUps,     \* whether the client may close: subset of BOOLEAN
          Takes,       \* lengths a handler asks httpd_req_recv for
          PurgeSize    \* what httpd_req_delete asks for: sizeof(dummy) - 1

\* A request: lengths of its URL, of the values of its headers and of its body, and
\* what the server refuses in it.  The callbacks are written for at least one header.
ASSUME ParseAssumption ==
  /\ BlockSize \in Nat \ {0} /\ ScratchSize \in Nat \ {0} /\ MaxRequests \in Nat
  /\ \A r \in Requests : /\ r.url \in Nat \ {0} /\ r.values \in Seq(Nat) /\ r.body \in Nat
                         /\ r.values # <<>> /\ r.refuse \in {"no", "url", "syntax", "upgrade"}
  /\ HangUps \subseteq BOOLEAN /\ Takes \subseteq Nat \ {0}
  /\ PurgeSize \in Nat \ {0}

VARIABLES
  plan, stream, hangup,  \* the client: its requests, their bytes, whether it closes after the last
  wire,          \* bytes received from the socket so far
  pending,       \* pending_data
  phase, nth,    \* the server: where it is, and which request it is at
  scratch, offset, at,  \* scratch up to raw_datalen, offset of the block, the parser's place
  remaining,     \* remaining_len
  parser,        \* parser_data_t
  error,
  used, inOrder  \* history: the last byte used, and whether each was used after the one before

client == <<plan, stream, hangup>>
bytes  == <<used, inOrder>>
parseVars == <<client, wire, pending, phase, nth, scratch, offset, at, remaining, parser, error, bytes>>

---------------------------------------------------------------------------
(* The client's bytes.                                                      *)

Times(cls, n) == [i \in 1..n |-> cls]

\* Method, URL, version, line end; field (two bytes: a block may end in it), colon,
\* value, line end; last line end; body.
Bytes(r) ==
  <<"method">> \o Times("url", r.url) \o <<"version", "line">>
  \o FlattenSeq([h \in DOMAIN r.values |-> <<"field", "field", "colon">> \o Times("value", r.values[h]) \o <<"line">>])
  \o <<"end">> \o Times("body", r.body)

LastOf(k) == Len(FlattenSeq([j \in 1..k |-> Bytes(plan[j])]))
EndOf(k)  == LastOf(k) - plan[k].body   \* the last line end of its headers
LineOf(r) == r.url + 3
HeaderOf(r) == Len(Bytes(r)) - LineOf(r) - r.body

Numbers(first, last) == [i \in 1..(last - first + 1) |-> first + i - 1]
Smaller(a, b) == IF a < b THEN a ELSE b

NewParser == [status |-> "IDLE", at |-> 0, length |-> 0, paused |-> FALSE, pre_parsed |-> 0]
NoError   == "none"

ParseInit ==
  /\ plan \in UNION {[1..n -> Requests] : n \in 1..MaxRequests} /\ hangup \in HangUps
  /\ stream = FlattenSeq([k \in DOMAIN plan |-> Bytes(plan[k])])
  /\ wire = 0 /\ pending = <<>>
  /\ phase = "read" /\ nth = 1
  /\ scratch = <<>> /\ offset = 0 /\ at = 0 /\ remaining = 0
  /\ parser = NewParser /\ error = NoError
  /\ used = 0 /\ inOrder = TRUE

---------------------------------------------------------------------------
(* http_parser over a block, a byte a step: it is at place `at' of scratch.  A   *)
(* callback for a part of a token comes at the token's end or at the end of the *)
(* block, whichever is first; as each adds its length to the last, they are     *)
(* taken byte by byte here.                                                     *)

Byte   == scratch[at + 1]
Class  == stream[Byte]
Status == parser.status

\* The callbacks change the parser data only, but for what they name.
Only(p) == parser' = p /\ UNCHANGED <<scratch, pending, remaining, error>>

\* A refused request: the error is in parser_data.
Refuse(err) == /\ parser' = [parser EXCEPT !.status = "FAILED"] /\ error' = err
               /\ UNCHANGED <<scratch, pending, remaining>>

\* '\0' behind the last header's value.
Terminated == [scratch EXCEPT ![parser.at + parser.length + 1] = 0]

\* pause_parsing and httpd_unrecv: the bytes from this place to the end of the block go
\* to pending_data, to be read, and in part skipped, once more.
Pause(p, place) ==
  LET left == Len(scratch) - place
  IN  /\ pending' = SubSeq(scratch, place + 1, place + Smaller(left, BlockSize))
      /\ parser' = IF left > BlockSize THEN [p EXCEPT !.status = "FAILED", !.pre_parsed = left]
                   ELSE [p EXCEPT !.paused = TRUE, !.pre_parsed = left]
      /\ UNCHANGED error

cb_url ==
  /\ Class = "url"
  /\ Only(IF Status = "IDLE" THEN [parser EXCEPT !.status = "URL", !.at = at, !.length = 1]
          ELSE [parser EXCEPT !.length = @ + 1])

\* The version is part of no callback; the parser may find a mistake there.
Version ==
  /\ Class = "version"
  /\ IF plan[nth].refuse = "syntax" THEN Refuse("syntax") ELSE Only(parser)

\* The first header pauses (verify_url has passed): from here on the headers are
\* received from the start of scratch.
cb_header_field ==
  /\ Class = "field"
  /\ \/ /\ Status = "URL" /\ plan[nth].refuse # "url" /\ UNCHANGED <<scratch, remaining>>
        /\ Pause([parser EXCEPT !.status = "FIELD", !.at = 0, !.length = 1], at)
     \/ Status = "URL" /\ plan[nth].refuse = "url" /\ Refuse("url")
     \/ /\ Status = "VALUE" /\ scratch' = Terminated /\ UNCHANGED <<pending, remaining, error>>
        /\ parser' = [parser EXCEPT !.status = "FIELD", !.at = at, !.length = 1]
     \/ Status = "FIELD" /\ Only([parser EXCEPT !.length = @ + 1])

\* An empty value is called back with no length, at the line end behind it.
cb_header_value ==
  LET length == IF Class = "value" THEN 1 ELSE 0
  IN  /\ Class = "value" \/ (Class = "line" /\ Status = "FIELD")
      /\ Only(IF Status = "FIELD"
              THEN [parser EXCEPT !.status = "VALUE", !.at = at, !.length = length]
              ELSE [parser EXCEPT !.length = @ + length])

\* cb_headers_complete, and what follows it if there is a body.
Body == [parser EXCEPT !.status = "BODY", !.at = @ + parser.length]

cb_headers_complete ==
  /\ Class = "end" /\ plan[nth].body > 0 /\ plan[nth].refuse # "upgrade"
  /\ scratch' = Terminated /\ remaining' = plan[nth].body
  /\ parser' = Body
  /\ UNCHANGED <<pending, error>>

cb_headers_refused == Class = "end" /\ plan[nth].refuse = "upgrade" /\ Refuse("upgrade")

Complete(p) == [p EXCEPT !.status = "COMPLETE", !.at = 0, !.length = 0]

\* With no body the message is complete as well: it ends two line ends behind the
\* last value.
cb_no_body ==
  /\ Class = "end" /\ plan[nth].body = 0 /\ plan[nth].refuse # "upgrade"
  /\ scratch' = Terminated /\ remaining' = 0
  /\ Pause(Complete(Body), Body.at + 2)

\* The body's first byte is seen, not used.
cb_on_body ==
  /\ Class = "body" /\ UNCHANGED <<scratch, remaining>>
  /\ Pause(Complete(parser), at)

NoCallback ==
  /\ Class \in {"method", "colon"} \/ (Class = "line" /\ Status # "FIELD")
  /\ Only(parser)

Callback == \/ cb_url \/ Version \/ cb_header_field \/ cb_header_value \/ cb_headers_complete
            \/ cb_headers_refused \/ cb_no_body \/ cb_on_body \/ NoCallback

\* The parser stops at the end of the block, when a callback fails, and behind the
\* token whose callback paused it.
Stopped == \/ at = Len(scratch) \/ Status \in {"FAILED", "COMPLETE"}
           \/ parser.paused /\ stream[scratch[at]] # "field"

ParseByte ==
  /\ phase = "parse" /\ ~Stopped
  /\ Callback
  /\ at' = at + 1
  /\ IF Class = "body" THEN UNCHANGED bytes
     ELSE used' = Byte /\ inOrder' = (inOrder /\ Byte = used + 1)
  /\ UNCHANGED <<client, wire, phase, nth, offset>>

---------------------------------------------------------------------------
(* The server's thread.                                                     *)

\* Mutant: waits for the socket whatever is pending already.
Receipts_wait(length, halt) ==
  LET old == Smaller(Len(pending), length)
  IN  {[old |-> old, new |-> new] :
         new \in (IF old = length THEN 0 ELSE 1)..Smaller(length - old, Len(stream) - wire)}

\* What httpd_recv_with_opt may get for `length' bytes: bytes from pending_data
\* first; then, unless it is told to halt, what the socket has.
Receipts(length, halt) ==
  LET old == Smaller(Len(pending), length)
  IN  IF old > 0 /\ (old = length \/ halt) THEN {[old |-> old, new |-> 0]}
      ELSE {[old |-> old, new |-> new] : new \in 0..Smaller(length - old, Len(stream) - wire)}

Got(r)   == SubSeq(pending, 1, r.old) \o Numbers(wire + 1, wire + r.new)
Take(r)  == /\ pending' = SubSeq(pending, r.old + 1, Len(pending))
            /\ wire' = wire + r.new
Some(r)  == r.old + r.new > 0
HungUp   == hangup /\ wire = Len(stream) /\ pending = <<>>

Room == Smaller(BlockSize, ScratchSize - offset)

\* read_block.
ReadBlock ==
  /\ phase = "read" /\ Room > 0
  /\ \E r \in Receipts(Room, TRUE) :
       Some(r) /\ Take(r) /\ scratch' = SubSeq(scratch, 1, offset) \o Got(r)
  /\ phase' = "block"
  /\ UNCHANGED <<client, nth, offset, at, remaining, parser, error, bytes>>

\* read_block in a full buffer returns 0, which parse_block takes for too big a request.
TooBig ==
  /\ phase = "read" /\ Room = 0
  /\ phase' = "refused" /\ error' = "too big"
  /\ UNCHANGED <<client, wire, pending, nth, scratch, offset, at, remaining, parser, bytes>>

\* The rest of a request does not come in time, or the client has closed.  A read that
\* waits though all has come would end so too; here it waits, for RequestEnds to see it.
NoMore ==
  /\ phase = "read" /\ pending = <<>> /\ (wire < Len(stream) \/ HungUp)
  /\ phase' = "closed"
  /\ UNCHANGED <<client, wire, pending, nth, scratch, offset, at, remaining, parser, error, bytes>>

\* continue_parsing: of a block that was put back, what the parser has had already.
Skip == IF parser.paused THEN Smaller(Len(scratch) - offset, parser.pre_parsed) ELSE 0

\* parse_block up to http_parser_execute.
Continue ==
  /\ phase = "block"
  /\ phase' = "parse" /\ at' = offset + Skip
  /\ parser' = [parser EXCEPT !.paused = FALSE, !.pre_parsed = @ - Skip]
  /\ UNCHANGED <<client, wire, pending, nth, scratch, offset, remaining, error, bytes>>

\* Mutant: after a pause the next block is read behind the first line.
BlockEnd_behind ==
  /\ phase = "parse" /\ Stopped
  /\ LET left == Len(scratch) - at
     IN  parser' = IF parser.paused THEN [parser EXCEPT !.pre_parsed = @ - left] ELSE parser
  /\ offset' = Len(scratch)
  /\ phase' = CASE Status = "FAILED" -> "refused" [] Status = "COMPLETE" -> "handler" [] OTHER -> "read"
  /\ UNCHANGED <<client, wire, pending, nth, scratch, at, remaining, error, bytes>>

\* The rest of parse_block.  After a pause the next block goes to the start of
\* scratch, else behind this one.
BlockEnd ==
  /\ phase = "parse" /\ Stopped
  /\ LET left == Len(scratch) - at
     IN  parser' = IF parser.paused THEN [parser EXCEPT !.pre_parsed = @ - left] ELSE parser
  /\ offset' = IF parser.paused THEN 0 ELSE Len(scratch)
  /\ phase' = CASE Status = "FAILED" -> "refused" [] Status = "COMPLETE" -> "handler" [] OTHER -> "read"
  /\ UNCHANGED <<client, wire, pending, nth, scratch, at, remaining, error, bytes>>

\* Mutant: what comes is counted by what was asked for.
BodyRead_asked(length) ==
  LET asked == Smaller(length, remaining)
  IN  \E r \in Receipts(asked, FALSE) :
        /\ Some(r) /\ Take(r)
        /\ remaining' = remaining - asked
        /\ used' = used + r.old + r.new
        /\ inOrder' = (inOrder /\ Got(r) = Numbers(used + 1, used + r.old + r.new))

\* httpd_req_recv: never more than is left of the body.
BodyRead(length) ==
  \E r \in Receipts(Smaller(length, remaining), FALSE) :
    /\ Some(r) /\ Take(r)
    /\ remaining' = remaining - (r.old + r.new)
    /\ used' = used + r.old + r.new
    /\ inOrder' = (inOrder /\ Got(r) = Numbers(used + 1, used + r.old + r.new))

\* The URI's handler reads as much of the body as it likes, and returns.
HandlerReads ==
  /\ phase = "handler" /\ remaining > 0
  /\ \E length \in Takes : BodyRead(length)
  /\ UNCHANGED <<client, phase, nth, scratch, offset, at, parser, error>>

HandlerReturns ==
  /\ phase = "handler" /\ phase' \in {"purge", "closed"}
  /\ UNCHANGED <<client, wire, pending, nth, scratch, offset, at, remaining, parser, error, bytes>>

\* httpd_req_delete throws the rest of the body away.
PurgeBody ==
  /\ phase = "purge" /\ remaining > 0
  /\ BodyRead(PurgeSize)
  /\ UNCHANGED <<client, phase, nth, scratch, offset, at, parser, error>>

PurgeFails ==
  /\ phase = "purge" /\ remaining > 0 /\ pending = <<>> /\ ~HungUp
  /\ phase' = "closed"
  /\ UNCHANGED <<client, wire, pending, nth, scratch, offset, at, remaining, parser, error, bytes>>

\* httpd_req_new, with a new parser.
NextRequest ==
  /\ phase = "purge" /\ remaining = 0 /\ nth < Len(plan)
  /\ phase' = "read" /\ nth' = nth + 1
  /\ scratch' = <<>> /\ offset' = 0 /\ parser' = NewParser
  /\ UNCHANGED <<client, wire, pending, at, remaining, error, bytes>>

ParseNext == \/ ReadBlock \/ TooBig \/ NoMore \/ Continue \/ ParseByte \/ BlockEnd
             \/ HandlerReads \/ HandlerReturns \/ PurgeBody \/ PurgeFails \/ NextRequest

ParseSpec == ParseInit /\ [][ParseNext]_parseVars

\* The thread runs, and a wait for the client ends: it sends, or the time is up.
ParseFairSpec == ParseSpec /\ WF_parseVars(ParseNext)

---------------------------------------------------------------------------
(* Properties.                                                              *)

\* The type invariant.
ParseTypeOK ==
  /\ wire \in 0..Len(stream) /\ pending \in Seq(1..Len(stream)) /\ Len(pending) <= BlockSize
  /\ phase \in {"read", "block", "parse", "handler", "purge", "refused", "closed"} /\ nth \in 1..Len(plan)
  /\ scratch \in Seq(0..Len(stream)) /\ Len(scratch) <= ScratchSize
  /\ offset \in 0..ScratchSize /\ at \in 0..ScratchSize /\ remaining \in Nat
  /\ parser.pre_parsed \in 0..BlockSize

\* Every byte of the connection is used once and in order, by the parser, by a handler
\* or by the purge, however the blocks cut the requests and whatever was put back
\* and skipped (httpd_parse.c:142-176, 420-474).
UsedInOrder == inOrder

\* A request is given exactly its body: what is left to read of it is what is left of
\* it on the connection, and what follows belongs to the next request, also when a
\* handler fails to read its body (httpd_parse.c:579-607, httpd_txrx.c:448-477).
BodyIsItsOwn ==
  phase \in {"handler", "purge"} => used + remaining = LastOf(nth)

\* No byte is lost, used twice or given to another request.
BytesInOrder == ParseTypeOK /\ UsedInOrder /\ BodyIsItsOwn

\* The headers lie complete and in order at the start of scratch when the handler is
\* called, each value ended by a '\0' in place of its line end: the look-ups walk
\* over them by strlen (httpd_parse.c:184-300, 735-768).
HeadersKept ==
  phase = "handler" =>
    LET first == EndOf(nth) - HeaderOf(plan[nth]) + 1
        kept  == [i \in 1..HeaderOf(plan[nth]) - 1 |->
                    IF stream[first + i - 1] = "line" THEN 0 ELSE first + i - 1]
    IN  SubSeq(scratch, 1, HeaderOf(plan[nth]) - 1) = kept

\* A request is refused for its size only if it does not fit: its first line with a
\* byte of the first header, or its headers with a byte of the body.
TooBigIsBig ==
  error = "too big" => \/ LineOf(plan[nth]) + 1 > ScratchSize
                       \/ HeaderOf(plan[nth]) + (IF plan[nth].body > 0 THEN 1 ELSE 0) > ScratchSize

\* scratch takes the headers of every request they fit in.
HeadersFit == HeadersKept /\ TooBigIsBig

\* httpd_req_delete never ends when the client closes in the middle of the body.
EndlessBody == phase = "purge" /\ remaining > 0 /\ HungUp

\* A request that has come is handed to its handler and finished, refused, or its
\* connection closed; parsing goes on after each pause (httpd_parse.c:506-524).
RequestEnds ==
  \A k \in 1..MaxRequests :
    phase = "block" /\ nth = k ~> \/ phase \in {"refused", "closed"} \/ nth > k \/ EndlessBody
                                  \/ phase = "purge" /\ remaining = 0
=============================================================================

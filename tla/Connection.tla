----------------------------- MODULE Connection -----------------------------
(***************************************************************************)
(* app::connection_handler::handle_connection on one client connection,    *)
(* with http::read_header_block and http::buffer below it, against a       *)
(* client that sends requests in pieces of any size, stalls, or leaves.    *)
(*                                                                         *)
(* A byte is <<k, i>>, the i-th byte of the client's k-th request; the     *)
(* byte numbered req[k].len ends the header block of request k, and a body *)
(* may follow it.  Bytes the handler read past the end of a header block   *)
(* are lost with the buffer, and bytes of a body it did not read are read  *)
(* as the next request, which is why what is parsed next may not start at  *)
(* the beginning of a request.                                             *)
(***************************************************************************)
EXTENDS Request

CONSTANTS
    Clients,    \* clients: [requests, waits]; waits: for each response
    Max,        \* max_request_header_bytes
    Chunk,      \* bytes offered to one recv: buffer::write_span's min_free
    Https       \* server_config::https_enabled

\* A client is a list of requests; a request has the length of its header
\* block and of its body, the text of the block, and what the client means.
ASSUME ClientsSendRequests ==
    \A c \in Clients :
        /\ c \in [requests : Seq({c.requests[k] : k \in DOMAIN c.requests}),
                 waits : BOOLEAN]
        /\ \A k \in DOMAIN c.requests :
              /\ c.requests[k].len \in Nat \ {0} /\ c.requests[k].body \in Nat
              /\ c.requests[k].good \in BOOLEAN /\ c.requests[k].keep \in BOOLEAN
ASSUME MaxPositive == Max \in Nat \ {0}
ASSUME ChunkPositive == Chunk \in Nat \ {0}
ASSUME HttpsIsBoolean == Https \in BOOLEAN

VARIABLES
    req,        \* the client's requests
    waits,      \* it sends a request only after the response to the one before
    sent,       \* the last byte the client sent: <<request, byte>>
    gone,       \* the client closed its side
    inbox,      \* bytes on their way to the server
    pc,         \* where handle_connection is
    first,      \* first_request
    rto,        \* receive timeout in force: "io" or "idle"
    buffer,     \* http::buffer of the current request
    parsed,     \* the request being handled: [req, keep]
    resp,       \* the response being written
    log,        \* access log records of this connection
    out         \* responses written: [resp, sent]; "lost" if send_all found the
                \* peer gone

clientVars == <<req, waits, sent, gone>>
vars == <<req, waits, sent, gone, inbox, pc, first, rto, buffer, parsed, resp, log, out>>

Requests == Len(req)
Byte == (1..Requests) \X (Nat \ {0})
Parsed == [req : 0..Requests, keep : BOOLEAN]
Response == [status : {"handled", "bad", "timeout", "large"},
             req : 0..Requests, close : BOOLEAN, hsts : BOOLEAN]
NoRequest == [req |-> 0, keep |-> FALSE]
ErrorResponse(status) == [status |-> status, req |-> 0, close |-> TRUE, hsts |-> FALSE]

TypeOK ==
    /\ [requests |-> req, waits |-> waits] \in Clients
    /\ sent \in (0..Requests) \X Nat
    /\ gone \in BOOLEAN
    /\ inbox \in Seq(Byte)
    /\ pc \in {"new", "arm", "read", "parse", "handle", "send", "end"}
    /\ first \in BOOLEAN
    /\ rto \in {"io", "idle"}
    /\ buffer \in Seq(Byte)
    /\ parsed \in Parsed
    /\ resp \in Response
    /\ log \in Seq(Response)
    /\ out \in Seq([resp : Response, sent : {"all", "part", "lost"}])

Init ==
    /\ \E client \in Clients : req = client.requests /\ waits = client.waits
    /\ sent = <<0, 0>>
    /\ gone = FALSE
    /\ inbox = <<>>
    /\ pc = "new"
    /\ first = TRUE
    /\ rto = "io"
    /\ buffer = <<>>
    /\ parsed = NoRequest
    /\ resp = ErrorResponse("timeout")
    /\ log = <<>>
    /\ out = <<>>

-----------------------------------------------------------------------------
(* The client.                                                             *)

\* All bytes of the request being sent are out.
RequestSent == sent[1] # 0 => sent[2] = req[sent[1]].len + req[sent[1]].body

Emit(b) ==
    /\ sent' = b
    /\ inbox' = Append(inbox, b)

ClientSends ==
    /\ ~gone
    /\ \/ /\ ~RequestSent
          /\ Emit(<<sent[1], sent[2] + 1>>)
       \/ /\ RequestSent
          /\ sent[1] < Requests
          /\ waits => Len(out) = sent[1]
          /\ Emit(<<sent[1] + 1, 1>>)
    /\ UNCHANGED <<req, waits, gone, pc, first, rto, buffer, parsed, resp, log, out>>

ClientLeaves ==
    /\ ~gone
    /\ gone' = TRUE
    /\ UNCHANGED <<req, waits, sent, inbox, pc, first, rto, buffer, parsed, resp, log, out>>

-----------------------------------------------------------------------------
(* handle_connection.                                                      *)

\* Create the stream, set both timeouts, do the TLS handshake; any failure
\* ends the connection without a response.
Prepare ==
    /\ pc = "new"
    /\ pc' \in {"arm", "end"}
    /\ UNCHANGED <<clientVars, inbox, first, rto, buffer, parsed, resp, log, out>>

\* Defect: the buffer of the previous request is used again.
ArmTimeoutSameBuffer ==
    /\ pc = "arm"
    /\ rto' = IF first THEN "io" ELSE "idle"
    /\ pc' = "read"
    /\ UNCHANGED <<clientVars, inbox, first, buffer, parsed, resp, log, out>>

\* Top of the request loop: the receive timeout of this turn (setting it may
\* fail) and a buffer of its own.
ArmTimeout ==
    /\ pc = "arm"
    /\ \/ /\ rto' = IF first THEN "io" ELSE "idle"
          /\ buffer' = <<>>
          /\ pc' = "read"
       \/ /\ pc' = "end"
          /\ UNCHANGED <<rto, buffer>>
    /\ UNCHANGED <<clientVars, inbox, first, parsed, resp, log, out>>

EndsHeader(b) == b[2] = req[b[1]].len
HeaderEnds == {i \in 1..Len(buffer) : EndsHeader(buffer[i])}

\* find_header_end: the length of the header block at the front of the buffer.
HeaderLength == CHOOSE i \in HeaderEnds : \A j \in HeaderEnds : i <= j

\* read_header_block found the end of a header block.
HeaderComplete ==
    /\ pc = "read"
    /\ HeaderEnds # {}
    /\ pc' = "parse"
    /\ UNCHANGED <<clientVars, inbox, first, rto, buffer, parsed, resp, log, out>>

\* Defect: the response is not logged.
RespondUnlogged(r) ==
    /\ resp' = r
    /\ pc' = "send"
    /\ UNCHANGED log

\* Serialise, log, and then write; the record says what is about to be sent.
Respond(r) ==
    /\ resp' = r
    /\ log' = Append(log, r)
    /\ pc' = "send"

\* max_bytes are buffered and the header block has not ended: 431.
HeaderTooLarge ==
    /\ pc = "read"
    /\ HeaderEnds = {}
    /\ Len(buffer) >= Max
    /\ Respond(ErrorResponse("large"))
    /\ UNCHANGED <<clientVars, inbox, first, rto, buffer, parsed, out>>

\* Defect: one read more at the limit.
ReadMoreAtLimit == pc = "read" /\ HeaderEnds = {} /\ Len(buffer) <= Max

ReadMore == pc = "read" /\ HeaderEnds = {} /\ Len(buffer) < Max

\* recv_some delivers at least one byte and at most the span it was given.
Receive ==
    /\ ReadMore
    /\ \E n \in 1..Chunk :
          /\ n <= Len(inbox)
          /\ buffer' = buffer \o SubSeq(inbox, 1, n)
          /\ inbox' = SubSeq(inbox, n + 1, Len(inbox))
    /\ UNCHANGED <<clientVars, pc, first, rto, parsed, resp, log, out>>

\* Defect: every timeout is answered with 408.
ReceiveTimeoutAlwaysAnswers ==
    /\ ReadMore
    /\ inbox = <<>>
    /\ Respond(ErrorResponse("timeout"))
    /\ UNCHANGED <<clientVars, inbox, first, rto, buffer, parsed, out>>

\* Defect: an idle connection starts its turn again.
ReceiveTimeoutLoops ==
    /\ ReadMore
    /\ inbox = <<>>
    /\ pc' = "arm"
    /\ UNCHANGED <<clientVars, inbox, first, rto, buffer, parsed, resp, log, out>>

\* Nothing arrived within the receive timeout: an idle kept-alive connection
\* is closed in silence, a stalled request gets 408.
ReceiveTimeout ==
    /\ ReadMore
    /\ inbox = <<>>
    /\ \/ /\ ~first /\ buffer = <<>>
          /\ pc' = "end"
          /\ UNCHANGED <<resp, log>>
       \/ /\ first \/ buffer # <<>>
          /\ Respond(ErrorResponse("timeout"))
    /\ UNCHANGED <<clientVars, inbox, first, rto, buffer, parsed, out>>

\* recv reports the end of the stream: no response, whatever is buffered.
ReceiveClosed ==
    /\ ReadMore
    /\ gone /\ inbox = <<>>
    /\ pc' = "end"
    /\ UNCHANGED <<clientVars, inbox, first, rto, buffer, parsed, resp, log, out>>

\* recv fails: the error is reported and the connection ends.
ReceiveFails ==
    /\ ReadMore
    /\ pc' = "end"
    /\ UNCHANGED <<clientVars, inbox, first, rto, buffer, parsed, resp, log, out>>

\* The block is one of the client's requests, from its first byte on.
WellFramed == buffer[1] = <<buffer[HeaderLength][1], 1>>

\* What request::parse says of every block a client may send.
Blocks == UNION {{c.requests[k].block : k \in DOMAIN c.requests} : c \in Clients}
Verdict ==
    [block \in Blocks |-> [valid |-> WellFormed(block),
                          keep |-> WellFormed(block) /\ KeepAliveRequested(block)]]
ParsedBlock == Verdict[req[buffer[1][1]].block]

\* request::parse on the block, and what handle_connection does with the
\* result.  A block that starts in the middle of a request may be anything, a
\* valid request included.
Parse ==
    /\ pc = "parse"
    /\ \/ /\ WellFramed => ~ParsedBlock.valid
          /\ Respond(ErrorResponse("bad"))
          /\ UNCHANGED parsed
       \/ /\ \/ /\ WellFramed /\ ParsedBlock.valid
                /\ parsed' = [req |-> buffer[1][1], keep |-> ParsedBlock.keep]
             \/ /\ ~WellFramed
                /\ \E keep \in BOOLEAN : parsed' = [req |-> 0, keep |-> keep]
          /\ pc' = "handle"
          /\ UNCHANGED <<resp, log>>
    /\ UNCHANGED <<clientVars, inbox, first, rto, buffer, out>>

\* A module's own header as serialize leaves it: one with a line break in its
\* value is dropped, although find_header has seen it.
Hsts(own) == IF own = "absent" THEN Https ELSE own = "valid"

\* The pipeline answers, or throws and the connection ends without an answer.
\* HSTS is added to its response on HTTPS unless a module already set it.
Handle ==
    /\ pc = "handle"
    /\ \/ \E own \in {"absent", "valid", "invalid"} :
             Respond([status |-> "handled", req |-> parsed.req,
                      close |-> ~parsed.keep, hsts |-> Hsts(own)])
       \/ /\ pc' = "end"
          /\ UNCHANGED <<resp, log>>
    /\ UNCHANGED <<clientVars, inbox, first, rto, buffer, parsed, out>>

\* After a response that counts as sent: the policy decides.
NextRequest ==
    IF resp.close THEN pc' = "end" /\ UNCHANGED first
                  ELSE pc' = "arm" /\ first' = FALSE

\* send_all wrote everything; the loop goes on unless the policy is close.
SendOk ==
    /\ pc = "send"
    /\ out' = Append(out, [resp |-> resp, sent |-> "all"])
    /\ NextRequest
    /\ UNCHANGED <<clientVars, inbox, rto, buffer, parsed, resp, log>>

\* send_all reports that the peer closed, which send_response takes for
\* success: a kept-alive connection goes on to read, and to send, on a
\* transport of which nothing is assumed.  Only a TLS stream reports it; a
\* plain socket whose peer is gone fails.
SendClosed ==
    /\ pc = "send"
    /\ Https /\ gone
    /\ out' = Append(out, [resp |-> resp, sent |-> "lost"])
    /\ NextRequest
    /\ UNCHANGED <<clientVars, inbox, rto, buffer, parsed, resp, log>>

\* Defect: a failed send does not end the connection.
SendFailsGoesOn ==
    /\ pc = "send"
    /\ out' = Append(out, [resp |-> resp, sent |-> "part"])
    /\ NextRequest
    /\ UNCHANGED <<clientVars, inbox, rto, buffer, parsed, resp, log>>

\* send_all timed out or failed part of the way.
SendFails ==
    /\ pc = "send"
    /\ out' = Append(out, [resp |-> resp, sent |-> "part"])
    /\ pc' = "end"
    /\ UNCHANGED <<clientVars, inbox, first, rto, buffer, parsed, resp, log>>

-----------------------------------------------------------------------------
HandlerStep ==
    \/ Prepare \/ ArmTimeout
    \/ HeaderComplete \/ HeaderTooLarge
    \/ Receive \/ ReceiveTimeout \/ ReceiveClosed
    \/ Parse \/ Handle
    \/ SendOk \/ SendClosed \/ SendFails

Next == ClientSends \/ ClientLeaves \/ HandlerStep \/ ReceiveFails

Spec == Init /\ [][Next]_vars

\* The worker's thread runs, and SO_RCVTIMEO and SO_SNDTIMEO end every recv
\* and send: no step of the handler waits for the client for ever.  Nothing
\* obliges a connection to break, so ReceiveFails is no part of the fairness.
FairSpec == Spec /\ WF_vars(HandlerStep)

-----------------------------------------------------------------------------
(* Properties.                                                             *)

\* The buffer of a request is bounded by the limit and one chunk, however
\* the client cuts its bytes (config.h:18 says "Maximum cumulative bytes
\* read"; framing.cpp:34 compares before a recv of up to a chunk).
BufferBounded == Len(buffer) <= Max - 1 + Chunk

\* The first i requests leave nothing behind them but their header blocks.
NoBodyBefore(i) == \A j \in 1..i - 1 : req[j].body = 0

\* The client's view, when it sends one request at a time: response i answers
\* request i.  A request is handled if its client wrote it as the grammar
\* wants, and the connection is kept or closed as the client asked, in
\* whatever form; it is refused as malformed or too large only if it is, and
\* one that cannot fit the limit and a chunk is never handled.  Up to a
\* request with a body, which nobody reads: after it the client and the server
\* no longer agree where a request starts.
AnswersItsRequest ==
    waits => \A i \in 1..Len(out) : NoBodyBefore(i) =>
        LET r == out[i].resp
        IN /\ r.status = "handled" =>
                /\ r.req = i /\ req[i].good
                /\ req[i].len <= Max - 1 + Chunk
                /\ r.close = ~req[i].keep
           /\ r.status = "bad" => ~req[i].good
           /\ r.status = "large" => req[i].len > Max

\* A client that does not wait, or sends bodies, may lose requests whose bytes
\* were read too far, but those that are answered are answered once and in
\* order.
AnswersInOrder ==
    \A i, j \in 1..Len(out) :
        i < j /\ out[i].resp.req # 0 /\ out[j].resp.req # 0
            => out[i].resp.req < out[j].resp.req

\* A client that has sent nothing since its last response is never told that
\* its request timed out (connection_handler.cpp:124), unless a body of its
\* was left unread.
NoTimeoutResponseWhenIdle ==
    \A i \in 2..Len(out) :
        NoBodyBefore(i) /\ out[i].resp.status = "timeout" => sent[1] >= i

\* Every response written was logged first, in the same order, and at most
\* the one being written is ahead in the log.
LoggedThenSent ==
    /\ Len(log) \in {Len(out), Len(out) + 1}
    /\ \A i \in 1..Len(out) : log[i] = out[i].resp

\* A response whose write failed, or that announced "Connection: close", is
\* the last one: the handler tries to write no other behind it, whether or not
\* the peer was found gone before.
LastResponse ==
    \A i, j \in 1..Len(out) :
        i < j => out[i].sent # "part" /\ ~out[i].resp.close

\* A connection ends once the client has no more requests to send, without
\* its help.
ConnectionEnds == <>(pc = "end")

\* config.h:27: the I/O timeout is "applied to active request reads".  A read
\* is active if bytes of a header block have arrived and the block has not
\* ended, so that read_header_block calls recv for the rest of it; waiting for
\* the first byte is what config.h:32 has the idle timeout for.
ActiveReadTimeout == ReadMore /\ buffer # <<>> => rto = "io"

\* docs/TUTORIAL.md:203: HTTPS responses carry Strict-Transport-Security.
HttpsResponsesHaveHsts == Https => \A i \in 1..Len(out) : out[i].resp.hsts
=============================================================================

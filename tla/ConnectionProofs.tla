-------------------------- MODULE ConnectionProofs --------------------------
(***************************************************************************)
(* Proofs about Connection, for every set of clients, every limit and      *)
(* every chunk size.                                                       *)
(***************************************************************************)
EXTENDS Connection, Integers, SequenceTheorems, TLAPS

USE DEF clientVars

-----------------------------------------------------------------------------
(* Types.                                                                  *)

\* Behind a header block that was found there is one in the buffer.
Framed ==
    pc \in {"parse", "handle"} \/ (pc = "send" /\ ~resp.close) => HeaderEnds # {}

Typed == TypeOK /\ Framed

\* What is known of the client's requests.
LEMMA ClientFacts ==
  ASSUME [requests |-> req, waits |-> waits] \in Clients
  PROVE  /\ Requests \in Nat /\ DOMAIN req = 1..Requests /\ waits \in BOOLEAN
         /\ \A k \in 1..Requests :
               /\ req[k].len \in Nat \ {0} /\ req[k].body \in Nat
               /\ req[k].good \in BOOLEAN /\ req[k].keep \in BOOLEAN
               /\ req[k].block \in Blocks
<1> DEFINE c == [requests |-> req, waits |-> waits]
<1>1. c \in Clients /\ c.requests = req /\ c.waits = waits
  OBVIOUS
<1>2. /\ c \in [requests : Seq({c.requests[k] : k \in DOMAIN c.requests}), waits : BOOLEAN]
      /\ \A k \in DOMAIN c.requests :
            /\ c.requests[k].len \in Nat \ {0} /\ c.requests[k].body \in Nat
            /\ c.requests[k].good \in BOOLEAN /\ c.requests[k].keep \in BOOLEAN
  BY <1>1, ClientsSendRequests
<1>3. \A k \in DOMAIN c.requests : c.requests[k].block \in Blocks
  BY <1>1 DEF Blocks
<1>4. c.requests \in Seq({c.requests[k] : k \in DOMAIN c.requests}) /\ c.waits \in BOOLEAN
  BY <1>2
<1> HIDE DEF c
<1>5. req \in Seq({req[k] : k \in DOMAIN req}) /\ waits \in BOOLEAN
  BY <1>1, <1>4
<1>6. Requests \in Nat /\ DOMAIN req = 1..Requests
  BY <1>5 DEF Requests
<1> QED
  BY <1>1, <1>2, <1>3, <1>5, <1>6

\* The same in every state.
LEMMA RequestFacts ==
  ASSUME TypeOK
  PROVE  /\ Requests \in Nat /\ DOMAIN req = 1..Requests /\ waits \in BOOLEAN
         /\ \A k \in 1..Requests :
               /\ req[k].len \in Nat \ {0} /\ req[k].body \in Nat
               /\ req[k].good \in BOOLEAN /\ req[k].keep \in BOOLEAN
               /\ req[k].block \in Blocks
  BY ClientFacts DEF TypeOK

\* The responses the handler makes.
LEMMA ResponseTypes ==
  ASSUME TypeOK
  PROVE  /\ \A status \in {"bad", "timeout", "large"} : ErrorResponse(status) \in Response
         /\ \A own \in {"absent", "valid", "invalid"} :
               [status |-> "handled", req |-> parsed.req, close |-> ~parsed.keep,
                hsts |-> Hsts(own)] \in Response
<1>1. Requests \in Nat /\ parsed \in Parsed
  BY RequestFacts DEF TypeOK
<1>2. \A own \in {"absent", "valid", "invalid"} : Hsts(own) \in BOOLEAN
  BY HttpsIsBoolean DEF Hsts
<1>3. parsed.req \in 0..Requests /\ (~parsed.keep) \in BOOLEAN
  BY <1>1 DEF Parsed
<1> QED
  BY <1>1, <1>2, <1>3 DEF ErrorResponse, Response

\* The verdict on a block.
LEMMA VerdictFacts ==
  ASSUME NEW block \in Blocks
  PROVE  /\ Verdict[block].valid = WellFormed(block)
         /\ Verdict[block].keep = (WellFormed(block) /\ KeepAliveRequested(block))
         /\ Verdict[block].keep \in BOOLEAN
  BY DEF Verdict

\* recv moves bytes from the front of the inbox to the end of the buffer.
LEMMA ReceiveFacts ==
  ASSUME TypeOK, Receive
  PROVE  \E n \in 1..Chunk :
            /\ n <= Len(inbox)
            /\ buffer' \in Seq(Byte) /\ inbox' \in Seq(Byte)
            /\ Len(buffer') = Len(buffer) + n /\ Len(inbox') = Len(inbox) - n
            /\ \A i \in 1..Len(buffer) : buffer'[i] = buffer[i]
            /\ \A i \in 1..n : buffer'[Len(buffer) + i] = inbox[i]
            /\ \A i \in 1..(Len(inbox) - n) : inbox'[i] = inbox[n + i]
<1>1. PICK n \in 1..Chunk :
         /\ n <= Len(inbox)
         /\ buffer' = buffer \o SubSeq(inbox, 1, n)
         /\ inbox' = SubSeq(inbox, n + 1, Len(inbox))
  BY DEF Receive
<1>2. buffer \in Seq(Byte) /\ inbox \in Seq(Byte) /\ n \in Nat \ {0}
  BY ChunkPositive DEF TypeOK
<1>3. /\ SubSeq(inbox, 1, n) \in Seq(Byte) /\ Len(SubSeq(inbox, 1, n)) = n
      /\ \A i \in 1..n : SubSeq(inbox, 1, n)[i] = inbox[i]
  BY <1>1, <1>2, SubSeqProperties
<1>4. /\ inbox' \in Seq(Byte) /\ Len(inbox') = Len(inbox) - n
      /\ \A i \in 1..(Len(inbox) - n) : inbox'[i] = inbox[n + i]
  <2>1. n + 1 \in 1..(Len(inbox) + 1) /\ Len(inbox) \in ((n + 1) - 1)..Len(inbox)
    BY <1>1, <1>2
  <2>2. /\ inbox' \in Seq(Byte) /\ Len(inbox') = Len(inbox) - (n + 1) + 1
        /\ \A i \in 1..(Len(inbox) - (n + 1) + 1) : inbox'[i] = inbox[(n + 1) + i - 1]
    BY <1>1, <1>2, <2>1, SubSeqProperties
  <2> QED
    BY <1>1, <1>2, <2>2
<1>5. /\ buffer' \in Seq(Byte) /\ Len(buffer') = Len(buffer) + n
      /\ \A i \in 1..Len(buffer) : buffer'[i] = buffer[i]
      /\ \A i \in 1..n : buffer'[Len(buffer) + i] = inbox[i]
  <2> DEFINE s == SubSeq(inbox, 1, n)
  <2>1. buffer' = buffer \o s /\ s \in Seq(Byte) /\ Len(s) = n /\ \A i \in 1..n : s[i] = inbox[i]
    BY <1>1, <1>3
  <2> HIDE DEF s
  <2>2. /\ buffer' \in Seq(Byte) /\ Len(buffer') = Len(buffer) + Len(s)
        /\ \A i \in 1..(Len(buffer) + Len(s)) :
              buffer'[i] = IF i <= Len(buffer) THEN buffer[i] ELSE s[i - Len(buffer)]
    BY <1>2, <2>1, ConcatProperties
  <2>3. ASSUME NEW i \in 1..n PROVE buffer'[Len(buffer) + i] = inbox[i]
    <3>1. /\ Len(buffer) + i \in 1..(Len(buffer) + Len(s)) /\ ~(Len(buffer) + i <= Len(buffer))
          /\ (Len(buffer) + i) - Len(buffer) = i
      BY <1>2, <2>1
    <3> QED
      BY <2>1, <2>2, <3>1
  <2> QED
    BY <1>2, <2>1, <2>2, <2>3
<1> QED
  BY <1>1, <1>4, <1>5

\* The initial state has the declared types.
LEMMA InitType == Init => Typed
<1> SUFFICES ASSUME Init PROVE Typed
  OBVIOUS
<1>1. [requests |-> req, waits |-> waits] \in Clients
  <2>1. PICK c \in Clients : req = c.requests /\ waits = c.waits
    BY DEF Init
  <2>2. c = [requests |-> c.requests, waits |-> c.waits]
    BY ClientsSendRequests
  <2> QED
    BY <2>1, <2>2
<1>3. Requests \in Nat
  BY <1>1, ClientFacts
<1>4. ErrorResponse("timeout") \in Response /\ NoRequest \in Parsed
  BY <1>3 DEF ErrorResponse, Response, NoRequest, Parsed
<1>5. <<0, 0>> \in (0..Requests) \X Nat
  BY <1>3
<1>6. /\ <<>> \in Seq(Byte) /\ <<>> \in Seq(Response)
      /\ <<>> \in Seq([resp : Response, sent : {"all", "part", "lost"}])
  OBVIOUS
<1>7. TypeOK
  BY <1>1, <1>4, <1>5, <1>6 DEF Init, TypeOK
<1> QED
  BY <1>7 DEF Init, Typed, Framed

\* The client's bytes are bytes.
LEMMA SendsType ==
  ASSUME Typed, ClientSends
  PROVE  \E b \in Byte :
            /\ Emit(b) /\ b \in (0..Requests) \X Nat
            /\ \/ ~RequestSent /\ b = <<sent[1], sent[2] + 1>>
               \/ /\ RequestSent /\ b = <<sent[1] + 1, 1>>
                  /\ waits => Len(out) = sent[1]
<1>1. TypeOK /\ Requests \in Nat /\ sent[1] \in 0..Requests /\ sent[2] \in Nat
  BY RequestFacts DEF Typed, TypeOK
<1>2. CASE ~RequestSent /\ Emit(<<sent[1], sent[2] + 1>>)
  <2>1. sent[1] # 0
    BY <1>2 DEF RequestSent
  <2>2. <<sent[1], sent[2] + 1>> \in Byte
    BY <1>1, <2>1 DEF Byte
  <2> QED
    BY <1>1, <1>2, <2>2
<1>3. CASE /\ RequestSent /\ sent[1] < Requests /\ Emit(<<sent[1] + 1, 1>>)
           /\ waits => Len(out) = sent[1]
  <2>1. <<sent[1] + 1, 1>> \in Byte
    BY <1>1, <1>3 DEF Byte
  <2> QED
    BY <1>1, <1>3, <2>1
<1> QED
  BY <1>2, <1>3 DEF ClientSends

\* Every step of the connection keeps the types of its state.
LEMMA StepType == Typed /\ [Next]_vars => Typed'
<1> SUFFICES ASSUME Typed, [Next]_vars PROVE Typed'
  OBVIOUS
<1>0. TypeOK /\ Framed /\ Requests \in Nat
  BY RequestFacts DEF Typed
<1> USE DEF Typed
<1>a. ASSUME UNCHANGED <<req, buffer>> PROVE HeaderEnds' = HeaderEnds
  BY <1>a DEF HeaderEnds, EndsHeader
<1>b. ASSUME UNCHANGED <<req, waits>>
      PROVE  Byte' = Byte /\ Response' = Response /\ Parsed' = Parsed /\ Requests' = Requests
  BY <1>b DEF Byte, Response, Parsed, Requests
<1>1. CASE ClientSends
  <2>1. UNCHANGED <<req, waits, gone, pc, first, rto, buffer, parsed, resp, log, out>>
    BY <1>1 DEF ClientSends
  <2>2. PICK b \in Byte : sent' = b /\ inbox' = Append(inbox, b) /\ b \in (0..Requests) \X Nat
    BY <1>1, SendsType DEF Emit
  <2>3. Append(inbox, b) \in Seq(Byte)
    BY <1>0 DEF TypeOK
  <2> QED
    BY <1>0, <1>a, <1>b, <2>1, <2>2, <2>3 DEF TypeOK, Framed
<1>2. CASE ClientLeaves \/ Prepare \/ ReceiveClosed \/ ReceiveFails
  <2>1. CASE ClientLeaves
    BY <1>0, <1>a, <1>b, <2>1 DEF ClientLeaves, TypeOK, Framed
  <2>2. CASE Prepare \/ ReceiveClosed \/ ReceiveFails
    BY <1>0, <1>b, <2>2 DEF Prepare, ReceiveClosed, ReceiveFails, TypeOK, Framed
  <2> QED
    BY <1>2, <2>1, <2>2
<1>3. CASE ArmTimeout
  <2>1. <<>> \in Seq(Byte)
    OBVIOUS
  <2>2. /\ buffer' \in Seq(Byte) /\ rto' \in {"io", "idle"} /\ pc' \in {"read", "end"}
        /\ UNCHANGED <<clientVars, inbox, first, parsed, resp, log, out>>
    BY <1>0, <1>3, <2>1 DEF ArmTimeout, TypeOK
  <2> QED
    BY <1>0, <1>b, <2>2 DEF TypeOK, Framed
<1>4. CASE HeaderComplete
  BY <1>0, <1>4, <1>a, <1>b DEF HeaderComplete, TypeOK, Framed
<1>5. ASSUME NEW r \in Response, Respond(r), ~r.close => HeaderEnds # {},
             UNCHANGED <<clientVars, inbox, first, rto, buffer, parsed, out>>
      PROVE  Typed'
  <2>1. log' \in Seq(Response)
    BY <1>0, <1>5 DEF TypeOK, Respond
  <2> QED
    BY <1>0, <1>5, <1>a, <1>b, <2>1 DEF Respond, TypeOK, Framed
<1>6. CASE HeaderTooLarge
  BY <1>0, <1>5, <1>6, ResponseTypes DEF HeaderTooLarge, ErrorResponse
<1>7. CASE Receive
  <2>1. buffer' \in Seq(Byte) /\ inbox' \in Seq(Byte)
    BY <1>0, <1>7, ReceiveFacts
  <2>2. /\ UNCHANGED <<clientVars, pc, first, rto, parsed, resp, log, out>>
        /\ pc = "read"
    BY <1>7 DEF Receive, ReadMore
  <2> QED
    BY <1>0, <1>b, <2>1, <2>2 DEF TypeOK, Framed
<1>8. CASE ReceiveTimeout
  <2>1. CASE Respond(ErrorResponse("timeout"))
    BY <1>0, <1>5, <1>8, <2>1, ResponseTypes DEF ReceiveTimeout, ErrorResponse
  <2>2. CASE pc' = "end" /\ UNCHANGED <<resp, log>>
    BY <1>0, <1>8, <1>b, <2>2 DEF ReceiveTimeout, TypeOK, Framed
  <2> QED
    BY <1>8, <2>1, <2>2 DEF ReceiveTimeout
<1>9. CASE Parse
  <2>1. HeaderEnds # {}
    BY <1>0, <1>9 DEF Parse, Framed
  <2>2. buffer \in Seq(Byte) /\ Len(buffer) # 0 /\ buffer[1] \in Byte
    BY <1>0, <2>1 DEF HeaderEnds, TypeOK
  <2>3. CASE Respond(ErrorResponse("bad")) /\ UNCHANGED parsed
    <3>1. UNCHANGED <<clientVars, inbox, first, rto, buffer, out>>
      BY <1>9 DEF Parse
    <3>2. ErrorResponse("bad") \in Response /\ ErrorResponse("bad").close
      BY <1>0, ResponseTypes DEF ErrorResponse
    <3> QED
      BY <1>5, <2>3, <3>1, <3>2
  <2>4. CASE parsed' \in Parsed /\ pc' = "handle" /\ UNCHANGED <<resp, log>>
    <3>1. UNCHANGED <<clientVars, inbox, first, rto, buffer, out>>
      BY <1>9 DEF Parse
    <3> QED
      BY <1>0, <1>a, <1>b, <2>1, <2>4, <3>1 DEF TypeOK, Framed
  <2>5. /\ [req |-> buffer[1][1], keep |-> ParsedBlock.keep] \in Parsed
        /\ \A keep \in BOOLEAN : [req |-> 0, keep |-> keep] \in Parsed
    <3>1. buffer[1][1] \in 1..Requests
      BY <2>2 DEF Byte
    <3>2. req[buffer[1][1]].block \in Blocks
      BY <1>0, <3>1, RequestFacts
    <3>3. ParsedBlock.keep \in BOOLEAN
      BY <3>2, VerdictFacts DEF ParsedBlock
    <3> QED
      BY <1>0, <3>1, <3>3 DEF Parsed
  <2> QED
    BY <1>9, <2>3, <2>4, <2>5 DEF Parse
<1>10. CASE Handle
  <2>1. HeaderEnds # {}
    BY <1>0, <1>10 DEF Handle, Framed
  <2>2. UNCHANGED <<clientVars, inbox, first, rto, buffer, parsed, out>>
    BY <1>10 DEF Handle
  <2>3. CASE pc' = "end" /\ UNCHANGED <<resp, log>>
    BY <1>0, <1>b, <2>2, <2>3 DEF TypeOK, Framed
  <2>4. CASE \E r \in Response : Respond(r)
    BY <1>5, <2>1, <2>2, <2>4
  <2> QED
    BY <1>0, <1>10, <2>3, <2>4, ResponseTypes DEF Handle
<1>11. CASE SendOk \/ SendClosed \/ SendFails
  <2>1. PICK s \in {"all", "part", "lost"} : out' = Append(out, [resp |-> resp, sent |-> s])
    BY <1>11 DEF SendOk, SendClosed, SendFails
  <2>2. out' \in Seq([resp : Response, sent : {"all", "part", "lost"}])
    BY <1>0, <2>1 DEF TypeOK
  <2>3. /\ UNCHANGED <<clientVars, inbox, rto, buffer, parsed, resp, log>>
        /\ pc' \in {"end", "arm"} /\ first' \in BOOLEAN
    BY <1>0, <1>11 DEF SendOk, SendClosed, SendFails, NextRequest, TypeOK
  <2> QED
    BY <1>0, <1>b, <2>2, <2>3 DEF TypeOK, Framed
<1>12. CASE UNCHANGED vars
  BY <1>0, <1>12, <1>a, <1>b DEF vars, TypeOK, Framed
<1> QED
  BY <1>1, <1>2, <1>3, <1>4, <1>6, <1>7, <1>8, <1>9, <1>10, <1>11, <1>12
     DEF Next, HandlerStep

\* The state keeps its types in every behaviour, and a request is parsed,
\* handled and kept alive only behind a header block.
THEOREM TypeCorrect == Spec => []Typed
  BY InitType, StepType, PTL DEF Spec

-----------------------------------------------------------------------------
(* The steps of a connection, by what they do to its responses.            *)

\* The client acts, or nobody does.
ClientMoves == UNCHANGED <<req, waits, pc, first, buffer, parsed, resp, log, out>>

\* The handler comes to a response and logs it.
Answers ==
    /\ pc \in {"read", "parse", "handle"}
    /\ \E r \in Response : Respond(r)
    /\ UNCHANGED <<clientVars, inbox, first, buffer, out>>

\* It writes the response, or fails to; the connection ends or goes on.
Sends ==
    /\ pc = "send"
    /\ \E s \in {"all", "part", "lost"} :
          /\ out' = Append(out, [resp |-> resp, sent |-> s])
          /\ \/ pc' = "end" /\ UNCHANGED first
             \/ pc' = "arm" /\ first' = FALSE /\ ~resp.close /\ s # "part"
    /\ UNCHANGED <<clientVars, inbox, buffer, parsed, resp, log>>

\* Anything else the handler does.
Works ==
    /\ pc \notin {"send", "end"} /\ pc' # "send"
    /\ UNCHANGED <<clientVars, first, resp, log, out>>

\* There is no other step.
LEMMA StepKinds ==
  ASSUME Typed, [Next]_vars
  PROVE  ClientMoves \/ Answers \/ Sends \/ Works
<1>0. TypeOK
  BY DEF Typed
<1>1. CASE ClientSends \/ ClientLeaves \/ UNCHANGED vars
  BY <1>1 DEF ClientSends, ClientLeaves, vars, ClientMoves
<1>2. CASE Prepare \/ ArmTimeout \/ HeaderComplete \/ Receive \/ ReceiveClosed \/ ReceiveFails
  BY <1>2
     DEF Prepare, ArmTimeout, HeaderComplete, Receive, ReceiveClosed, ReceiveFails, ReadMore,
         Works
<1>3. CASE HeaderTooLarge
  BY <1>0, <1>3, ResponseTypes DEF HeaderTooLarge, Answers
<1>4. CASE ReceiveTimeout
  BY <1>0, <1>4, ResponseTypes DEF ReceiveTimeout, ReadMore, Answers, Works
<1>5. CASE Parse
  BY <1>0, <1>5, ResponseTypes DEF Parse, Answers, Works
<1>6. CASE Handle
  <2>1. CASE pc' = "end" /\ UNCHANGED <<resp, log>>
    BY <1>6, <2>1 DEF Handle, Works
  <2>2. CASE \E r \in Response : Respond(r)
    BY <1>6, <2>2 DEF Handle, Answers
  <2> QED
    BY <1>0, <1>6, <2>1, <2>2, ResponseTypes DEF Handle
<1>7. CASE SendOk \/ SendClosed \/ SendFails
  <2>1. resp.close \in BOOLEAN
    BY <1>0 DEF TypeOK, Response
  <2>2. CASE SendOk
    BY <2>1, <2>2 DEF SendOk, NextRequest, Sends
  <2>3. CASE SendClosed
    BY <2>1, <2>3 DEF SendClosed, NextRequest, Sends
  <2>4. CASE SendFails
    BY <2>4 DEF SendFails, Sends
  <2> QED
    BY <1>7, <2>2, <2>3, <2>4
<1> QED
  BY <1>1, <1>2, <1>3, <1>4, <1>5, <1>6, <1>7 DEF Next, HandlerStep

\* What is written is one response more.
LEMMA SentFacts ==
  ASSUME Typed, Sends
  PROVE  /\ Len(out) \in Nat /\ Len(out') = Len(out) + 1
         /\ \A i \in 1..Len(out) : out'[i] = out[i] /\ out[i].sent \in {"all", "part", "lost"}
         /\ out'[Len(out) + 1].resp = resp
         /\ \/ pc' = "end" /\ UNCHANGED first
            \/ pc' = "arm" /\ first' = FALSE /\ ~resp.close /\ out'[Len(out) + 1].sent # "part"
<1>1. PICK s \in {"all", "part", "lost"} :
         /\ out' = Append(out, [resp |-> resp, sent |-> s])
         /\ \/ pc' = "end" /\ UNCHANGED first
            \/ pc' = "arm" /\ first' = FALSE /\ ~resp.close /\ s # "part"
  BY DEF Sends
<1>2. out \in Seq([resp : Response, sent : {"all", "part", "lost"}])
  BY DEF Typed, TypeOK
<1>3. \A i \in 1..Len(out) : out[i] \in [resp : Response, sent : {"all", "part", "lost"}]
  BY <1>2, ElementOfSeq
<1> DEFINE o == [resp |-> resp, sent |-> s]
<1>4. out' = Append(out, o) /\ o.resp = resp /\ o.sent = s
  BY <1>1
<1> HIDE DEF o
<1>5. /\ Len(out') = Len(out) + 1 /\ out'[Len(out) + 1] = o /\ Len(out) \in Nat
      /\ \A i \in 1..Len(out) : out'[i] = out[i]
  BY <1>2, <1>4
<1> QED
  BY <1>1, <1>3, <1>4, <1>5

-----------------------------------------------------------------------------
(* The buffer.                                                             *)

\* A recv is made below the limit and adds at most a chunk.
LEMMA StepBounded == Typed /\ BufferBounded /\ [Next]_vars => BufferBounded'
<1> SUFFICES ASSUME Typed, BufferBounded, [Next]_vars PROVE BufferBounded'
  OBVIOUS
<1>0. TypeOK /\ Len(buffer) \in Nat
  BY DEF Typed, TypeOK
<1>1. CASE Receive
  <2>1. PICK n \in 1..Chunk : Len(buffer') = Len(buffer) + n
    BY <1>0, <1>1, ReceiveFacts
  <2>2. Len(buffer) < Max
    BY <1>1 DEF Receive, ReadMore
  <2> QED
    BY <1>0, <2>1, <2>2, MaxPositive, ChunkPositive DEF BufferBounded
<1>2. CASE buffer' = buffer
  BY <1>2 DEF BufferBounded
<1>3. CASE buffer' = <<>>
  BY <1>3, MaxPositive, ChunkPositive DEF BufferBounded
<1> QED
  BY <1>1, <1>2, <1>3
     DEF Next, HandlerStep, vars, ClientSends, ClientLeaves, Prepare, ArmTimeout,
         HeaderComplete, HeaderTooLarge, ReceiveTimeout, ReceiveClosed, ReceiveFails,
         Parse, Handle, SendOk, SendClosed, SendFails

\* Whatever a client sends, and however it cuts it, the buffer of its request
\* stays below the limit and a chunk.
THEOREM BufferStaysBounded == Spec => []BufferBounded
<1>1. Init => BufferBounded
  BY MaxPositive, ChunkPositive DEF Init, BufferBounded
<1> QED
  BY <1>1, InitType, StepType, StepBounded, PTL DEF Spec

-----------------------------------------------------------------------------
(* The responses and the log.                                              *)

\* The log is at most the response being written ahead of the responses, and
\* the first turn of the loop is the one before the first response.
Recorded ==
    /\ \A i \in 1..Len(out) : log[i] = out[i].resp
    /\ pc = "send" => Len(log) = Len(out) + 1 /\ log[Len(log)] = resp
    /\ pc # "send" => Len(log) = Len(out)
    /\ pc # "end" => (first <=> Len(out) = 0)

\* A connection that goes on has had no write fail, and no response that ends
\* it.
Closing ==
    /\ LastResponse
    /\ pc # "end" => \A i \in 1..Len(out) : out[i].sent # "part" /\ ~out[i].resp.close

\* Every step keeps the log in step with the responses.
LEMMA StepRecorded == Typed /\ Recorded /\ [Next]_vars => Recorded'
<1> SUFFICES ASSUME Typed, Recorded, [Next]_vars PROVE Recorded'
  OBVIOUS
<1>0. /\ log \in Seq(Response) /\ first \in BOOLEAN
      /\ out \in Seq([resp : Response, sent : {"all", "part", "lost"}])
  BY DEF Typed, TypeOK
<1>1. CASE ClientMoves \/ Works
  BY <1>1 DEF ClientMoves, Works, Recorded
<1>2. CASE Answers
  <2>1. PICK r \in Response : resp' = r /\ log' = Append(log, r) /\ pc' = "send"
    BY <1>2 DEF Answers, Respond
  <2> QED
    BY <1>0, <1>2, <2>1 DEF Answers, Recorded
<1>3. CASE Sends
  <2>1. Len(log) = Len(out) + 1 /\ log[Len(out) + 1] = resp /\ log' = log
    BY <1>3 DEF Sends, Recorded
  <2>2. ASSUME NEW i \in 1..Len(out') PROVE log'[i] = out'[i].resp
    <3>1. CASE i = Len(out) + 1
      BY <1>3, <2>1, <3>1, SentFacts
    <3>2. CASE i \in 1..Len(out)
      BY <1>3, <2>1, <3>2, SentFacts DEF Recorded
    <3> QED
      BY <1>3, <3>1, <3>2, SentFacts
  <2>3. /\ Len(out) \in Nat /\ Len(out') = Len(out) + 1 /\ pc' \in {"arm", "end"}
        /\ pc' = "arm" => first' = FALSE
    BY <1>3, SentFacts
  <2>4. Len(log') = Len(out') /\ Len(out') # 0
    BY <2>1, <2>3
  <2> QED
    BY <2>2, <2>3, <2>4 DEF Recorded
<1> QED
  BY <1>1, <1>2, <1>3, StepKinds

\* Every step keeps the end of a connection final.
LEMMA StepClosing == Typed /\ Closing /\ [Next]_vars => Closing'
<1> SUFFICES ASSUME Typed, Closing, [Next]_vars PROVE Closing'
  OBVIOUS
<1>0. out \in Seq([resp : Response, sent : {"all", "part", "lost"}])
  BY DEF Typed, TypeOK
<1>1. CASE ClientMoves \/ Works
  BY <1>1 DEF ClientMoves, Works, Closing, LastResponse
<1>2. CASE Answers
  BY <1>2 DEF Answers, Closing, LastResponse
<1>3. CASE Sends
  <2>2. /\ Len(out) \in Nat /\ Len(out') = Len(out) + 1
        /\ \A i \in 1..Len(out) : out'[i] = out[i] /\ out[i].sent \in {"all", "part", "lost"}
        /\ out'[Len(out) + 1].resp = resp
        /\ pc' = "end" \/ (~resp.close /\ out'[Len(out) + 1].sent # "part")
    BY <1>3, SentFacts
  <2>3. \A i \in 1..Len(out) : out[i].sent # "part" /\ ~out[i].resp.close
    BY <1>3 DEF Sends, Closing
  <2>4. ASSUME NEW i \in 1..Len(out'), NEW j \in 1..Len(out'), i < j
        PROVE  out'[i].sent # "part" /\ ~out'[i].resp.close
    BY <2>2, <2>3, <2>4
  <2>5. ASSUME pc' # "end", NEW i \in 1..Len(out')
        PROVE  out'[i].sent # "part" /\ ~out'[i].resp.close
    <3>1. CASE i = Len(out) + 1
      BY <2>2, <2>5, <3>1
    <3>2. CASE i \in 1..Len(out)
      BY <2>2, <2>3, <3>2
    <3> QED
      BY <2>2, <3>1, <3>2
  <2> QED
    BY <2>4, <2>5 DEF Closing, LastResponse
<1> QED
  BY <1>1, <1>2, <1>3, StepKinds

\* Every response is logged before a byte of it is written, and in the order
\* of the responses.
THEOREM LogComesFirst == Spec => []LoggedThenSent
<1>1. Init => Recorded
  BY DEF Init, Recorded
<1>2. Recorded => LoggedThenSent
  BY DEF Recorded, LoggedThenSent
<1> QED
  BY <1>1, <1>2, InitType, StepType, StepRecorded, PTL DEF Spec

\* No write is tried behind one that failed or that announced the end of the
\* connection, whatever becomes of a transport whose peer was found gone.
THEOREM NothingAfterTheLast == Spec => []LastResponse
<1>1. Init => Closing
  BY DEF Init, Closing, LastResponse
<1>2. Closing => LastResponse
  BY DEF Closing
<1> QED
  BY <1>1, <1>2, InitType, StepType, StepClosing, PTL DEF Spec

-----------------------------------------------------------------------------
(* The order of the bytes.                                                 *)

Before(a, b) == a[1] < b[1] \/ (a[1] = b[1] /\ a[2] < b[2])
UpTo(a, b) == a = b \/ Before(a, b)

\* A byte that its request has.
Exists(b) == b[2] <= req[b[1]].len + req[b[1]].body

\* Bytes come in the order in which they were sent: first those of the
\* buffer, then those of the inbox.
Stream ==
    /\ \A i \in 1..Len(buffer) : UpTo(buffer[i], sent) /\ Exists(buffer[i])
    /\ \A i \in 1..Len(inbox) : UpTo(inbox[i], sent) /\ Exists(inbox[i])
    /\ \A i, j \in 1..Len(inbox) : i < j => Before(inbox[i], inbox[j])
    /\ \A i \in 1..Len(buffer), j \in 1..Len(inbox) : Before(buffer[i], inbox[j])
    /\ sent[1] # 0 => sent[2] # 0 /\ Exists(sent)

\* The parts of a byte.
LEMMA ByteFacts ==
  ASSUME TypeOK
  PROVE  /\ Requests \in Nat /\ sent[1] \in 0..Requests /\ sent[2] \in Nat
         /\ sent = <<sent[1], sent[2]>>
         /\ Len(inbox) \in Nat /\ Len(buffer) \in Nat
         /\ \A i \in 1..Len(inbox) :
               inbox[i] \in Byte /\ inbox[i][1] \in 1..Requests /\ inbox[i][2] \in Nat \ {0}
         /\ \A i \in 1..Len(buffer) :
               buffer[i] \in Byte /\ buffer[i][1] \in 1..Requests /\ buffer[i][2] \in Nat \ {0}
<1>1. Requests \in Nat /\ sent \in (0..Requests) \X Nat
  BY RequestFacts DEF TypeOK
<1>2. /\ \A i \in 1..Len(inbox) : inbox[i] \in Byte
      /\ \A i \in 1..Len(buffer) : buffer[i] \in Byte
      /\ Len(inbox) \in Nat /\ Len(buffer) \in Nat
  BY ElementOfSeq DEF TypeOK
<1>3. \A b \in Byte : b[1] \in 1..Requests /\ b[2] \in Nat \ {0}
  BY DEF Byte
<1> QED
  BY <1>1, <1>2, <1>3

\* The next byte of the client comes behind all others.
LEMMA NextByte ==
  ASSUME Typed, Stream, ClientSends
  PROVE  /\ Before(sent, sent') /\ Exists(sent') /\ sent'[2] # 0 /\ sent'[1] # 0
         /\ inbox' = Append(inbox, sent') /\ sent' \in Byte
         /\ UNCHANGED <<req, waits, pc, first, rto, buffer, parsed, resp, log, out>>
         /\ \/ ~RequestSent /\ sent' = <<sent[1], sent[2] + 1>>
            \/ RequestSent /\ sent' = <<sent[1] + 1, 1>> /\ (waits => Len(out) = sent[1])
<1>1. PICK b \in Byte :
         /\ Emit(b)
         /\ \/ ~RequestSent /\ b = <<sent[1], sent[2] + 1>>
            \/ /\ RequestSent /\ b = <<sent[1] + 1, 1>>
               /\ waits => Len(out) = sent[1]
  BY SendsType
<1>2. sent' = b /\ inbox' = Append(inbox, b)
  BY <1>1 DEF Emit
<1>3. UNCHANGED <<req, waits, pc, first, rto, buffer, parsed, resp, log, out>>
  BY DEF ClientSends
<1>4. TypeOK /\ b[1] \in 1..Requests /\ b[2] \in Nat \ {0}
  BY DEF Typed, Byte
<1>5. sent[1] \in Nat /\ sent[2] \in Nat
  BY <1>4, ByteFacts
<1>6. req[b[1]].len \in Nat \ {0} /\ req[b[1]].body \in Nat
  BY <1>4, RequestFacts
<1>7. Before(sent, b)
  BY <1>1, <1>5 DEF Before
<1>8. Exists(b)
  <2>1. CASE ~RequestSent /\ b = <<sent[1], sent[2] + 1>>
    <3>1. b[1] = sent[1] /\ b[2] = sent[2] + 1 /\ sent[1] # 0
      BY <2>1 DEF RequestSent
    <3>2. sent[2] # req[sent[1]].len + req[sent[1]].body /\ Exists(sent)
      BY <2>1, <3>1 DEF RequestSent, Stream
    <3> QED
      BY <1>5, <1>6, <3>1, <3>2 DEF Exists
  <2>2. CASE b = <<sent[1] + 1, 1>>
    BY <1>6, <2>2 DEF Exists
  <2> QED
    BY <1>1, <2>1, <2>2
<1> QED
  BY <1>1, <1>2, <1>3, <1>4, <1>7, <1>8 DEF Exists

\* The order is one.
LEMMA BeforeTransitive ==
  ASSUME NEW a, NEW b, NEW c, a[1] \in Nat, a[2] \in Nat, b[1] \in Nat, b[2] \in Nat,
         c[1] \in Nat, c[2] \in Nat, UpTo(a, b), Before(b, c)
  PROVE  Before(a, c)
  BY DEF Before, UpTo

\* Every step keeps the bytes in order.
LEMMA StepStream == Typed /\ Stream /\ [Next]_vars => Stream'
<1> SUFFICES ASSUME Typed, Stream, [Next]_vars PROVE Stream'
  OBVIOUS
<1>0. TypeOK
  BY DEF Typed
<1>1. CASE ClientSends
  <2>1. /\ Before(sent, sent') /\ Exists(sent') /\ sent'[2] # 0
        /\ inbox' = Append(inbox, sent') /\ sent' \in Byte
        /\ UNCHANGED <<req, buffer>>
    BY <1>1, NextByte
  <2>2. sent'[1] \in Nat /\ sent'[2] \in Nat
    BY <1>0, <2>1, RequestFacts DEF Byte
  <2>3. /\ Len(inbox') = Len(inbox) + 1 /\ inbox'[Len(inbox) + 1] = sent'
        /\ \A i \in 1..Len(inbox) : inbox'[i] = inbox[i]
    BY <1>0, <2>1 DEF TypeOK
  <2>0. sent[1] \in Nat /\ sent[2] \in Nat
    BY <1>0, ByteFacts
  <2>4. ASSUME NEW i \in 1..Len(inbox) PROVE Before(inbox[i], sent')
    <3>1. inbox[i][1] \in Nat /\ inbox[i][2] \in Nat
      BY <1>0, ByteFacts
    <3>2. UpTo(inbox[i], sent)
      BY DEF Stream
    <3> QED
      BY <2>0, <2>1, <2>2, <3>1, <3>2, BeforeTransitive
  <2>5. ASSUME NEW i \in 1..Len(buffer) PROVE Before(buffer[i], sent')
    <3>1. buffer[i][1] \in Nat /\ buffer[i][2] \in Nat
      BY <1>0, ByteFacts
    <3>2. UpTo(buffer[i], sent)
      BY DEF Stream
    <3> QED
      BY <2>0, <2>1, <2>2, <3>1, <3>2, BeforeTransitive
  <2>7. ASSUME NEW i \in 1..Len(buffer')
        PROVE  UpTo(buffer'[i], sent') /\ Exists(buffer[i])'
    BY <2>1, <2>5 DEF Stream, UpTo, Exists
  <2>8. ASSUME NEW i \in 1..Len(inbox')
        PROVE  UpTo(inbox'[i], sent') /\ Exists(inbox[i])'
    <3>1. CASE i \in 1..Len(inbox)
      BY <2>1, <2>3, <2>4, <3>1 DEF Stream, UpTo, Exists
    <3>2. CASE i = Len(inbox) + 1
      BY <2>1, <2>3, <3>2 DEF UpTo, Exists
    <3> QED
      BY <1>0, <2>3, <3>1, <3>2, ByteFacts
  <2>9. ASSUME NEW i \in 1..Len(inbox'), NEW j \in 1..Len(inbox'), i < j
        PROVE  Before(inbox'[i], inbox'[j])
    <3>1. i \in 1..Len(inbox) /\ (j \in 1..Len(inbox) \/ j = Len(inbox) + 1)
      BY <1>0, <2>3, <2>9, ByteFacts
    <3> QED
      BY <2>3, <2>4, <2>9, <3>1 DEF Stream
  <2>10. ASSUME NEW i \in 1..Len(buffer'), NEW j \in 1..Len(inbox')
         PROVE  Before(buffer'[i], inbox'[j])
    <3>1. j \in 1..Len(inbox) \/ j = Len(inbox) + 1
      BY <1>0, <2>3, ByteFacts
    <3> QED
      BY <2>1, <2>3, <2>5, <3>1 DEF Stream
  <2>11. sent'[2] # 0 /\ Exists(sent)'
    BY <2>1 DEF Exists
  <2> QED
    BY <2>7, <2>8, <2>9, <2>10, <2>11 DEF Stream, UpTo, Before
<1>2. CASE Receive
  <2>1. PICK n \in 1..Chunk :
            /\ n <= Len(inbox)
            /\ Len(buffer') = Len(buffer) + n /\ Len(inbox') = Len(inbox) - n
            /\ \A i \in 1..Len(buffer) : buffer'[i] = buffer[i]
            /\ \A i \in 1..n : buffer'[Len(buffer) + i] = inbox[i]
            /\ \A i \in 1..(Len(inbox) - n) : inbox'[i] = inbox[n + i]
    BY <1>0, <1>2, ReceiveFacts
  <2>2. Len(buffer) \in Nat /\ Len(inbox) \in Nat /\ n \in Nat \ {0} /\ UNCHANGED <<req, sent>>
    BY <1>0, <1>2, ByteFacts, ChunkPositive DEF Receive
  <2>3. ASSUME NEW i \in 1..Len(buffer')
        PROVE  \/ i \in 1..Len(buffer) /\ buffer'[i] = buffer[i]
               \/ \E k \in 1..n : k \in 1..Len(inbox) /\ buffer'[i] = inbox[k]
    <3>1. CASE i \in 1..Len(buffer)
      BY <2>1, <3>1
    <3>2. CASE i > Len(buffer)
      <4> DEFINE k == i - Len(buffer)
      <4>1. k \in 1..n /\ k \in 1..Len(inbox) /\ Len(buffer) + k = i
        BY <2>1, <2>2, <3>2
      <4>2. buffer'[Len(buffer) + k] = inbox[k]
        BY <2>1, <4>1
      <4> QED
        BY <4>1, <4>2
    <3> QED
      BY <2>2, <3>1, <3>2
  <2>4. ASSUME NEW i \in 1..Len(inbox')
        PROVE  n + i \in 1..Len(inbox) /\ inbox'[i] = inbox[n + i]
    BY <2>1, <2>2
  <2>5. ASSUME NEW i \in 1..Len(buffer')
        PROVE  UpTo(buffer[i], sent)' /\ Exists(buffer[i])'
    <3>1. UpTo(buffer'[i], sent) /\ Exists(buffer'[i])
      <4>1. CASE i \in 1..Len(buffer) /\ buffer'[i] = buffer[i]
        BY <4>1 DEF Stream
      <4>2. CASE \E k \in 1..n : k \in 1..Len(inbox) /\ buffer'[i] = inbox[k]
        BY <4>2 DEF Stream
      <4> QED
        BY <2>3, <4>1, <4>2
    <3> QED
      BY <2>2, <3>1 DEF UpTo, Before, Exists
  <2>6. ASSUME NEW i \in 1..Len(inbox')
        PROVE  UpTo(inbox[i], sent)' /\ Exists(inbox[i])'
    BY <2>2, <2>4 DEF Stream, UpTo, Before, Exists
  <2>7. ASSUME NEW i \in 1..Len(inbox'), NEW j \in 1..Len(inbox'), i < j
        PROVE  Before(inbox'[i], inbox'[j])
    BY <2>2, <2>4, <2>7 DEF Stream
  <2>8. ASSUME NEW i \in 1..Len(buffer'), NEW j \in 1..Len(inbox')
        PROVE  Before(buffer'[i], inbox'[j])
    <3>1. n + j \in 1..Len(inbox) /\ inbox'[j] = inbox[n + j] /\ \A k \in 1..n : k < n + j
      BY <2>2, <2>4
    <3> QED
      BY <2>3, <3>1 DEF Stream
  <2>9. sent'[1] # 0 => sent'[2] # 0 /\ Exists(sent)'
    BY <2>2 DEF Stream, Exists
  <2> QED
    BY <2>5, <2>6, <2>7, <2>8, <2>9 DEF Stream, Before
<1>3. CASE UNCHANGED <<req, sent, inbox>> /\ (buffer' = buffer \/ buffer' = <<>>)
  BY <1>3 DEF Stream, UpTo, Before, Exists
<1> QED
  BY <1>1, <1>2, <1>3
     DEF Next, HandlerStep, vars, ClientLeaves, Prepare, ArmTimeout, HeaderComplete,
         HeaderTooLarge, ReceiveTimeout, ReceiveClosed, ReceiveFails, Parse, Handle, SendOk,
         SendClosed, SendFails

-----------------------------------------------------------------------------
(* Requests are answered in their order.                                   *)

\* The first byte of request k has left the inbox.
Passed(k) ==
    k # 0 => /\ UpTo(<<k, 1>>, sent)
             /\ \A i \in 1..Len(inbox) : Before(<<k, 1>>, inbox[i])

\* Request k was taken from the buffer after all that were answered.
Newest(k) == Passed(k) /\ (k # 0 => \A i \in 1..Len(out) : out[i].resp.req < k)

InOrder ==
    /\ AnswersInOrder
    /\ \A i \in 1..Len(out) : Passed(out[i].resp.req)
    /\ pc \in {"read", "parse"} =>
          \A i \in 1..Len(out), j \in 1..Len(buffer) :
              out[i].resp.req # 0 => Before(<<out[i].resp.req, 1>>, buffer[j])
    /\ pc = "handle" => Newest(parsed.req)
    /\ pc = "send" => Newest(resp.req)

\* The bytes of a recv are bytes of the inbox.
LEMMA ReceivedBytes ==
  ASSUME TypeOK, Receive
  PROVE  /\ \A i \in 1..Len(inbox') : \E k \in 1..Len(inbox) : inbox'[i] = inbox[k]
         /\ \A i \in 1..Len(buffer') :
               \/ i \in 1..Len(buffer) /\ buffer'[i] = buffer[i]
               \/ \E k \in 1..Len(inbox) : buffer'[i] = inbox[k]
<1>1. PICK n \in 1..Chunk :
          /\ n <= Len(inbox)
          /\ Len(buffer') = Len(buffer) + n /\ Len(inbox') = Len(inbox) - n
          /\ \A i \in 1..Len(buffer) : buffer'[i] = buffer[i]
          /\ \A i \in 1..n : buffer'[Len(buffer) + i] = inbox[i]
          /\ \A i \in 1..(Len(inbox) - n) : inbox'[i] = inbox[n + i]
  BY ReceiveFacts
<1>2. Len(buffer) \in Nat /\ Len(inbox) \in Nat /\ n \in Nat \ {0}
  BY ByteFacts, ChunkPositive
<1>3. ASSUME NEW i \in 1..Len(inbox') PROVE \E k \in 1..Len(inbox) : inbox'[i] = inbox[k]
  <2>1. n + i \in 1..Len(inbox) /\ inbox'[i] = inbox[n + i]
    BY <1>1, <1>2
  <2> QED
    BY <2>1
<1>4. ASSUME NEW i \in 1..Len(buffer')
      PROVE  \/ i \in 1..Len(buffer) /\ buffer'[i] = buffer[i]
             \/ \E k \in 1..Len(inbox) : buffer'[i] = inbox[k]
  <2>1. CASE i \in 1..Len(buffer)
    BY <1>1, <2>1
  <2>2. CASE i > Len(buffer)
    <3> DEFINE k == i - Len(buffer)
    <3>1. k \in 1..n /\ k \in 1..Len(inbox) /\ Len(buffer) + k = i
      BY <1>1, <1>2, <2>2
    <3>2. buffer'[Len(buffer) + k] = inbox[k]
      BY <1>1, <3>1
    <3> QED
      BY <3>1, <3>2
  <2> QED
    BY <1>2, <2>1, <2>2
<1> QED
  BY <1>3, <1>4

\* The client's bytes and the buffer change in these ways only.
LEMMA StreamKinds ==
  ASSUME [Next]_vars
  PROVE  \/ ClientSends
         \/ Receive
         \/ ArmTimeout /\ pc' = "read"
         \/ UNCHANGED <<req, waits, sent, inbox, buffer>>
  BY DEF Next, HandlerStep, vars, ClientLeaves, Prepare, ArmTimeout, HeaderComplete,
         HeaderTooLarge, ReceiveTimeout, ReceiveClosed, ReceiveFails, Parse, Handle, SendOk,
         SendClosed, SendFails

\* What has left the inbox does not come back.
LEMMA StaysPassed ==
  ASSUME Typed, Stream, [Next]_vars, NEW k \in Nat, Passed(k)
  PROVE  Passed(k)'
<1>0. TypeOK
  BY DEF Typed
<1> SUFFICES ASSUME k # 0
             PROVE  /\ UpTo(<<k, 1>>, sent')
                    /\ \A i \in 1..Len(inbox') : Before(<<k, 1>>, inbox'[i])
  BY DEF Passed, UpTo, Before
<1>1. UpTo(<<k, 1>>, sent) /\ \A i \in 1..Len(inbox) : Before(<<k, 1>>, inbox[i])
  BY DEF Passed
<1>2. CASE ClientSends
  <2>1. Before(sent, sent') /\ inbox' = Append(inbox, sent') /\ sent' \in Byte
    BY <1>2, NextByte
  <2>2. /\ sent[1] \in Nat /\ sent[2] \in Nat /\ sent'[1] \in Nat /\ sent'[2] \in Nat
        /\ <<k, 1>>[1] \in Nat /\ <<k, 1>>[2] \in Nat
    BY <1>0, <2>1, ByteFacts DEF Byte
  <2>3. Before(<<k, 1>>, sent')
    BY <1>1, <2>1, <2>2, BeforeTransitive
  <2>4. /\ Len(inbox') = Len(inbox) + 1 /\ inbox'[Len(inbox) + 1] = sent'
        /\ Len(inbox) \in Nat /\ \A i \in 1..Len(inbox) : inbox'[i] = inbox[i]
    BY <1>0, <2>1 DEF TypeOK
  <2>5. ASSUME NEW i \in 1..Len(inbox') PROVE Before(<<k, 1>>, inbox'[i])
    <3>1. i \in 1..Len(inbox) \/ i = Len(inbox) + 1
      BY <2>4
    <3> QED
      BY <1>1, <2>3, <2>4, <3>1
  <2> QED
    BY <2>3, <2>5 DEF UpTo
<1>3. CASE Receive
  <2>1. sent' = sent
    BY <1>3 DEF Receive
  <2> QED
    BY <1>0, <1>1, <1>3, <2>1, ReceivedBytes
<1>4. CASE UNCHANGED <<sent, inbox>>
  BY <1>1, <1>4
<1> QED
  BY <1>2, <1>3, <1>4, StreamKinds DEF ArmTimeout

\* Every step keeps the order of the answers.
LEMMA StepInOrder == Typed /\ Stream /\ InOrder /\ [Next]_vars => InOrder'
<1> SUFFICES ASSUME Typed, Stream, InOrder, [Next]_vars PROVE InOrder'
  OBVIOUS
<1>0. /\ TypeOK /\ Requests \in Nat /\ parsed.req \in Nat /\ resp.req \in Nat
      /\ \A i \in 1..Len(out) : out[i].resp.req \in Nat
  <2>1. TypeOK /\ Requests \in Nat /\ parsed \in Parsed /\ resp \in Response
    BY RequestFacts DEF Typed, TypeOK
  <2>2. \A i \in 1..Len(out) : out[i] \in [resp : Response, sent : {"all", "part", "lost"}]
    BY <2>1, ElementOfSeq DEF TypeOK
  <2> QED
    BY <2>1, <2>2 DEF Parsed, Response
<1>1. ASSUME NEW k \in Nat, Newest(k), UNCHANGED out PROVE Newest(k)'
  <2>1. Passed(k)'
    BY <1>1, StaysPassed DEF Newest
  <2> QED
    BY <1>1, <2>1 DEF Newest
<1>2. ASSUME UNCHANGED out
      PROVE  AnswersInOrder' /\ \A i \in 1..Len(out') : Passed(out[i].resp.req)'
  <2>1. AnswersInOrder'
    BY <1>2 DEF InOrder, AnswersInOrder
  <2>2. ASSUME NEW k \in Nat, NEW i \in 1..Len(out), k = out[i].resp.req
        PROVE  Passed(k)'
    BY <2>2, StaysPassed DEF InOrder
  <2> QED
    BY <1>0, <1>2, <2>1, <2>2 DEF Passed
<1>3. CASE ClientSends
  <2>1. UNCHANGED <<pc, buffer, parsed, resp, out>>
    BY <1>3 DEF ClientSends
  <2>2. pc = "handle" => Newest(parsed.req)'
    BY <1>0, <1>1, <2>1 DEF InOrder, Newest, Passed
  <2>3. pc = "send" => Newest(resp.req)'
    BY <1>0, <1>1, <2>1 DEF InOrder, Newest, Passed
  <2> QED
    BY <1>2, <2>1, <2>2, <2>3 DEF InOrder, Before
<1>4. CASE Receive
  <2>1. UNCHANGED <<pc, out>> /\ pc = "read"
    BY <1>4 DEF Receive, ReadMore
  <2>2. ASSUME NEW i \in 1..Len(out), NEW j \in 1..Len(buffer'), out[i].resp.req # 0
        PROVE  Before(<<out[i].resp.req, 1>>, buffer'[j])
    <3>1. \A k \in 1..Len(inbox) : Before(<<out[i].resp.req, 1>>, inbox[k])
      BY <2>2 DEF InOrder, Passed
    <3> QED
      BY <1>0, <1>4, <2>1, <2>2, <3>1, ReceivedBytes DEF InOrder
  <2> QED
    BY <1>2, <2>1, <2>2 DEF InOrder, Before
<1>5. CASE Parse
  <2>1. UNCHANGED <<out, buffer>> /\ pc = "parse"
    BY <1>5 DEF Parse
  <2>2. CASE pc' = "send" /\ resp' = ErrorResponse("bad")
    BY <1>2, <2>1, <2>2 DEF InOrder, Newest, Passed, ErrorResponse
  <2>3. CASE pc' = "handle" /\ parsed'.req = 0
    BY <1>2, <2>1, <2>3 DEF InOrder, Newest, Passed
  <2>4. CASE pc' = "handle" /\ WellFramed /\ parsed'.req = buffer[1][1]
    <3>1. HeaderEnds # {} /\ Len(buffer) # 0
      BY <2>1 DEF Typed, Framed, HeaderEnds
    <3>2. 1 \in 1..Len(buffer) /\ buffer[1][1] \in Nat
      BY <1>0, <3>1, ByteFacts
    <3> DEFINE k == buffer[1][1]
    <3>3. buffer[1] = <<k, 1>>
      BY <2>4 DEF WellFramed
    <3>4. Passed(k)
      BY <3>2, <3>3 DEF Stream, Passed
    <3>5. \A i \in 1..Len(out) : out[i].resp.req < k
      <4>1. ASSUME NEW i \in 1..Len(out), out[i].resp.req # 0
            PROVE  Before(<<out[i].resp.req, 1>>, <<k, 1>>)
        BY <2>1, <3>2, <3>3, <4>1 DEF InOrder
      <4>2. k # 0
        BY <1>0, <3>2, ByteFacts
      <4> QED
        BY <1>0, <3>2, <4>1, <4>2 DEF Before
    <3>6. ASSUME NEW n \in Nat, n = k PROVE Newest(n)'
      <4>1. Newest(n)
        BY <3>4, <3>5, <3>6 DEF Newest, Passed
      <4> QED
        BY <1>1, <2>1, <4>1
    <3>7. Newest(parsed.req)'
      BY <2>4, <3>2, <3>6 DEF Newest, Passed
    <3> QED
      BY <1>2, <2>1, <2>4, <3>7 DEF InOrder
  <2> QED
    BY <1>5, <2>2, <2>3, <2>4 DEF Parse, Respond
<1>6. CASE Handle
  <2>1. UNCHANGED <<out, buffer>> /\ pc = "handle"
    BY <1>6 DEF Handle
  <2>2. CASE pc' = "end"
    BY <1>2, <2>1, <2>2 DEF InOrder
  <2>3. CASE pc' = "send" /\ resp'.req = parsed.req
    <3>1. ASSUME NEW n \in Nat, n = parsed.req PROVE Newest(n)'
      BY <1>1, <2>1, <3>1 DEF InOrder
    <3>2. Newest(resp.req)'
      BY <1>0, <2>3, <3>1 DEF Newest, Passed
    <3> QED
      BY <1>2, <2>1, <2>3, <3>2 DEF InOrder
  <2> QED
    BY <1>6, <2>2, <2>3 DEF Handle, Respond
<1>7. CASE Sends
  <2>1. /\ pc = "send" /\ pc' \in {"arm", "end"}
        /\ Len(out') = Len(out) + 1 /\ out'[Len(out) + 1].resp = resp
        /\ Len(out) \in Nat /\ \A i \in 1..Len(out) : out'[i] = out[i]
    BY <1>7, SentFacts DEF Sends
  <2>2. Newest(resp.req)
    BY <2>1 DEF InOrder
  <2>3. ASSUME NEW i \in 1..Len(out') PROVE i \in 1..Len(out) \/ i = Len(out) + 1
    BY <2>1
  <2>4. AnswersInOrder'
    <3>1. ASSUME NEW i \in 1..Len(out'), NEW j \in 1..Len(out'), i < j,
                 out'[i].resp.req # 0, out'[j].resp.req # 0
          PROVE  out'[i].resp.req < out'[j].resp.req
      <4>1. i \in 1..Len(out)
        BY <2>1, <3>1
      <4> QED
        BY <2>1, <2>2, <2>3, <3>1, <4>1 DEF InOrder, AnswersInOrder, Newest
    <3> QED
      BY <3>1 DEF AnswersInOrder
  <2>5. ASSUME NEW n \in Nat, NEW i \in 1..Len(out'), n = out'[i].resp.req PROVE Passed(n)'
    <3>1. Passed(n)
      BY <2>1, <2>2, <2>3, <2>5 DEF InOrder, Newest
    <3> QED
      BY <3>1, StaysPassed
  <2>6. \A i \in 1..Len(out') : Passed(out[i].resp.req)'
    BY <1>0, <2>1, <2>3, <2>5 DEF Passed
  <2> QED
    BY <2>1, <2>4, <2>6 DEF InOrder
<1>8. CASE HeaderTooLarge \/ (ReceiveTimeout /\ pc' # "end")
  <2>1. UNCHANGED out /\ pc' = "send" /\ resp'.req = 0
    BY <1>8 DEF HeaderTooLarge, ReceiveTimeout, Respond, ErrorResponse
  <2> QED
    BY <1>2, <2>1 DEF InOrder, Newest, Passed
<1>9. CASE \/ UNCHANGED out /\ pc' \in {"arm", "end"}
           \/ UNCHANGED out /\ pc' = "read" /\ buffer' = <<>>
           \/ UNCHANGED <<out, buffer>> /\ pc = "read" /\ pc' = "parse"
  BY <1>2, <1>9 DEF InOrder, Before
<1>10. CASE ClientLeaves \/ UNCHANGED vars
  <2>1. UNCHANGED <<pc, buffer, parsed, resp, out, inbox, sent>>
    BY <1>10 DEF ClientLeaves, vars
  <2> QED
    BY <2>1 DEF InOrder, AnswersInOrder, Newest, Passed, UpTo, Before
<1>11. CASE SendOk \/ SendClosed \/ SendFails
  <2>1. pc = "send"
    BY <1>11 DEF SendOk, SendClosed, SendFails
  <2>2. out' # out
    <3>1. \E o : out' = Append(out, o)
      BY <1>11 DEF SendOk, SendClosed, SendFails
    <3> QED
      BY <1>0, <3>1 DEF TypeOK
  <2> QED
    BY <1>7, <2>1, <2>2, StepKinds DEF ClientMoves, Answers, Works
<1> QED
  BY <1>3, <1>4, <1>5, <1>6, <1>8, <1>9, <1>10, <1>11
     DEF Next, HandlerStep, Prepare, ArmTimeout, HeaderComplete, ReceiveTimeout, ReceiveClosed,
         ReceiveFails, ReadMore

\* Before the first byte every order is kept.
LEMMA InitStream == Init => Stream /\ InOrder
  BY DEF Init, Stream, InOrder, AnswersInOrder

\* Whatever a client sends ahead, and whatever of it is lost with a buffer,
\* its requests are answered in their order and none of them twice.
THEOREM AnsweredInOrder == Spec => []AnswersInOrder
<1>1. InOrder => AnswersInOrder
  BY DEF InOrder
<1> QED
  BY <1>1, InitType, InitStream, StepType, StepStream, StepInOrder, PTL DEF Spec

-----------------------------------------------------------------------------
(* Every turn is about a request of its own.                               *)

\* As long as there were no bodies, nothing of an earlier request is left for
\* the next response: not in the inbox, not in the buffer, not at the client.
Ahead ==
    pc # "end" /\ NoBodyBefore(Len(out) + 1) =>
        /\ \A i \in 1..Len(inbox) : inbox[i][1] > Len(out)
        /\ pc \notin {"new", "arm"} => \A i \in 1..Len(buffer) : buffer[i][1] > Len(out)
        /\ sent[1] > Len(out) \/ (sent[1] = Len(out) /\ RequestSent)

\* A stalled request that is about to be told so has begun.
Stalled ==
    /\ NoTimeoutResponseWhenIdle
    /\ pc = "send" /\ resp.status = "timeout" /\ Len(out) > 0 /\ NoBodyBefore(Len(out) + 1)
          => sent[1] > Len(out)

\* With a request behind it, a turn leaves nothing of that request.
LEMMA TurnOver ==
  ASSUME Typed, Stream, Ahead, pc = "send", ~resp.close, NoBodyBefore(Len(out) + 2),
         Len(out) \in Nat
  PROVE  /\ \A i \in 1..Len(inbox) : inbox[i][1] > Len(out) + 1
         /\ sent[1] > Len(out) + 1 \/ (sent[1] = Len(out) + 1 /\ RequestSent)
<1> DEFINE m == Len(out) + 1
<1>0. TypeOK /\ HeaderEnds # {}
  BY DEF Typed, Framed
<1>1. PICK e \in 1..Len(buffer) : EndsHeader(buffer[e])
  BY <1>0 DEF HeaderEnds
<1> DEFINE k == buffer[e][1]
<1>2. /\ k \in 1..Requests /\ buffer[e][2] = req[k].len
      /\ req[k].len \in Nat \ {0} /\ req[k].body \in Nat /\ m \in Nat
  BY <1>0, <1>1, ByteFacts, RequestFacts DEF EndsHeader
<1>3. NoBodyBefore(m) /\ req[m].body = 0
  <2>1. m \in 1..(Len(out) + 2) - 1 /\ \A j \in 1..m - 1 : j \in 1..(Len(out) + 2) - 1
    OBVIOUS
  <2> QED
    BY <2>1 DEF NoBodyBefore
<1>4. k >= m
  BY <1>1, <1>2, <1>3 DEF Ahead
<1>5. k = m => req[k].body = 0
  BY <1>3
<1>6. ASSUME NEW i \in 1..Len(inbox) PROVE inbox[i][1] > m
  <2>1. Before(buffer[e], inbox[i]) /\ Exists(inbox[i])
    BY <1>1 DEF Stream
  <2>2. inbox[i][1] \in 1..Requests /\ inbox[i][2] \in Nat
    BY <1>0, ByteFacts
  <2>3. CASE inbox[i][1] > k
    BY <1>2, <1>4, <2>2, <2>3
  <2>4. CASE inbox[i][1] = k /\ inbox[i][2] > req[k].len
    <3>1. inbox[i][2] <= req[k].len + req[k].body
      BY <2>1, <2>4 DEF Exists
    <3>2. req[k].body # 0
      <4>1. \A x, l, b \in Nat : x > l /\ x <= l + b => b # 0
        OBVIOUS
      <4>2. inbox[i][2] \in Nat /\ req[k].len \in Nat /\ req[k].body \in Nat
        BY <1>2, <2>2
      <4> QED
        BY <2>4, <3>1, <4>1, <4>2
    <3> QED
      BY <1>2, <1>4, <1>5, <2>4, <3>2
  <2> QED
    BY <1>0, <1>2, <2>1, <2>2, <2>3, <2>4, ByteFacts DEF Before
<1>7. sent[1] > m \/ (sent[1] = m /\ RequestSent)
  <2>1. UpTo(buffer[e], sent)
    BY <1>1 DEF Stream
  <2>2. sent[1] \in 0..Requests /\ sent[2] \in Nat
    BY <1>0, ByteFacts
  <2>3. CASE sent[1] > k
    BY <1>2, <1>4, <2>2, <2>3
  <2>4. CASE sent[1] = k /\ sent[2] >= req[k].len
    <3>1. Exists(sent)
      BY <1>2, <2>4 DEF Stream
    <3>2. CASE k = m
      BY <1>2, <1>5, <2>2, <2>4, <3>1, <3>2 DEF Exists, RequestSent
    <3> QED
      BY <1>2, <1>4, <2>4, <3>2
  <2> QED
    BY <1>0, <1>2, <2>1, <2>2, <2>3, <2>4, ByteFacts DEF UpTo, Before
<1> QED
  BY <1>6, <1>7

\* Every step keeps the turns apart.
LEMMA StepAhead == Typed /\ Stream /\ Ahead /\ [Next]_vars => Ahead'
<1> SUFFICES ASSUME Typed, Stream, Ahead, [Next]_vars,
                    pc' # "end", NoBodyBefore(Len(out) + 1)'
             PROVE  /\ \A i \in 1..Len(inbox') : inbox'[i][1] > Len(out')
                    /\ pc' \notin {"new", "arm"} =>
                          \A i \in 1..Len(buffer') : buffer'[i][1] > Len(out')
                    /\ sent'[1] > Len(out') \/ (sent'[1] = Len(out') /\ RequestSent')
  BY DEF Ahead
<1>0. TypeOK /\ Len(out) \in Nat
  BY DEF Typed, TypeOK
<1>1. UNCHANGED <<req, waits>>
  BY DEF Next, HandlerStep, vars, ClientSends, ClientLeaves, Prepare, ArmTimeout,
         HeaderComplete, HeaderTooLarge, Receive, ReceiveTimeout, ReceiveClosed, ReceiveFails,
         Parse, Handle, SendOk, SendClosed, SendFails
<1>2. UNCHANGED <<req, sent>> => (RequestSent' <=> RequestSent)
  BY DEF RequestSent
<1>3. UNCHANGED out => NoBodyBefore(Len(out) + 1)
  BY <1>1 DEF NoBodyBefore
<1>4. CASE ClientSends
  <2>1. /\ inbox' = Append(inbox, sent') /\ UNCHANGED <<pc, buffer, out>> /\ sent' \in Byte
        /\ \/ ~RequestSent /\ sent' = <<sent[1], sent[2] + 1>>
           \/ RequestSent /\ sent' = <<sent[1] + 1, 1>>
    BY <1>4, NextByte
  <2>2. /\ Len(inbox') = Len(inbox) + 1 /\ inbox'[Len(inbox) + 1] = sent'
        /\ Len(inbox) \in Nat /\ \A i \in 1..Len(inbox) : inbox'[i] = inbox[i]
    BY <1>0, <2>1 DEF TypeOK
  <2>3. sent'[1] > Len(out)
    BY <1>0, <1>3, <2>1, ByteFacts DEF Ahead
  <2>4. ASSUME NEW i \in 1..Len(inbox') PROVE inbox'[i][1] > Len(out)
    <3>1. i \in 1..Len(inbox) \/ i = Len(inbox) + 1
      BY <2>2
    <3> QED
      BY <1>3, <2>1, <2>2, <2>3, <3>1 DEF Ahead
  <2> QED
    BY <1>3, <2>1, <2>3, <2>4 DEF Ahead
<1>5. CASE Receive
  <2>1. UNCHANGED <<sent, out, req>> /\ pc = "read"
    BY <1>5 DEF Receive, ReadMore
  <2> QED
    BY <1>0, <1>2, <1>3, <1>5, <2>1, ReceivedBytes DEF Ahead
<1>6. CASE ArmTimeout /\ pc' = "read"
  <2>1. UNCHANGED <<sent, inbox, out, req>> /\ buffer' = <<>> /\ pc = "arm"
    BY <1>6 DEF ArmTimeout
  <2> QED
    BY <1>2, <1>3, <2>1 DEF Ahead
<1>7. CASE UNCHANGED <<req, sent, inbox, buffer>>
  <2>1. CASE UNCHANGED out /\ (pc \in {"new", "arm"} => pc' \in {"new", "arm"})
    <3>1. pc # "end"
      BY StepKinds DEF ClientMoves, Answers, Sends, Works
    <3> QED
      BY <1>2, <1>3, <1>7, <2>1, <3>1 DEF Ahead
  <2>2. CASE Sends
    <3>1. Len(out') = Len(out) + 1 /\ pc = "send" /\ pc' = "arm" /\ ~resp.close
      BY <2>2, SentFacts DEF Sends
    <3>2. NoBodyBefore(Len(out) + 2)
      BY <1>0, <1>1, <3>1 DEF NoBodyBefore
    <3> QED
      BY <1>0, <1>2, <1>7, <3>1, <3>2, TurnOver
  <2>3. pc \in {"new", "arm"} => pc' \in {"new", "arm"} \/ (ArmTimeout /\ pc' = "read")
    BY DEF Next, HandlerStep, vars, ClientSends, ClientLeaves, Prepare, ArmTimeout,
           HeaderComplete, HeaderTooLarge, Receive, ReceiveTimeout, ReceiveClosed,
           ReceiveFails, ReadMore, Parse, Handle, SendOk, SendClosed, SendFails
  <2> QED
    BY <1>6, <2>1, <2>2, <2>3, StepKinds DEF ClientMoves, Answers, Works
<1> QED
  BY <1>4, <1>5, <1>6, <1>7, StreamKinds

\* The client never goes back.
LEMMA SentGrows ==
  ASSUME Typed, Stream, [Next]_vars
  PROVE  sent'[1] \in Nat /\ sent[1] \in Nat /\ sent'[1] >= sent[1]
<1>0. TypeOK /\ sent[1] \in Nat
  BY ByteFacts DEF Typed
<1>1. CASE ClientSends
  <2>1. Before(sent, sent') /\ sent' \in Byte
    BY <1>1, NextByte
  <2>2. sent'[1] \in Nat
    BY <2>1 DEF Byte
  <2> QED
    BY <1>0, <2>1, <2>2 DEF Before
<1>2. CASE sent' = sent
  BY <1>0, <1>2
<1> QED
  BY <1>1, <1>2, StreamKinds DEF Receive, ArmTimeout

\* Every step keeps timeouts to requests that have begun.
LEMMA StepStalled ==
  Typed /\ Stream /\ Recorded /\ Ahead /\ Stalled /\ [Next]_vars => Stalled'
<1> SUFFICES ASSUME Typed, Stream, Recorded, Ahead, Stalled, [Next]_vars PROVE Stalled'
  OBVIOUS
<1>0. TypeOK /\ Len(out) \in Nat /\ sent[1] \in Nat /\ sent'[1] \in Nat /\ sent'[1] >= sent[1]
  BY SentGrows DEF Typed, TypeOK
<1>1. UNCHANGED <<req, waits>>
  BY DEF Next, HandlerStep, vars, ClientSends, ClientLeaves, Prepare, ArmTimeout,
         HeaderComplete, HeaderTooLarge, Receive, ReceiveTimeout, ReceiveClosed, ReceiveFails,
         Parse, Handle, SendOk, SendClosed, SendFails
<1>3. ASSUME UNCHANGED out PROVE NoTimeoutResponseWhenIdle'
  <2> SUFFICES ASSUME NEW i \in 2..Len(out), NoBodyBefore(i), out[i].resp.status = "timeout"
               PROVE  sent'[1] >= i
    BY <1>1, <1>3 DEF NoTimeoutResponseWhenIdle, NoBodyBefore
  <2>1. sent[1] >= i
    BY DEF Stalled, NoTimeoutResponseWhenIdle
  <2> QED
    BY <1>0, <2>1
<1>4. CASE ClientMoves
  <2>1. UNCHANGED <<out, pc, resp>>
    BY <1>4 DEF ClientMoves
  <2> QED
    BY <1>0, <1>1, <1>3, <2>1 DEF Stalled, NoBodyBefore
<1>5. CASE Works
  BY <1>3, <1>5 DEF Works, Stalled
<1>6. CASE Answers
  <2>1. UNCHANGED <<out, sent>> /\ pc' = "send" /\ pc \in {"read", "parse", "handle"}
    BY <1>6 DEF Answers, Respond
  <2>2. ASSUME resp'.status = "timeout", Len(out) > 0, NoBodyBefore(Len(out) + 1)
        PROVE  sent[1] > Len(out)
    <3>1. CASE ReceiveTimeout
      <4>1. pc = "read" /\ (first \/ buffer # <<>>) /\ ~first
        BY <1>0, <2>1, <2>2, <3>1 DEF ReceiveTimeout, ReadMore, Recorded
      <4>2. 1 \in 1..Len(buffer)
        BY <1>0, <4>1 DEF TypeOK
      <4>3. buffer[1][1] > Len(out) /\ UpTo(buffer[1], sent)
        BY <2>2, <4>1, <4>2 DEF Ahead, Stream
      <4> QED
        BY <1>0, <4>2, <4>3, ByteFacts DEF UpTo, Before
    <3>2. CASE HeaderTooLarge \/ Parse \/ Handle
      <4>1. resp'.status # "timeout"
        BY <2>1, <3>2 DEF HeaderTooLarge, Parse, Handle, Respond, ErrorResponse
      <4> QED
        BY <2>2, <4>1
    <3> QED
      BY <2>1, <3>1, <3>2
         DEF Next, HandlerStep, vars, ClientSends, ClientLeaves, Prepare, ArmTimeout,
             HeaderComplete, Receive, ReceiveClosed, ReceiveFails, ReadMore, SendOk, SendClosed,
             SendFails
  <2> QED
    BY <1>1, <1>3, <2>1, <2>2 DEF Stalled, NoBodyBefore
<1>7. CASE Sends
  <2>1. /\ pc = "send" /\ pc' # "send" /\ UNCHANGED sent
        /\ Len(out') = Len(out) + 1 /\ out'[Len(out) + 1].resp = resp
        /\ \A i \in 1..Len(out) : out'[i] = out[i]
    BY <1>7, SentFacts DEF Sends
  <2>2. ASSUME NEW i \in 2..Len(out'), NoBodyBefore(i), out'[i].resp.status = "timeout"
        PROVE  sent[1] >= i
    <3>1. CASE i \in 2..Len(out)
      BY <2>1, <2>2, <3>1 DEF Stalled, NoTimeoutResponseWhenIdle
    <3>2. CASE i = Len(out) + 1
      BY <1>0, <2>1, <2>2, <3>2 DEF Stalled
    <3> QED
      BY <1>0, <2>1, <3>1, <3>2
  <2> QED
    BY <1>1, <2>1, <2>2 DEF Stalled, NoTimeoutResponseWhenIdle, NoBodyBefore
<1> QED
  BY <1>4, <1>5, <1>6, <1>7, StepKinds

\* The first turn is ahead of nothing.
LEMMA InitAhead == Init => Recorded /\ Ahead /\ Stalled
  BY DEF Init, Recorded, Ahead, Stalled, NoTimeoutResponseWhenIdle, RequestSent

\* A client that waits for its next request is never told that it stalled.
THEOREM IdleIsNoTimeout == Spec => []NoTimeoutResponseWhenIdle
<1>1. Stalled => NoTimeoutResponseWhenIdle
  BY DEF Stalled
<1> QED
  BY <1>1, InitType, InitStream, InitAhead, StepType, StepStream, StepRecorded, StepAhead,
     StepStalled, PTL DEF Spec

-----------------------------------------------------------------------------
(* A client that waits is answered request by request.                     *)

\* How much of the current request is in its buffer.
Taken == IF pc \in {"new", "arm"} THEN 0 ELSE Len(buffer)

\* Between two bodies buffer and inbox hold the current request, from its
\* first byte to the last one sent.
Lockstep ==
    waits /\ pc # "end" /\ NoBodyBefore(Len(out) + 1) =>
        /\ sent[1] <= Len(out) + 1
        /\ \A i \in 1..Taken : buffer[i] = <<Len(out) + 1, i>>
        /\ \A i \in 1..Len(inbox) : inbox[i] = <<Len(out) + 1, Taken + i>>
        /\ sent[1] = Len(out) + 1 => sent[2] = Taken + Len(inbox)
        /\ sent[1] # Len(out) + 1 => Taken + Len(inbox) = 0

\* A response ends the request it is for.
LEMMA LockstepTurn ==
  ASSUME Typed, Stream, Lockstep, waits, pc = "send", ~resp.close,
         NoBodyBefore(Len(out) + 2), Len(out) \in Nat
  PROVE  Len(inbox) = 0 /\ sent[1] = Len(out) + 1
<1> DEFINE m == Len(out) + 1
<1>0. TypeOK /\ HeaderEnds # {} /\ Len(buffer) \in Nat /\ Len(inbox) \in Nat
  BY ByteFacts DEF Typed, Framed
<1>1. PICK e \in 1..Len(buffer) : EndsHeader(buffer[e])
  BY <1>0 DEF HeaderEnds
<1>2. NoBodyBefore(m) /\ req[m].body = 0
  <2>1. m \in 1..(Len(out) + 2) - 1 /\ \A j \in 1..m - 1 : j \in 1..(Len(out) + 2) - 1
    OBVIOUS
  <2> QED
    BY <2>1 DEF NoBodyBefore
<1>3. /\ Taken = Len(buffer) /\ buffer[e] = <<m, e>>
      /\ sent[1] = m => sent[2] = Len(buffer) + Len(inbox)
      /\ sent[1] # m => Len(buffer) + Len(inbox) = 0
  BY <1>1, <1>2 DEF Lockstep, Taken
<1>4. sent[1] = m
  BY <1>0, <1>1, <1>3
<1>5. req[m].len = e
  BY <1>1, <1>3 DEF EndsHeader
<1>6. Exists(sent)
  BY <1>4 DEF Stream
<1>7. sent[2] <= e
  BY <1>0, <1>1, <1>2, <1>4, <1>5, <1>6 DEF Exists
<1> QED
  BY <1>0, <1>1, <1>3, <1>4, <1>7

\* Every step keeps client and server together.
LEMMA StepLockstep == Typed /\ Stream /\ Ahead /\ Lockstep /\ [Next]_vars => Lockstep'
<1> SUFFICES ASSUME Typed, Stream, Ahead, Lockstep, [Next]_vars,
                    waits', pc' # "end", NoBodyBefore(Len(out) + 1)'
             PROVE  /\ sent'[1] <= Len(out') + 1
                    /\ \A i \in 1..Taken' : buffer'[i] = <<Len(out') + 1, i>>
                    /\ \A i \in 1..Len(inbox') : inbox'[i] = <<Len(out') + 1, Taken' + i>>
                    /\ sent'[1] = Len(out') + 1 => sent'[2] = Taken' + Len(inbox')
                    /\ sent'[1] # Len(out') + 1 => Taken' + Len(inbox') = 0
  BY DEF Lockstep
<1>0. /\ TypeOK /\ Len(out) \in Nat /\ Len(buffer) \in Nat /\ Len(inbox) \in Nat
      /\ sent[1] \in Nat /\ sent[2] \in Nat
  BY ByteFacts DEF Typed, TypeOK
<1>1. UNCHANGED <<req, waits>> /\ waits
  BY DEF Next, HandlerStep, vars, ClientSends, ClientLeaves, Prepare, ArmTimeout,
         HeaderComplete, HeaderTooLarge, Receive, ReceiveTimeout, ReceiveClosed, ReceiveFails,
         Parse, Handle, SendOk, SendClosed, SendFails
<1>2. pc # "end" /\ Taken \in Nat
  BY <1>0, StepKinds DEF ClientMoves, Answers, Sends, Works, Taken
<1>3. ASSUME UNCHANGED out
      PROVE  /\ NoBodyBefore(Len(out) + 1) /\ sent[1] <= Len(out) + 1
             /\ \A i \in 1..Taken : buffer[i] = <<Len(out) + 1, i>>
             /\ \A i \in 1..Len(inbox) : inbox[i] = <<Len(out) + 1, Taken + i>>
             /\ sent[1] = Len(out) + 1 => sent[2] = Taken + Len(inbox)
             /\ sent[1] # Len(out) + 1 => Taken + Len(inbox) = 0
  <2>1. NoBodyBefore(Len(out) + 1)
    BY <1>1, <1>3 DEF NoBodyBefore
  <2> QED
    BY <1>1, <1>2, <2>1 DEF Lockstep
<1>4. CASE ClientSends
  <2>1. /\ inbox' = Append(inbox, sent') /\ UNCHANGED <<pc, buffer, out>> /\ sent' \in Byte
        /\ \/ ~RequestSent /\ sent' = <<sent[1], sent[2] + 1>>
           \/ RequestSent /\ sent' = <<sent[1] + 1, 1>> /\ Len(out) = sent[1]
    BY <1>1, <1>4, NextByte
  <2>2. /\ Len(inbox') = Len(inbox) + 1 /\ inbox'[Len(inbox) + 1] = sent'
        /\ \A i \in 1..Len(inbox) : inbox'[i] = inbox[i]
    BY <1>0, <2>1 DEF TypeOK
  <2>3. Taken' = Taken
    BY <2>1 DEF Taken
  <2>4. sent' = <<Len(out) + 1, Taken + Len(inbox) + 1>>
    <3>1. CASE ~RequestSent /\ sent' = <<sent[1], sent[2] + 1>>
      <4>1. sent[1] = Len(out) + 1
        BY <1>0, <1>2, <1>3, <2>1, <3>1 DEF Ahead
      <4> QED
        BY <1>3, <2>1, <3>1, <4>1
    <3>2. CASE sent' = <<sent[1] + 1, 1>> /\ Len(out) = sent[1]
      <4>1. Taken + Len(inbox) = 0
        BY <1>0, <1>3, <2>1, <3>2
      <4> QED
        BY <3>2, <4>1
    <3> QED
      BY <2>1, <3>1, <3>2
  <2>5. ASSUME NEW i \in 1..Len(inbox') PROVE inbox'[i] = <<Len(out) + 1, Taken + i>>
    <3>1. i \in 1..Len(inbox) \/ i = Len(inbox) + 1
      BY <1>0, <2>2
    <3>2. CASE i = Len(inbox) + 1
      BY <1>0, <1>2, <2>2, <2>4, <3>2
    <3>3. CASE i \in 1..Len(inbox)
      BY <1>3, <2>1, <2>2, <3>3
    <3> QED
      BY <3>1, <3>2, <3>3
  <2>6. sent'[1] = Len(out) + 1 /\ sent'[2] = Taken + Len(inbox')
    BY <1>0, <1>2, <2>2, <2>4
  <2> QED
    BY <1>0, <1>3, <2>1, <2>3, <2>5, <2>6
<1>5. CASE Receive
  <2>1. UNCHANGED <<sent, out, pc>> /\ pc = "read"
    BY <1>5 DEF Receive, ReadMore
  <2>2. Taken = Len(buffer) /\ Taken' = Len(buffer')
    BY <2>1 DEF Taken
  <2>3. PICK n \in 1..Chunk :
            /\ n <= Len(inbox)
            /\ Len(buffer') = Len(buffer) + n /\ Len(inbox') = Len(inbox) - n
            /\ \A i \in 1..Len(buffer) : buffer'[i] = buffer[i]
            /\ \A i \in 1..n : buffer'[Len(buffer) + i] = inbox[i]
            /\ \A i \in 1..(Len(inbox) - n) : inbox'[i] = inbox[n + i]
    BY <1>0, <1>5, ReceiveFacts
  <2>4. n \in Nat \ {0}
    BY ChunkPositive
  <2>5. ASSUME NEW i \in 1..Len(buffer') PROVE buffer'[i] = <<Len(out) + 1, i>>
    <3>1. CASE i \in 1..Len(buffer)
      BY <1>3, <2>1, <2>2, <2>3, <3>1
    <3>2. CASE i > Len(buffer)
      <4> DEFINE k == i - Len(buffer)
      <4>1. k \in 1..n /\ k \in 1..Len(inbox) /\ Len(buffer) + k = i
        BY <1>0, <2>3, <2>4, <3>2
      <4>2. buffer'[Len(buffer) + k] = inbox[k]
        BY <2>3, <4>1
      <4>3. inbox[k] = <<Len(out) + 1, Len(buffer) + k>>
        BY <1>3, <2>1, <2>2, <4>1
      <4> QED
        BY <4>1, <4>2, <4>3
    <3> QED
      BY <1>0, <3>1, <3>2
  <2>6. ASSUME NEW i \in 1..Len(inbox') PROVE inbox'[i] = <<Len(out) + 1, Len(buffer') + i>>
    <3>1. n + i \in 1..Len(inbox) /\ inbox'[i] = inbox[n + i]
      BY <1>0, <2>3, <2>4
    <3>2. inbox[n + i] = <<Len(out) + 1, Len(buffer) + (n + i)>>
      BY <1>3, <2>1, <2>2, <3>1
    <3>3. Len(buffer) + (n + i) = Len(buffer') + i
      BY <1>0, <2>3, <2>4
    <3> QED
      BY <3>1, <3>2, <3>3
  <2>7. Len(buffer') + Len(inbox') = Len(buffer) + Len(inbox)
    BY <1>0, <2>3, <2>4
  <2> QED
    BY <1>3, <2>1, <2>2, <2>5, <2>6, <2>7
<1>6. CASE ArmTimeout /\ pc' = "read"
  <2>1. UNCHANGED <<sent, inbox, out>> /\ buffer' = <<>> /\ pc = "arm"
    BY <1>6 DEF ArmTimeout
  <2>2. Taken = 0 /\ Taken' = 0
    BY <1>6, <2>1 DEF Taken
  <2> QED
    BY <1>3, <2>1, <2>2
<1>7. CASE UNCHANGED <<req, sent, inbox, buffer>>
  <2>1. CASE UNCHANGED out /\ (pc \in {"new", "arm"} <=> pc' \in {"new", "arm"})
    <3>1. Taken' = Taken
      BY <1>7, <2>1 DEF Taken
    <3> QED
      BY <1>3, <1>7, <2>1, <3>1
  <2>2. CASE Sends
    <3>1. Len(out') = Len(out) + 1 /\ pc = "send" /\ pc' = "arm" /\ ~resp.close
      BY <2>2, SentFacts DEF Sends
    <3>2. NoBodyBefore(Len(out) + 2)
      BY <1>0, <1>1, <3>1 DEF NoBodyBefore
    <3>3. Len(inbox) = 0 /\ sent[1] = Len(out) + 1
      BY <1>0, <1>1, <3>1, <3>2, LockstepTurn
    <3>4. Taken' = 0
      BY <3>1 DEF Taken
    <3> QED
      BY <1>0, <1>7, <3>1, <3>3, <3>4
  <2>3. \/ UNCHANGED out /\ (pc \in {"new", "arm"} <=> pc' \in {"new", "arm"})
        \/ Sends \/ (ArmTimeout /\ pc' = "read")
    <3>1. ASSUME SendOk \/ SendClosed \/ SendFails PROVE Sends
      <4>1. pc = "send" /\ \E o : out' = Append(out, o)
        BY <3>1 DEF SendOk, SendClosed, SendFails
      <4>2. out' # out
        BY <1>0, <4>1 DEF TypeOK
      <4> QED
        BY <4>1, <4>2, StepKinds DEF ClientMoves, Answers, Works
    <3> QED
      BY <3>1
         DEF Next, HandlerStep, vars, ClientSends, ClientLeaves, Prepare, ArmTimeout,
             HeaderComplete, HeaderTooLarge, Receive, ReceiveTimeout, ReceiveClosed,
             ReceiveFails, ReadMore, Respond, Parse, Handle
  <2> QED
    BY <1>6, <2>1, <2>2, <2>3
<1> QED
  BY <1>4, <1>5, <1>6, <1>7, StreamKinds

\* Before the first request.
LEMMA InitLockstep == Init => Lockstep
  BY DEF Init, Lockstep, Taken

\* The parser takes every block for what its client means by it.
ParserAgrees ==
    \A c \in Clients : \A k \in DOMAIN c.requests :
        LET q == c.requests[k]
        IN /\ WellFormed(q.block) <=> q.good
           /\ q.good => (KeepAliveRequested(q.block) <=> q.keep)

\* Response r is one that request i calls for.
Fits(i, r) ==
    /\ r.status = "handled" =>
          /\ r.req = i /\ req[i].good
          /\ req[i].len <= Max - 1 + Chunk
          /\ r.close = ~req[i].keep
    /\ r.status = "bad" => ~req[i].good
    /\ r.status = "large" => req[i].len > Max

AsWished ==
    /\ AnswersItsRequest
    /\ waits /\ NoBodyBefore(Len(out) + 1) =>
          /\ pc = "handle" => /\ parsed.req = Len(out) + 1 /\ req[Len(out) + 1].good
                              /\ req[Len(out) + 1].len <= Max - 1 + Chunk
                              /\ parsed.keep = req[Len(out) + 1].keep
          /\ pc = "send" => Fits(Len(out) + 1, resp)

\* What is parsed for a client that waits is its request, from its first byte.
LEMMA LockstepParse ==
  ASSUME ParserAgrees, Typed, BufferBounded, Lockstep, waits, NoBodyBefore(Len(out) + 1), Parse
  PROVE  LET m == Len(out) + 1
         IN /\ WellFramed /\ buffer[1][1] = m /\ req[m].len <= Max - 1 + Chunk
            /\ ParsedBlock.valid <=> req[m].good
            /\ req[m].good => ParsedBlock.keep = req[m].keep
<1> DEFINE m == Len(out) + 1
<1>0. TypeOK /\ pc = "parse" /\ HeaderEnds # {} /\ Len(buffer) \in Nat
  BY ByteFacts DEF Typed, Framed, Parse
<1>1. \A i \in 1..Len(buffer) : buffer[i] = <<m, i>>
  BY <1>0 DEF Lockstep, Taken
<1>2. HeaderEnds = {req[m].len} /\ req[m].len \in 1..Len(buffer)
  <2>1. \A i \in HeaderEnds : i \in 1..Len(buffer) /\ req[m].len = i
    BY <1>1 DEF HeaderEnds, EndsHeader
  <2> QED
    BY <1>0, <2>1
<1>3. HeaderLength = req[m].len
  BY <1>0, <1>2 DEF HeaderLength
<1>4. 1 \in 1..Len(buffer) /\ buffer[1] = <<m, 1>> /\ buffer[req[m].len] = <<m, req[m].len>>
  BY <1>0, <1>1, <1>2
<1>5. WellFramed /\ buffer[1][1] = m
  BY <1>3, <1>4 DEF WellFramed
<1>6. req[m].len <= Max - 1 + Chunk
  BY <1>0, <1>2, MaxPositive, ChunkPositive DEF BufferBounded
<1>7. m \in 1..Requests
  BY <1>0, <1>4, ByteFacts
<1>8. ParsedBlock = Verdict[req[m].block] /\ req[m].block \in Blocks
  BY <1>0, <1>5, <1>7, RequestFacts DEF ParsedBlock
<1>9. /\ WellFormed(req[m].block) <=> req[m].good
      /\ req[m].good => (KeepAliveRequested(req[m].block) <=> req[m].keep)
  <2> DEFINE c == [requests |-> req, waits |-> waits]
  <2>1. c \in Clients /\ c.requests = req
    BY <1>0 DEF TypeOK
  <2>2. m \in DOMAIN req
    BY <1>0, <1>7, RequestFacts
  <2> HIDE DEF c
  <2> QED
    BY <2>1, <2>2 DEF ParserAgrees
<1>10. req[m].good \in BOOLEAN /\ req[m].keep \in BOOLEAN
  BY <1>0, <1>7, RequestFacts
<1>11. /\ ParsedBlock.valid = WellFormed(req[m].block)
       /\ ParsedBlock.keep = (WellFormed(req[m].block) /\ KeepAliveRequested(req[m].block))
       /\ ParsedBlock.keep \in BOOLEAN
  BY <1>8, VerdictFacts
<1>12. /\ ParsedBlock.valid <=> req[m].good
       /\ req[m].good => ParsedBlock.keep = req[m].keep
  BY <1>9, <1>10, <1>11
<1> QED
  BY <1>5, <1>6, <1>12

\* Every step keeps the responses those that were asked for.
LEMMA StepAsWished ==
  ASSUME ParserAgrees
  PROVE  /\ Typed /\ BufferBounded /\ Lockstep /\ AsWished /\ [Next]_vars
         => AsWished'
<1> SUFFICES ASSUME Typed, BufferBounded, Lockstep, AsWished, [Next]_vars PROVE AsWished'
  OBVIOUS
<1> DEFINE m == Len(out) + 1
<1>0. TypeOK /\ Len(out) \in Nat /\ Len(buffer) \in Nat
  BY ByteFacts DEF Typed, TypeOK
<1>1. UNCHANGED <<req, waits>>
  BY DEF Next, HandlerStep, vars, ClientSends, ClientLeaves, Prepare, ArmTimeout,
         HeaderComplete, HeaderTooLarge, Receive, ReceiveTimeout, ReceiveClosed, ReceiveFails,
         Parse, Handle, SendOk, SendClosed, SendFails
<1>2. ASSUME UNCHANGED out
      PROVE  /\ AnswersItsRequest'
             /\ NoBodyBefore(Len(out) + 1)' => NoBodyBefore(m)
             /\ Len(out') + 1 = m
  BY <1>1, <1>2 DEF AsWished, AnswersItsRequest, NoBodyBefore
<1>3. ASSUME UNCHANGED out, pc' \notin {"handle", "send"} PROVE AsWished'
  BY <1>2, <1>3 DEF AsWished
<1>4. ASSUME UNCHANGED out, pc' = "send", waits /\ NoBodyBefore(m) => Fits(m, resp')
      PROVE  AsWished'
  BY <1>1, <1>2, <1>4 DEF AsWished, Fits
<1>5. CASE Parse
  <2>1. UNCHANGED out /\ pc = "parse"
    BY <1>5 DEF Parse
  <2>2. CASE (WellFramed => ~ParsedBlock.valid) /\ pc' = "send" /\ resp' = ErrorResponse("bad")
    <3>1. ASSUME waits, NoBodyBefore(m) PROVE Fits(m, resp')
      <4>1. ~req[m].good
        BY <1>5, <2>2, <3>1, LockstepParse
      <4> QED
        BY <2>2, <4>1 DEF Fits, ErrorResponse
    <3> QED
      BY <1>4, <2>1, <2>2, <3>1
  <2>3. CASE /\ WellFramed /\ ParsedBlock.valid /\ pc' = "handle"
             /\ parsed' = [req |-> buffer[1][1], keep |-> ParsedBlock.keep]
    <3>1. ASSUME waits, NoBodyBefore(m)
          PROVE  /\ parsed'.req = m /\ req[m].good /\ req[m].len <= Max - 1 + Chunk
                 /\ parsed'.keep = req[m].keep
      <4>1. /\ buffer[1][1] = m /\ req[m].len <= Max - 1 + Chunk
            /\ ParsedBlock.valid <=> req[m].good
            /\ req[m].good => ParsedBlock.keep = req[m].keep
        BY <1>5, <3>1, LockstepParse
      <4> QED
        BY <2>3, <4>1
    <3> QED
      BY <1>1, <1>2, <2>1, <2>3, <3>1 DEF AsWished
  <2>4. CASE ~WellFramed /\ pc' = "handle"
    <3>1. ~(waits /\ NoBodyBefore(m))
      BY <1>5, <2>4, LockstepParse
    <3> QED
      BY <1>1, <1>2, <2>1, <2>4, <3>1 DEF AsWished
  <2> QED
    BY <1>5, <2>2, <2>3, <2>4 DEF Parse, Respond
<1>6. CASE Handle
  <2>1. UNCHANGED out /\ pc = "handle"
    BY <1>6 DEF Handle
  <2>2. CASE pc' = "end"
    BY <1>3, <2>1, <2>2
  <2>3. CASE /\ pc' = "send" /\ resp'.status = "handled" /\ resp'.req = parsed.req
             /\ resp'.close = ~parsed.keep
    BY <1>4, <2>1, <2>3 DEF AsWished, Fits
  <2> QED
    BY <1>6, <2>2, <2>3 DEF Handle, Respond
<1>7. CASE HeaderTooLarge
  <2>1. /\ UNCHANGED out /\ pc = "read" /\ pc' = "send" /\ resp' = ErrorResponse("large")
        /\ HeaderEnds = {} /\ Len(buffer) >= Max
    BY <1>7 DEF HeaderTooLarge, Respond
  <2>2. ASSUME waits, NoBodyBefore(m) PROVE req[m].len > Max
    <3>1. \A i \in 1..Len(buffer) : buffer[i] = <<m, i>>
      BY <2>1, <2>2 DEF Lockstep, Taken
    <3>2. \A i \in 1..Len(buffer) : req[m].len # i
      BY <2>1, <3>1 DEF HeaderEnds, EndsHeader
    <3>3. 1 \in 1..Len(buffer)
      BY <1>0, <2>1, MaxPositive
    <3>4. m \in 1..Requests
      BY <1>0, <3>1, <3>3, ByteFacts
    <3>5. req[m].len \in Nat \ {0}
      BY <1>0, <3>4, RequestFacts
    <3> QED
      BY <1>0, <2>1, <3>2, <3>5, MaxPositive
  <2> QED
    BY <1>4, <2>1, <2>2 DEF Fits, ErrorResponse
<1>8. CASE ReceiveTimeout
  <2>1. CASE pc' = "end"
    BY <1>3, <1>8, <2>1 DEF ReceiveTimeout
  <2>2. CASE pc' = "send" /\ resp' = ErrorResponse("timeout")
    BY <1>4, <1>8, <2>2 DEF ReceiveTimeout, Fits, ErrorResponse
  <2> QED
    BY <1>8, <2>1, <2>2 DEF ReceiveTimeout, Respond
<1>9. CASE Sends
  <2>1. /\ pc = "send" /\ pc' \in {"arm", "end"}
        /\ Len(out') = Len(out) + 1 /\ out'[Len(out) + 1].resp = resp
        /\ \A i \in 1..Len(out) : out'[i] = out[i]
    BY <1>9, SentFacts DEF Sends
  <2>2. ASSUME waits, NEW i \in 1..Len(out'), NoBodyBefore(i) PROVE Fits(i, out'[i].resp)
    <3>1. CASE i \in 1..Len(out)
      BY <2>1, <2>2, <3>1 DEF AsWished, AnswersItsRequest, Fits
    <3>2. CASE i = Len(out) + 1
      BY <2>1, <2>2, <3>2 DEF AsWished
    <3> QED
      BY <1>0, <2>1, <3>1, <3>2
  <2>3. AnswersItsRequest'
    BY <1>1, <2>2 DEF AnswersItsRequest, Fits, NoBodyBefore
  <2> QED
    BY <2>1, <2>3 DEF AsWished
<1>10. CASE ClientSends \/ ClientLeaves \/ UNCHANGED vars
  <2>1. UNCHANGED <<out, pc, parsed, resp>>
    BY <1>10 DEF ClientSends, ClientLeaves, vars
  <2> QED
    BY <1>1, <1>2, <2>1 DEF AsWished, Fits
<1>11. CASE Prepare \/ ArmTimeout \/ HeaderComplete \/ Receive \/ ReceiveClosed \/ ReceiveFails
  BY <1>3, <1>11
     DEF Prepare, ArmTimeout, HeaderComplete, Receive, ReceiveClosed, ReceiveFails, ReadMore
<1>12. CASE SendOk \/ SendClosed \/ SendFails
  <2>1. pc = "send" /\ \E o : out' = Append(out, o)
    BY <1>12 DEF SendOk, SendClosed, SendFails
  <2>2. out' # out
    BY <1>0, <2>1 DEF TypeOK
  <2> QED
    BY <1>9, <2>1, <2>2, StepKinds DEF ClientMoves, Answers, Works
<1> QED
  BY <1>5, <1>6, <1>7, <1>8, <1>10, <1>11, <1>12 DEF Next, HandlerStep

\* The invariant of a connection.
ConnectionInv ==
    /\ Typed /\ BufferBounded /\ Recorded /\ Closing
    /\ Stream /\ InOrder /\ Ahead /\ Stalled /\ Lockstep

\* It holds in every behaviour, whatever the parser says.
THEOREM ConnectionCorrect == Spec => []ConnectionInv
<1>1. Init => ConnectionInv
  <2>1. Init => BufferBounded /\ Closing
    BY MaxPositive, ChunkPositive DEF Init, BufferBounded, Closing, LastResponse
  <2> QED
    BY <2>1, InitType, InitStream, InitAhead, InitLockstep DEF ConnectionInv
<1>2. ConnectionInv /\ [Next]_vars => ConnectionInv'
  BY StepType, StepBounded, StepRecorded, StepClosing, StepStream, StepInOrder, StepAhead,
     StepStalled, StepLockstep DEF ConnectionInv
<1> QED
  BY <1>1, <1>2, PTL DEF Spec

\* A client that sends one request at a time gets, up to its first body, as
\* its i-th response the one to its i-th request: handled if it is well
\* written and fits, refused only if it is malformed or too large, the
\* connection kept or closed as it asked.  That the parser recognises the
\* blocks the client writes is the hypothesis; that the right block is given
\* to it, whole, is what is proved.
THEOREM AnsweredAsAsked ==
  ASSUME ParserAgrees
  PROVE  Spec => []AnswersItsRequest
<1>1. Init => AsWished
  BY DEF Init, AsWished, AnswersItsRequest
<1>2. ConnectionInv /\ AsWished /\ [Next]_vars => AsWished'
  BY StepAsWished DEF ConnectionInv
<1>3. AsWished => AnswersItsRequest
  BY DEF AsWished
<1> QED
  BY <1>1, <1>2, <1>3, ConnectionCorrect, PTL DEF Spec
=============================================================================

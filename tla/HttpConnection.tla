---------------------------- MODULE HttpConnection ----------------------------
(***************************************************************************)
(* One HTTP connection of the server (Connection): the read loop around    *)
(* llhttp, the callbacks of the parser, the reply, and the reuse of the    *)
(* connection for the next request.                                        *)
(*                                                                         *)
(* All of it runs on the thread of the connection's io_context.  The       *)
(* connection lives as long as an operation or a context refers to it; it  *)
(* closes its socket when the last one is gone.  The chain of intercepters *)
(* is IntercepterChain; here a context replies once, or never.             *)
(***************************************************************************)
EXTENDS Naturals, Sequences, FiniteSets

CONSTANTS
    Kinds,        \* the kinds of requests the clients send: see RequestKinds
    Pipelining,   \* clients send a request before they have the last reply
    MaxRequests   \* bound: requests sent on the connection

\* get has no body, post has one, expect asks for "100 Continue" first; noapp is
\* for a URL of no application; toolarge announces too long a body, and bigbody
\* has one without announcing it; badparts is a form that does not parse;
\* upgrade asks for a websocket.
RequestKinds == {"get", "post", "expect", "noapp", "toolarge", "bigbody",
                 "badparts", "upgrade"}

ASSUME HttpAssumption == /\ Kinds \subseteq RequestKinds
                         /\ Pipelining \in BOOLEAN
                         /\ MaxRequests \in Nat

HasBody(kind) == kind \notin {"get", "noapp", "upgrade"}

Status == {"none", "100", "404", "413", "app"}

Request == [id : 1..MaxRequests, kind : RequestKinds, keep : BOOLEAN]

\* What a context has replied with may be chunked or close the connection.
Reply == [status : Status \ {"none"}, chunked : BOOLEAN, close : BOOLEAN]

\* What the parser calls back for, in the order of the bytes.
Event == [what : {"headers", "body", "complete"}, req : Request]

VARIABLES
    sent,            \* requests sent so far
    input,           \* events whose bytes have been sent and not been read
    batch,           \* events of the bytes that llhttp is working on
    io,              \* what the io_context's thread does
    parser,          \* state of llhttp: an error stays
    read_complete,   \* _read_complete
    app,             \* _app is set
    keep,            \* _request.IsKeepAlive()
    upgrade,         \* _parser->upgrade
    parts,           \* what _request and _body_buffer hold: parts of requests
    status,          \* the reply in _response
    reads,           \* async_read_somes outstanding
    writes,          \* async_writes outstanding: see Reply
    contexts,        \* what each context that has not replied was started with
    wire,            \* replies that are completely written
    handled          \* what each context was started with, in order

vars == <<sent, input, batch, io, parser, read_complete, app, keep, upgrade, parts,
          status, reads, writes, contexts, wire, handled>>
clientVars  == <<sent, input>>
requestVars == <<read_complete, app, keep, upgrade, parts, status>>

Init == /\ sent = 0
        /\ input = <<>>
        /\ batch = <<>>
        /\ io = "handshake"
        /\ parser = "ok"
        /\ read_complete = "none"
        /\ app = FALSE
        /\ keep = FALSE
        /\ upgrade = FALSE
        /\ parts = {}
        /\ status = "none"
        /\ reads = 0
        /\ writes = <<>>
        /\ contexts = <<>>
        /\ wire = <<>>
        /\ handled = <<>>

-------------------------------------------------------------------------------
(* The client *)

Final(w) == w.status # "100"

\* The requests that have got a final reply.
Replied == Cardinality({i \in DOMAIN wire : Final(wire[i])})

Events(r) == IF HasBody(r.kind)
             THEN << [what |-> "headers", req |-> r], [what |-> "body", req |-> r],
                     [what |-> "complete", req |-> r] >>
             ELSE << [what |-> "headers", req |-> r] >>

\* A client sends a request, after the reply to the last one unless it
\* pipelines.  Its bytes may arrive cut anywhere.
ClientSends(kind, k) ==
    /\ sent < MaxRequests
    /\ Pipelining \/ Replied = sent
    /\ sent' = sent + 1
    /\ input' = input \o Events([id |-> sent + 1, kind |-> kind, keep |-> k])
    /\ UNCHANGED <<batch, io, parser, reads, writes, contexts, wire, handled>>
    /\ UNCHANGED requestVars

-------------------------------------------------------------------------------
(* Starting, reading and parsing *)

\* Without TLS, or when the handshake has succeeded, the first read is started.
StartRead ==
    /\ io = "handshake"
    /\ io' = "reactor"
    /\ reads' = reads + 1
    /\ UNCHANGED clientVars
    /\ UNCHANGED requestVars
    /\ UNCHANGED <<batch, parser, writes, contexts, wire, handled>>

HandshakeFails ==
    /\ io = "handshake"
    /\ io' = "reactor"
    /\ UNCHANGED clientVars
    /\ UNCHANGED requestVars
    /\ UNCHANGED <<batch, parser, reads, writes, contexts, wire, handled>>

\* async_read_some completes with the bytes of the next n events; a parser
\* with an error does not look at them.
on_read(n) ==
    /\ io = "reactor"
    /\ reads > 0
    /\ n \in 1..Len(input)
    /\ reads' = reads - 1
    /\ input' = SubSeq(input, n + 1, Len(input))
    /\ batch' = IF parser = "error" THEN <<>> ELSE SubSeq(input, 1, n)
    /\ io' = "Parse"
    /\ UNCHANGED <<sent, parser, writes, contexts, wire, handled>>
    /\ UNCHANGED requestVars

\* It fails, or the client has closed the connection.
on_read_error ==
    /\ io = "reactor"
    /\ reads > 0
    /\ reads' = reads - 1
    /\ UNCHANGED clientVars
    /\ UNCHANGED requestVars
    /\ UNCHANGED <<batch, io, parser, writes, contexts, wire, handled>>

\* do_write serialises the response and starts async_write; the response says
\* close if the request or the program does.
do_write(s, chunked, close) ==
    writes' = Append(writes, [status |-> s, chunked |-> chunked, close |-> close])

NextEvent(what) == io = "Parse" /\ batch # <<>> /\ Head(batch).what = what

\* A callback replies with s through do_write and makes llhttp stop.
Refuse(s) ==
    /\ status' = s
    /\ do_write(s, FALSE, FALSE)
    /\ parser' = "error"
    /\ batch' = <<>>

\* on_message_begin and on_headers_complete.  llhttp reports the end of a
\* message without a body right after its headers.
on_headers_complete ==
    LET r == Head(batch).req
        complete == [what |-> "complete", req |-> r]
    IN  /\ NextEvent("headers")
        /\ read_complete' = "header"
        /\ parts' = {p \in parts : p[2] # "body"} \cup {<<r.id, "headers">>}
        /\ keep' = r.keep
        /\ upgrade' = (r.kind = "upgrade")
        /\ app' = (r.kind # "noapp")
        /\ CASE r.kind = "noapp"    -> Refuse("404")
             [] r.kind = "toolarge" -> Refuse("413")
             [] r.kind = "expect"   -> /\ status' = "100"
                                       /\ do_write("100", FALSE, FALSE)
                                       /\ batch' = Tail(batch)
                                       /\ UNCHANGED parser
             [] OTHER -> /\ batch' = IF HasBody(r.kind) THEN Tail(batch)
                                                       ELSE <<complete>> \o Tail(batch)
                         /\ UNCHANGED <<status, writes, parser>>
        /\ UNCHANGED <<io, reads, contexts, wire, handled>>
        /\ UNCHANGED clientVars

\* on_body: too long a body is refused; a form that does not parse only stops
\* the parser.
on_body ==
    LET r == Head(batch).req
    IN  /\ NextEvent("body")
        /\ CASE r.kind = "bigbody"  -> Refuse("413") /\ UNCHANGED parts
             [] r.kind = "badparts" -> /\ parser' = "error"
                                       /\ batch' = <<>>
                                       /\ UNCHANGED <<status, writes, parts>>
             [] OTHER -> /\ parts' = parts \cup {<<r.id, "body">>}
                         /\ batch' = Tail(batch)
                         /\ UNCHANGED <<status, writes, parser>>
        /\ UNCHANGED <<io, read_complete, app, keep, upgrade, reads, contexts, wire, handled>>
        /\ UNCHANGED clientVars

on_message_complete ==
    /\ NextEvent("complete")
    /\ read_complete' = "message"
    /\ batch' = Tail(batch)
    /\ UNCHANGED <<io, parser, app, keep, upgrade, parts, status, reads, writes, contexts,
                   wire, handled>>
    /\ UNCHANGED clientVars

\* Mutant: the next read is started beside the context.
Executed_reads_on ==
    /\ io = "Parse"
    /\ batch = <<>>
    /\ io' = "reactor"
    /\ IF parser = "error"
       THEN UNCHANGED <<reads, contexts, handled>>
       ELSE /\ reads' = reads + 1
            /\ IF read_complete = "message" /\ app /\ ~upgrade
               THEN /\ contexts' = Append(contexts, parts)
                    /\ handled' = Append(handled, parts)
               ELSE UNCHANGED <<contexts, handled>>
    /\ UNCHANGED <<batch, parser, writes, wire>>
    /\ UNCHANGED clientVars
    /\ UNCHANGED requestVars

\* Mutant: the end of the message is taken for the end of its headers.
Executed_waits ==
    /\ io = "Parse"
    /\ batch = <<>>
    /\ io' = "reactor"
    /\ reads' = IF parser = "error" THEN reads ELSE reads + 1
    /\ UNCHANGED <<batch, parser, writes, wire, contexts, handled>>
    /\ UNCHANGED clientVars
    /\ UNCHANGED requestVars

\* llhttp_execute has returned: give up, read on, hand the socket over to a
\* websocket connection (or drop it), or start a context for the request.
Executed ==
    /\ io = "Parse"
    /\ batch = <<>>
    /\ io' = "reactor"
    /\ CASE parser = "error" ->
                UNCHANGED <<reads, contexts, handled>>
         [] parser = "ok" /\ read_complete # "message" ->
                reads' = reads + 1 /\ UNCHANGED <<contexts, handled>>
         [] parser = "ok" /\ read_complete = "message" ->
                /\ app   \* the assertion of do_read
                /\ IF upgrade
                   THEN UNCHANGED <<contexts, handled>>
                   ELSE /\ contexts' = Append(contexts, parts)
                        /\ handled' = Append(handled, parts)
                /\ UNCHANGED reads
    /\ UNCHANGED <<batch, parser, writes, wire>>
    /\ UNCHANGED clientVars
    /\ UNCHANGED requestVars

-------------------------------------------------------------------------------
(* Replying *)

\* A context starts its reply: StartWrite.  The program has chosen whether it is
\* chunked and whether it closes the connection.
StartWrite(chunked, close) ==
    /\ io = "reactor"
    /\ contexts # <<>>
    /\ contexts' = Tail(contexts)
    /\ status' = "app"
    /\ do_write("app", chunked, close)
    /\ UNCHANGED <<batch, io, parser, read_complete, app, keep, upgrade, parts, reads,
                   wire, handled>>
    /\ UNCHANGED clientVars

\* The handler threw, or nobody calls Pass or Stop any more.
NoReply ==
    /\ io = "reactor"
    /\ contexts # <<>>
    /\ contexts' = Tail(contexts)
    /\ UNCHANGED <<batch, io, parser, reads, writes, wire, handled>>
    /\ UNCHANGED clientVars
    /\ UNCHANGED requestVars

\* Mutant: the request is not reset.
reset_keeps_request ==
    /\ read_complete' = "none"
    /\ app' = FALSE
    /\ status' = "none"
    /\ UNCHANGED <<keep, upgrade, parts>>

reset == /\ read_complete' = "none"
         /\ app' = FALSE
         /\ keep' = FALSE
         /\ parts' = {}
         /\ status' = "none"
         /\ UNCHANGED upgrade

\* The handler of async_write in do_write: a connection that is kept alive is
\* reset and read from again.  A chunked reply (ChunkedResponse) is never
\* followed by another read.
on_wrote ==
    /\ io = "reactor"
    /\ writes # <<>>
    /\ wire' = Append(wire, Head(writes))
    /\ writes' = Tail(writes)
    /\ IF keep /\ ~Head(writes).chunked /\ ~Head(writes).close
       THEN reset /\ reads' = reads + 1
       ELSE UNCHANGED requestVars /\ UNCHANGED reads
    /\ UNCHANGED <<batch, io, parser, contexts, handled>>
    /\ UNCHANGED clientVars

on_write_error ==
    /\ io = "reactor"
    /\ writes # <<>>
    /\ writes' = Tail(writes)
    /\ UNCHANGED <<batch, io, parser, reads, contexts, wire, handled>>
    /\ UNCHANGED clientVars
    /\ UNCHANGED requestVars

-------------------------------------------------------------------------------
Parsing == on_headers_complete \/ on_body \/ on_message_complete \/ Executed

Next == \/ \E kind \in Kinds, k \in BOOLEAN : ClientSends(kind, k)
        \/ StartRead
        \/ HandshakeFails
        \/ \E n \in 1..Len(input) : on_read(n)
        \/ on_read_error
        \/ Parsing
        \/ \E chunked, close \in BOOLEAN : StartWrite(chunked, close)
        \/ NoReply
        \/ on_wrote
        \/ on_write_error

Spec == Init /\ [][Next]_vars

\* The io_context runs ready handlers, bytes that were sent arrive or the read
\* fails, writes complete, and a context replies or is dropped.
FairSpec == /\ Spec
            /\ WF_vars(StartRead \/ HandshakeFails)
            /\ WF_vars(\E n \in 1..Len(input) : on_read(n))
            /\ WF_vars(Parsing)
            /\ WF_vars(NoReply \/ \E chunked, close \in BOOLEAN : StartWrite(chunked, close))
            /\ WF_vars(on_wrote \/ on_write_error)

-------------------------------------------------------------------------------
(* Properties *)

\* Types; in particular nothing is written before the response says what.
TypeOK == /\ sent \in 0..MaxRequests
          /\ input \in Seq(Event)
          /\ batch \in Seq(Event)
          /\ io \in {"handshake", "reactor", "Parse"}
          /\ parser \in {"ok", "error"}
          /\ read_complete \in {"none", "header", "message"}
          /\ app \in BOOLEAN
          /\ keep \in BOOLEAN
          /\ upgrade \in BOOLEAN
          /\ parts \subseteq (1..MaxRequests) \X {"headers", "body"}
          /\ status \in Status
          /\ reads \in Nat
          /\ writes \in Seq(Reply)
          /\ contexts \in Seq(SUBSET ((1..MaxRequests) \X {"headers", "body"}))
          /\ wire \in Seq(Reply)
          /\ handled \in Seq(SUBSET ((1..MaxRequests) \X {"headers", "body"}))

\* One thing at a time: a read, a write or a context, since all of them use the
\* one _request, _response and buffer of the connection.  It holds for clients
\* that do not ask for "100 Continue".
OneAtATime == reads + Len(writes) + Len(contexts) <= 1

\* A context is started with one whole request, and the requests that get as far
\* are handled in the order in which they were sent, each once, however the bytes
\* are cut and whatever came before on the connection.
WholeRequests ==
    /\ \A i \in DOMAIN handled : \E id \in 1..sent :
            handled[i] \in {{<<id, "headers">>}, {<<id, "headers">>, <<id, "body">>}}
    /\ \A i, j \in DOMAIN handled : i < j =>
            \A p \in handled[i], q \in handled[j] : p[1] < q[1]

\* The connection is gone: nobody refers to it any more.
Closed == io = "reactor" /\ reads = 0 /\ writes = <<>> /\ contexts = <<>>

\* Every request is replied to or the connection is closed: no client waits
\* forever on an open connection.
Settled == \A n \in 1..MaxRequests : (sent >= n) ~> (Replied >= n \/ Closed)

\* do_read's assertion: there is an application when a request is complete.
AppWhenComplete ==
    (io = "Parse" /\ batch = <<>> /\ parser = "ok" /\ read_complete = "message") => app
===============================================================================

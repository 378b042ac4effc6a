------------------------------ MODULE HttpClient ------------------------------
(***************************************************************************)
(* The HTTP client (Client::Connection).  A program issues one request at  *)
(* a time, with Request (asynchronous) or RequestSync (blocking), and may  *)
(* call Reset and Close.  A request resolves the host name, connects,      *)
(* writes, and reads until the parser has seen the end of a response.      *)
(*                                                                         *)
(* A response is a head and a body, one segment each; llhttp is external   *)
(* and modelled by what it makes of segments.  It counts bytes: inside a   *)
(* body whatever arrives is body.  The server closes the connection after  *)
(* a response that has no length.                                          *)
(*                                                                         *)
(* The history req.faults names what stands between a request and its      *)
(* response; the properties say what holds of the others.                  *)
(***************************************************************************)
EXTENDS Naturals, Sequences

CONSTANTS
    MaxRequests,    \* bound: requests issued
    MaxBreaks,      \* bound: times an established connection breaks
    MaxCalls        \* bound: calls of Reset and Close

ASSUME ClientAssumption == /\ MaxRequests \in Nat
                           /\ MaxBreaks \in Nat
                           /\ MaxCalls \in Nat

VARIABLES
    with_ssl,       \* _with_ssl
    endpoint,       \* _server_endpoint has a port
    is_connected,   \* _is_connected
    error,          \* _error
    parser,         \* state of _parser
    resp,           \* _read_complete, _response_headers, _response_body
    phase,          \* which operation of the request is under way
    req,            \* the request: number, mode, action, history
    socket,         \* "closed", "raw" (TCP, but no TLS session) or "up"
    wire, eof,      \* what has arrived and is not read; the peer has closed
    todo,           \* what the server has still to send
    last, answers,  \* the report of the last request to the program, until the
                    \* next one begins; number of reports
    fresh,          \* history: the response state is reset since the last report
    issued, breaks, calls

netVars == <<socket, wire, eof, todo>>
clientVars ==
    <<with_ssl, endpoint, is_connected, error, parser, resp, phase, req,
      socket, wire, eof, todo, last, answers, fresh, issued, breaks, calls>>

NoResponse == [complete |-> "none", heads |-> <<>>, body |-> <<>>]
NoRequest  == [n |-> 0, mode |-> "async", action |-> "keep_connection",
               again |-> FALSE, faults |-> {}]
NoReport   == [n |-> 0, ok |-> TRUE, err |-> FALSE, faults |-> {}, resp |-> NoResponse]

\* The constructor does not initialise _error: it may hold anything.
ClientInit ==
    /\ with_ssl \in BOOLEAN
    /\ endpoint = FALSE
    /\ is_connected = FALSE
    /\ error \in {"on_none", "garbage"}
    /\ parser = "start"
    /\ resp = NoResponse
    /\ phase = "idle"
    /\ req = NoRequest
    /\ socket = "closed"
    /\ wire = <<>> /\ eof = FALSE /\ todo = <<>>
    /\ last = NoReport /\ answers = 0
    /\ fresh = FALSE
    /\ issued = 0 /\ breaks = 0 /\ calls = 0

HasError == error # "on_none"
Busy == phase \notin {"idle", "aborted"}

-------------------------------------------------------------------------------
(* The response *)

Seg(n, part) == [of |-> n, part |-> part]

\* What the server sends in answer to request n.
Response(n, kind) ==
    CASE kind = "length"      -> <<Seg(n, "head_length"), Seg(n, "body")>>
      [] kind = "until_close" -> <<Seg(n, "head_close"), Seg(n, "body"), Seg(n, "fin")>>
      [] kind = "malformed"   -> <<Seg(n, "bad")>>

\* Mutant: a new message does not clear the body.
on_message_begin_keeps_body(p) == [p EXCEPT !.resp.complete = "none"]

on_message_begin(p) == [p EXCEPT !.resp.complete = "none", !.resp.body = <<>>]

\* Headers are inserted, which leaves a header that is there already.
on_headers_complete(p, seg) ==
    [p EXCEPT !.resp.complete = "header", !.resp.heads = Append(@, seg.of)]

on_body(p, seg) == [p EXCEPT !.resp.body = Append(@, seg)]

on_message_complete(p) == [p EXCEPT !.resp.complete = "message"]

\* llhttp_execute on one segment.  An error is for good: nothing initialises the
\* parser again.
Execute(p, seg) ==
    CASE p.parser = "failed" -> p
      [] p.parser = "body" ->
            on_message_complete(on_body([p EXCEPT !.parser = "start"], seg))
      [] p.parser = "body_until_close" -> on_body(p, seg)
      [] p.parser = "start" /\ seg.part = "head_length" ->
            on_headers_complete(on_message_begin([p EXCEPT !.parser = "body"]), seg)
      [] p.parser = "start" /\ seg.part = "head_close" ->
            on_headers_complete(on_message_begin([p EXCEPT !.parser = "body_until_close"]), seg)
      [] OTHER -> on_message_begin([p EXCEPT !.parser = "failed"])

\* ... and on one segment after the other.
llhttp_execute(segs) ==
    LET run[i \in 0..Len(segs)] ==
            IF i = 0 THEN [parser |-> parser, resp |-> resp]
                     ELSE Execute(run[i - 1], segs[i])
    IN  run[Len(segs)]

-------------------------------------------------------------------------------
(* The end of a request *)

\* The program is told, by a call of notify or by what RequestSync returns.
Tell(ok, e, r) ==
    /\ last' = [n |-> req.n, ok |-> ok, err |-> e # "on_none",
                faults |-> req.faults, resp |-> r]
    /\ answers' = answers + 1
    /\ error' = e
    /\ resp' = r

End == /\ phase' = "idle"
       /\ fresh' = FALSE
       /\ UNCHANGED <<req, issued>>

\* do_close, with the bytes left of what has arrived.  It does nothing unless
\* _is_connected: a TCP connection whose TLS handshake has failed stays open.
do_close(left) ==
    IF is_connected
    THEN /\ is_connected' = FALSE
         /\ socket' = "closed"
         /\ wire' = <<>> /\ eof' = FALSE /\ todo' = <<>>
    ELSE /\ wire' = left
         /\ UNCHANGED <<is_connected, socket, eof, todo>>

CloseIfAsked(left) ==
    IF req.action = "close_connection"
    THEN do_close(left)
    ELSE /\ wire' = left
         /\ UNCHANGED <<is_connected, socket, eof, todo>>

-------------------------------------------------------------------------------
(* Requests *)

\* Mutant: a connection is made although there is one.
do_connect_always(connected) == phase' = "connecting"

\* do_connect: the next operation is the write when there is a connection.
do_connect(connected) == phase' = IF connected THEN "writing" ELSE "connecting"

NewRequest(n, mode, action, faults) ==
    [n |-> n, mode |-> mode, action |-> action, again |-> FALSE, faults |-> faults]

\* Request and RequestSync.
Request(mode, action) ==
    /\ phase = "idle"
    /\ issued < MaxRequests
    /\ issued' = issued + 1
    /\ req' = NewRequest(issued + 1, mode, action, {})
    /\ IF endpoint \/ is_connected
       THEN do_connect(is_connected)
       ELSE phase' = "resolving"
    /\ last' = NoReport
    /\ UNCHANGED <<with_ssl, endpoint, is_connected, error, parser, resp,
                   answers, fresh, breaks, calls>>
    /\ UNCHANGED netVars

\* The request fails before anything is written; the connection is left as it is.
FailEarly(e, faults) ==
    /\ last' = [n |-> req.n, ok |-> FALSE, err |-> e # "on_none",
                faults |-> req.faults \union faults, resp |-> resp]
    /\ answers' = answers + 1
    /\ error' = e
    /\ End
    /\ UNCHANGED <<with_ssl, is_connected, parser, resp, breaks, calls>>

on_resolve_error == /\ phase = "resolving"
                    /\ FailEarly("on_resolver", {"resolver"})
                    /\ UNCHANGED endpoint
                    /\ UNCHANGED netVars

\* An empty list of addresses: do_resolver notifies without an error, and
\* Connect goes on to do_connect, whose assertion on the port then fails.
on_resolve_empty ==
    /\ phase = "resolving"
    /\ UNCHANGED endpoint
    /\ UNCHANGED netVars
    /\ \/ /\ req.mode = "sync"
          /\ FailEarly("on_resolver", {"resolver"})
       \/ /\ req.mode = "async"
          /\ error' = "on_resolver"
          /\ phase' = "aborted"
          /\ UNCHANGED <<with_ssl, is_connected, parser, resp, req, last,
                         answers, fresh, issued, breaks, calls>>

\* The asynchronous do_resolver connects on its own; Connect's callback is called
\* after that and connects again.  ConnectSync looks at _error, which may be that
\* of an earlier request or never have been set.
on_resolved ==
    /\ phase = "resolving"
    /\ endpoint' = TRUE
    /\ UNCHANGED netVars
    /\ \/ /\ req.mode = "sync" /\ HasError
          /\ FailEarly(error, {"stale_error"})
       \/ /\ req.mode = "sync" => ~HasError
          /\ do_connect(is_connected)
          /\ req' = [req EXCEPT !.again = (req.mode = "async")]
          /\ UNCHANGED <<with_ssl, is_connected, error, parser, resp, last,
                         answers, fresh, issued, breaks, calls>>

\* The connection is made: reset, and whoever waits for it goes on.
Connected ==
    /\ is_connected' = TRUE
    /\ error' = "on_none"
    /\ resp' = NoResponse
    /\ fresh' = TRUE
    /\ IF req.again THEN do_connect(TRUE) ELSE phase' = "writing"
    /\ req' = [req EXCEPT !.again = FALSE]
    /\ UNCHANGED <<with_ssl, endpoint, parser, last, answers, issued, breaks, calls>>

\* A socket that is connected cannot be connected again.
on_connected ==
    /\ phase = "connecting"
    /\ socket = "closed"
    /\ wire' = <<>> /\ eof' = FALSE /\ todo' = <<>>
    /\ \/ /\ with_ssl /\ req.mode = "async"
          /\ socket' = "raw"
          /\ phase' = "handshake"
          /\ UNCHANGED <<with_ssl, endpoint, is_connected, error, parser, resp,
                         req, last, answers, fresh, issued, breaks, calls>>
       \/ /\ ~with_ssl \/ req.mode = "sync"    \* sync_connect makes no handshake
          /\ socket' = IF with_ssl THEN "raw" ELSE "up"
          /\ Connected

on_connect_error ==
    /\ phase = "connecting"
    /\ FailEarly("on_connect", CASE socket = "closed" -> {"connect"}
                                 [] socket = "raw" -> {"open_socket"}
                                 [] OTHER -> {})
    /\ UNCHANGED endpoint
    /\ UNCHANGED netVars

on_handshake == /\ phase = "handshake"
                /\ socket' = "up"
                /\ Connected
                /\ UNCHANGED <<wire, eof, todo>>

on_handshake_error == /\ phase = "handshake"
                      /\ FailEarly("on_connect", {"connect"})
                      /\ UNCHANGED endpoint
                      /\ UNCHANGED netVars

-------------------------------------------------------------------------------
(* Writing and reading *)

\* What is against this request when its write is done.
FaultsFound(kind, intact) ==
    (IF parser # "start" THEN {"parser"} ELSE {})
    \union (IF wire # <<>> \/ todo # <<>> THEN {"leftover"} ELSE {})
    \union (IF fresh THEN {} ELSE {"mixed"})
    \union (IF HasError THEN {"stale_error"} ELSE {})
    \union (IF eof THEN {"broken"} ELSE {})
    \union (IF kind = "length" THEN {} ELSE {kind})
    \union (IF intact THEN {} ELSE {"buffer"})

\* The request is written.  The buffer that the asynchronous write was given is
\* destroyed when do_write returns: what is not written by then is anything
\* (~intact), and the server answers something else.
\* WriteSync reports a failure when _error is still set, after having written.
on_wrote(kind, intact) ==
    /\ phase = "writing"
    /\ socket = "up" \/ (socket = "closed" /\ req.mode = "async")
    /\ intact \/ req.mode = "async"
    /\ LET r == [req EXCEPT !.faults = @ \union FaultsFound(kind, intact)]
           sent == IF socket = "up" /\ ~eof
                   THEN todo \o Response(IF intact THEN req.n ELSE 0, kind)
                   ELSE todo
       IN \/ /\ req.mode = "async" \/ ~HasError
             /\ req' = r
             /\ todo' = sent
             /\ phase' = "reading"
             /\ UNCHANGED <<is_connected, error, resp, socket, wire, eof, last,
                            answers, fresh, issued>>
          \/ /\ req.mode = "sync" /\ HasError
             /\ last' = [n |-> req.n, ok |-> FALSE, err |-> TRUE,
                         faults |-> r.faults, resp |-> resp]
             /\ answers' = answers + 1
             /\ End
             /\ IF req.action = "close_connection"
                THEN do_close(wire)
                ELSE todo' = sent /\ UNCHANGED <<is_connected, socket, wire, eof>>
             /\ UNCHANGED <<error, resp>>
    /\ UNCHANGED <<with_ssl, endpoint, parser, breaks, calls>>

\* Request returns after a write that failed; RequestSync closes if asked to.
on_write_error ==
    /\ phase = "writing"
    /\ eof \/ socket # "up"
    /\ last' = [n |-> req.n, ok |-> FALSE, err |-> TRUE, resp |-> resp,
                faults |-> req.faults \union (IF eof THEN {"broken"} ELSE {})
                                      \union (IF socket = "raw" THEN {"no_tls"} ELSE {})]
    /\ answers' = answers + 1
    /\ error' = "on_write"
    /\ End
    /\ IF req.mode = "sync"
       THEN CloseIfAsked(wire)
       ELSE UNCHANGED <<is_connected, socket, wire, eof, todo>>
    /\ UNCHANGED <<with_ssl, endpoint, parser, resp, breaks, calls>>

\* The program's notify issues the next request before Request closes the
\* connection under it.
Chain(action) ==
    /\ req.mode = "async" /\ req.action = "close_connection"
    /\ issued < MaxRequests
    /\ issued' = issued + 1
    /\ req' = NewRequest(issued + 1, "async", action,
                         IF is_connected THEN {"closed"} ELSE {})
    /\ do_connect(is_connected)
    /\ fresh' = FALSE

\* The read is over: with ok, with _error e and with the response r.
ReadOver(ok, e, r, left) ==
    /\ Tell(ok, e, r)
    /\ \/ End
       \/ \E action \in {"keep_connection", "close_connection"} : Chain(action)
    /\ CloseIfAsked(left)

\* A part of what has arrived is read.  When it does not parse, the error code
\* that notify is given is still that of the read, which is none.
on_read(k) ==
    LET p == llhttp_execute(SubSeq(wire, 1, k))
        left == SubSeq(wire, k + 1, Len(wire))
    IN  /\ phase = "reading" /\ socket = "up"
        /\ parser' = p.parser
        /\ CASE p.parser = "failed" -> ReadOver(req.mode = "async", "on_read", p.resp, left)
             [] p.parser # "failed" /\ p.resp.complete = "message" -> ReadOver(TRUE, error, p.resp, left)
             [] OTHER -> /\ resp' = p.resp
                         /\ wire' = left
                         /\ UNCHANGED <<is_connected, error, phase, req, socket, eof, todo,
                                        last, answers, fresh, issued>>
        /\ UNCHANGED <<with_ssl, endpoint, breaks, calls>>

\* Mutant: the end of the connection is not noticed.
on_read_error_only_closed ==
    /\ phase = "reading"
    /\ socket # "up"
    /\ ReadOver(FALSE, "on_read", resp, wire)
    /\ UNCHANGED <<with_ssl, endpoint, parser, breaks, calls>>

on_read_error ==
    /\ phase = "reading"
    /\ socket # "up" \/ (wire = <<>> /\ eof)
    /\ ReadOver(FALSE, "on_read", resp, wire)
    /\ UNCHANGED <<with_ssl, endpoint, parser, breaks, calls>>

-------------------------------------------------------------------------------
(* The program's other calls, while no RequestSync blocks it *)

Reset ==
    /\ phase = "idle" \/ (Busy /\ req.mode = "async")
    /\ calls < MaxCalls
    /\ calls' = calls + 1
    /\ error' = "on_none"
    /\ resp' = NoResponse
    /\ fresh' = TRUE
    /\ req' = IF Busy THEN [req EXCEPT !.faults = @ \union {"reset"}] ELSE req
    /\ UNCHANGED <<with_ssl, endpoint, is_connected, parser, phase, last, answers,
                   issued, breaks>>
    /\ UNCHANGED netVars

Close ==
    /\ phase = "idle" \/ (Busy /\ req.mode = "async")
    /\ calls < MaxCalls
    /\ calls' = calls + 1
    /\ do_close(wire)
    /\ req' = IF Busy THEN [req EXCEPT !.faults = @ \union {"closed"}] ELSE req
    /\ UNCHANGED <<with_ssl, endpoint, error, parser, resp, phase, last, answers,
                   fresh, issued, breaks>>

-------------------------------------------------------------------------------
(* The server and the network *)

ServerSends ==
    /\ todo # <<>>
    /\ todo' = Tail(todo)
    /\ IF Head(todo).part = "fin"
       THEN eof' = TRUE /\ UNCHANGED wire
       ELSE wire' = Append(wire, Head(todo)) /\ UNCHANGED eof
    /\ UNCHANGED <<with_ssl, endpoint, is_connected, error, parser, resp, phase, req,
                   socket, last, answers, fresh, issued, breaks, calls>>

\* The connection breaks; a part of what was sent still arrives.
Break ==
    /\ socket = "up" /\ ~eof
    /\ breaks < MaxBreaks
    /\ breaks' = breaks + 1
    /\ eof' = TRUE
    /\ todo' = <<>>
    /\ \E n \in 0..Len(wire) : wire' = SubSeq(wire, 1, n)
    /\ req' = IF Busy THEN [req EXCEPT !.faults = @ \union {"broken"}] ELSE req
    /\ UNCHANGED <<with_ssl, endpoint, is_connected, error, parser, resp, phase,
                   socket, last, answers, fresh, issued, calls>>

-------------------------------------------------------------------------------
Completion ==
    \/ on_resolve_error \/ on_resolve_empty \/ on_resolved
    \/ on_connected \/ on_connect_error
    \/ on_handshake \/ on_handshake_error
    \/ \E kind \in {"length", "until_close", "malformed"}, intact \in BOOLEAN : on_wrote(kind, intact)
    \/ on_write_error
    \/ \E k \in 1..Len(wire) : on_read(k)
    \/ on_read_error

ClientNext ==
    \/ \E mode \in {"sync", "async"}, action \in {"keep_connection", "close_connection"} :
           Request(mode, action)
    \/ Completion
    \/ Reset
    \/ Close
    \/ ServerSends
    \/ Break

ClientSpec == ClientInit /\ [][ClientNext]_clientVars

\* Operations complete and a server that has answered sends its answer.
ClientFairSpec ==
    ClientSpec /\ WF_clientVars(Completion) /\ WF_clientVars(ServerSends)

-------------------------------------------------------------------------------
(* Properties *)

Faults == {"resolver", "connect", "open_socket", "stale_error", "parser", "leftover",
           "mixed", "broken", "until_close", "malformed", "buffer", "closed", "reset",
           "no_tls"}

Segments == [of : 0..MaxRequests, part : {"head_length", "head_close", "body", "fin", "bad"}]

Errors == {"on_none", "garbage", "on_resolver", "on_connect", "on_write", "on_read"}

ParserStates == {"start", "body", "body_until_close", "failed"}

Responses == [complete : {"none", "header", "message"}, heads : Seq(0..MaxRequests),
              body : Seq(Segments)]

Requests == [n : 0..MaxRequests, mode : {"sync", "async"},
             action : {"keep_connection", "close_connection"}, again : BOOLEAN,
             faults : SUBSET Faults]

Reports == [n : 0..MaxRequests, ok : BOOLEAN, err : BOOLEAN, faults : SUBSET Faults,
            resp : Responses]

\* Types of the client's state and of its connection.
ClientTypeOK ==
    /\ with_ssl \in BOOLEAN /\ endpoint \in BOOLEAN /\ fresh \in BOOLEAN
    /\ is_connected \in BOOLEAN /\ eof \in BOOLEAN
    /\ error \in Errors
    /\ parser \in ParserStates
    /\ resp \in Responses
    /\ phase \in {"idle", "resolving", "connecting", "handshake", "writing", "reading", "aborted"}
    /\ req \in Requests
    /\ socket \in {"closed", "raw", "up"}
    /\ wire \in Seq(Segments) /\ todo \in Seq(Segments)
    /\ last \in Reports
    /\ answers \in Nat /\ issued \in 0..MaxRequests

\* The program is told of every request once, and the truth: a request that is
\* reported as a success with no error has got its own response and all of it: the
\* body is its body, and the headers are its headers when the state of the last
\* response was reset (by a new connection or by Reset).  Not so after a response
\* that was cut off, because the parser is never initialised again and takes the
\* next response for the rest of the old one; nor when the program resets in the
\* middle or the write reads its destroyed buffer.
Truthful ==
    /\ answers + (IF phase = "idle" THEN 0 ELSE 1) = issued
    /\ (last.ok /\ ~last.err /\ last.n > 0
         /\ last.faults \intersect {"parser", "buffer", "reset"} = {})
       => /\ last.resp.complete = "message"
          /\ last.resp.body = <<Seg(last.n, "body")>>
          /\ "mixed" \notin last.faults => last.resp.heads = <<last.n>>

\* A request fails only for a reason: when it could be resolved, connected and
\* written, the connection held until the end of the response, and what earlier
\* requests left (the parser's state, _error, bytes) was clean, it succeeds.
\* The second do_connect of Connect is harmless, and keeping a connection works.
NoFalseFailure == last.faults \subseteq {"mixed"} => last.ok /\ ~last.err

\* Every request comes to its end sooner or later, and the program is told,
\* unless the request began with a parser in the middle of an earlier response.
Answered == Busy ~> ~Busy \/ "parser" \in req.faults
================================================================================

------------------------------ MODULE RequestReader ----------------------------
(***************************************************************************)
(* How a connection puts the requests together from the fragments that the *)
(* parsers call it with: headers, and the parts of a multipart body with   *)
(* their headers.  The HTTP parser (external) calls back with fragments of *)
(* any size; the multipart parser is fed with fragments of any size.       *)
(***************************************************************************)
EXTENDS UrlPaths, FiniteSets

CONSTANTS
    Characters,     \* what the texts are made of
    Connections,    \* the sequences of requests that are sent
    MaxFragment     \* bound: characters in a fragment of a field or value

ASSUME CharactersAssumption == {"CR", "LF", "-", ":", " "} \subseteq Characters

\* Requests as the HTTP parser lets them through: a field is never empty.
Chars       == Seq(Characters)
HeaderType  == [field : Chars \ {<<>>}, value : Chars]
PartType    == [headers : Seq([field : Chars, value : Chars]), data : Chars]
RequestType == [headers : Seq(HeaderType), boundary : Chars, parts : Seq(PartType)]

ASSUME MaxFragmentAssumption == MaxFragment \in Nat \ {0}

ASSUME ConnectionsAssumption == Connections \subseteq Seq(RequestType)

VARIABLES
    requests,   \* the requests of the connection
    run,        \* the field or value that is being read ...
    offset,     \* ... and how much of it, or of the body, has been
    c,          \* the connection
    broken,     \* a callback has refused the request; nothing is read after that
    handled     \* what the application has got

-------------------------------------------------------------------------------
(* Requests.  A header has a field and a value.  The value of the header      *)
(* ContentType, when there is one, is <<"m">>, followed by the boundary unless *)
(* it is missing; the request is then a multipart one.                         *)

ContentType == <<"t">>
LineEnd == <<"CR", "LF">>

Line(h) == h.field \o <<":", " ">> \o h.value \o LineEnd

\* A body as clients write it.
Body(r) ==
    FlattenSeq([i \in DOMAIN r.parts |->
        <<"-", "-">> \o r.boundary \o LineEnd
        \o FlattenSeq([j \in DOMAIN r.parts[i].headers |-> Line(r.parts[i].headers[j])])
        \o LineEnd \o r.parts[i].data \o LineEnd])
    \o IF r.parts = <<>> THEN <<>> ELSE <<"-", "-">> \o r.boundary \o <<"-", "-">> \o LineEnd

\* The boundary that the headers name, or nothing.
Named(headers) ==
    LET types == {h \in headers : iEquals(h.field, ContentType)}
    IN  IF types = {} THEN <<>> ELSE Tail((CHOOSE h \in types : TRUE).value)

\* The fields and values in their order.
Runs(r) == [i \in 1..(2 * Len(r.headers)) |->
               IF i % 2 = 1 THEN [kind |-> "field", text |-> r.headers[(i + 1) \div 2].field]
                            ELSE [kind |-> "value", text |-> r.headers[i \div 2].value]]

-------------------------------------------------------------------------------
(* The connection *)

NoParser == [state |-> "none"]

reset == [part |-> "none", field |-> <<>>, value |-> <<>>,     \* _reading_header_...
          headers |-> {}, body |-> <<>>, boundary |-> <<>>,
          mp |-> NoParser,                                     \* _mp_parser
          partHeaders |-> {}, partData |-> <<>>, parts |-> <<>>]

\* AppendHeader, of a request or of a part: the last value of a field counts.
AppendHeader(headers, field, value) ==
    IF \E h \in headers : iEquals(h.field, field)
    THEN {IF iEquals(h.field, field) THEN [h EXCEPT !.value = value] ELSE h : h \in headers}
    ELSE headers \cup {[field |-> field, value |-> value]}

\* ... and it moves the field into the map only if the field is new: otherwise it
\* stays where it is.
FieldAfter(headers, field) == IF \E h \in headers : iEquals(h.field, field) THEN field ELSE <<>>

HaveUncommitted(d) == d.part = "value" /\ d.field # <<>>

try_commit_reading_request_header(d) ==
    IF HaveUncommitted(d)
    THEN [d EXCEPT !.headers = AppendHeader(@, d.field, d.value),
                   !.field = FieldAfter(d.headers, d.field), !.value = <<>>, !.part = "none"]
    ELSE d

on_header_field(d, text) ==
    [try_commit_reading_request_header(d) EXCEPT !.field = @ \o text, !.part = "field"]

on_header_value(d, text) ==
    [d EXCEPT !.value = (IF d.part = "field" THEN <<>> ELSE @) \o text, !.part = "value"]

-------------------------------------------------------------------------------
(* Callbacks of the multipart parser *)

CommitPartHeader(d, part) ==
    IF HaveUncommitted(d)
    THEN [d EXCEPT !.partHeaders = AppendHeader(@, d.field, d.value),
                   !.field = FieldAfter(d.partHeaders, d.field), !.value = <<>>, !.part = part]
    ELSE d

on_multipart_header_field(d, text) == [CommitPartHeader(d, "field") EXCEPT !.field = @ \o text]

on_multipart_headers_complete(d) == CommitPartHeader(d, "none")

on_multipart_data_begin(d) ==
    [d EXCEPT !.part = "none", !.field = <<>>, !.value = <<>>, !.partData = <<>>]

on_multipart_data(d, text) == [d EXCEPT !.partData = @ \o text]

\* Mutant: the headers of a part are copied and stay.
on_multipart_data_end_copies(d) ==
    [d EXCEPT !.parts = Append(@, [headers |-> d.partHeaders, data |-> d.partData]), !.partData = <<>>]

on_multipart_data_end(d) ==
    [d EXCEPT !.parts = Append(@, [headers |-> d.partHeaders, data |-> d.partData]),
              !.partHeaders = {}, !.partData = <<>>]

init_multipart_parser(d, boundary) ==
    [d EXCEPT !.boundary = boundary,
              !.mp = [state |-> "start_boundary", boundary |-> <<"-", "-">> \o boundary, index |-> 0]]

-------------------------------------------------------------------------------
(* multipart_parser_execute.  mark is what has been read behind p->mark.     *)

Goto(d, state) == [d EXCEPT !.mp.state = state]
IsName(ch) == ch \in {"-", "a", "A", "b", "B", "t"}

\* The text behind the mark is passed on when the buffer ends.
ReadField(d, mark, ch, last) ==
    CASE ch = "CR" -> [d |-> Goto(d, "headers_almost_done"), mark |-> <<>>, ok |-> TRUE]
      [] ch = ":"  -> [d |-> Goto(on_multipart_header_field(d, mark), "header_value_start"),
                       mark |-> <<>>, ok |-> TRUE]
      [] OTHER     -> [d |-> IF last THEN on_multipart_header_field(d, Append(mark, ch)) ELSE d,
                       mark |-> Append(mark, ch), ok |-> IsName(ch)]

ReadValue(d, mark, ch, last) ==
    IF ch = "CR"
    THEN [d |-> Goto(on_header_value(d, mark), "header_value_almost_done"), mark |-> <<>>, ok |-> TRUE]
    ELSE [d |-> IF last THEN on_header_value(d, Append(mark, ch)) ELSE d,
          mark |-> Append(mark, ch), ok |-> TRUE]

ReadData(d, mark, ch, last) ==
    IF ch = "CR"
    THEN [d |-> Goto(on_multipart_data(d, mark), "part_data_almost_boundary"), mark |-> <<>>, ok |-> TRUE]
    ELSE [d |-> IF last THEN on_multipart_data(d, Append(mark, ch)) ELSE d,
          mark |-> Append(mark, ch), ok |-> TRUE]

\* What looked like a boundary was data; the character is looked at again.
NoBoundary(d, lookbehind, ch, last) ==
    ReadData(Goto(on_multipart_data(d, lookbehind), "part_data"), <<>>, ch, last)

ReadBoundary(d, ch, last) ==
    LET n == d.mp.index + 1
    IN  CASE d.mp.boundary[n] # ch -> NoBoundary(d, LineEnd \o SubSeq(d.mp.boundary, 1, d.mp.index), ch, last)
          [] d.mp.boundary[n] = ch /\ n < Len(d.mp.boundary) ->
                [d |-> [d EXCEPT !.mp.index = n], mark |-> <<>>, ok |-> TRUE]
          [] OTHER -> [d |-> Goto(on_multipart_data_end(d), "part_data_almost_end"), mark |-> <<>>, ok |-> TRUE]

\* A state that takes one character and nothing else.
Expect(d, ch, wanted, next) == [d |-> next, mark |-> <<>>, ok |-> ch = wanted]

StartBoundary(d, ch) ==
    LET n == d.mp.index + 1
        b == d.mp.boundary
    IN  IF n <= Len(b) + 1
        THEN Expect(d, ch, IF n <= Len(b) THEN b[n] ELSE "CR", [d EXCEPT !.mp.index = n])
        ELSE Expect(d, ch, "LF", Goto([on_multipart_data_begin(d) EXCEPT !.mp.index = 0], "header_field"))

ReadChar(d, mark, ch, last) ==
    LET s == d.mp.state
    IN  CASE s = "start_boundary"           -> StartBoundary(d, ch)
          [] s = "header_field"             -> ReadField(d, mark, ch, last)
          [] s = "headers_almost_done"      -> Expect(d, ch, "LF", Goto(d, "part_data_start"))
          [] s = "header_value_start" /\ ch = " " -> [d |-> d, mark |-> <<>>, ok |-> TRUE]
          [] s = "header_value_start" /\ ch # " " -> ReadValue(Goto(d, "header_value"), <<>>, ch, last)
          [] s = "header_value"             -> ReadValue(d, mark, ch, last)
          [] s = "header_value_almost_done" -> Expect(d, ch, "LF", Goto(d, "header_field"))
          [] s = "part_data_start" ->
                ReadData(Goto(on_multipart_headers_complete(d), "part_data"), <<>>, ch, last)
          [] s = "part_data"                -> ReadData(d, mark, ch, last)
          [] s = "part_data_almost_boundary" ->
                IF ch = "LF" THEN [d |-> Goto([d EXCEPT !.mp.index = 0], "part_data_boundary"),
                                   mark |-> <<>>, ok |-> TRUE]
                ELSE NoBoundary(d, <<"CR">>, ch, last)
          [] s = "part_data_boundary"       -> ReadBoundary(d, ch, last)
          [] s = "part_data_almost_end" ->
                IF ch = "-" THEN [d |-> Goto(d, "part_data_final_hyphen"), mark |-> <<>>, ok |-> TRUE]
                ELSE Expect(d, ch, "CR", Goto(d, "part_data_end"))
          [] s = "part_data_final_hyphen"   -> Expect(d, ch, "-", Goto(d, "end"))
          [] s = "part_data_end" -> Expect(d, ch, "LF", Goto(on_multipart_data_begin(d), "header_field"))
          [] s = "end"                      -> [d |-> d, mark |-> <<>>, ok |-> TRUE]

multipart_parser_execute(d, text) ==
    LET after[i \in 0..Len(text)] ==
            IF i = 0 THEN [d |-> d, mark |-> <<>>, ok |-> TRUE]
            ELSE LET x == after[i - 1]
                 IN  IF x.ok THEN ReadChar(x.d, x.mark, text[i], i = Len(text)) ELSE x
    IN  after[Len(text)]

-------------------------------------------------------------------------------
(* The body *)

IsMultiPart(d) == \E h \in d.headers : iEquals(h.field, ContentType)

\* The boundary is taken from the first line of the body, once there is one.
try_fix_multipart_bad_request_without_boundary(d) ==
    LET ends == {i \in 3..(Len(d.body) - 1) : d.body[i] = "CR" /\ d.body[i + 1] = "LF"}
        end  == CHOOSE i \in ends : \A j \in ends : i <= j
        text == SubSeq(d.body, 3, end - 1)
        cut  == Len(text) > 2 /\ IsSuffix(<<"-", "-">>, text)
    IN  IF IsPrefix(<<"-", "-">>, d.body) /\ ends # {}
        THEN init_multipart_parser(d, IF cut THEN SubSeq(text, 1, Len(text) - 2) ELSE text)
        ELSE d

do_multipart_parse(d) ==
    LET e == IF d.mp = NoParser THEN try_fix_multipart_bad_request_without_boundary(d) ELSE d
        x == multipart_parser_execute(e, e.body)
    IN  IF e.mp = NoParser THEN [d |-> e, ok |-> TRUE]
        ELSE [d |-> [x.d EXCEPT !.body = IF x.ok THEN <<>> ELSE @], ok |-> x.ok]

on_body(d, text) ==
    LET e == [d EXCEPT !.body = @ \o text]
    IN  IF IsMultiPart(e) THEN do_multipart_parse(e) ELSE [d |-> e, ok |-> TRUE]

-------------------------------------------------------------------------------
Current == requests[Len(handled) + 1]
Reading == ~broken /\ Len(handled) < Len(requests)

readVars == <<requests, run, offset, c, broken, handled>>

ReadInit ==
    /\ requests \in Connections
    /\ run = 1 /\ offset = 0
    /\ c = reset
    /\ broken = FALSE
    /\ handled = <<>>

\* n characters of the current field or value; a value may be empty.
HeaderFragment(n) ==
    LET r    == Runs(Current)[run]
        text == SubSeq(r.text, offset + 1, offset + n)
    IN  /\ run <= Len(Runs(Current))
        /\ IF r.text = <<>> THEN n = 0 ELSE n \in 1..(Len(r.text) - offset)
        /\ c' = IF r.kind = "field" THEN on_header_field(c, text) ELSE on_header_value(c, text)
        /\ IF offset + n = Len(r.text) THEN run' = run + 1 /\ offset' = 0 ELSE run' = run /\ offset' = offset + n
        /\ UNCHANGED <<requests, broken, handled>>

\* update_request_after_header_parsed, ParseContentType, try_init_multipart_parser.
on_headers_complete ==
    LET d == try_commit_reading_request_header(c)
    IN  /\ run = Len(Runs(Current)) + 1
        /\ c' = IF Named(d.headers) = <<>> THEN d ELSE init_multipart_parser(d, Named(d.headers))
        /\ run' = run + 1
        /\ UNCHANGED <<requests, offset, broken, handled>>

BodyFragment(n) ==
    LET x == on_body(c, SubSeq(Body(Current), offset + 1, offset + n))
    IN  /\ run = Len(Runs(Current)) + 2
        /\ n \in 1..(Len(Body(Current)) - offset)
        /\ c' = x.d
        /\ broken' = ~x.ok
        /\ offset' = offset + n
        /\ UNCHANGED <<requests, run, handled>>

\* The request is complete and goes to the application; the connection is reset
\* when it has been answered (HttpConnection).
on_message_complete ==
    /\ run = Len(Runs(Current)) + 2
    /\ offset = Len(Body(Current))
    /\ handled' = Append(handled, [headers |-> c.headers, parts |-> c.parts])
    /\ c' = reset
    /\ run' = 1 /\ offset' = 0
    /\ UNCHANGED <<requests, broken>>

ReadNext ==
    /\ Reading
    /\ \/ \E n \in 0..MaxFragment : HeaderFragment(n)
       \/ on_headers_complete
       \/ \E n \in 1..Len(Body(Current)) : BodyFragment(n)
       \/ on_message_complete

ReadSpec == ReadInit /\ [][ReadNext]_readVars

-------------------------------------------------------------------------------
(* Properties *)

\* The value of a field is the last one that was sent.
IsLast(headers, i) == \A j \in (i + 1)..Len(headers) : ~iEquals(headers[j].field, headers[i].field)
FirstOf(headers, i) == CHOOSE j \in DOMAIN headers :
    /\ iEquals(headers[j].field, headers[i].field)
    /\ \A k \in 1..(j - 1) : ~iEquals(headers[k].field, headers[i].field)

Sent(headers) == {[field |-> headers[FirstOf(headers, i)].field, value |-> headers[i].value] :
                     i \in {j \in DOMAIN headers : IsLast(headers, j)}}

\* A field that comes again, with more headers behind it.
Spoils(headers) == \E i, j \in DOMAIN headers :
    i < j /\ j < Len(headers) /\ iEquals(headers[i].field, headers[j].field)

\* However the requests of a connection are cut, the application gets the headers
\* that were sent with each of them, whatever came before on the connection.  The
\* exception is a field that is repeated in front of another header, whose name
\* then has the repeated one in front.
HeadersAsSent ==
    \A i \in DOMAIN handled :
        LET sent == requests[i].headers
        IN  ~Spoils(sent) => handled[i].headers = Sent(sent)

\* And it gets the parts of its body with their headers and data, boundaries that
\* are not quite ones included, also when the request does not name the boundary.
\* A body with another boundary than the one named is refused.
PartsAsSent ==
    \A i \in DOMAIN handled :
        LET r == requests[i]
            kept(part) == [headers |-> Sent(part.headers), data |-> part.data]
        IN  ~Spoils(r.headers) /\ (\A j \in DOMAIN r.parts : ~Spoils(r.parts[j].headers)) =>
                /\ handled[i].parts = [j \in DOMAIN r.parts |-> kept(r.parts[j])]
                /\ Named(handled[i].headers) \in {<<>>, r.boundary}

\* Requests are as they were sent.
RequestAsSent == HeadersAsSent /\ PartsAsSent
================================================================================

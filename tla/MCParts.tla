--------------------------------- MODULE MCParts -------------------------------
(***************************************************************************)
(* Seven parts that do not depend on each other, side by side: a behaviour   *)
(* is of one of them and the others stay as they are initially.            *)
(***************************************************************************)
EXTENDS ChunkedResponse, RedisProtocol, Applications, Routing, RequestReader,
        FrameParser, Bitwise

VARIABLES
    which,                                                  \* the part
    reply, rpos, used, q, result,                           \* RedisParser
    dreq, ready, formdata, disk, uf, saved, own, fileCalls  \* RequestData

-------------------------------------------------------------------------------
(* Websocket frames: empty, short and just too long for the short form of the *)
(* length, in all forms, with and without a mask, one or two in a stream.     *)

MCThrows == {9}
MCXOR(a, b) == a ^^ b

Frame(opcode, fin, mask, form, n, built) ==
    [opcode |-> opcode, fin |-> fin, mask |-> mask, form |-> form, built |-> built,
     payload |-> [i \in 1..n |-> (7 * i) % 251]]

Short == {Frame(1, TRUE, mask, 7, n, built) : mask \in BOOLEAN, n \in {0, 1, 5}, built \in BOOLEAN}
Long  == {Frame(2, FALSE, mask, 16, 3, FALSE) : mask \in BOOLEAN}
         \cup {Frame(2, TRUE, mask, 64, 5, FALSE) : mask \in BOOLEAN}
Edge  == Frame(2, TRUE, FALSE, 7, 126, TRUE)
Throwing == Frame(9, TRUE, TRUE, 7, 1, FALSE)

MCFrameStreams == {<<f>> : f \in Long}
                \cup {<<f, g>> : f \in Short \cup {Throwing}, g \in Short}
                \cup {<<Edge>>}

-------------------------------------------------------------------------------
(* Redis replies: every kind, arrays in arrays, malformed ones. *)

Ok == <<"O", "K">>
Lines == <<"a", "CR", "LF", "b">>

Replies ==
    { Reply(<<"+">> \o Ok \o CRLF, Str(Ok)),
      Reply(<<"-">> \o Ok \o CRLF, Err(Ok)),
      Reply(<<":", "-", "1", "2">> \o CRLF, Num(-12)),
      Reply(<<"$", "-", "1">> \o CRLF, Nil),
      Reply(<<"*", "-", "1">> \o CRLF, Nil),
      Reply(<<"*", "0">> \o CRLF, Arr(<<>>)),
      Reply(Bulk(<<>>), Str(<<>>)),
      Reply(Bulk(Lines), Str(Lines)),
      CommandReply(<<Ok, <<>>, Lines>>),
      Reply(<<"*", "2">> \o CRLF \o MakeCommand(<<Ok>>) \o <<"*", "2">> \o CRLF \o <<":", "1">> \o CRLF
                \o <<"*", "0">> \o CRLF,
            Arr(<<Arr(<<Str(Ok)>>), Arr(<<Num(1), Arr(<<>>)>>)>>)),
      Malformed(<<"?">>),
      Malformed(<<"+", "O", "TAB">>),
      Malformed(<<"$", "CR">>),
      Malformed(<<"$", "-", "2">> \o CRLF),
      Malformed(<<"*", "1">> \o CRLF \o <<"$", "1">> \o CRLF \o <<"a", "b">>) }

Redis == INSTANCE RedisParser

-------------------------------------------------------------------------------
(* Routes of an application on "/a", and requests below and beside it. *)

MCRootUrl == <<"/", "a">>

Route(kind, url, methods, single, empty) ==
    [kind |-> kind, url |-> url, methods |-> methods, single |-> single, empty |-> empty]

MCRoutes ==
    {Route(kind, url, {m}, TRUE, FALSE) :
        kind \in {"equals", "starts"}, url \in {<<"/">>, <<"/", "B">>}, m \in {"GET", "POST"}}
    \cup {Route("regex", url, {"GET"}, TRUE, FALSE) : url \in {<<"{{}}">>, <<"b">>, <<"(">>}}
    \cup {Route("regex", <<"{{}}">>, {"ANY"}, FALSE, FALSE),
          Route("starts", <<"/">>, {"ANY"}, TRUE, FALSE),
          Route("equals", <<"/">>, {"GET"}, TRUE, TRUE)}

MCRequests == { <<"/", "a">>, <<"/", "a", "/">>, <<"/", "A", "/", "b">>, <<"/", "a", "/", "b", "/", "a">>,
                <<"/", "a", "/", "index">>, <<"/", "a", "/", "b", "/", "index">>, <<"/", "a", "/", "b">>,
                <<"/", "b">> }

-------------------------------------------------------------------------------
(* Applications with roots that are prefixes of each other, the same but for *)
(* the case, or unrelated, and two of one name.                               *)

MCApps == { [name |-> "one",   root |-> <<"/">>],
            [name |-> "two",   root |-> <<"/", "a">>],
            [name |-> "two",   root |-> <<"/", "b", "/">>],
            [name |-> "three", root |-> <<"/", "A", "/", "b">>],
            [name |-> "four",  root |-> <<"/", "A">>] }

MCPaths == MCRequests \cup { <<"/">>, <<"/", "b", "/", "a">>, <<"/", "a", "a">>, <<"a">> }

-------------------------------------------------------------------------------
(* Requests: repeated fields, empty values, a kept connection; multipart bodies *)
(* whose data has line ends and all but a boundary in it, with the boundary     *)
(* named, wrongly named or not named.                                           *)

MCCharacters == {"CR", "LF", "-", ":", " ", "a", "A", "b", "t", "m", "x", "y", "z", "1", "2", "3"}

Header(field, value) == [field |-> field, value |-> value]
Request(headers, boundary, bodyParts) == [headers |-> headers, boundary |-> boundary, parts |-> bodyParts]

Plain == { Request(<<Header(<<"a">>, <<"x", "y">>), Header(<<"b", "a">>, <<>>), Header(<<"A">>, <<"z">>)>>, <<>>, <<>>),
           Request(<<Header(<<"b", "a">>, <<"x">>), Header(<<"b", "b">>, <<"z", "z">>)>>, <<>>, <<>>),
           Request(<<Header(<<"a">>, <<"x">>), Header(<<"a">>, <<"y">>), Header(<<"b">>, <<"z">>)>>, <<>>, <<>>) }

Data == { <<>>, <<"CR", "LF">>, <<"x", "CR", "CR", "LF", "-", "-", "x">>, <<"CR", "LF", "-", "CR">> }

Upload(named, data, headers) ==
    Request(<<Header(<<"t">>, <<"m">> \o named)>>, <<"b", "x">>,
            <<[headers |-> headers, data |-> data], [headers |-> <<Header(<<"b">>, <<"1">>)>>, data |-> <<"y">>]>>)

Uploads == {Upload(named, data, headers) :
                named \in {<<>>, <<"b", "x">>, <<"b">>}, data \in Data,
                headers \in {<<Header(<<"a">>, <<"1", "2">>), Header(<<"b", "a">>, <<>>)>>,
                             <<Header(<<"a">>, <<"1">>), Header(<<"a">>, <<"2">>), Header(<<"b">>, <<"3">>)>>}}

MCConnections == {<<r, s>> : r \in Plain, s \in Plain} \cup {<<u, CHOOSE r \in Plain : TRUE>> : u \in Uploads}

-------------------------------------------------------------------------------
(* Parameters of all sources, with bytes that are escaped, names that are       *)
(* repeated or differ in case; uploads with all strategies, files with and      *)
(* without names and data, fields of a form among them.                         *)

Names == {<<97>>, <<65>>, <<98>>, <<37, 38>>, <<99>>, <<102>>, <<>>}
DestFiles == {8, 9}
MaxFileCalls == 4

Pair(name, value) == [name |-> name, value |-> value]
Pairs == { <<>>,
           <<Pair(<<97>>, <<98, 61, 99>>), Pair(<<97>>, <<99>>), Pair(<<65>>, <<>>)>>,
           <<Pair(<<37, 38>>, <<32, 43, 37>>), Pair(<<98>>, <<0, 255, 59, 47>>)>>,
           <<Pair(<<98>>, <<37, 52, 49>>), Pair(<<65>>, <<32>>)>> }
Cookies == { <<>>, <<Pair(<<97>>, <<49>>), Pair(<<65>>, <<50>>), Pair(<<99>>, <<51, 61, 61>>)>> }

Options(strategy) == [strategy |-> strategy, size_base_kb |-> 4, extensions |-> {<<46, 116>>}]
Strategies == {"always_save", "alway_no_save", "size_greater_than", "size_lesser_than", "extension_is",
               "extension_is_not"}
FormPart(disposition, name, filename, data) ==
    [disposition |-> disposition, name |-> name, filename |-> filename, data |-> data]
FormWord == <<102, 111, 114, 109, 45, 100, 97, 116, 97>>

Forms == { << FormPart(FormWord, <<97>>, <<>>, <<5>>),
              FormPart(FormWord, <<102>>, << <<120, 46, 84>> >>, <<1, 2, 3>>),
              FormPart(FormWord, <<65>>, << <<120, 59, 46, 117>> >>, <<4, 4>>) >>,
           << FormPart(<<102>>, <<98>>, <<>>, <<6>>),
              FormPart(FormWord, <<97>>, << <<>> >>, <<7>>),
              FormPart(FormWord, <<102>>, << <<117>> >>, <<>>) >> }

DataRequests ==
    {[query |-> query, path |-> path, multipart |-> FALSE, fields |-> fields, headers |-> {Pair(<<67>>, <<104>>)},
      cookies |-> cookies, parts |-> <<>>, dir |-> TRUE, options |-> Options("always_save")] :
        query \in Pairs, path \in {{}, {Pair(<<97>>, <<112>>)}}, fields \in Pairs, cookies \in Cookies}
    \cup {[query |-> <<>>, path |-> {}, multipart |-> TRUE, fields |-> <<>>, headers |-> {},
           cookies |-> cookies, parts |-> f, dir |-> dir, options |-> Options(strategy)] :
        cookies \in Cookies, f \in Forms, dir \in BOOLEAN, strategy \in Strategies}

Program == INSTANCE RequestData

-------------------------------------------------------------------------------
redisVars == <<reply, rpos, used, q, result>>
dataVars  == <<dreq, ready, formdata, disk, uf, saved, own, fileCalls>>

partsVars == <<which, vars, frameVars, redisVars, routeVars, appVars, readVars, dataVars>>

NoReply == Reply(<<>>, Pending)

PartsInit ==
    /\ which \in {"chunked", "frames", "redis", "routers", "manager", "reader", "data"}
    /\ Init
    /\ RouteInit
    /\ AppInit
    /\ IF which = "frames" THEN FrameInit
       ELSE /\ frames = <<>> /\ pos = 0 /\ parsed = 0 /\ p = reset_parser /\ out = <<>>
            /\ refused = FALSE /\ spoilt = FALSE
    /\ IF which = "redis" THEN Redis!Init
       ELSE reply = NoReply /\ rpos = 0 /\ used = 0 /\ q = Redis!NewParser /\ result = Pending
    /\ IF which = "reader" THEN ReadInit
       ELSE /\ requests = <<>> /\ run = 1 /\ offset = 0 /\ c = reset
            /\ broken = FALSE /\ handled = <<>>
    /\ IF which = "data" THEN Program!Init
       ELSE /\ dreq = <<>> /\ ready = FALSE /\ formdata = <<>> /\ disk = <<>>
            /\ uf = Program!NoFile /\ saved = Program!NoSave /\ own = FALSE /\ fileCalls = 0

PartsNext ==
    /\ UNCHANGED which
    /\ \/ /\ which = "chunked" /\ Next
          /\ UNCHANGED <<frameVars, redisVars, routeVars, appVars, readVars, dataVars>>
       \/ /\ which = "frames" /\ FrameNext
          /\ UNCHANGED <<vars, redisVars, routeVars, appVars, readVars, dataVars>>
       \/ /\ which = "redis" /\ Redis!Next
          /\ UNCHANGED <<vars, frameVars, routeVars, appVars, readVars, dataVars>>
       \/ /\ which = "routers" /\ RouteNext
          /\ UNCHANGED <<vars, frameVars, redisVars, appVars, readVars, dataVars>>
       \/ /\ which = "manager" /\ AppNext
          /\ UNCHANGED <<vars, frameVars, redisVars, routeVars, readVars, dataVars>>
       \/ /\ which = "reader" /\ ReadNext
          /\ UNCHANGED <<vars, frameVars, redisVars, routeVars, appVars, dataVars>>
       \/ /\ which = "data" /\ Program!Next
          /\ UNCHANGED <<vars, frameVars, redisVars, routeVars, appVars, readVars>>

\* The fairness of ChunkedResponse.
PartsSpec == PartsInit /\ [][PartsNext]_partsVars /\ WF_vars(which = "chunked" /\ Loop)

-------------------------------------------------------------------------------
(* The properties of the parts *)

\* RedisParser: replies are read as they were sent, however they are cut.
ReplyAsSent == which = "redis" => Redis!ReplyAsSent

\* RequestData: parameters and files are as they were sent.
DataAsSent == which = "data" => Program!DataAsSent
================================================================================

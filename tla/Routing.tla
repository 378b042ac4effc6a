-------------------------------- MODULE Routing --------------------------------
(***************************************************************************)
(* The routers of one application: AddHandler with its equals, starts-with *)
(* and regex tables, and how do_handle finds the handler of a request.     *)
(* The names of templates are left out.                                    *)
(***************************************************************************)
EXTENDS UrlPaths, Integers, FiniteSets

CONSTANTS
    RootUrl,        \* the application's _root_url
    Routes,         \* what the program adds: kind, url, methods, single, empty
    Requests,       \* paths that are asked for
    MaxRoutes       \* bound: calls of AddHandler

VARIABLES
    equals,     \* EqualsRoutingTable
    starts,     \* StartsWithRoutingTable
    regex,      \* RegexMatchRoutingTable
    mounted,    \* Application::_mounted
    disabled,   \* Application::_disabled
    added       \* history: the calls of AddHandler that returned true


\* Two of the five methods that have handlers.  UNSUPPORT is what every other
\* method is mapped to.  ANY is a method to AddHandler, but not to a request.
Supported == {"GET", "POST"}
HttpMethods == Supported \cup {"PATCH"}
from_http_method(m) == IF m \in Supported THEN m ELSE "UNSUPPORT"

\* A handler is the number of the call that added it.  An item of a table has
\* a handler, which may be an empty function, or nothing for a method.
Nothing == -1
Empty == 0

\* What is replied when there is none.
NotImplemented == -2
WithoutData == -3

NoHandlers == [m \in Supported \cup {"ANY"} |-> Nothing]

-------------------------------------------------------------------------------
(* Adding handlers *)

\* to_parameter_pattern leaves "{{name}}" to match any word; the regex of a
\* pattern with an open parenthesis cannot be compiled.
Compiles(pattern) == "(" \notin ToSet(pattern)

\* The methods under which Add stores a handler: HandlerMethods expands ANY, a
\* single HandlerMethod is taken as it is.
Marked(r) == IF ~r.single /\ "ANY" \in r.methods THEN Supported ELSE r.methods

\* RoutingTable::Add on the handlers of an item.
SetHandlers(handlers, ms, h) == [m \in DOMAIN handlers |-> IF m \in ms THEN h ELSE handlers[m]]

\* An item that exists keeps its key.
AddToMap(table, url, ms, h) ==
    IF \E i \in table : iEquals(i.url, url)
    THEN {IF iEquals(i.url, url) THEN [i EXCEPT !.handlers = SetHandlers(@, ms, h)] ELSE i : i \in table}
    ELSE table \cup {[url |-> url, handlers |-> SetHandlers(NoHandlers, ms, h)]}

AddToList(list, url, ms, h) ==
    IF \E k \in DOMAIN list : list[k].url = url
    THEN [k \in DOMAIN list |-> IF list[k].url = url THEN [list[k] EXCEPT !.handlers = SetHandlers(@, ms, h)]
                                ELSE list[k]]
    ELSE Append(list, [url |-> url, handlers |-> SetHandlers(NoHandlers, ms, h)])

IsRuning == mounted /\ ~disabled

\* AddHandler, of a route that is not refused.
AddHandler(r) ==
    LET url == JoinUrlPath(RootUrl, r.url)
        h   == IF r.empty THEN Empty ELSE Len(added) + 1
    IN  /\ ~IsRuning
        /\ Len(added) < MaxRoutes
        /\ r.kind = "regex" => Compiles(url)
        /\ equals' = IF r.kind = "equals" THEN AddToMap(equals, url, Marked(r), h) ELSE equals
        /\ starts' = IF r.kind = "starts" THEN AddToMap(starts, url, Marked(r), h) ELSE starts
        /\ regex' = IF r.kind = "regex" THEN AddToList(regex, url, Marked(r), h) ELSE regex
        /\ added' = Append(added, [kind |-> r.kind, url |-> url, methods |-> Marked(r), handler |-> h])
        /\ UNCHANGED <<mounted, disabled>>

-------------------------------------------------------------------------------
(* Finding handlers *)

\* std::regex_match of a whole path, case included: rest[i, j] tells whether the
\* pattern behind its first j characters matches the path behind its first i.
regex_match(path, pattern) ==
    LET rest[i \in 0..Len(path), j \in 0..Len(pattern)] ==
            CASE j = Len(pattern) -> i = Len(path)
              [] j < Len(pattern) /\ pattern[j + 1] = "{{}}" ->
                    \E n \in i..Len(path) : (\A k \in (i + 1)..n : path[k] # "/") /\ rest[n, j + 1]
              [] OTHER -> i < Len(path) /\ path[i + 1] = pattern[j + 1] /\ rest[i + 1, j + 1]
    IN  rest[0, 0]

\* What Search gives: a handler, and whether url_exists is set.
NotFound == [handler |-> Nothing, url_exists |-> FALSE]
Found(item, m) == [handler |-> item.handlers[m], url_exists |-> TRUE]

EqualsMatch(path, m) ==
    IF \E i \in equals : iEquals(path, i.url)
    THEN Found(CHOOSE i \in equals : iEquals(path, i.url), m)
    ELSE NotFound

\* Mutant: the table begins with the least url, so a short prefix is found first.
StartsMatch_ascending(path, m) ==
    LET here == {i \in starts : iStartsWith(path, i.url)}
    IN  IF here = {} THEN NotFound
        ELSE Found(CHOOSE i \in here : \A j \in here \ {i} : iLess(i.url, j.url), m)

\* The first item of the table, in descending order, that is a prefix.
StartsMatch(path, m) ==
    LET here == {i \in starts : iStartsWith(path, i.url)}
    IN  IF here = {} THEN NotFound
        ELSE Found(CHOOSE i \in here : \A j \in here \ {i} : iLess(j.url, i.url), m)

\* The first item of the list that matches.
RegexMatch(path, m) ==
    LET here == {k \in DOMAIN regex : regex_match(path, regex[k].url)}
    IN  IF here = {} THEN NotFound
        ELSE Found(regex[CHOOSE k \in here : \A l \in here : k <= l], m)

find_handler(path, m) ==
    LET rr  == EqualsMatch(path, m)
        srr == StartsMatch(path, m)
        rrr == RegexMatch(path, m)
    IN  [handler    |-> CASE rr.handler # Nothing -> rr.handler
                          [] rr.handler = Nothing /\ srr.handler # Nothing -> srr.handler
                          [] OTHER -> rrr.handler,
         url_exists |-> rr.url_exists \/ srr.url_exists \/ rrr.url_exists]

IndexPath(path) == IF IsSuffix(<<"/", "index">>, path) THEN {SubSeq(path, 1, Len(path) - 1)} ELSE {}

\* do_handle: the handler that is called, or what is replied instead of it.
do_handle(path, method) ==
    LET m     == from_http_method(method)
        first == find_handler(path, m)
        retry == {find_handler(p, m) : p \in IndexPath(path)}
        last  == IF first.handler \in {Nothing, Empty} /\ ~first.url_exists /\ retry # {}
                 THEN CHOOSE f \in retry : TRUE ELSE first
    IN  CASE m = "UNSUPPORT"                      -> NotImplemented
          [] m # "UNSUPPORT" /\ last.handler > 0  -> last.handler
          [] OTHER -> IF last.url_exists THEN NotImplemented ELSE WithoutData

-------------------------------------------------------------------------------
routeVars == <<equals, starts, regex, mounted, disabled, added>>

RouteInit == /\ equals = {} /\ starts = {} /\ regex = <<>>
             /\ mounted = FALSE /\ disabled = FALSE
             /\ added = <<>>

Mount == mounted' = TRUE /\ UNCHANGED <<equals, starts, regex, disabled, added>>

SetDisabled(b) == disabled' = b /\ UNCHANGED <<equals, starts, regex, mounted, added>>

RouteNext == \/ \E r \in Routes : AddHandler(r)
             \/ Mount
             \/ \E b \in BOOLEAN : SetDisabled(b)

RouteSpec == RouteInit /\ [][RouteNext]_routeVars

-------------------------------------------------------------------------------
(* Properties *)

Covers(i, path) == CASE added[i].kind = "equals" -> iEquals(path, added[i].url)
                     [] added[i].kind = "starts" -> iStartsWith(path, added[i].url)
                     [] added[i].kind = "regex"  -> regex_match(path, added[i].url)

\* The call that put the pattern of route i into the list.
Listed(i) == CHOOSE k \in 1..i : /\ added[k].kind = "regex" /\ added[k].url = added[i].url
                                 /\ \A l \in 1..(k - 1) : added[l].kind = "regex" => added[l].url # added[i].url

\* Route i goes before route j of its kind: it is longer, or listed earlier.
Beats(i, j) == CASE added[i].kind = "equals" -> FALSE
                 [] added[i].kind = "starts" -> Len(added[i].url) > Len(added[j].url)
                 [] added[i].kind = "regex"  -> Listed(i) < Listed(j)

\* The call of AddHandler that decides about a request, by the routes added: of
\* each kind the most specific that covers the path, of equal ones the last that
\* has the method, and the kinds in their order.
Decides(i, path, m) ==
    /\ Covers(i, path) /\ m \in added[i].methods
    /\ \A j \in DOMAIN added \ {i} : Covers(j, path) =>
        IF added[j].kind = added[i].kind
        THEN ~Beats(j, i) /\ (j > i /\ m \in added[j].methods => Beats(i, j))
        ELSE ~(/\ <<added[j].kind, added[i].kind>> \in
                       {<<"equals", "starts">>, <<"equals", "regex">>, <<"starts", "regex">>}
               /\ m \in added[j].methods
               /\ \A k \in DOMAIN added : added[k].kind = added[j].kind /\ Covers(k, path) => ~Beats(k, j))

\* What a request gets by the routes added so far: the handler of the call that
\* decides, 501 if routes cover the path but none decides, the template of the
\* path if none covers it.  A path that ends with "/index" and is not covered is
\* looked up without "index" as well.
Due(path, m) ==
    LET deciding == {i \in DOMAIN added : Decides(i, path, m)}
    IN  IF \E i \in deciding : added[i].handler # Empty THEN CHOOSE i \in deciding : TRUE
        ELSE IF \E i \in DOMAIN added : Covers(i, path) THEN NotImplemented
        ELSE WithoutData

\* Every request gets what it is due, however the routes of the three tables
\* overlap and in whatever order they were added and replaced.
RightHandler ==
    \A path \in Requests, method \in HttpMethods :
        do_handle(path, method) =
            IF method \notin Supported THEN NotImplemented
            ELSE LET first == Due(path, method)
                     later == {Due(p, method) : p \in IndexPath(path)}
                 IN  IF first = WithoutData /\ later # {} THEN CHOOSE d \in later : TRUE ELSE first
================================================================================

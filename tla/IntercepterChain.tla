--------------------------- MODULE IntercepterChain ---------------------------
(***************************************************************************)
(* The way of one HTTP request through the intercepters of its application *)
(* to the handler and back (ContextIMP::Start, Pass, Stop and next), with  *)
(* the two intercepters the framework brings, the session on redis and the *)
(* static files.                                                           *)
(*                                                                         *)
(* Everything runs on one thread.  An intercepter or the handler goes on   *)
(* by calling Pass or Stop, which calls the next one inside of that call;  *)
(* stack holds the invocations that have not made their last such call,    *)
(* the innermost first.  An invocation may also return and call Pass or    *)
(* Stop from a later callback; waiting holds those.                        *)
(***************************************************************************)
EXTENDS Naturals, Sequences

CONSTANTS
    Chains,   \* the chains of intercepters an application may have
    Faults,   \* what may go wrong: see FaultKinds
    MaxEnds   \* bound: replies after which the model stops

\* bad_session: the value in redis is no JSON text; setex_error: redis does not
\* take the session; no_file_name: a static entry resolves to an empty path;
\* throws: the handler throws.
FaultKinds == {"bad_session", "setex_error", "no_file_name", "throws"}

\* The session on redis, the static files, and what programs bring.
Intercepters == {"session", "static", "user"}

ASSUME ChainAssumption == /\ Chains \subseteq Seq(Intercepters)
                          /\ Faults \subseteq FaultKinds
                          /\ MaxEnds \in Nat \ {0}

VARIABLES
    chain,      \* the application's intercepters, in order
    met,        \* the faults this request has met
    on,         \* _intercepter_on ("none" before Start)
    iter,       \* _intercepter_iter: how many intercepters are before it
    stack,      \* invocations on the call stack, the innermost first
    waiting,    \* invocations that go on from a callback
    session,    \* session data is stored in the context
    matched,    \* the static file intercepter has stored its data
    asked,      \* intercepters called with the request, in order
    handled,    \* calls of the handler
    answered,   \* intercepters called with the response, in order
    ended       \* calls of end(), that is replies started

vars == <<chain, met, on, iter, stack, waiting, session, matched, asked, handled, answered, ended>>

Init == /\ chain \in Chains
        /\ met = {}
        /\ on = "none"
        /\ iter = 0
        /\ stack = <<>>
        /\ waiting = {}
        /\ session = FALSE
        /\ matched = FALSE
        /\ asked = <<>>
        /\ handled = 0
        /\ answered = <<>>
        /\ ended = 0

N == Len(chain)

\* Invocations: of intercepter who in direction on, or of the handler (who is
\* N + 1).  step is what it does next: decide, wait for redis, or call Pass
\* after a call to Stop has returned.
Invocation == [who : 1..(N + 1), on : {"Request", "Handle", "Response"},
               step : {"decide", "GET", "SETEX", "later", "pass"}]

Run(who, dir) == [who |-> who, on |-> dir, step |-> "decide"]

-------------------------------------------------------------------------------
(* The chain: each operator takes the stack below the call it makes. *)

\* do_intercepter_on_req_dir with the iterator at i.
do_intercepter_on_req_dir(i, below) ==
    /\ iter' = i
    /\ IF i = N
       THEN /\ on' = "Handle"
            /\ stack' = <<Run(N + 1, "Handle")>> \o below
            /\ handled' = handled + 1
            /\ UNCHANGED asked
       ELSE /\ on' = "Request"
            /\ stack' = <<Run(i + 1, "Request")>> \o below
            /\ asked' = Append(asked, i + 1)
            /\ UNCHANGED handled
    /\ UNCHANGED <<answered, ended>>

end(i, below) ==
    /\ iter' = i
    /\ on' = "Response"
    /\ stack' = below
    /\ ended' = ended + 1
    /\ UNCHANGED <<asked, handled, answered>>

\* Mutant: the reverse iterator is taken to point at the element itself.
do_intercepter_on_res_dir_skips(i, below) ==
    IF i = 0 THEN end(i, below)
    ELSE /\ iter' = i
         /\ on' = "Response"
         /\ stack' = <<Run(IF i < N THEN i + 1 ELSE i, "Response")>> \o below
         /\ answered' = Append(answered, IF i < N THEN i + 1 ELSE i)
         /\ UNCHANGED <<asked, handled, ended>>

\* do_intercepter_on_res_dir: a reverse iterator made of i points at the
\* intercepter before it.
do_intercepter_on_res_dir(i, below) ==
    IF i = 0 THEN end(i, below)
    ELSE /\ iter' = i
         /\ on' = "Response"
         /\ stack' = <<Run(i, "Response")>> \o below
         /\ answered' = Append(answered, i)
         /\ UNCHANGED <<asked, handled, ended>>

start_intercepter_on_res_dir(result, i, below) ==
    IF result = "Pass" THEN do_intercepter_on_res_dir(i, below) ELSE end(i, below)

\* Decrementing begin() is undefined; the list of the library the project is
\* built with is circular, so that it gives end().
Before(i) == IF i = 0 THEN N ELSE i - 1

\* Mutant: the direction is not turned when a request is stopped.
next_keeps_direction(result, below) ==
    CASE on = "Request" /\ result = "Pass" -> do_intercepter_on_req_dir(iter + 1, below)
      [] on = "Request" /\ result = "Stop" ->
            /\ iter' = iter + 1
            /\ stack' = <<Run(iter + 1, "Response")>> \o below
            /\ answered' = Append(answered, iter + 1)
            /\ UNCHANGED <<on, asked, handled, ended>>
      [] on = "Handle"                     -> start_intercepter_on_res_dir(result, iter, below)
      [] on = "Response"                   -> start_intercepter_on_res_dir(result, Before(iter), below)

\* Pass and Stop.
next(result, below) ==
    CASE on = "Request" /\ result = "Pass" -> do_intercepter_on_req_dir(iter + 1, below)
      [] on = "Request" /\ result = "Stop" -> do_intercepter_on_res_dir(iter + 1, below)
      [] on = "Handle"                     -> start_intercepter_on_res_dir(result, iter, below)
      [] on = "Response"                   -> start_intercepter_on_res_dir(result, Before(iter), below)

Start == /\ on = "none"
         /\ do_intercepter_on_req_dir(0, <<>>)
         /\ UNCHANGED <<chain, met, waiting, session, matched>>

-------------------------------------------------------------------------------
(* Invocations.  f is the one that runs: the innermost on the stack. *)

Running(kind, dir, step) ==
    /\ stack # <<>>
    /\ ended < MaxEnds
    /\ Head(stack).step = step
    /\ Head(stack).on = dir
    /\ Head(stack).who <= N
    /\ chain[Head(stack).who] = kind

\* f returns, to go on from a callback as g.
Suspend(g) == /\ waiting' = waiting \cup {g}
              /\ stack' = Tail(stack)
              /\ UNCHANGED <<on, iter, asked, handled, answered, ended>>

\* A callback of f calls Pass or Stop, once.
Resume(f, result) == /\ f \in waiting
                     /\ stack = <<>>
                     /\ ended < MaxEnds
                     /\ waiting' = waiting \ {f}
                     /\ next(result, <<>>)

\* An intercepter of the program calls Pass or Stop once, in the call or later.
UserIntercepter(dir, result) ==
    /\ Running("user", dir, "decide")
    /\ \/ next(result, Tail(stack)) /\ UNCHANGED waiting
       \/ Suspend([Head(stack) EXCEPT !.step = "later"])
    /\ UNCHANGED <<chain, met, session, matched>>

\* The handler, or the reply that do_handle renders when there is none: it
\* calls Pass or Stop once, in the call or later.
do_handle(result) ==
    /\ stack # <<>>
    /\ ended < MaxEnds
    /\ Head(stack) = Run(N + 1, "Handle")
    /\ \/ next(result, Tail(stack)) /\ UNCHANGED waiting
       \/ Suspend([Head(stack) EXCEPT !.step = "later"])
    /\ UNCHANGED <<chain, met, session, matched>>

\* The handler throws before it has called either: do_handle writes a log line.
HandlerThrows ==
    /\ "throws" \in Faults
    /\ met' = met \cup {"throws"}
    /\ stack # <<>>
    /\ Head(stack) = Run(N + 1, "Handle")
    /\ stack' = Tail(stack)
    /\ UNCHANGED <<chain, on, iter, waiting, session, matched, asked, handled, answered, ended>>

LaterCall(result) ==
    /\ \E f \in waiting : f.step = "later" /\ Resume(f, result)
    /\ UNCHANGED <<chain, met, session, matched>>

\* SessionOnRedis::on_request: no name, another path, no redis or no cookie
\* (then a new session is stored), or a GET.
SessionPasses(fresh) ==
    /\ Running("session", "Request", "decide")
    /\ session' = (session \/ fresh)
    /\ next("Pass", Tail(stack))
    /\ UNCHANGED <<chain, met, waiting, matched>>

SessionGet ==
    /\ Running("session", "Request", "decide")
    /\ Suspend([Head(stack) EXCEPT !.step = "GET"])
    /\ UNCHANGED <<chain, met, session, matched>>

\* Its callback: an error stops the request; otherwise the session is stored.
SessionGot(error) ==
    /\ \E f \in waiting : f.step = "GET" /\ Resume(f, IF error THEN "Stop" ELSE "Pass")
    /\ session' = (session \/ ~error)
    /\ UNCHANGED <<chain, met, matched>>

\* A value that is no JSON text: Stop, and when that returns Pass as well.
BadSession ==
    /\ "bad_session" \in Faults
    /\ met' = met \cup {"bad_session"}
    /\ stack = <<>>
    /\ ended < MaxEnds
    /\ \E f \in waiting : /\ f.step = "GET"
                          /\ waiting' = waiting \ {f}
                          /\ next("Stop", <<[f EXCEPT !.step = "pass"]>>)
    /\ UNCHANGED <<chain, session, matched>>

\* Mutant: an early return without Pass.
SessionDone_returns ==
    /\ Running("session", "Response", "decide")
    /\ stack' = Tail(stack)
    /\ UNCHANGED <<chain, met, on, iter, waiting, session, matched, asked, handled, answered, ended>>

\* SessionOnRedis::on_response: another path, no redis or nothing to store, or
\* a SETEX.
SessionDone ==
    /\ Running("session", "Response", "decide")
    /\ next("Pass", Tail(stack))
    /\ UNCHANGED <<chain, met, waiting, session, matched>>

SessionSetex ==
    /\ Running("session", "Response", "decide")
    /\ session
    /\ Suspend([Head(stack) EXCEPT !.step = "SETEX"])
    /\ UNCHANGED <<chain, met, session, matched>>

\* Mutant: the reply is started before redis has answered.
SessionSet_early ==
    /\ \E f \in waiting : f.step = "SETEX" /\ next("Pass", <<>>) /\ ended < MaxEnds
    /\ stack = <<>>
    /\ UNCHANGED <<chain, met, waiting, session, matched>>

SessionSet ==
    /\ \E f \in waiting : f.step = "SETEX" /\ Resume(f, "Pass")
    /\ UNCHANGED <<chain, met, session, matched>>

\* Redis does not store the session: Stop, and when that returns Pass as well.
SetexError ==
    /\ "setex_error" \in Faults
    /\ met' = met \cup {"setex_error"}
    /\ stack = <<>>
    /\ ended < MaxEnds
    /\ \E f \in waiting : /\ f.step = "SETEX"
                          /\ waiting' = waiting \ {f}
                          /\ next("Stop", <<[f EXCEPT !.step = "pass"]>>)
    /\ UNCHANGED <<chain, session, matched>>

\* The call of Pass that follows the Stop of either.  On the way to the handler
\* the session that could not be parsed, an empty one, is stored first.
PassAfterStop(dir) ==
    /\ Running("session", dir, "pass")
    /\ session' = (session /\ dir = "Response")
    /\ next("Pass", Tail(stack))
    /\ UNCHANGED <<chain, met, waiting, matched>>

\* StaticFile::on_request: a GET of a URL under an entry is stopped here.
StaticRequest(found) ==
    /\ Running("static", "Request", "decide")
    /\ matched' = (matched \/ found)
    /\ next(IF found THEN "Stop" ELSE "Pass", Tail(stack))
    /\ UNCHANGED <<chain, met, waiting, session>>

\* StaticFile::on_response: nothing stored, or the file or an error is the
\* reply.  The stored data is removed when the file is sent.
StaticResponse(sent) ==
    /\ Running("static", "Response", "decide")
    /\ sent => matched
    /\ matched' = (matched /\ ~sent)
    /\ next("Pass", Tail(stack))
    /\ UNCHANGED <<chain, met, waiting, session>>

\* An empty file name: a reply is rendered and nobody is called.
StaticNoName ==
    /\ "no_file_name" \in Faults
    /\ met' = met \cup {"no_file_name"}
    /\ Running("static", "Response", "decide")
    /\ matched
    /\ stack' = Tail(stack)
    /\ UNCHANGED <<chain, on, iter, waiting, session, matched, asked, handled, answered, ended>>

-------------------------------------------------------------------------------
Results == {"Pass", "Stop"}

Step == \/ \E dir \in {"Request", "Response"}, r \in Results : UserIntercepter(dir, r)
        \/ \E r \in Results : do_handle(r)
        \/ HandlerThrows
        \/ \E r \in Results : LaterCall(r)
        \/ \E fresh \in BOOLEAN : SessionPasses(fresh)
        \/ SessionGet
        \/ \E error \in BOOLEAN : SessionGot(error)
        \/ BadSession
        \/ SessionDone
        \/ SessionSetex
        \/ SessionSet
        \/ SetexError
        \/ \E dir \in {"Request", "Response"} : PassAfterStop(dir)
        \/ \E found \in BOOLEAN : StaticRequest(found)
        \/ \E sent \in BOOLEAN : StaticResponse(sent)
        \/ StaticNoName

Next == Start \/ Step

Spec == Init /\ [][Next]_vars

\* Invocations go on, callbacks are called, and redis answers.
FairSpec == Spec /\ WF_vars(Next)

-------------------------------------------------------------------------------
(* Properties *)

\* Types; in particular the iterator never leaves the list of intercepters.
TypeOK == /\ chain \in Chains
          /\ met \subseteq Faults
          /\ on \in {"none", "Request", "Handle", "Response"}
          /\ iter \in 0..N
          /\ stack \in Seq(Invocation)
          /\ waiting \subseteq Invocation
          /\ session \in BOOLEAN
          /\ matched \in BOOLEAN
          /\ asked \in Seq(1..N)
          /\ handled \in Nat
          /\ answered \in Seq(1..N)
          /\ ended \in Nat

\* The session intercepter has not called both Stop and Pass.
OneCall == met \cap {"bad_session", "setex_error"} = {}

\* A request is replied to at most once, and when it has been nobody is left
\* who would call Pass or Stop again: a second end() would start a second write
\* of the same response.  It holds as long as the session intercepter does not
\* meet a value it cannot parse or a redis that does not store the session.
RepliedOnce == OneCall => /\ ended <= 1
                          /\ ended = 1 => stack = <<>> /\ waiting = {}

\* The intercepters form an onion: the response goes to those that saw the
\* request, the last one first, each once, wherever the request was stopped and
\* however the intercepters wait for callbacks.
Onion == OneCall => /\ Len(answered) <= Len(asked)
                    /\ \A k \in DOMAIN asked : asked[k] = k
                    /\ \A k \in DOMAIN answered : answered[k] = Len(asked) + 1 - k

\* The handler runs at most once and only for a request that every intercepter
\* has let pass, even when an intercepter calls both Stop and Pass.
HandledOnce == /\ handled <= 1
               /\ handled = 1 => Len(asked) = N

\* Every request is replied to, if intercepters and handlers call Pass or Stop
\* and redis answers, unless a static file has no name; for a handler that throws
\* see ThrownIsReplied.
Replies == <>(ended > 0 \/ met \cap {"throws", "no_file_name"} # {})

\* A request whose handler throws is replied to as well: the user "only gets to see
\* a typical HTTP 500 error", as the repository's README has it.  do_handle catches
\* the exception and writes a log line.
ThrownIsReplied == ("throws" \in met) ~> (ended > 0)
===============================================================================

# A verification of da4qi4

da4qi4 is a C++ web framework: an HTTP server with applications, routers,
intercepters and templates, websockets, an HTTP client and a redis client, on top
of boost.asio. This directory models the parts of it in which order and
concurrency matter, in TLA+: TLC checks the models on small instances, and TLAPS
proves the most important properties for every size. Paths below are relative to
the repository's root; line numbers are in `PROJECT.json`.

## 1. The system

### 1.1 Threads

`Server` (`src/server.cpp`) runs an `IOContextPool` (`src/server_engine.cpp`): one
`io_context` and one thread each. A connection belongs to one io_context, and all
its completion handlers run on that thread, one after another. Other threads come
in through the websocket registry of an application (any thread may look up a
connection and send to it or stop it), through the bodies of a chunked reply, and
through the program's own threads.

### 1.2 Components

| component | state | operations | who interacts with it |
|---|---|---|---|
| websocket connection (`src/websocket/connection_websocket.cpp`) | list of buffers to write and its mutex, frame parser, `_stop_by_self`, type of the last data frame | upgrade and handshake, send, stop, read, ping, close | the HTTP connection that is upgraded, the registry, senders on any thread, the event handler |
| websocket registry and contexts (same file, `context_websocket.cpp`, `application.cpp`) | map from id to weak pointer, per URL; holding and other contexts | add, remove, rename, look up, list | upgrades, destructors of contexts, programs on any thread |
| redis client (`src/redis-client/redis_client.cpp`, `rediscli_pool.cpp`) | connect status, reconnect timer, command queue, reply buffer | connect, reconnect, disconnect, command, write, read, parse | the session intercepter and programs, all on one io_context |
| intercepter chain (`src/context.cpp`, `src/intercepters/`) | list iterator, direction, the data intercepters leave in the context | start, pass, stop, end | application (handler), session (redis), static files |
| HTTP connection (`src/connection.cpp`) | llhttp parser, request, response, buffers, the application found | read, parse, refuse, start a context, write, reset and read again | llhttp, `ApplicationMgr`, the chain, the websocket upgrade |
| chunked response (`src/connection.cpp`, `src/response.cpp`) | list of bodies and its mutex, the chunk being written | push, stop, write the next, wait | programs on any thread, the HTTP connection |
| websocket frames (`src/websocket/frame_websocket.cpp`) | parser state over several reads | build, parse | websocket connection |
| redis protocol (`src/redis-client/redis_parser.cpp`, `redis_command.cpp`) | stacks of states and of open arrays | write a command, parse a reply | redis client |
| applications and routers (`src/application.cpp`, `src/router.cpp`) | ordered map of applications, three tables of routes each, upload and template settings | mount, make the default one, find by URL, add and find handlers, handle | server, HTTP connection |
| server and io_context pool (`src/server.cpp`, `src/server_engine.cpp`) | acceptor, signal set, two flags, the contexts, their threads and the index of the next one | run, accept, stop | clients, signals, programs on any thread, all connections |
| idle timer (`src/server.cpp`, `server.hpp`) | one deadline timer, a flag, the idle functions and when each is due | start, round, pause, resume, append, detection on and off, stop | the pool's threads, programs on any thread, the templates |
| templates (`src/templates.cpp`) | two maps of parsed templates, their lock, the time of the load | load, detect changes, reload, look up | the idle timer, request handlers, whoever edits the files |
| HTTP client (`src/client/connection_client.cpp`) | endpoint, socket, parser, response, the last error | connect, request, read, reset, close | programs |
| requests and uploads (`src/connection.cpp`, `src/request.cpp`, `multipart-parser/`) | the header that is being read, headers, parts, two parsers, form data, temporary files | callbacks of the parsers, parse a multipart body, transfer it to a form, save files, look up parameters, get and save an upload | HTTP connection, handlers |
| responses, utilities, logging | mostly none | conversions | all |

### 1.3 What is hard about it

* Several threads share the list of a websocket and start writes outside of its
  lock (`append_write_data`, `start_write`).
* The registry holds weak pointers under ids that programs may change at any time,
  and is cleaned up by a destructor.
* The redis client has one queue and one socket for all requests of a thread; what
  happens to the queue when an operation fails decides whether later requests hang.
* The chain is driven by calls of `Pass` and `Stop` that come from inside a call or
  from a later callback; calling twice, or not at all, is possible in every handler.
* One connection object serves many requests, one after another, with one request,
  response and parser; refusals, 100-continue and keep-alive share the same handler.
* Programs push chunks from any thread while the connection polls for them.
* `Stop` may be called by a signal, a handler and other threads at the same time,
  before, while and after the threads of the pool start.
* The idle timer is one timer and one flag, which the timer's handler and programs
  on other threads test and set without a lock.
* Templates are compared with files that change at any moment, by times in seconds.
* Frames, replies, headers and multipart bodies arrive in reads that end anywhere;
  every parser carries its state, and what it has held back, to the next read.
* The HTTP client has one parser, one response and one `_error` for all its requests,
  and a callback of one request may issue the next.
* Routes and roots overlap, and which one counts depends on the order of three maps.

What makes each component correct: a websocket writes what it is given, in order
and once; the registry shows the connections that are open; each redis command is
called back once, with its own reply; each request is handled and replied to once;
a chunked reply ends with its last chunk; the server accepts until it is stopped and
then stops; idle functions are called when they are due; what is rendered is what is
in the files; what is parsed is what was sent, wherever it was cut; a request gets the
most specific application and handler; and the HTTP client reports each request once,
with its own response or a failure that has a reason.

The hazards, with the line at which each bites and the properties for it, are
listed in `PROJECT.json`.

## 2. The modules

| module | models | composed with |
|---|---|---|
| `WsConnection` | one server side websocket, from the upgrade to the end of its read loop and its writes | implements `WsChannel` |
| `WsChannel` | what the write side promises: a FIFO channel that may break | abstract specification |
| `WsRegistry`, `MCWsRegistry` | the connections of one URL, their ids, the contexts and their lifetime | |
| `RedisClient`, `MCRedisClient` | the client of one io_context, its queue, link and timer | |
| `IntercepterChain`, `MCIntercepterChain` | one request on its way to the handler and back | its reply is `HttpConnection`'s `StartWrite` |
| `HttpConnection` | one connection over all its requests | its chunked replies are `ChunkedResponse` |
| `ChunkedResponse` | one chunked reply | |
| `Server` | the pool's threads, the accept loop and the ways to stop them | |
| `IdleTimer`, `MCIdleTimer` | the idle timer of a server | its detection is `Templates`; `MCIdleTimer` has the two side by side |
| `Templates` | the templates of one application and their reload | |
| `HttpClient` | one client connection over its requests | |
| `FrameParser` | the builder and the parser of websocket frames, on bytes | what `WsConnection` takes from it is its sequence of frames |
| `RedisProtocol`, `RedisParser` | commands, values, and the parser of replies | what `RedisClient` takes from it is the value or a rejection |
| `UrlPaths`, `Routing` | the routes of one application | its handler is that of `IntercepterChain` |
| `Applications` | the applications of a server | its application is that of `HttpConnection` |
| `RequestReader` | headers and multipart bodies put together from fragments | its requests are those of `HttpConnection` |
| `FormText`, `RequestData` | parameters and uploaded files, as the program gets them out of a request | its requests are those of `RequestReader` |
| `MCParts` | the last six and `ChunkedResponse`, side by side | |
| `WsConnection_proofs`, `Applications_proofs`, `RedisClient_proofs`, `IntercepterChain_proofs`, `HttpConnection_proofs`, `RequestAndResponse_proofs`, `ServerAndClient_proofs`, `IdleTimer_proofs` | theorems | `WsConnection_proofs` is about `WsConnection` and `FrameParser`, `Applications_proofs` about `WsRegistry`, `Applications` and `Routing`, `RequestAndResponse_proofs` about `RequestReader` and `ChunkedResponse`, `ServerAndClient_proofs` about `Server` and `HttpClient`, `IdleTimer_proofs` about `IdleTimer` and `Templates` |

Definitions have the names of the functions they model; a completion handler of
`f` is `on_...` or has the name of what it does. An operator whose name extends a
definition's (`append_write_data_always_starts`) is a plausible bug in that
definition; no specification uses it, it is there to show that a property notices.
The modules with concurrent steps state a type invariant, `TypeOK`; the proofs have
it where there are any, and the runs spend their properties on other things.

### 2.1 WsConnection

One step per section under `_m_4_write` and one for the call of `start_write`
that follows it outside: `pc[t]` remembers that thread `t` still has to make it.
`queue` is `_data_4_write`; `writing` what is in `async_write` (a sequence, so that
two overlapping writes can be expressed); `wire` what has been written completely.
The io thread goes through `do_upgrade` (`OnOpen`, `AddWebSocketConnection`,
`start_handshake`) and is in the reactor after that. A read completes with a batch
of frames, which `on_read_frame` treats one by one; a `Stop` of another thread is
two steps, the flag and the close frame. Bytes are abstracted: a frame is its
opcode, a message is its kind, its author and a number.

`WsChannel` has one action for each thing that may happen to a message (queued,
written, lost with the link); `ChannelSafe` and `ChannelLive` are the refinement.

### 2.2 WsRegistry

`storage` is `Connections::_storage`; the lock of the application and of the map
make each operation on it one step. `hold[c]` follows the holding context of `c`
from the upgrade to its destructor, which reads the id (one step) and then removes
the entry (another). `ctxs` and `snap` are the strong pointers of threads: contexts
they looked up, and lists they iterate over. `Lock` is `weak_ptr::lock`: it fails
when nobody has a strong pointer. `NewIds` says which ids programs rename to.

### 2.3 RedisClient

All code of the client runs on one thread, so each handler is one step. Commands
are numbered; a reply is a sequence of segments, of which the last, or the one the
parser rejects, is decisive. A callback may issue a further command before its own
is popped (`again`). `link` is the TCP connection, which the code's `status` does
not always follow. What the server sends and when the link breaks is external.

The reconnect timer has an interval of `Interval` parts (`left`; that the code's
intervals grow is left out), between which anything else may happen. `Reconnect`,
which every command that cannot be written calls, begins a whole one anew. Expiry and
handler are two steps: a handler that is due runs although the timer is set again,
and then two connects may be under way. An outstanding operation is open, aborted by
`Disconnect`, or completed with its handler still to run ("done"): `Disconnect` does
not change what that handler gets. An operation that is started on a socket that is
neither connected nor connecting fails at once (`StateAtStart`).

`MCRedisClient` lets commands go on forever in a finite model: when none is queued or
under way, it begins to count them again (`Renumber`).

### 2.4 IntercepterChain

`iter` is `_intercepter_iter` as a distance from `begin()`, `stack` the invocations
that still owe a call of `Pass` or `Stop`, innermost first, `waiting` those that
will make it from a callback. The program's intercepters and handlers call once,
now or later; the session and the static files are modelled from their code,
including the paths on which they call twice (`BadSession`, `SetexError`) or not at
all (`StaticNoName`); a handler that throws is caught and logged, and calls nothing.
`met` remembers which of these a request has met. Decrementing
`begin()` is undefined; `Before` is what the circular list of libstdc++ does.

### 2.5 HttpConnection

A request is its kind, which tells what the callbacks of the parser do with it, and
whether it is kept alive. Its bytes are events (headers, body, complete) that
arrive cut anywhere. `parts` is what `_request` and `_body_buffer` hold, as parts
of requests, so that a mixture of two is visible. A context replies (chunked or
not, closing or not) or never does. The model follows `do_read`'s handler in its
order: parse, give up, read on, upgrade, start a context.

### 2.6 ChunkedResponse

`bodies` is `_chunked_bodies` under its lock; the loop pops, writes, waits by
posting itself, or gives up. The text of an empty body equals that of the last
chunk (`Zero`).

### 2.7 Server

`pc` has the program counter of every thread: the one in `Run`, the threads of the
pool (a context and its thread have the same number), and threads of the program
that call `Stop`. `do_stop` is the same code for all of them, in one step for each
access to a flag or a context, since two of them may pass the test of
`IOContextPool::Stop` together. A thread in `run` calls handlers that are ready:
those of the acceptor and of the signal set on their contexts, and others, of which
it only matters that they may throw or call `Stop`. Clients, signals and the
results of accepts are external. What a connection does after `Start` is
`HttpConnection`.

### 2.8 IdleTimer

`start_idle_timer` is three steps (the test of the flag, the expiry, the wait),
`ResumeIdleTimer` one more, since all of these may interleave with the handler and
with each other. `round` is a run of `on_idle_timer`: the function it has come to,
the minimum so far and the time that it has taken, because distances are computed
with the time at which it began (`Distance`). Times are relative to the present, so
that the model has no clock to bound. `disturbed` remembers that something has
happened after which the code does not keep the timer alive: a pause, a second
start, an exception of an idle function, `Stop`, or the detection switched on while
a timer without any function is about to end. `planned` and `slack` remember for
which functions, and with which delay, the present wait was computed.
`next_timepoint` and the list of functions are not protected in the code; the model
changes each in one step.

### 2.9 Templates

A file has a version, the second in which it was written, a text that is right or
not, and the templates that it includes (`uses`). `Preload` clears both maps under the
lock; the directory iterator then gives the files that exist throughout, and possibly
those that appear in the meantime, in any order, first the ones to include and then
the others; the time is taken at the end. A file is loaded if its text is right and
everything it includes has been loaded so far (`Parses`): inja looks for an include
among the templates it has been given, tries to open a file of that name otherwise,
and throws. That this file might be found under the name, which has no extension, is
left out. An exception of the iterator ends the load where it is. The detection looks
for changed and removed files, and for files that are not loaded only if that finds
nothing or its reload fails, as `CheckTemplatesUpdate` does: a page whose include is
put right counts as not loaded, and one whose include has changed is loaded again
because everything is.

`settled` remembers the files that a load has found as they are, and that have not
been edited since, nor has what they include; a load that fails empties it. `Wanted`
is what a load should make of a file. `racy` remembers the files that were written
after they had been read and not later than `loaded_time`. An include that includes
another loads only if the iterator gives the other one first: such files are not
`Flat`, and the properties except them. `_loaded_time` has no initial value: it is
taken to be in the past or in the future. The specification's own names
(`TemplatesInit`, `TemplatesSpec`, ...) have a prefix, so that `IdleTimer_proofs` can
extend the module beside `IdleTimer`.

### 2.10 HttpClient

One request at a time, blocking (`RequestSync`) or not (`Request`); `phase` is the
operation that is under way. A response is a head and a body that are sent one after
the other and cut nowhere but in between, with a length, without one (the end of the
connection ends it) or malformed; `Execute` is what llhttp makes of a segment in
each of its states, and its callbacks are the code's. `_error` starts with anything,
since the constructor does not set it. The asynchronous `Connect` connects twice
(`req.again`), the blocking one makes no TLS handshake, and the buffer of an
asynchronous write is destroyed before the write is done (`intact`). A callback may
issue the next request, under which the connection is then closed (`Chain`).
`req.faults` remembers what was against a request; a property excepts the faults for
which the code has no answer, by name. `llhttp_execute` is a recursive function of
the segments that a read has brought. The specification's names have a prefix
(`ClientSpec`, `ClientTypeOK`, ...), so that one module can have theorems about it
and about `Server`.

### 2.11 FrameParser

Bytes and widths are real. `Encoded` is a frame as the builder, or as a peer, writes
it; `Read` brings any number of bytes of a stream of frames, `Parse` is a turn of the
loop of `FrameParser::Parse`, in which nothing else happens. `BadCut` says where the
parser cannot cope with the end of a read. The callback may throw, which ends `Parse`.
`FrameStreams` is any set of streams of frames below 64 KB (`CanBeSent`: a peer's empty
frame has the short length), and masking is any operation `XOR` that undoes itself.

### 2.12 RedisProtocol, RedisParser

Characters instead of bytes, a step per read and a step per turn of the loop of
`parse_chunk`, in which nothing else happens. `Turn` is its switch,
`ValueComplete` what follows it. Some replies are made with `MakeCommand`, so that
what the client writes is shown to be what a parser of the protocol reads.

### 2.13 UrlPaths, Routing, Applications

A path is a sequence of "/", letters in both cases, and words. The tables are the
code's: two maps without regard to case, one of them descending, and a list. `Due` is
the reference: it goes by the calls of `AddHandler` alone, not by tables, and
`RightHandler` compares it with `do_handle` for all paths and methods. `Applications`
has the map of roots, in descending order, the search that begins at `lower_bound`,
and the ways in which a default application comes to be; `NDEBUG` is the build.
`regex_match` (external) is a recursive function of the positions in path and pattern.
`MCParts` extends `Applications` and `Routing` (`AppSpec`, `RouteSpec`) and instantiates
the other parts, so that what it checks of these two is what the theorems are about.

### 2.14 RequestReader

What the HTTP parser calls back with is external: fragments of fields, values and the
body. The callbacks and the multipart parser are modelled character by character,
because what they hold back (`mark`, the index in the boundary) is what goes wrong. A
value of `Content-Type` is reduced to the boundary that it names. `reset` is the
connection's, after a reply.

### 2.15 FormText, RequestData

Texts are sequences of bytes: queries, forms, cookies and dispositions are written
(external, as clients do) and read back by the code's splitting and decoding. The data
of a part is a sequence of blocks of 2 KB, the buffer of `SaveTo`, and the disk a
function from numbers of files to data. `uf` is the `UploadFile` the program has got:
its status, the state of its stream and its memory. Opening a file may fail everywhere.
`saved`, `own` and `done` are history: what `SaveTo` last reported, and whether the
program wrote onto a temporary file of the request or saved a file twice.

### 2.16 MCParts

These six parts and `ChunkedResponse` do not share any state. `MCParts` puts them
side by side: a behaviour is one of a single part, chosen by `which`, so that the state
space is the sum of theirs. The inputs of the parts are defined there.

## 3. The runs

| run | shows |
|---|---|
| `ws_connection` | at most one write outstanding, no wakeup lost, each direction reported once, the write side implements the channel and (fair) delivers, each ping and close of the peer is answered |
| `ws_registry` | no null pointer in lists, no entry without a connection, connections with ids of their own are found while others collide |
| `redis_client` | one operation on the socket, callbacks once and in order, replies to the right command up to the first malformed one; until something fails, or a reply is awaited on another connection than the one it was sent on, all commands are answered; a client without a server gets connected, however many commands fail, if they leave the timer the time to expire |
| `chain` | one reply, the response takes the request's way back, the handler runs at most once, and a reply always comes unless the handler throws or a static file has no name |
| `chain_throws` | (violation) a request whose handler throws gets no reply |
| `http_connection` | one thing at a time, whole requests in order, nobody waits forever |
| `http_expect` | (violation) the reply to 100-continue resets the request that is being read |
| `server` | `Run` returns whoever stops the server and when; no thread stays behind or ends early; accepting goes on |
| `idle_timer` | armed for the earliest function, never forgotten while the flag is set, detections carried out; beside it, no gap for requests during a reload of templates, until one fails, and what is loaded becomes what is in the files and in what they include |
| `http_client` | a success is the request's own whole response, a failure has a reason, each request is reported once and ends |
| `parts` | chunked replies are intact and end; frames, redis replies and requests are read as they were sent, wherever they are cut; every path and method gets the right application and handler; parameters and uploaded files are as they were sent |
| `default_app` | (violation) in a release build `DefaultApp` gives an application that serves nothing |

The three violations are described under "findings" in `PROJECT.json`, each with
the line of the repository that says otherwise.

The models have further behaviours that the properties above step around, each with
its line under "hazards": a frame that is sent while a websocket is being opened
goes out before the 101 response; a connection renamed to the empty id stays in the
registry (`NonEmptyNames` excludes it); a redis link that breaks after it was
established is never replaced; commands that go on failing postpone the next attempt
to connect for as long as they come faster than the interval; two connects of the
redis client at once may leave it with a link that is up and a status that says it
is not; a read of the redis client may wait on a new connection for a reply to what
was written on the one before; what is left of a malformed reply is taken for the
reply to the next command; a session that does not parse, or cannot be stored, makes
its intercepter call both `Stop` and `Pass`; a paused and resumed idle timer ends
after one more round, and so does one whose function throws; one failed redis
operation with more commands queued leaves them and all later ones unanswered; an
edit of a template that a load overtakes stays unnoticed, and whether an include
that includes another is loaded depends on the order of the directory; a websocket
frame whose extended length, masking key or masked payload is cut by a read is
misread; a header field that is repeated is put in front of the next field; the HTTP
client does not recover its parser after a response that was cut off. Of uploaded
files: a second `SaveTo` of one in memory reports success and writes nothing;
`SaveTo` empties its destination before it finds that the stream is used up;
`ToStream` empties the file it has just written. The value of a cookie ends at its
first "=", a pair of a query with two of them is dropped, and a semicolon separates
inside quotes, too.

### 3.1 Bounds, and why they are enough

* `ws_connection`: two senders, the io thread, one message each, two reads of one
  frame. Every race is between the thread that found the list empty, one that did
  not, and the completion handler, so three threads meet all of them; two frames
  give fragments, a close after a ping, and frames after an error.
* `ws_registry`: three connections, two of which share a name, one thread with
  contexts and lists (programs also act through the holding contexts), six ids.
  A collision takes two connections; the third is the one that must stay found.
* `redis_client`: four commands, the third with a malformed reply, two breaks, two
  calls of `Connect`, `Disconnect` or `Reconnect`: a failure with commands before
  and behind it, followed by another one after a reconnection. When all is answered
  the commands are counted anew, so that their number is not bounded, while breaks and
  calls are. The interval has two parts, so that it can be set back in the middle.
* `chain`: all 121 chains of at most four intercepters. The code compares the
  iterator with `begin` and `end` only; the proofs cover any length. `MaxEnds`
  stops the repetition of replies after a double call.
* `http_connection`: three requests of all kinds but 100-continue: one in the
  middle of the connection's life, with one before and one after it. Clients wait
  for the reply before they send the next request (`Pipelining` is FALSE); requests
  that share a read are merged by the code.
* `server`: two contexts, so that the acceptor and the signal set are on different
  threads, one thread of the program that stops, again and again, and one client:
  a signal, handlers of both threads and the program can all be in `Stop`.
* `idle_timer`: the detection and one idle function with different intervals, a
  round that takes no time or one second, and three calls: enough to pause, resume
  and enable, or to append and enable, with a start of the timer in progress.
* `idle_timer`, templates: an include, and a page with or without it, four edits, one failed load,
  three seconds: both files can be created, loaded, and one of them edited in the
  second of the load, and edited again or removed.
* `http_client`: three requests of any mode and action, one break, one call of `Reset`
  or `Close`: a request that leaves something behind, one that finds it, and one after.
* `parts`, chunked: two threads, three pushes each. Frames: two in a stream, of length
  0, 1 and 5 in all forms, and one of 126 bytes, the first that needs the longer form;
  a payload of 5 bytes goes once around the key. Redis: fifteen replies of every kind,
  with arrays two deep and bulk strings with line ends in them. Routes: three calls
  out of fourteen, which overlap within and across the tables, with eight paths.
  Applications: five, with roots that are prefixes of each other or equal but for the
  case. Requests: two on a connection, with repeated and empty headers, and two parts
  whose data has line ends and beginnings of boundaries. All are cut in every way, the
  fields and values into fragments of at most two characters. Data: pairs whose names are
  repeated, escaped or differ in case, in every source; two forms with files, under each
  strategy of saving, with and without a directory for it; four calls of the program and
  two files that it writes: enough to move a file to memory or a stream, save it, and
  save it or another one again.

Deadlock is not checked: every one of these systems comes to rest, when the
connection is closed, the bound on inputs is used up or the request is replied to.

### 3.2 Fairness

* Handlers that are ready are run: the threads of the pool do nothing else.
* A write completes or fails, and bytes that were sent are read or the read fails:
  TCP reports a broken link sooner or later. Reads are not assumed to complete when
  the peer sends nothing.
* A thread that found the list empty calls `start_write`: it is its next statement.
* Intercepters and handlers that have not called `Pass` or `Stop` do so, and redis
  answers (`chain`); `http_connection` also allows that they never do.
* Threads of the pool go on, handlers return, and a handler that stays ready is
  called although others are ready as well (`server`): asio's queue is first in,
  first out. An accept does not fail forever.
* The operations of the HTTP client complete or fail, and a server that has accepted a
  request sends its response or closes (`http_client`).
* Time passes and timers expire (`idle_timer`); the detection of templates is called again
  and again, which is what `Detects` shows of the timer.
* The redis server does not refuse connections forever (strong fairness of a
  successful connect), and time passes while its client waits (weak fairness of
  `TimerRuns`). That the timer expires is no assumption, since the code may set it back
  each time; `ConnectsAtFirst` has it as a hypothesis that the interval is not restarted
  forever (`Postpones`), without which TLC finds it violated.

## 4. The proofs

TLAPS checks the following for every value of the constants.

* **`WsConnection_proofs`**, of `WsConnection`: `TypeCorrect`, `OneWriteAtATime`, `WakeupNotLost`,
  `ChannelRefinement` and `EndToldOnce`. `AtMostOneWrite` is not inductive: nothing
  in it says why a thread that is about to call `start_write` will not add a second
  write. The inductive invariant sees the right to write as a token. While the list
  is empty nobody has it; otherwise exactly one of these has it: a thread with
  `pc = "start_write"`, the outstanding write (which is of the head of the list),
  or a write that failed. Appending to an empty list creates the token,
  `start_write` passes it on, and the completion handler keeps it or destroys it
  with the last element. The refinement maps the list and the wire to the
  channel's and follows from the same invariant. `ToldOnce` needs in addition what
  is over once it is told (`ToldInv`): after a write event no write is started,
  after a read event no read.
  Of `FrameParser`: `FramesArrive`, for any streams of frames and any reads.
  `FramesAsSent` speaks of the end of a read. The invariant (`StreamInv`) says after
  every turn of the loop how many frames have been reported and where in the next one
  the parser is (`At`): behind its first byte, its length, its extended length, or some
  of its payload, with what it knows by then. `FrameTurn` takes it from one of these
  places to the next; a cut that `BadCut` names is exactly what would leave it anywhere
  else. `StreamHolds` finds the bytes of each frame in the stream, whose definition is a
  recursive function: that it has a solution, and what holds along it, follows from the
  least index at which it would not.
* **`Applications_proofs`**, of `WsRegistry`: `ContextsNotNull`, `NothingLeftBehind` and
  `OpenConnectionsFound`, provided no connection is renamed to the empty id
  (`NonEmptyNames`). The invariant adds to `EntriesAreHeld` that a held connection
  has an id, because the destructor skips the removal of those that have none. Ids
  may collide. For `OpenAreFound` it adds whose ids a connection may have
  (`OwnNames`): a rename of another one then cannot overwrite or remove its entry.
  Of `Applications`: `ApplicationOfPath`, for any applications and paths that are
  strings (`Strings`), and `DefaultAppServes`, for those without an empty root in a
  debug build; without the first of these two hypotheses an application on the empty
  root answers for "/" until another one is mounted there, without the second the run
  `default_app` shows the violation. `RightApplication` speaks of the order of mounting,
  which the map has lost; the invariant (`MapOfFirsts`) keeps what is left of it, that
  of every root the map has the application that came first. The rest is
  `PrefixOrder`: a root that a path begins with is not greater than the path, so that
  `lower_bound` skips none, and of two such roots the longer one is the greater.
  Of `Routing`: `HandlerOfRequest`, for any routes and requests that are strings
  (`RouteStrings`). `RightHandler` compares `do_handle` with a reference that does not
  know the tables. The invariant (`RoutesInv`) says what the calls of `AddHandler`
  have made of them: an item for each url that differs, with the handler of the last
  call for each method (`Latest`), and the patterns in the order in which they came
  first. What each of the three searches gives is then said of the calls alone
  (`Searched`), and at most one call can decide (`OneDecides`). Nothing is assumed of
  `regex_match` but that it depends on the path and the pattern only.
* **`RedisClient_proofs`**: `TypeCorrect`, `OneOperationOnly`, `CalledBackInOrder`
  and `RepliesMatch`, for any number of commands, broken links and calls, any
  interval, and any set of replies that do not parse. `ReplyMatches` says nothing of replies that are
  still on their way. `Expected` does: until a reply that does not parse has been
  handed to its callback, the buffer is empty between commands, and what is on the
  link is a part of the reply to the command that is being read, with its last
  segment at the end. That is what a reconnection or an error must not break.
* **`IntercepterChain_proofs`**: `RepliesOnce`, `WayBack` and `HandlerRunsOnce`, for
  chains of any length. The invariant says that at most one invocation owes a call
  of `Pass` or `Stop`, and ties its place to the iterator, to the intercepters
  called with the request and to those called with the response. It lasts until the
  session intercepter calls both (`OneCall`). `HandledOnce` does not depend on that:
  the direction never turns back, so that the request passes the end of the chain
  once (`HandledInv`).
* **`HttpConnection_proofs`**: `TypeCorrect` for all clients; `OneThingAtATime` for
  clients that do not ask for "100 Continue" (`"expect" \notin Kinds`), pipelining
  included; `RequestsWhole` and `AppIsSet` for those that do not pipeline either
  (`~Pipelining`), for any number of requests and any cut of their bytes.
  The hypotheses are needed: with "100 Continue" `do_read`'s assertion fails, which
  is what the run `http_expect` shows. `OneInv` adds to `OneAtATime` that nothing is
  outstanding while llhttp runs, unless a callback has refused the request, after
  which llhttp calls back no more. `WholeInv` adds the request in progress
  (`Progress`): either all that was sent is handled, or a request is being answered,
  or one is arriving, and then the events that are sent and not yet called back for
  are what it lacks, and `_request` and the body buffer hold the rest of it.
* **`RequestAndResponse_proofs`**, of `ChunkedResponse`: `TypeCorrect` and `RepliesIntact`, for any number of
  threads and chunks. `ReplyIntact` says nothing of the queue. `ChunkInv` does: what
  is written, what is being written and what is queued are together the chunks in
  the order in which they were pushed (`TakenInOrder`, `Open`); once
  `StopChunkedResponse` has been called the mark is right behind the one last chunk,
  other threads' chunks are behind that, and the loop ends at the mark (`Shut`).
  Of `RequestReader`: `HeadersArrive`, the first half of `RequestAsSent`, for any
  requests whose fields are not empty, over any characters, and fragments of any
  length. `HeadersAsSent` speaks of requests that are complete. The
  invariant (`CurrentRead`) says for each position in the fields and values what the
  connection holds (`HeadersRead`), and that a body, through all states of the multipart
  parser, changes none of the headers (`Keeps`). `AppendNext` is the fact about the map:
  appending the next header to what the ones before have made gives what they make
  together, a field that is repeated included.
* **`ServerAndClient_proofs`**, of `Server`: `TypeCorrect` and `ThreadsEnd`, for any number of contexts
  and threads. `NoneLeftBehind` speaks of the time when a thread has ended, too late
  to be inductive; the invariant says the same from the moment the pool's flag is
  set, which is what a thread tests before it ends, and adds that a thread in the
  loop of `IOContextPool::Stop` is at a context of the pool.
  Of `HttpClient`: `ClientTypeCorrect`, `ReportsTrue` and `NoFalseReports`, for any
  number of requests, any sizes and faults, and reads that bring any part of what the
  server has sent. `Truthful` speaks of a request that is over. `ClientInv` follows it:
  what the socket and the flags say of each other (`Connection`), that the parser and
  what the server has still to send together are a whole response, unless a fault is
  on record (`InStep`), that the response so far is the part of the request's own that
  has been parsed (`SoFar`), and that a request without faults leaves nothing behind
  for the next (`Clean`). One read runs the parser over any number of segments:
  what that gives is shown by the least segment at which it would not be so (`UpTo`,
  from the well-foundedness of the numbers), which takes the place of the induction
  theorems that have an operator as a parameter.
* **`IdleTimer_proofs`**: `TypeCorrect`, `TimerOnTime` and `TimerIsKept`, for any
  functions, intervals and (finitely many) threads. `OnTime` speaks of an armed timer.
  The invariant follows the minimum through a round: it is not later than any of the
  functions seen (`Minimum`), becomes the interval and then the expiry (`Armed`),
  while other threads may append functions, start the detection anew or set another
  expiry between these steps; that calling a function puts it off and never brings
  it nearer needs `Near`. `TimerKept` is inductive once it covers the time before
  `Run` and that with the flag clear (`CarriedOnce`): one wait, ready handler, round
  or starting thread at most, and exactly one while the flag is set.
  The module also has the theorems about `Templates`, whose changes the first
  function detects: `TemplatesTypeCorrect` and `NoGapForRequests`. `NoGap` asks for
  nothing while the lock is held. The invariant (`TemplatesInv`) follows the settled
  files through a load: those that are to be included, for their own sake or for that
  of a settled page (`Kept`), have been read as they are or are still to come
  (`IncludesLoad`), then are all loaded while the same holds of the others
  (`NormalsLoad`); nothing that a settled file includes includes anything itself
  (`SettledFlat`), so that the order of the iterator does not matter.

TLC checked every inductive invariant on the instances of section 3 before it was
proved. The proofs rest on the assumptions of the modules (distinct threads, bounds
that are natural numbers, an id for each connection that is not empty and its own),
on the hypotheses named above and on nothing else.

Liveness (`ChannelLive`, `PeerAnswered`, `Answers`, `ConnectsAtFirst`, `Replies`,
`Settled`, `Ends`, `StopEndsRun`, `Accepts`, `Detects`, `Fresh`, `Answered`) is only
model-checked, since it needs fairness and ENABLED. `ThrownIsReplied`, which the
code violates, is liveness too, under the fairness of `Replies`. So is what three parsers make of
characters: `ReplyAsSent`, whose values are nested to any depth, and `PartsAsSent` and
`DataAsSent`, which decode what a concatenation of encodings of any length has encoded.

## 5. What is not modelled

* The rendering of templates (inja), the text of responses and of the cookies
  they set, crypto (base64 and hashes), character sets and MIME types, logging:
  conversions without state or order, for which the unit tests of the repository are
  the better tool.
* TLS beyond the handshakes; the use of one TLS stream by two threads.
* Races without a defined outcome, on `std::list` in `AppendIdleFunction` after
  `PauseIdleTimer` (`src/server.cpp`, line 288) and on an `unordered_map` in
  `CopyIncludeTemplateTo` during a reload (`src/templates.cpp`, line 228).
* In the HTTP client: responses without a body, bodies in several segments, and the
  error of a socket that cannot be closed (`src/client/connection_client.cpp`, lines
  113 to 117), which no property depends on.
* The copies of included templates that each context has (`src/context.cpp`, line 45),
  and the growth of the redis client's reconnect interval.
* Frames of 64 KB and more; replies and sizes that overflow.
* Vendored code: `nlohmann_json`, `inja`, `spdlog` and `llhttp`. It is about four
  fifths of the lines in the repository (82,500, of which about 18,000 are the
  framework's own, its headers, tests and examples included). Where the framework
  depends on what it does, the models have that as external definitions; the
  multipart parser, whose callbacks are the framework's, is modelled.

## 6. Plan

1. Done: the modules of section 2 with the runs and theorems above.
2. Composition of `HttpConnection` and `IntercepterChain`: what a context that
   calls `StartWrite` twice, or after a reset, does to the next request.
3. Proofs: of `RequestReader`, that the parts of a multipart body are those that
   were sent (`PartsAsSent`).

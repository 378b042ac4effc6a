----------------------------- MODULE WsConnection -----------------------------
(***************************************************************************)
(* One server side websocket connection (Websocket::Connection), from the  *)
(* upgrade of the HTTP connection to the end of its read loop and of its   *)
(* write queue.                                                            *)
(*                                                                         *)
(* Completion handlers and the upgrade run on the one thread of the        *)
(* connection's io_context (IO).  Any other thread that finds the          *)
(* connection in the application's registry may write to it or stop it     *)
(* (Senders).  A call takes one step per section under _m_4_write and one  *)
(* per call made outside of it, so the threads interleave where the code   *)
(* lets them.                                                              *)
(***************************************************************************)
EXTENDS Naturals, Sequences

CONSTANTS
    Senders,    \* threads other than the io_context's that use the connection
    IO,         \* the thread of the connection's io_context
    MaxSends,   \* bound: messages each sender (and the handler on IO) writes
    MaxReads,   \* bound: completed reads that carry frames
    MaxFrames   \* bound: frames that one read completes

ASSUME ThreadsAssumption == IO \notin Senders

ASSUME BoundsAssumption == /\ MaxSends \in Nat
                           /\ MaxReads \in Nat
                           /\ MaxFrames \in Nat

Threads == Senders \cup {IO}

\* What append_write_data queues: the 101 response, a data frame, and the two
\* control frames the server sends.
MessageKinds == {"handshake", "data", "pong", "close"}

\* A queued buffer.  by and seq tell two buffers of a kind apart; the code
\* does not look at them.
Message == [kind : MessageKinds, by : Threads, seq : Nat]

\* Frames as on_read_frame tells them apart; "other" is a pong or a reserved
\* opcode, the default branch.
Frames == {"close", "continuation", "text", "binary", "ping", "other"}

VARIABLES
    queue,            \* _data_4_write
    pc,               \* per thread: the call it is in the middle of
    writing,          \* buffers handed to async_write and not completed
    wire,             \* buffers completely written, in completion order
    failed,           \* an async_write completed with an error
    io,               \* where the IO thread is in do_upgrade or the reactor
    reachable,        \* AddWebSocketConnection has been called
    armed,            \* an async_read_some is outstanding
    batch,            \* frames of the current read not yet handed out
    stop_by_self,     \* _stop_by_self
    last_data_type,   \* _last_data_type
    error_on_parse,   \* _error_on_parse
    told,             \* OnClose / OnError calls, by the event they are for
    count,            \* messages each thread has appended (gives seq)
    sends,            \* Write calls made so far by each thread
    reads,            \* reads completed so far
    pings, closes     \* ping and close frames received so far

writeVars == <<queue, pc, writing, wire, failed, count>>
readVars  == <<armed, batch, last_data_type, error_on_parse, reads, pings, closes>>
vars == <<queue, pc, writing, wire, failed, io, reachable, armed, batch,
          stop_by_self, last_data_type, error_on_parse, told, count, sends,
          reads, pings, closes>>

Init == /\ queue = <<>>
        /\ pc = [t \in Threads |-> "idle"]
        /\ writing = <<>>
        /\ wire = <<>>
        /\ failed = FALSE
        /\ io = "OnOpen"
        /\ reachable = FALSE
        /\ armed = FALSE
        /\ batch = <<>>
        /\ stop_by_self = FALSE
        /\ last_data_type = "none"
        /\ error_on_parse = 0
        /\ told = <<>>
        /\ count = [t \in Threads |-> 0]
        /\ sends = [t \in Threads |-> 0]
        /\ reads = 0
        /\ pings = 0
        /\ closes = 0

-------------------------------------------------------------------------------
(* The write side *)

\* Mutant: start_write is called whether or not the list was empty.
append_write_data_always_starts(t, kind) ==
    /\ queue' = Append(queue, [kind |-> kind, by |-> t, seq |-> count[t] + 1])
    /\ count' = [count EXCEPT ![t] = @ + 1]
    /\ pc' = [pc EXCEPT ![t] = "start_write"]
    /\ UNCHANGED <<writing, wire, failed>>

\* Mutant: a frame that must not wait is put in front of the list.
append_write_data_pushes_front(t, kind) ==
    /\ queue' = <<[kind |-> kind, by |-> t, seq |-> count[t] + 1]>> \o queue
    /\ count' = [count EXCEPT ![t] = @ + 1]
    /\ pc' = [pc EXCEPT ![t] = IF queue = <<>> THEN "start_write" ELSE "idle"]
    /\ UNCHANGED <<writing, wire, failed>>

\* The section of append_write_data under the lock, and its caller's decision
\* to call start_write, which it takes outside of the lock.
append_write_data(t, kind) ==
    /\ queue' = Append(queue, [kind |-> kind, by |-> t, seq |-> count[t] + 1])
    /\ count' = [count EXCEPT ![t] = @ + 1]
    /\ pc' = [pc EXCEPT ![t] = IF queue = <<>> THEN "start_write" ELSE "idle"]
    /\ UNCHANGED <<writing, wire, failed>>

\* start_write hands the first buffer of the list to async_write, without the
\* lock.
start_write(t) ==
    /\ pc[t] = "start_write"
    /\ writing' = Append(writing, Head(queue))
    /\ pc' = [pc EXCEPT ![t] = "idle"]
    /\ UNCHANGED <<queue, wire, failed, io, reachable, armed, batch, stop_by_self,
                   last_data_type, error_on_parse, told, count, sends, reads,
                   pings, closes>>

\* The IO thread is in the reactor and can run a completion handler.
InReactor == io = "reactor" /\ pc[IO] = "idle"

\* Mutant: the handler pops but does not look for more data.
on_wrote_stops ==
    /\ InReactor
    /\ writing # <<>>
    /\ wire' = Append(wire, Head(writing))
    /\ writing' = Tail(writing)
    /\ queue' = Tail(queue)
    /\ UNCHANGED <<pc, failed, io, reachable, armed, batch, stop_by_self,
                   last_data_type, error_on_parse, told, count, sends, reads,
                   pings, closes>>

\* Mutant: the outstanding write is never seen to complete once the connection
\* has been stopped.
on_wrote_unless_stopped ==
    /\ InReactor
    /\ writing # <<>>
    /\ wire' = Append(wire, Head(writing))
    /\ writing' = Tail(writing)
    /\ queue' = Tail(queue)
    /\ pc' = [pc EXCEPT ![IO] = IF Tail(queue) # <<>> /\ ~stop_by_self
                                THEN "start_write" ELSE "idle"]
    /\ UNCHANGED <<failed, io, reachable, armed, batch, stop_by_self,
                   last_data_type, error_on_parse, told, count, sends, reads,
                   pings, closes>>

\* The completion handler of async_write without an error: pop under the lock,
\* then start_write again if there is something left.
on_wrote ==
    /\ InReactor
    /\ writing # <<>>
    /\ wire' = Append(wire, Head(writing))
    /\ writing' = Tail(writing)
    /\ queue' = Tail(queue)
    /\ pc' = [pc EXCEPT ![IO] = IF Tail(queue) # <<>> THEN "start_write" ELSE "idle"]
    /\ UNCHANGED <<failed, io, reachable, armed, batch, stop_by_self,
                   last_data_type, error_on_parse, told, count, sends, reads,
                   pings, closes>>

\* Mutant: the handler drops what is queued, so a later append starts to write
\* on the broken link again.
on_write_error_clears ==
    /\ InReactor
    /\ writing # <<>>
    /\ writing' = Tail(writing)
    /\ queue' = <<>>
    /\ failed' = TRUE
    /\ told' = Append(told, "write_event")
    /\ UNCHANGED <<pc, wire, io, reachable, armed, batch, stop_by_self,
                   last_data_type, error_on_parse, count, sends, reads,
                   pings, closes>>

\* The same handler with an error: OnClose (eof) or OnError, and return.  The
\* buffer stays at the head of the list.
on_write_error ==
    /\ InReactor
    /\ writing # <<>>
    /\ writing' = Tail(writing)
    /\ failed' = TRUE
    /\ told' = Append(told, "write_event")
    /\ UNCHANGED <<queue, pc, wire, io, reachable, armed, batch, stop_by_self,
                   last_data_type, error_on_parse, count, sends, reads,
                   pings, closes>>

\* A thread that holds a context calls one of its Send functions.
Write(t) ==
    /\ t \in Senders
    /\ reachable
    /\ pc[t] = "idle"
    /\ sends[t] < MaxSends
    /\ sends' = [sends EXCEPT ![t] = @ + 1]
    /\ append_write_data(t, "data")
    /\ UNCHANGED <<io, reachable, stop_by_self, told>>
    /\ UNCHANGED readVars

\* Connection::Stop called by another thread: first the flag ...
Stop(t) ==
    /\ t \in Senders
    /\ reachable
    /\ pc[t] = "idle"
    /\ sends[t] < MaxSends
    /\ sends' = [sends EXCEPT ![t] = @ + 1]
    /\ stop_by_self' = TRUE
    /\ pc' = [pc EXCEPT ![t] = "stop"]
    /\ UNCHANGED <<queue, writing, wire, failed, io, reachable, told, count>>
    /\ UNCHANGED readVars

\* ... then the close frame.
StopAppends(t) ==
    /\ pc[t] = "stop"
    /\ append_write_data(t, "close")
    /\ UNCHANGED <<io, reachable, stop_by_self, told, sends>>
    /\ UNCHANGED readVars

-------------------------------------------------------------------------------
(* Opening: Connection::do_upgrade of the HTTP connection *)

\* The handler's OnOpen refuses: the context is dropped and nothing else runs.
OnOpenRefuses ==
    /\ io = "OnOpen"
    /\ pc[IO] = "idle"
    /\ io' = "reactor"
    /\ UNCHANGED <<reachable, stop_by_self, told, sends>>
    /\ UNCHANGED writeVars
    /\ UNCHANGED readVars

\* OnOpen may already write.
OnOpenWrites ==
    /\ io = "OnOpen"
    /\ pc[IO] = "idle"
    /\ sends[IO] < MaxSends
    /\ sends' = [sends EXCEPT ![IO] = @ + 1]
    /\ append_write_data(IO, "data")
    /\ UNCHANGED <<io, reachable, stop_by_self, told>>
    /\ UNCHANGED readVars

\* OnOpen returns true: the connection gets its id and enters the registry.
AddWebSocketConnection ==
    /\ io = "OnOpen"
    /\ pc[IO] = "idle"
    /\ io' = "Start"
    /\ reachable' = TRUE
    /\ UNCHANGED <<stop_by_self, told, sends>>
    /\ UNCHANGED writeVars
    /\ UNCHANGED readVars

\* Start: the 101 response is queued ...
start_handshake ==
    /\ io = "Start"
    /\ pc[IO] = "idle"
    /\ io' = "start_read"
    /\ append_write_data(IO, "handshake")
    /\ UNCHANGED <<reachable, stop_by_self, told, sends>>
    /\ UNCHANGED readVars

\* ... and the first read is started.
start_read ==
    /\ io = "start_read"
    /\ pc[IO] = "idle"
    /\ io' = "reactor"
    /\ armed' = TRUE
    /\ UNCHANGED <<reachable, batch, stop_by_self, last_data_type, error_on_parse,
                   told, sends, reads, pings, closes>>
    /\ UNCHANGED writeVars

-------------------------------------------------------------------------------
(* The read side *)

\* async_read_some completes with bytes that complete the frames fs (none when
\* a frame is still cut off).
on_read(fs) ==
    /\ InReactor
    /\ armed
    /\ reads < MaxReads
    /\ reads' = reads + 1
    /\ armed' = FALSE
    /\ io' = "Parse"
    /\ batch' = fs
    /\ UNCHANGED <<reachable, stop_by_self, last_data_type, error_on_parse,
                   told, sends, pings, closes>>
    /\ UNCHANGED writeVars

\* async_read_some completes with an error: OnClose (eof) or OnError, and the
\* read loop is over.
on_read_error ==
    /\ InReactor
    /\ armed
    /\ armed' = FALSE
    /\ told' = Append(told, "read_event")
    /\ UNCHANGED <<io, reachable, batch, stop_by_self, last_data_type,
                   error_on_parse, sends, reads, pings, closes>>
    /\ UNCHANGED writeVars

\* FrameParser::Parse hands the next frame f to on_read_frame.
NextFrame(f) == /\ io = "Parse"
                /\ pc[IO] = "idle"
                /\ batch # <<>>
                /\ Head(batch) = f
                /\ batch' = Tail(batch)

\* Mutant: the flag is set before it is tested.
on_close_frame_sets_first ==
    /\ NextFrame("close")
    /\ closes' = closes + 1
    /\ error_on_parse' = 0
    /\ stop_by_self' = TRUE
    /\ UNCHANGED <<queue, pc, writing, wire, failed, count, io, reachable, armed,
                   last_data_type, told, sends, reads, pings>>

\* A close frame is answered by Stop unless this side has stopped already.
on_close_frame ==
    /\ NextFrame("close")
    /\ closes' = closes + 1
    /\ error_on_parse' = 0
    /\ stop_by_self' = TRUE
    /\ pc' = [pc EXCEPT ![IO] = IF stop_by_self THEN "idle" ELSE "stop"]
    /\ UNCHANGED <<queue, writing, wire, failed, count, io, reachable, armed,
                   last_data_type, told, sends, reads, pings>>

on_ping_frame ==
    /\ NextFrame("ping")
    /\ pings' = pings + 1
    /\ error_on_parse' = 0
    /\ append_write_data(IO, "pong")
    /\ UNCHANGED <<io, reachable, armed, stop_by_self, last_data_type, told, sends,
                   reads, closes>>

\* The default branch: the frame only marks the read as erroneous.
on_other_frame ==
    /\ NextFrame("other")
    /\ error_on_parse' = 1
    /\ UNCHANGED <<io, reachable, armed, stop_by_self, last_data_type, told, sends,
                   reads, pings, closes>>
    /\ UNCHANGED writeVars

\* The type that a data frame is handed out as.
DataType(f) == IF f = "continuation" THEN last_data_type ELSE f

\* A data frame for which the handler is called.  The handler may return, or
\* write an answer, or throw: then Parse catches it, returns false, and the
\* read loop ends without a word to the handler.
on_data_frame(f, answers, throws) ==
    /\ f \in {"continuation", "text", "binary"}
    /\ NextFrame(f)
    /\ DataType(f) # "none"
    /\ last_data_type' = DataType(f)
    /\ error_on_parse' = 0
    /\ io' = IF throws THEN "ParseFailed" ELSE "Parse"
    /\ IF answers
       THEN /\ sends[IO] < MaxSends
            /\ sends' = [sends EXCEPT ![IO] = @ + 1]
            /\ append_write_data(IO, "data")
       ELSE UNCHANGED <<queue, pc, writing, wire, failed, count, sends>>
    /\ UNCHANGED <<reachable, armed, stop_by_self, told, reads, pings, closes>>

\* A continuation with no message to continue.
on_stray_continuation ==
    /\ NextFrame("continuation")
    /\ last_data_type = "none"
    /\ error_on_parse' = 2
    /\ UNCHANGED <<io, reachable, armed, stop_by_self, last_data_type, told, sends,
                   reads, pings, closes>>
    /\ UNCHANGED writeVars

\* The end of the read handler.
read_again ==
    /\ pc[IO] = "idle"
    /\ \/ io = "Parse" /\ batch = <<>>
       \/ io = "ParseFailed"
    /\ armed' = (io = "Parse" /\ error_on_parse = 0)
    /\ io' = "reactor"
    /\ batch' = <<>>
    /\ UNCHANGED <<reachable, stop_by_self, last_data_type, error_on_parse, told,
                   sends, reads, pings, closes>>
    /\ UNCHANGED writeVars

-------------------------------------------------------------------------------
Batches == UNION {[1..n -> Frames] : n \in 0..MaxFrames}

Upgrading == \/ OnOpenRefuses
             \/ OnOpenWrites
             \/ AddWebSocketConnection
             \/ start_handshake
             \/ start_read

\* The handler that the IO thread is running goes on.
Handling == \/ on_close_frame
            \/ on_ping_frame
            \/ on_other_frame
            \/ \E f \in Frames, answers, throws \in BOOLEAN :
                    on_data_frame(f, answers, throws)
            \/ on_stray_continuation
            \/ read_again

Calling(t) == start_write(t) \/ StopAppends(t)

Next == \/ Upgrading
        \/ Handling
        \/ on_wrote
        \/ on_write_error
        \/ on_read_error
        \/ \E fs \in Batches : on_read(fs)
        \/ \E t \in Threads : Calling(t)
        \/ \E t \in Senders : Write(t) \/ Stop(t)

Spec == Init /\ [][Next]_vars

\* A thread that is inside a call goes on with it, the io_context runs ready
\* handlers, and an asynchronous write completes, well or badly: the peer
\* reads what it is sent or the link breaks.  Nothing is assumed of what the
\* peer sends, nor of what senders and handlers decide to do.
FairSpec == /\ Spec
            /\ \A t \in Threads : WF_vars(Calling(t))
            /\ WF_vars(OnOpenRefuses \/ AddWebSocketConnection)
            /\ WF_vars(start_handshake)
            /\ WF_vars(start_read)
            /\ WF_vars(Handling)
            /\ WF_vars(on_wrote \/ on_write_error)
-------------------------------------------------------------------------------
(* Properties *)

\* Types: the queue, the read loop and what the handler has been told.
TypeOK == /\ queue \in Seq(Message)
          /\ writing \in Seq(Message)
          /\ wire \in Seq(Message)
          /\ pc \in [Threads -> {"idle", "stop", "start_write"}]
          /\ failed \in BOOLEAN
          /\ io \in {"OnOpen", "Start", "start_read", "reactor", "Parse", "ParseFailed"}
          /\ reachable \in BOOLEAN
          /\ armed \in BOOLEAN
          /\ batch \in Seq(Frames)
          /\ stop_by_self \in BOOLEAN
          /\ last_data_type \in {"none", "text", "binary"}
          /\ error_on_parse \in 0..2
          /\ told \in Seq({"read_event", "write_event"})
          /\ count \in [Threads -> Nat]
          /\ sends \in [Threads -> Nat]
          /\ reads \in Nat
          /\ pings \in Nat
          /\ closes \in Nat

\* At any time at most one async_write is outstanding on the socket, whichever
\* threads call Write, Stop or run handlers: a second one would mix the bytes
\* of two frames.  The code relies on the emptiness test of append_write_data
\* and of the completion handler, both made under the lock, although
\* start_write is called outside of it.
AtMostOneWrite == Len(writing) <= 1

\* No lost wakeup: while something is queued and no write has failed, a write
\* is outstanding or a thread is on its way to start one.
NoLostWakeup ==
    queue # <<>> => \/ writing # <<>>
                    \/ failed
                    \/ \E t \in Threads : pc[t] = "start_write"

\* The handler hears of the end of each direction at most once (OnClose or
\* OnError with read_event, and the same with write_event), although appends
\* and reads go on being attempted afterwards.
ToldOnce == \A i, j \in 1..Len(told) : told[i] = told[j] => i = j

\* The write side is the FIFO channel of WsChannel: buffers reach the wire in
\* the order in which append_write_data queued them, each once, and none after
\* an error.
Channel == INSTANCE WsChannel WITH pending <- queue, delivered <- wire,
                                   broken <- failed

ChannelSafe == Channel!Spec

\* The channel also makes progress: what is queued is written unless a write
\* fails.
ChannelLive == Channel!FairSpec

OnWire(kind) == Len(SelectSeq(wire, LAMBDA m : m.kind = kind))

\* What the peer asks for is answered, however its frames interleave with sends
\* and with Stop: its close frame by a close frame, unless this side has sent one,
\* and every ping by a pong of its own; unless the link breaks first.
PeerAnswered ==
    /\ (closes > 0) ~> (OnWire("close") > 0 \/ failed)
    /\ \A n \in 1..(MaxReads * MaxFrames) : (pings = n) ~> (OnWire("pong") >= n \/ failed)
===============================================================================

------------------------------ MODULE RedisClient ------------------------------
(***************************************************************************)
(* The redis client of one io_context (RedisClient), which every request   *)
(* handler of that io_context shares.  Commands are queued; the one at the *)
(* head of the queue is written and its reply is read before the next one  *)
(* is written.  All of the code runs on one thread, so a completion        *)
(* handler is one step; the order in which the socket and the timer        *)
(* complete, and what a callback does, are free.                           *)
(*                                                                         *)
(* Commands are numbered in the order in which they are issued.  The bytes *)
(* of a reply are segments; what the parser makes of them is external.     *)
(***************************************************************************)
EXTENDS Naturals, Sequences

CONSTANTS
    AutoReconnect,  \* the policy is auto_reconnect (as the pool sets it)
    EarlyCommands,  \* commands are also issued while there is no connection
    Malformed,      \* commands whose reply the parser rejects
    Interval,       \* parts of the timer's interval: other things happen between
    MaxCommands,    \* bound: commands issued
    MaxBreaks,      \* bound: times an established link breaks
    MaxCalls        \* bound: Disconnect, Connect and Reconnect calls by programs

ASSUME RedisAssumption == /\ AutoReconnect \in BOOLEAN
                          /\ EarlyCommands \in BOOLEAN
                          /\ Interval \in Nat \ {0}
                          /\ MaxCommands \in Nat
                          /\ MaxBreaks \in Nat
                          /\ MaxCalls \in Nat
                          /\ Malformed \subseteq 1..MaxCommands

VARIABLES
    status,     \* _connect_status
    link,       \* the TCP connection behind _socket
    connects,   \* async_connects outstanding
    left,       \* parts of the interval until the timer expires; 0: no wait pending
    expired,    \* timer handlers that are due and have not run yet
    queue,      \* _command_queue
    ops,        \* async_write / async_read_some operations outstanding
    replies,    \* segments that the server has sent and nobody has read
    buf,        \* the part of _reply_buf that is not parsed yet
    issued,     \* commands issued so far
    answered,   \* callbacks called so far: the command and what it was given
    breaks, calls

netVars  == <<link, replies, breaks>>
connVars == <<status, connects, left, expired>>
cmdVars  == <<queue, ops, buf, issued, answered>>
vars == <<status, link, connects, left, expired, queue, ops, replies, buf,
          issued, answered, breaks, calls>>

\* CreateClients has called Connect.
Init == /\ status = "is_connectting"
        /\ link = "down"
        /\ connects = 1
        /\ left = 0
        /\ expired = 0
        /\ queue = <<>>
        /\ ops = <<>>
        /\ replies = <<>>
        /\ buf = <<>>
        /\ issued = 0
        /\ answered = <<>>
        /\ breaks = 0
        /\ calls = 0

Error == 0   \* a RedisValue with the error tag

-------------------------------------------------------------------------------
(* Connecting *)

do_async_connect == /\ status' = "is_connectting"
                    /\ connects' = connects + 1

\* Setting the expiry cancels the wait that is pending, whose handler then
\* only logs, and a new one begins, for the whole of an interval (which grows
\* from one second to five minutes); a handler that is already due still runs.
start_reconnect_timer == left' = Interval

\* Reconnect does nothing unless _connect_status is not_connect.
Reconnect == /\ IF status = "not_connect"
                THEN start_reconnect_timer
                ELSE UNCHANGED left
             /\ UNCHANGED <<status, connects, expired>>

\* Mutant: a connection that fails is only reported.
on_connect_finished_gives_up(ok) ==
    /\ connects > 0
    /\ ok => link # "up" /\ \A i \in DOMAIN ops : ops[i].state # "done"
    /\ connects' = connects - 1
    /\ link' = IF ok THEN "up" ELSE link
    /\ replies' = IF ok THEN <<>> ELSE replies
    /\ status' = IF ok THEN "is_connected" ELSE "not_connect"
    /\ UNCHANGED <<left, expired, breaks, calls>>
    /\ UNCHANGED cmdVars

\* async_connect completes.  On a socket that is connected it can only fail.
\* Handlers run in the order in which operations complete: when a connection is
\* made, that of an operation that completed on the one before has run.
on_connect_finished(ok) ==
    /\ connects > 0
    /\ ok => link # "up" /\ \A i \in DOMAIN ops : ops[i].state # "done"
    /\ connects' = connects - 1
    /\ link' = IF ok THEN "up" ELSE link
    /\ replies' = IF ok THEN <<>> ELSE replies
    /\ status' = IF ok THEN "is_connected" ELSE "not_connect"
    /\ IF ~ok /\ AutoReconnect
       THEN start_reconnect_timer
       ELSE UNCHANGED left
    /\ UNCHANGED <<expired, breaks, calls>>
    /\ UNCHANGED cmdVars

\* Time passes; when the interval is over the handler is due.
TimerRuns == /\ left > 0
             /\ left' = left - 1
             /\ expired' = IF left = 1 THEN expired + 1 ELSE expired
             /\ UNCHANGED <<status, connects, calls>>
             /\ UNCHANGED netVars
             /\ UNCHANGED cmdVars

on_reconnect_timer == /\ expired > 0
                      /\ expired' = expired - 1
                      /\ do_async_connect
                      /\ UNCHANGED <<left, calls>>
                      /\ UNCHANGED netVars
                      /\ UNCHANGED cmdVars

-------------------------------------------------------------------------------
(* Commands *)

\* On a socket that is neither connected nor connecting an operation fails at
\* once; while it is connecting the operation waits.
StateAtStart == IF link = "down" /\ connects = 0 THEN "aborted" ELSE "open"

WriteOp(cmd) == [kind |-> "write", cmd |-> cmd, state |-> StateAtStart]
ReadOp(cmd)  == [kind |-> "read", cmd |-> cmd, state |-> StateAtStart]

\* start_async_write with the queue q, after the operation at the head of ops
\* has completed.
start_async_write(q) ==
    ops' = IF q = <<>> THEN Tail(ops) ELSE Append(Tail(ops), WriteOp(Head(q)))

\* Mutant: every command starts a write.
Command_always_writes ==
    /\ issued < MaxCommands
    /\ EarlyCommands \/ status = "is_connected"
    /\ issued' = issued + 1
    /\ queue' = Append(queue, issued + 1)
    /\ ops' = Append(ops, WriteOp(Head(queue')))
    /\ UNCHANGED <<buf, answered, calls>>
    /\ UNCHANGED netVars
    /\ UNCHANGED connVars

\* A request handler issues a command; only on an empty queue does that start
\* a write.
Command ==
    /\ issued < MaxCommands
    /\ EarlyCommands \/ status = "is_connected"
    /\ issued' = issued + 1
    /\ queue' = Append(queue, issued + 1)
    /\ ops' = IF queue = <<>> THEN Append(ops, WriteOp(issued + 1)) ELSE ops
    /\ UNCHANGED <<buf, answered, calls>>
    /\ UNCHANGED netVars
    /\ UNCHANGED connVars

\* The callback of command cmd is called with value; it may issue a command
\* (again), which is queued behind the others; then the head is popped.
CallBackAndPop(cmd, value, again) ==
    /\ again => issued < MaxCommands
    /\ answered' = Append(answered, [cmd |-> cmd, value |-> value])
    /\ issued' = IF again THEN issued + 1 ELSE issued
    /\ queue' = Tail(IF again THEN Append(queue, issued + 1) ELSE queue)

\* The segments of the server's reply.
ReplyTo(cmd) == IF cmd \in Malformed
                THEN << [cmd |-> cmd, kind |-> "bad"], [cmd |-> cmd, kind |-> "end"] >>
                ELSE << [cmd |-> cmd, kind |-> "part"], [cmd |-> cmd, kind |-> "end"] >>

\* The operation at the head of ops is of this kind and completes...
Completing(kind) == ops # <<>> /\ Head(ops).kind = kind

\* ...well, on a link or before the link was closed, ...
Succeeds == Head(ops).state = "done" \/ (Head(ops).state = "open" /\ link # "down")

\* ...or with an error.
Fails == Head(ops).state = "aborted" \/ (Head(ops).state = "open" /\ link # "up")

\* async_write completes: the server answers, if the link still carries the
\* command, and the client starts to read.
on_wrote ==
    /\ Completing("write")
    /\ Succeeds
    /\ replies' = IF link = "up" THEN replies \o ReplyTo(Head(ops).cmd) ELSE replies
    /\ ops' = Append(Tail(ops), ReadOp(Head(queue)))
    /\ UNCHANGED <<link, breaks, queue, buf, issued, answered, calls>>
    /\ UNCHANGED connVars

\* async_write fails: the callback gets the error, the command is dropped, and
\* Reconnect is called.  The next command is not started.
on_write_error(again) ==
    /\ Completing("write")
    /\ Fails
    /\ CallBackAndPop(Head(queue), Error, again)
    /\ ops' = Tail(ops)
    /\ IF AutoReconnect THEN Reconnect ELSE UNCHANGED connVars
    /\ UNCHANGED <<buf, calls>>
    /\ UNCHANGED netVars

\* async_read_some fails, once what has arrived is read: the callback gets the
\* error and the command is dropped.  The next command is not started.
on_read_error(again) ==
    /\ Completing("read")
    /\ Fails
    /\ replies # <<>> => Head(ops).state = "aborted"
    /\ CallBackAndPop(Head(ops).cmd, Error, again)
    /\ ops' = Tail(ops)
    /\ UNCHANGED <<buf, calls>>
    /\ UNCHANGED netVars
    /\ UNCHANGED connVars

\* The parse loop goes on to the first segment that completes the reply or is
\* rejected.
Decisive(b) == {i \in DOMAIN b : b[i].kind # "part"}

First(S) == CHOOSE i \in S : \A j \in S : i <= j

\* Mutant: the callback runs after the pop, on whatever is the head then.
on_read_pops_first(k, again) ==
    LET got == buf \o SubSeq(replies, 1, k)
        d   == First(Decisive(got))
    IN  /\ Completing("read")
        /\ Succeeds
        /\ k \in 1..Len(replies)
        /\ Head(ops).state = "done" => k = Len(replies)
        /\ replies' = SubSeq(replies, k + 1, Len(replies))
        /\ IF Decisive(got) = {}
           THEN /\ buf' = <<>>
                /\ ops' = Append(Tail(ops), ReadOp(Head(ops).cmd))
                /\ UNCHANGED <<queue, issued, answered>>
                /\ ~again
           ELSE /\ buf' = SubSeq(got, d + 1, Len(got))
                /\ CallBackAndPop(IF Len(queue) > 1 THEN queue[2] ELSE Head(queue)
                                 , IF got[d].kind = "end" THEN got[d].cmd ELSE Error, again)
                /\ start_async_write(queue')
        /\ UNCHANGED <<link, breaks, calls>>
        /\ UNCHANGED connVars

\* Mutant: the callback is called without its command being dropped when the
\* reply cannot be parsed, to try it again.
on_read_retries(k, again) ==
    LET got == buf \o SubSeq(replies, 1, k)
        d   == First(Decisive(got))
    IN  /\ Completing("read")
        /\ Succeeds
        /\ k \in 1..Len(replies)
        /\ Head(ops).state = "done" => k = Len(replies)
        /\ replies' = SubSeq(replies, k + 1, Len(replies))
        /\ IF Decisive(got) = {}
           THEN /\ buf' = <<>>
                /\ ops' = Append(Tail(ops), ReadOp(Head(ops).cmd))
                /\ UNCHANGED <<queue, issued, answered>>
                /\ ~again
           ELSE /\ buf' = SubSeq(got, d + 1, Len(got))
                /\ IF got[d].kind = "end"
                   THEN CallBackAndPop(Head(ops).cmd, got[d].cmd, again)
                   ELSE /\ answered' = Append(answered, [cmd |-> Head(ops).cmd, value |-> Error])
                        /\ UNCHANGED <<issued, queue>>
                /\ start_async_write(queue')
        /\ UNCHANGED <<link, breaks, calls>>
        /\ UNCHANGED connVars

\* Mutant: the next command is not started after a reply.
on_read_stops(k, again) ==
    LET got == buf \o SubSeq(replies, 1, k)
        d   == First(Decisive(got))
    IN  /\ Completing("read")
        /\ Succeeds
        /\ k \in 1..Len(replies)
        /\ Head(ops).state = "done" => k = Len(replies)
        /\ replies' = SubSeq(replies, k + 1, Len(replies))
        /\ IF Decisive(got) = {}
           THEN /\ buf' = <<>>
                /\ ops' = Append(Tail(ops), ReadOp(Head(ops).cmd))
                /\ UNCHANGED <<queue, issued, answered>>
                /\ ~again
           ELSE /\ buf' = SubSeq(got, d + 1, Len(got))
                /\ CallBackAndPop(Head(ops).cmd
                                 , IF got[d].kind = "end" THEN got[d].cmd ELSE Error, again)
                /\ ops' = Tail(ops)
        /\ UNCHANGED <<link, breaks, calls>>
        /\ UNCHANGED connVars

\* async_read_some completes with the next k segments.  They are appended to
\* what the last reply left over and parsed; a complete reply, or one that is
\* rejected, goes to the callback and the next command is written; otherwise
\* the read goes on.
on_read(k, again) ==
    LET got == buf \o SubSeq(replies, 1, k)
        d   == First(Decisive(got))
    IN  /\ Completing("read")
        /\ Succeeds
        /\ k \in 1..Len(replies)
        /\ Head(ops).state = "done" => k = Len(replies)
        /\ replies' = SubSeq(replies, k + 1, Len(replies))
        /\ IF Decisive(got) = {}
           THEN /\ buf' = <<>>
                /\ ops' = Append(Tail(ops), ReadOp(Head(ops).cmd))
                /\ UNCHANGED <<queue, issued, answered>>
                /\ ~again
           ELSE /\ buf' = SubSeq(got, d + 1, Len(got))
                /\ CallBackAndPop(Head(ops).cmd
                                 , IF got[d].kind = "end" THEN got[d].cmd ELSE Error, again)
                /\ start_async_write(queue')
        /\ UNCHANGED <<link, breaks, calls>>
        /\ UNCHANGED connVars

-------------------------------------------------------------------------------
(* Programs that manage the connection, and the network *)

Ended(s, state) ==
    [i \in DOMAIN s |-> IF s[i].state = "open" THEN [s[i] EXCEPT !.state = state] ELSE s[i]]

\* Disconnect: close the socket of a connection, or cancel the timer.  What is
\* outstanding on the socket is aborted, unless it has completed and only its
\* handler has not run yet: a write, or a read of the next k segments.
Disconnect ==
    /\ calls < MaxCalls
    /\ calls' = calls + 1
    /\ IF status = "is_connected"
       THEN /\ status' = "not_connect"
            /\ link' = "down"
            /\ \/ /\ ops' = Ended(ops, "aborted")
                  /\ replies' = <<>>
               \/ /\ ops # <<>> /\ Head(ops).state = "open"
                  /\ ops' = Ended(ops, "done")
                  /\ \E k \in 0..Len(replies) :
                        /\ k > 0 <=> Head(ops).kind = "read"
                        /\ replies' = SubSeq(replies, 1, k)
            /\ UNCHANGED left
       ELSE /\ left' = 0
            /\ UNCHANGED <<status, link, replies, ops>>
    /\ UNCHANGED <<connects, expired, queue, buf, issued, answered, breaks>>

Connect ==
    /\ calls < MaxCalls
    /\ calls' = calls + 1
    /\ status = "not_connect"
    /\ do_async_connect
    /\ UNCHANGED <<left, expired>>
    /\ UNCHANGED netVars
    /\ UNCHANGED cmdVars

ReconnectCall ==
    /\ calls < MaxCalls
    /\ calls' = calls + 1
    /\ Reconnect
    /\ UNCHANGED netVars
    /\ UNCHANGED cmdVars

\* The server or the network drops an established connection; of what the
\* server has sent a part may still arrive.
Break ==
    /\ link = "up"
    /\ breaks < MaxBreaks
    /\ breaks' = breaks + 1
    /\ link' = "lost"
    /\ \E n \in 0..Len(replies) : replies' = SubSeq(replies, 1, n)
    /\ UNCHANGED calls
    /\ UNCHANGED connVars
    /\ UNCHANGED cmdVars

-------------------------------------------------------------------------------
Completion == \/ on_wrote
              \/ \E again \in BOOLEAN : on_write_error(again)
              \/ \E again \in BOOLEAN : on_read_error(again)
              \/ \E k \in 1..Len(replies), again \in BOOLEAN : on_read(k, again)

Next == \/ \E ok \in BOOLEAN : on_connect_finished(ok)
        \/ TimerRuns
        \/ on_reconnect_timer
        \/ Command
        \/ Completion
        \/ Disconnect
        \/ Connect
        \/ ReconnectCall
        \/ Break

Spec == Init /\ [][Next]_vars

\* The io_context runs what is ready, time passes, asynchronous operations
\* complete, and the redis server does not refuse connections forever.  That the
\* timer expires is not assumed: it may be set anew before.
FairSpec == /\ Spec
            /\ WF_vars(Completion)
            /\ WF_vars(TimerRuns)
            /\ WF_vars(on_reconnect_timer)
            /\ WF_vars(\E ok \in BOOLEAN : on_connect_finished(ok))
            /\ SF_vars(on_connect_finished(TRUE))

-------------------------------------------------------------------------------
(* Properties *)

Segments == [cmd : 1..MaxCommands, kind : {"part", "end", "bad"}]

\* Types: the state of the client, of its link and of the commands.
TypeOK == /\ status \in {"not_connect", "is_connectting", "is_connected"}
          /\ link \in {"down", "up", "lost"}
          /\ connects \in Nat
          /\ left \in 0..Interval
          /\ expired \in Nat
          /\ queue \in Seq(1..MaxCommands)
          /\ ops \in Seq([kind : {"write", "read"}, cmd : 1..MaxCommands,
                         state : {"open", "done", "aborted"}])
          /\ replies \in Seq(Segments)
          /\ buf \in Seq(Segments)
          /\ issued \in 0..MaxCommands
          /\ answered \in Seq([cmd : 1..MaxCommands, value : 0..MaxCommands])
          /\ breaks \in 0..MaxBreaks
          /\ calls \in 0..MaxCalls

\* At most one operation is outstanding on the socket, and it is for the command
\* at the head of the queue: the assertion !_command_queue.empty() of the write
\* handler, and more.
OneOperation == /\ Len(ops) <= 1
                /\ ops # <<>> => queue # <<>> /\ Head(ops).cmd = Head(queue)

\* Commands are called back once each and in the order in which they were
\* issued, and those that have not been are still queued in that order, however
\* writes, reads and connections fail and whatever callbacks issue.
CallbacksInOrder ==
    /\ Len(answered) + Len(queue) = issued
    /\ \A i \in DOMAIN answered : answered[i].cmd = i
    /\ \A j \in DOMAIN queue : queue[j] = Len(answered) + j

\* A command gets the reply to itself, or an error; never the reply to another
\* command, as long as the server's replies have parsed: across broken links and
\* reconnections, with parts of replies left in the buffer or on the link.
ReplyMatches == \A i \in DOMAIN answered :
    (\A j \in 1..(i - 1) : answered[j].cmd \notin Malformed)
        => answered[i].value \in {Error, answered[i].cmd}

\* The client reads, on a connection that it has made since the write completed,
\* a reply that was sent on the one before, if at all: a program has called
\* Disconnect and Connect before the handler of the write ran.
ReadsElsewhere == /\ Completing("read") /\ Head(ops).state = "open"
                  /\ link = "up" /\ replies = <<>>

\* Until the link breaks, or a command fails or gets a reply that does not parse,
\* or is left behind by a new connection, every command is called back sooner or
\* later, whatever callbacks issue and although there is no connection at first.
Answers == \A n \in 1..MaxCommands :
    (issued >= n) ~> \/ Len(answered) >= n
                     \/ breaks > 0
                     \/ \E i \in DOMAIN answered : answered[i].value = Error
                     \/ ReadsElsewhere

\* A wait that is pending is set back, by a command that cannot be written.
Postpones == left > 0 /\ left' > left /\ UNCHANGED connects

\* A client that has never been connected gets connected sooner or later, unless
\* a program calls Disconnect or the like, or commands go on failing before the
\* timer expires: each of them restarts the interval.
ConnectsAtFirst == <>[][~Postpones]_vars =>
    ((link = "down" /\ breaks = 0) ~> (link = "up" \/ calls > 0))
================================================================================

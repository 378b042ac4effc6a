--------------------------- MODULE ChunkedResponse ----------------------------
(***************************************************************************)
(* A chunked reply: the bodies that programs push from any thread          *)
(* (ChunkedBodies, under its own lock) and the loop of the connection that *)
(* writes the headers and then one body after another, waiting while there *)
(* is none.                                                                *)
(***************************************************************************)
EXTENDS Naturals, Sequences, FiniteSets

CONSTANTS
    Threads,      \* threads that push bodies
    MaxPushes     \* bound: bodies each thread pushes

ASSUME ChunkedAssumption == MaxPushes \in Nat

\* What is queued: the text of a body that has a length or is empty, the text of
\* the last chunk, and the mark behind it.  by and seq tell chunks apart.
Chunk == [body : {"some", "empty", "last"}, by : Threads, seq : 1..MaxPushes]
Mark == [body |-> "mark"]

\* The text is "0\r\n\r\n", by which the client knows the end of the reply: the
\* length of an empty body is written as 0 too.
Zero(c) == c.body # "some"

VARIABLES
    bodies,    \* _chunked_bodies
    pushes,    \* bodies pushed so far by each thread
    phase,     \* where the writing loop is
    waited,    \* start_wait_clock is set
    current,   \* the chunk being written, if any
    wire,      \* what is completely written after the headers
    stopped,   \* StopChunkedResponse has been called
    pushed     \* every chunk in the order in which it was queued

vars == <<bodies, pushes, phase, waited, current, wire, stopped, pushed>>
loopVars == <<phase, waited, current, wire>>

\* StartWrite has called do_write_header_for_chunked.  Programs may have pushed
\* before that; here they push while the headers are being written.
Init == /\ bodies = <<>>
        /\ pushes = [t \in Threads |-> 0]
        /\ phase = "header"
        /\ waited = FALSE
        /\ current = <<>>
        /\ wire = <<>>
        /\ stopped = FALSE
        /\ pushed = <<>>

-------------------------------------------------------------------------------
(* Programs *)

Text(t, body) == [body |-> body, by |-> t, seq |-> pushes[t] + 1]

\* NextChunkedResponse.  A thread does not push behind its own
\* StopChunkedResponse, but another may.
NextChunkedResponse(t, body) ==
    /\ pushes[t] < MaxPushes
    /\ pushes' = [pushes EXCEPT ![t] = @ + 1]
    /\ bodies' = Append(bodies, Text(t, body))
    /\ pushed' = Append(pushed, Text(t, body))
    /\ UNCHANGED stopped
    /\ UNCHANGED loopVars

\* Mutant: the mark is left out.
StopChunkedResponse_unmarked(t) ==
    /\ ~stopped
    /\ pushes[t] < MaxPushes
    /\ stopped' = TRUE
    /\ pushes' = [pushes EXCEPT ![t] = MaxPushes]
    /\ bodies' = bodies \o <<Text(t, "last")>>
    /\ pushed' = Append(pushed, Text(t, "last"))
    /\ UNCHANGED loopVars

\* StopChunkedResponse queues the last chunk and the mark in one section.
StopChunkedResponse(t) ==
    /\ ~stopped
    /\ pushes[t] < MaxPushes
    /\ stopped' = TRUE
    /\ pushes' = [pushes EXCEPT ![t] = MaxPushes]
    /\ bodies' = bodies \o <<Text(t, "last"), Mark>>
    /\ pushed' = Append(pushed, Text(t, "last"))
    /\ UNCHANGED loopVars

-------------------------------------------------------------------------------
(* The loop *)

\* The headers are written.
on_header_wrote ==
    /\ phase = "header"
    /\ phase' = "next"
    /\ UNCHANGED <<bodies, pushes, waited, current, wire, stopped, pushed>>

PopFront == bodies' = Tail(bodies)

\* do_write_next_chunked_body: the mark ends the loop ...
Finish ==
    /\ phase = "next"
    /\ bodies # <<>>
    /\ Head(bodies) = Mark
    /\ PopFront
    /\ phase' = "done"
    /\ UNCHANGED <<pushes, waited, current, wire, stopped, pushed>>

\* ... a chunk is written ...
WriteChunk ==
    /\ phase = "next"
    /\ bodies # <<>>
    /\ Head(bodies) # Mark
    /\ PopFront
    /\ current' = <<Head(bodies)>>
    /\ phase' = "writing"
    /\ UNCHANGED <<pushes, waited, wire, stopped, pushed>>

\* ... without any the function posts itself, to look again ...
Wait ==
    /\ phase = "next"
    /\ bodies = <<>>
    /\ waited' = TRUE
    /\ phase' = "next"
    /\ UNCHANGED <<bodies, pushes, current, wire, stopped, pushed>>

\* ... and after some seconds of that it gives up.
WaitTimeout ==
    /\ phase = "next"
    /\ bodies = <<>>
    /\ waited
    /\ phase' = "timeout"
    /\ UNCHANGED <<bodies, pushes, waited, current, wire, stopped, pushed>>

\* Mutant: the handler does not go on to the next body.
do_write_chunked_body_finished_returns(ok) ==
    /\ phase = "writing"
    /\ wire' = IF ok THEN wire \o current ELSE wire
    /\ phase' = IF ok THEN "idle" ELSE "failed"
    /\ UNCHANGED <<bodies, pushes, waited, current, stopped, pushed>>

\* The handler of the write of a chunk.
do_write_chunked_body_finished(ok) ==
    /\ phase = "writing"
    /\ wire' = IF ok THEN wire \o current ELSE wire
    /\ phase' = IF ok THEN "next" ELSE "failed"
    /\ current' = IF ok THEN <<>> ELSE current
    /\ waited' = FALSE
    /\ UNCHANGED <<bodies, pushes, stopped, pushed>>

on_header_error ==
    /\ phase = "header"
    /\ phase' = "failed"
    /\ UNCHANGED <<bodies, pushes, waited, current, wire, stopped, pushed>>

Loop == \/ on_header_wrote
        \/ on_header_error
        \/ Finish
        \/ WriteChunk
        \/ Wait
        \/ WaitTimeout
        \/ \E ok \in BOOLEAN : do_write_chunked_body_finished(ok)

Next == \/ \E t \in Threads : \/ \E body \in {"some", "empty"} : NextChunkedResponse(t, body)
                              \/ StopChunkedResponse(t)
        \/ Loop

Spec == Init /\ [][Next]_vars

\* The io_context runs what is posted and what completes.
FairSpec == Spec /\ WF_vars(Loop)

-------------------------------------------------------------------------------
(* Properties *)

\* Types; in particular the mark behind the last chunk is never written.
TypeOK == /\ bodies \in Seq(Chunk \cup {Mark})
          /\ pushes \in [Threads -> 0..MaxPushes]
          /\ phase \in {"header", "next", "writing", "done", "failed", "timeout"}
          /\ waited \in BOOLEAN
          /\ current \in Seq(Chunk) /\ Len(current) <= 1
          /\ wire \in Seq(Chunk)
          /\ stopped \in BOOLEAN
          /\ pushed \in Seq(Chunk)

\* The reply carries the chunks in the order in which they were pushed, none
\* twice and none left out, whichever threads push them, and one that ends well
\* ends with the last chunk.  Nothing follows it, also when a thread pushes beside
\* or behind a call of StopChunkedResponse: the client would take it for the next
\* reply.  This last part holds as long as programs push no empty bodies.
ReplyIntact ==
    /\ Len(wire) <= Len(pushed) /\ wire = SubSeq(pushed, 1, Len(wire))
    /\ phase = "done" => wire # <<>> /\ wire[Len(wire)].body = "last"
    /\ (\A i \in DOMAIN pushed : pushed[i].body # "empty") =>
           \A i \in DOMAIN wire : Zero(wire[i]) => i = Len(wire)

\* Once StopChunkedResponse has been called, the reply ends: all of it is written
\* unless a write fails or the loop had given up waiting before.
Ends == stopped ~> phase \in {"done", "failed", "timeout"}
===============================================================================

-------------------------- MODULE WsConnection_proofs --------------------------
(***************************************************************************)
(* Theorems about WsConnection, for any set of senders and any bounds, and *)
(* about FrameParser, for any streams of frames.                           *)
(*                                                                         *)
(* AtMostOneWrite and NoLostWakeup are not inductive.  WriteInv is: it     *)
(* says that the queue being non-empty, unless a write has failed, is the  *)
(* same as there being exactly one "token", which is held either by one    *)
(* thread on its way to start_write or by the outstanding write, and that  *)
(* the outstanding write is of the buffer at the head of the queue.        *)
(***************************************************************************)
EXTENDS WsConnection, FrameParser, SequenceTheorems, WellFoundedInduction, TLAPS

Starting(t) == pc[t] = "start_write"

StarterUnique == \A t, u \in Threads : Starting(t) /\ Starting(u) => t = u

StarterHoldsToken == \A t \in Threads :
    Starting(t) => queue # <<>> /\ writing = <<>> /\ ~failed

WriteOfHead == writing # <<>> =>
    queue # <<>> /\ writing = <<Head(queue)>> /\ ~failed

FailureKeepsQueue == failed => queue # <<>>

WriteInv == /\ StarterUnique
            /\ StarterHoldsToken
            /\ WriteOfHead
            /\ FailureKeepsQueue
            /\ NoLostWakeup

\* A buffer built by append_write_data is a Message.
LEMMA BufferIsMessage ==
    ASSUME TypeOK, NEW t \in Threads, NEW kind \in MessageKinds
    PROVE  [kind |-> kind, by |-> t, seq |-> count[t] + 1] \in Message
BY DEF TypeOK, Message

\* The section of append_write_data keeps the types of what it changes.
LEMMA AppendType ==
    ASSUME TypeOK, NEW t \in Threads, NEW kind \in MessageKinds,
           append_write_data(t, kind)
    PROVE  /\ queue' \in Seq(Message)
           /\ writing' \in Seq(Message)
           /\ wire' \in Seq(Message)
           /\ pc' \in [Threads -> {"idle", "stop", "start_write"}]
           /\ failed' \in BOOLEAN
           /\ count' \in [Threads -> Nat]
<1> DEFINE m == [kind |-> kind, by |-> t, seq |-> count[t] + 1]
<1>1. m \in Message
  BY BufferIsMessage
<1>2. queue' = Append(queue, m)
  BY DEF append_write_data
<1> HIDE DEF m
<1>3. queue' \in Seq(Message)
  BY <1>1, <1>2 DEF TypeOK
<1> QED
  BY <1>3 DEF append_write_data, TypeOK

\* The initial state satisfies the invariant.
LEMMA InitInv == Init => TypeOK /\ WriteInv
<1> SUFFICES ASSUME Init PROVE TypeOK /\ WriteInv
  OBVIOUS
<1>1. TypeOK
  <2>1. /\ queue \in Seq(Message)
        /\ writing \in Seq(Message)
        /\ wire \in Seq(Message)
        /\ batch \in Seq(Frames)
        /\ told \in Seq({"read_event", "write_event"})
    BY DEF Init
  <2>2. /\ pc \in [Threads -> {"idle", "stop", "start_write"}]
        /\ count \in [Threads -> Nat]
        /\ sends \in [Threads -> Nat]
    BY DEF Init
  <2>3. /\ failed \in BOOLEAN
        /\ reachable \in BOOLEAN
        /\ armed \in BOOLEAN
        /\ stop_by_self \in BOOLEAN
    BY DEF Init
  <2>4. /\ io \in {"OnOpen", "Start", "start_read", "reactor", "Parse", "ParseFailed"}
        /\ last_data_type \in {"none", "text", "binary"}
        /\ error_on_parse \in 0..2
        /\ reads \in Nat /\ pings \in Nat /\ closes \in Nat
    BY DEF Init
  <2> QED
    BY <2>1, <2>2, <2>3, <2>4 DEF TypeOK
<1>2. WriteInv
  BY DEF Init, WriteInv, StarterUnique, StarterHoldsToken, WriteOfHead,
         FailureKeepsQueue, NoLostWakeup, Starting
<1> QED
  BY <1>1, <1>2

\* Every step keeps the types, if the write side satisfies WriteInv.
LEMMA NextType ==
    ASSUME TypeOK, WriteInv, [Next]_vars
    PROVE  TypeOK'
<1> USE DEF MessageKinds
<1>io. IO \in Threads
  BY DEF Threads
<1>s. Senders \subseteq Threads
  BY DEF Threads
<1>1. CASE OnOpenRefuses
  BY <1>1 DEF OnOpenRefuses, TypeOK, writeVars, readVars
<1>2. CASE OnOpenWrites
  BY <1>2, <1>io, AppendType DEF OnOpenWrites, TypeOK, readVars
<1>3. CASE AddWebSocketConnection
  BY <1>3 DEF AddWebSocketConnection, TypeOK, writeVars, readVars
<1>4. CASE start_handshake
  BY <1>4, <1>io, AppendType DEF start_handshake, TypeOK, readVars
<1>5. CASE start_read
  BY <1>5 DEF start_read, TypeOK, writeVars
<1>f. ASSUME NEW f, NextFrame(f)
      PROVE  batch' \in Seq(Frames)
  BY <1>f DEF NextFrame, TypeOK
<1>6. CASE on_close_frame
  <2>1. pc' \in [Threads -> {"idle", "stop", "start_write"}]
    BY <1>6, <1>io DEF on_close_frame, TypeOK
  <2>2. batch' \in Seq(Frames)
    BY <1>6, <1>f DEF on_close_frame
  <2>3. closes' \in Nat /\ error_on_parse' \in 0..2
    BY <1>6 DEF on_close_frame, TypeOK
  <2> QED
    BY <1>6, <2>1, <2>2, <2>3 DEF on_close_frame, TypeOK
<1>7. CASE on_ping_frame
  BY <1>7, <1>f, <1>io, AppendType DEF on_ping_frame, TypeOK
<1>8. CASE on_other_frame
  BY <1>8, <1>f DEF on_other_frame, TypeOK, writeVars
<1>9. CASE \E f \in Frames, answers, throws \in BOOLEAN :
                  on_data_frame(f, answers, throws)
  <2> PICK f \in Frames, answers \in BOOLEAN, throws \in BOOLEAN :
                  on_data_frame(f, answers, throws)
    BY <1>9
  <2>1. batch' \in Seq(Frames)
    BY <1>f DEF on_data_frame
  <2>2. last_data_type' \in {"none", "text", "binary"}
    BY DEF on_data_frame, DataType, TypeOK
  <2>3. CASE answers
    BY <2>1, <2>2, <2>3, <1>io, AppendType DEF on_data_frame, TypeOK
  <2>4. CASE ~answers
    BY <2>1, <2>2, <2>4 DEF on_data_frame, TypeOK
  <2> QED
    BY <2>3, <2>4
<1>10. CASE on_stray_continuation
  BY <1>10, <1>f DEF on_stray_continuation, TypeOK, writeVars
<1>11. CASE read_again
  BY <1>11 DEF read_again, TypeOK, writeVars
<1>12. CASE on_wrote
  <2>1. queue # <<>>
    BY <1>12 DEF on_wrote, WriteInv, WriteOfHead
  <2>2. /\ Head(writing) \in Message
        /\ writing' \in Seq(Message)
        /\ wire' \in Seq(Message)
        /\ queue' \in Seq(Message)
    BY <1>12, <2>1 DEF on_wrote, TypeOK
  <2> QED
    BY <1>12, <2>2 DEF on_wrote, TypeOK
<1>13. CASE on_write_error
  <2>1. writing' \in Seq(Message)
    BY <1>13 DEF on_write_error, TypeOK
  <2>2. told' \in Seq({"read_event", "write_event"})
    BY <1>13 DEF on_write_error, TypeOK
  <2> QED
    BY <1>13, <2>1, <2>2 DEF on_write_error, TypeOK
<1>14. CASE on_read_error
  <2>1. told' \in Seq({"read_event", "write_event"})
    BY <1>14 DEF on_read_error, TypeOK
  <2> QED
    BY <1>14, <2>1 DEF on_read_error, TypeOK, writeVars
<1>15. CASE \E fs \in Batches : on_read(fs)
  <2> PICK fs \in Batches : on_read(fs)
    BY <1>15
  <2>1. fs \in Seq(Frames)
    BY BoundsAssumption DEF Batches
  <2>2. batch' \in Seq(Frames) /\ reads' \in Nat
    BY <2>1 DEF on_read, TypeOK
  <2>3. /\ armed' \in BOOLEAN
        /\ io' \in {"OnOpen", "Start", "start_read", "reactor", "Parse", "ParseFailed"}
    BY DEF on_read
  <2> QED
    BY <2>2, <2>3 DEF on_read, TypeOK, writeVars
<1>16. CASE \E t \in Threads : Calling(t)
  <2> PICK t \in Threads : Calling(t)
    BY <1>16
  <2>1. CASE start_write(t)
    <3>1. queue # <<>>
      BY <2>1 DEF start_write, WriteInv, StarterHoldsToken, Starting
    <3>2. writing' \in Seq(Message)
      BY <2>1, <3>1 DEF start_write, TypeOK
    <3> QED
      BY <2>1, <3>2 DEF start_write, TypeOK
  <2>2. CASE StopAppends(t)
    BY <2>2, AppendType DEF StopAppends, TypeOK, readVars
  <2> QED
    BY <2>1, <2>2 DEF Calling
<1>17. CASE \E t \in Senders : Write(t) \/ Stop(t)
  <2> PICK t \in Senders : Write(t) \/ Stop(t)
    BY <1>17
  <2>0. t \in Threads
    BY <1>s
  <2>1. CASE Write(t)
    BY <2>0, <2>1, AppendType DEF Write, TypeOK, readVars
  <2>2. CASE Stop(t)
    BY <2>0, <2>2 DEF Stop, TypeOK, readVars
  <2> QED
    BY <2>1, <2>2
<1>18. CASE UNCHANGED vars
  BY <1>18 DEF vars, TypeOK
<1> QED
  BY <1>1, <1>2, <1>3, <1>4, <1>5, <1>6, <1>7, <1>8, <1>9, <1>10, <1>11, <1>12,
     <1>13, <1>14, <1>15, <1>16, <1>17, <1>18 DEF Next, Upgrading, Handling

\* What an append does to the queue.
LEMMA AppendQueue ==
    ASSUME TypeOK, NEW t \in Threads, NEW kind \in MessageKinds,
           append_write_data(t, kind)
    PROVE  /\ queue' # <<>>
           /\ queue # <<>> => Head(queue') = Head(queue)
<1> DEFINE m == [kind |-> kind, by |-> t, seq |-> count[t] + 1]
<1>1. m \in Message
  BY BufferIsMessage
<1>2. queue' = Append(queue, m)
  BY DEF append_write_data
<1> HIDE DEF m
<1>3. queue \in Seq(Message)
  BY DEF TypeOK
<1>4. Len(queue') = Len(queue) + 1 /\ queue' \in Seq(Message)
  BY <1>1, <1>2, <1>3
<1>5. queue' # <<>>
  BY <1>3, <1>4
<1>6. ASSUME queue # <<>>
      PROVE  Head(queue') = Head(queue)
  <2>1. Len(queue) >= 1
    BY <1>3, <1>6
  <2>2. queue'[1] = queue[1]
    BY <1>1, <1>2, <1>3, <2>1
  <2> QED
    BY <1>3, <1>4, <1>5, <1>6, <2>2
<1> QED
  BY <1>5, <1>6

\* An append by a thread that is not starting a write keeps WriteInv: on an
\* empty queue it takes the token, otherwise somebody has it already.
LEMMA AppendInv ==
    ASSUME TypeOK, WriteInv, NEW t \in Threads, NEW kind \in MessageKinds,
           pc[t] # "start_write",
           append_write_data(t, kind)
    PROVE  WriteInv'
<1>1. /\ queue' # <<>>
      /\ queue # <<>> => Head(queue') = Head(queue)
  BY AppendQueue
<1>2. writing' = writing /\ failed' = failed
  BY DEF append_write_data
<1>3. CASE queue = <<>>
  <2>1. /\ writing = <<>>
        /\ ~failed
        /\ \A u \in Threads : ~Starting(u)
    BY <1>3 DEF WriteInv, WriteOfHead, FailureKeepsQueue, StarterHoldsToken
  <2>2. pc' = [pc EXCEPT ![t] = "start_write"]
    BY <1>3 DEF append_write_data
  <2>3. \A u \in Threads : Starting(u)' <=> u = t
    BY <2>1, <2>2 DEF Starting, TypeOK
  <2> QED
    BY <1>1, <1>2, <2>1, <2>2, <2>3
       DEF WriteInv, StarterUnique, StarterHoldsToken, WriteOfHead,
           FailureKeepsQueue, NoLostWakeup, Starting, TypeOK
<1>4. CASE queue # <<>>
  <2>1. pc' = [pc EXCEPT ![t] = "idle"]
    BY <1>4 DEF append_write_data
  <2>2. \A u \in Threads : Starting(u)' <=> Starting(u)
    BY <2>1 DEF Starting, TypeOK
  <2>3. StarterUnique' /\ StarterHoldsToken'
    BY <1>1, <1>2, <2>2 DEF WriteInv, StarterUnique, StarterHoldsToken
  <2>4. WriteOfHead' /\ FailureKeepsQueue'
    BY <1>1, <1>2, <1>4 DEF WriteInv, WriteOfHead, FailureKeepsQueue
  <2>5. NoLostWakeup'
    BY <1>2, <1>4, <2>2 DEF WriteInv, NoLostWakeup, Starting
  <2> QED
    BY <2>3, <2>4, <2>5 DEF WriteInv
<1> QED
  BY <1>3, <1>4

\* A step that leaves the write side alone, except that a thread that is not
\* starting a write may turn to something else, keeps WriteInv.
LEMMA FrameInv ==
    ASSUME TypeOK, WriteInv, UNCHANGED <<queue, writing, failed>>,
           \A u \in Threads : Starting(u)' <=> Starting(u)
    PROVE  WriteInv'
BY DEF WriteInv, StarterUnique, StarterHoldsToken, WriteOfHead,
       FailureKeepsQueue, NoLostWakeup, Starting

\* Every step keeps WriteInv.
LEMMA NextWriteInv ==
    ASSUME TypeOK, WriteInv, [Next]_vars
    PROVE  WriteInv'
<1> USE DEF MessageKinds
<1>io. IO \in Threads
  BY DEF Threads
<1>s. Senders \subseteq Threads
  BY DEF Threads
<1>u. ASSUME UNCHANGED writeVars
      PROVE  WriteInv'
  BY <1>u, FrameInv DEF writeVars, Starting
<1>1. CASE OnOpenRefuses \/ AddWebSocketConnection \/ start_read
  BY <1>1, <1>u DEF OnOpenRefuses, AddWebSocketConnection, start_read
<1>2. CASE OnOpenWrites
  BY <1>2, <1>io, AppendInv DEF OnOpenWrites
<1>4. CASE start_handshake
  BY <1>4, <1>io, AppendInv DEF start_handshake
<1>6. CASE on_close_frame
  <2>1. \A u \in Threads : Starting(u)' <=> Starting(u)
    BY <1>6, <1>io DEF on_close_frame, NextFrame, Starting, TypeOK
  <2> QED
    BY <1>6, <2>1, FrameInv DEF on_close_frame
<1>7. CASE on_ping_frame
  BY <1>7, <1>io, AppendInv DEF on_ping_frame, NextFrame
<1>8. CASE on_other_frame \/ on_stray_continuation \/ read_again
  BY <1>8, <1>u DEF on_other_frame, on_stray_continuation, read_again
<1>9. CASE \E f \in Frames, answers, throws \in BOOLEAN :
                  on_data_frame(f, answers, throws)
  <2> PICK f \in Frames, answers \in BOOLEAN, throws \in BOOLEAN :
                  on_data_frame(f, answers, throws)
    BY <1>9
  <2>1. CASE answers
    BY <2>1, <1>io, AppendInv DEF on_data_frame, NextFrame
  <2>2. CASE ~answers
    BY <2>2, <1>u DEF on_data_frame, writeVars
  <2> QED
    BY <2>1, <2>2
<1>12. CASE on_wrote
  <2>1. queue # <<>> /\ writing = <<Head(queue)>> /\ ~failed
    BY <1>12 DEF on_wrote, WriteInv, WriteOfHead
  <2>2. writing' = <<>> /\ queue' = Tail(queue) /\ ~failed'
    BY <1>12, <2>1 DEF on_wrote
  <2>3. \A u \in Threads : ~Starting(u)
    BY <2>1 DEF WriteInv, StarterHoldsToken
  <2>4. \A u \in Threads : Starting(u)' <=> (u = IO /\ queue' # <<>>)
    BY <1>12, <2>2, <2>3, <1>io DEF on_wrote, Starting, TypeOK
  <2> QED
    BY <2>2, <2>4, <1>io
       DEF WriteInv, StarterUnique, StarterHoldsToken, WriteOfHead,
           FailureKeepsQueue, NoLostWakeup, Starting
<1>13. CASE on_write_error
  <2>1. queue # <<>> /\ writing = <<Head(queue)>>
    BY <1>13 DEF on_write_error, WriteInv, WriteOfHead
  <2>2. writing' = <<>> /\ queue' = queue /\ failed' /\ pc' = pc
    BY <1>13, <2>1 DEF on_write_error
  <2>3. \A u \in Threads : ~Starting(u)
    BY <2>1 DEF WriteInv, StarterHoldsToken
  <2> QED
    BY <2>1, <2>2, <2>3
       DEF WriteInv, StarterUnique, StarterHoldsToken, WriteOfHead,
           FailureKeepsQueue, NoLostWakeup, Starting
<1>14. CASE on_read_error
  BY <1>14, <1>u DEF on_read_error
<1>15. CASE \E fs \in Batches : on_read(fs)
  BY <1>15, <1>u DEF on_read
<1>16. CASE \E t \in Threads : Calling(t)
  <2> PICK t \in Threads : Calling(t)
    BY <1>16
  <2>1. CASE start_write(t)
    <3>1. queue # <<>> /\ writing = <<>> /\ ~failed
      BY <2>1 DEF start_write, WriteInv, StarterHoldsToken, Starting
    <3>2. writing' = <<Head(queue)>> /\ queue' = queue /\ failed' = failed
      BY <2>1, <3>1 DEF start_write
    <3>3. \A u \in Threads : ~Starting(u)'
      BY <2>1 DEF start_write, WriteInv, StarterUnique, Starting, TypeOK
    <3> QED
      BY <3>1, <3>2, <3>3
         DEF WriteInv, StarterUnique, StarterHoldsToken, WriteOfHead,
             FailureKeepsQueue, NoLostWakeup, Starting
  <2>2. CASE StopAppends(t)
    BY <2>2, AppendInv DEF StopAppends
  <2> QED
    BY <2>1, <2>2 DEF Calling
<1>17. CASE \E t \in Senders : Write(t) \/ Stop(t)
  <2> PICK t \in Senders : Write(t) \/ Stop(t)
    BY <1>17
  <2>0. t \in Threads
    BY <1>s
  <2>1. CASE Write(t)
    BY <2>0, <2>1, AppendInv DEF Write
  <2>2. CASE Stop(t)
    <3>1. \A u \in Threads : Starting(u)' <=> Starting(u)
      BY <2>0, <2>2 DEF Stop, Starting, TypeOK
    <3> QED
      BY <2>2, <3>1, FrameInv DEF Stop
  <2> QED
    BY <2>1, <2>2
<1>18. CASE UNCHANGED vars
  BY <1>18, <1>u DEF vars, writeVars
<1> QED
  BY <1>1, <1>2, <1>4, <1>6, <1>7, <1>8, <1>9, <1>12,
     <1>13, <1>14, <1>15, <1>16, <1>17, <1>18 DEF Next, Upgrading, Handling

\* The inductive invariant holds in every behaviour of the connection.
THEOREM Invariance == Spec => [](TypeOK /\ WriteInv)
BY InitInv, NextType, NextWriteInv, PTL DEF Spec

\* Every state of the connection is well typed; in particular start_write and
\* the completion handler never read or pop an empty list.
THEOREM TypeCorrect == Spec => []TypeOK
BY Invariance, PTL

\* For any number of senders, at most one async_write is outstanding on the
\* socket.
THEOREM OneWriteAtATime == Spec => []AtMostOneWrite
<1>1. WriteInv => AtMostOneWrite
  <2> SUFFICES ASSUME WriteInv PROVE Len(writing) <= 1
    BY DEF AtMostOneWrite
  <2>1. CASE writing = <<>>
    BY <2>1
  <2>2. CASE writing # <<>>
    <3>1. writing = <<Head(queue)>>
      BY <2>2 DEF WriteInv, WriteOfHead
    <3> QED
      BY <3>1
  <2> QED
    BY <2>1, <2>2
<1> QED
  BY <1>1, Invariance, PTL

\* For any number of senders, the write loop never goes to sleep on a non-empty
\* queue of a sound connection.
THEOREM WakeupNotLost == Spec => []NoLostWakeup
<1>1. WriteInv => NoLostWakeup
  BY DEF WriteInv
<1> QED
  BY <1>1, Invariance, PTL


\* An append is the channel's Send.
LEMMA AppendIsSend ==
    ASSUME TypeOK, NEW t \in Threads, NEW kind \in MessageKinds,
           append_write_data(t, kind)
    PROVE  Channel!Send
<1> DEFINE m == [kind |-> kind, by |-> t, seq |-> count[t] + 1]
<1>1. m \in Message
  BY BufferIsMessage
<1>2. queue' = Append(queue, m) /\ wire' = wire /\ failed' = failed
  BY DEF append_write_data
<1> HIDE DEF m
<1>3. queue \in Seq(Message)
  BY DEF TypeOK
<1>4. Len(queue') = Len(queue) + 1
  BY <1>1, <1>2, <1>3
<1>5. queue'[Len(queue')] = m
  BY <1>1, <1>2, <1>3, <1>4
<1> QED
  BY <1>1, <1>2, <1>4, <1>5 DEF Channel!Send

\* For any number of senders, the write side is a FIFO channel that may break:
\* every behaviour of the connection is one of WsChannel.
THEOREM ChannelRefinement == Spec => ChannelSafe
<1> USE DEF MessageKinds
<1>io. IO \in Threads
  BY DEF Threads
<1>s. Senders \subseteq Threads
  BY DEF Threads
<1>1. Init => Channel!Init
  BY DEF Init, Channel!Init
<1>2. ASSUME TypeOK, WriteInv, [Next]_vars
      PROVE  [Channel!Next]_(Channel!vars)
  <2>u. ASSUME UNCHANGED <<queue, wire, failed>>
        PROVE  UNCHANGED Channel!vars
    BY <2>u DEF Channel!vars
  <2>a. ASSUME NEW t \in Threads, NEW kind \in MessageKinds,
               append_write_data(t, kind)
        PROVE  Channel!Next
    BY <1>2, <2>a, AppendIsSend DEF Channel!Next
  <2>1. CASE OnOpenRefuses \/ AddWebSocketConnection \/ start_read
    BY <2>1, <2>u DEF OnOpenRefuses, AddWebSocketConnection, start_read, writeVars
  <2>2. CASE OnOpenWrites
    BY <2>2, <1>io, <2>a DEF OnOpenWrites
  <2>4. CASE start_handshake
    BY <2>4, <1>io, <2>a DEF start_handshake
  <2>6. CASE on_close_frame
    BY <2>6, <2>u DEF on_close_frame
  <2>7. CASE on_ping_frame
    BY <2>7, <1>io, <2>a DEF on_ping_frame
  <2>8. CASE on_other_frame \/ on_stray_continuation \/ read_again
    BY <2>8, <2>u DEF on_other_frame, on_stray_continuation, read_again, writeVars
  <2>9. CASE \E f \in Frames, answers, throws \in BOOLEAN :
                    on_data_frame(f, answers, throws)
    <3> PICK f \in Frames, answers \in BOOLEAN, throws \in BOOLEAN :
                    on_data_frame(f, answers, throws)
      BY <2>9
    <3>1. CASE answers
      BY <3>1, <1>io, <2>a DEF on_data_frame
    <3>2. CASE ~answers
      BY <3>2, <2>u DEF on_data_frame
    <3> QED
      BY <3>1, <3>2
  <2>12. CASE on_wrote
    <3>1. queue # <<>> /\ writing = <<Head(queue)>> /\ ~failed
      BY <1>2, <2>12 DEF on_wrote, WriteInv, WriteOfHead
    <3>2. Head(writing) = Head(queue)
      BY <3>1
    <3>3. Channel!Deliver
      BY <2>12, <3>1, <3>2 DEF on_wrote, Channel!Deliver
    <3> QED
      BY <3>3 DEF Channel!Next
  <2>13. CASE on_write_error
    <3>1. queue # <<>> /\ ~failed
      BY <1>2, <2>13 DEF on_write_error, WriteInv, WriteOfHead
    <3>2. Channel!Break
      BY <2>13, <3>1 DEF on_write_error, Channel!Break
    <3> QED
      BY <3>2 DEF Channel!Next
  <2>14. CASE on_read_error
    BY <2>14, <2>u DEF on_read_error, writeVars
  <2>15. CASE \E fs \in Batches : on_read(fs)
    BY <2>15, <2>u DEF on_read, writeVars
  <2>16. CASE \E t \in Threads : Calling(t)
    <3> PICK t \in Threads : Calling(t)
      BY <2>16
    <3>1. CASE start_write(t)
      BY <3>1, <2>u DEF start_write
    <3>2. CASE StopAppends(t)
      BY <3>2, <2>a DEF StopAppends
    <3> QED
      BY <3>1, <3>2 DEF Calling
  <2>17. CASE \E t \in Senders : Write(t) \/ Stop(t)
    <3> PICK t \in Senders : Write(t) \/ Stop(t)
      BY <2>17
    <3>1. CASE Write(t)
      BY <1>s, <3>1, <2>a DEF Write
    <3>2. CASE Stop(t)
      BY <3>2, <2>u DEF Stop
    <3> QED
      BY <3>1, <3>2
  <2>18. CASE UNCHANGED vars
    BY <2>18, <2>u DEF vars
  <2> QED
    BY <1>2, <2>1, <2>2, <2>4, <2>6, <2>7, <2>8, <2>9, <2>12,
       <2>13, <2>14, <2>15, <2>16, <2>17, <2>18 DEF Next, Upgrading, Handling
<1> QED
  BY <1>1, <1>2, Invariance, PTL DEF Spec, ChannelSafe, Channel!Spec

-------------------------------------------------------------------------------
(* What the handler is told.  A write event is told when a write has failed, *)
(* after which none is started; a read event ends the read loop.             *)

ToldInv == /\ \A i \in 1..Len(told) : told[i] = "write_event" => failed
           /\ \A i \in 1..Len(told) : told[i] = "read_event" => io = "reactor" /\ ~armed

\* A new event of a kind that has not been told.
LEMMA TellOnce ==
    ASSUME TypeOK, ToldOnce, NEW e \in {"read_event", "write_event"},
           told' = Append(told, e), \A i \in 1..Len(told) : told[i] # e
    PROVE  /\ ToldOnce'
           /\ \A i \in 1..Len(told') : told'[i] = e \/ (i \in 1..Len(told) /\ told'[i] = told[i])
<1>1. told \in Seq({"read_event", "write_event"})
  BY DEF TypeOK
<1>2. /\ Len(told') = Len(told) + 1 /\ Len(told) \in Nat
      /\ told'[Len(told) + 1] = e
      /\ \A i \in 1..Len(told) : told'[i] = told[i]
  BY <1>1
<1>3. \A i \in 1..Len(told') : i \in 1..Len(told) \/ i = Len(told) + 1
  BY <1>2
<1> QED
  BY <1>2, <1>3 DEF ToldOnce

\* Every step keeps it.
LEMMA NextToldInv ==
    ASSUME TypeOK, WriteInv, ToldInv, ToldOnce, [Next]_vars
    PROVE  ToldInv' /\ ToldOnce'
<1>0. ASSUME told' = told, failed => failed', io = "reactor" /\ ~armed => io' = "reactor" /\ ~armed'
      PROVE  ToldInv' /\ ToldOnce'
  BY <1>0 DEF ToldInv, ToldOnce
<1>1. CASE Upgrading
  BY <1>0, <1>1 DEF Upgrading, OnOpenRefuses, OnOpenWrites, AddWebSocketConnection,
                    start_handshake, start_read, append_write_data, writeVars, readVars
<1>2. CASE Handling
  BY <1>0, <1>2 DEF Handling, on_close_frame, on_ping_frame, on_other_frame, on_data_frame,
                    on_stray_continuation, read_again, NextFrame, append_write_data, writeVars
<1>3. CASE on_wrote \/ (\E fs \in Batches : on_read(fs))
  BY <1>0, <1>3 DEF on_wrote, on_read, writeVars
<1>4. CASE \E t \in Threads : Calling(t)
  BY <1>0, <1>4 DEF Calling, start_write, StopAppends, append_write_data, readVars
<1>5. CASE \E t \in Senders : Write(t) \/ Stop(t)
  BY <1>0, <1>5 DEF Write, Stop, append_write_data, readVars
<1>6. CASE on_write_error
  <2>1. ~failed /\ failed' /\ told' = Append(told, "write_event") /\ UNCHANGED <<io, armed>>
    BY <1>6 DEF on_write_error, WriteInv, WriteOfHead
  <2>2. \A i \in 1..Len(told) : told[i] # "write_event"
    BY <2>1 DEF ToldInv
  <2> QED
    BY <2>1, <2>2, TellOnce DEF ToldInv
<1>7. CASE on_read_error
  <2>1. /\ armed /\ ~armed' /\ io = "reactor" /\ told' = Append(told, "read_event")
        /\ UNCHANGED <<io, failed>>
    BY <1>7 DEF on_read_error, InReactor, writeVars
  <2>2. \A i \in 1..Len(told) : told[i] # "read_event"
    BY <2>1 DEF ToldInv
  <2> QED
    BY <2>1, <2>2, TellOnce DEF ToldInv
<1>8. CASE UNCHANGED vars
  BY <1>0, <1>8 DEF vars
<1> QED
  BY <1>1, <1>2, <1>3, <1>4, <1>5, <1>6, <1>7, <1>8 DEF Next

\* For any number of senders, the handler hears of the end of each direction at
\* most once.
THEOREM EndToldOnce == Spec => []ToldOnce
<1>1. Init => ToldInv /\ ToldOnce
  BY DEF Init, ToldInv, ToldOnce
<1>2. TypeOK /\ WriteInv /\ ToldInv /\ ToldOnce /\ [Next]_vars => ToldInv' /\ ToldOnce'
  BY NextToldInv
<1> QED
  BY <1>1, <1>2, Invariance, PTL DEF Spec

-------------------------------------------------------------------------------
(* FrameParser *)

\* A set of numbers that is not empty has a least one.
LEMMA Least ==
    ASSUME NEW S \in SUBSET Nat, S # {}
    PROVE  \E m \in S : \A i \in S : m <= i
<1> DEFINE R == OpToRel(<, Nat)
<1>1. PICK m \in S : \A i \in S : ~(<<i, m>> \in R)
  <2> HIDE DEF R
  <2> QED
    BY NatLessThanWellFounded, WFMin DEF R
<1>2. \A i \in S : i < m => <<i, m>> \in R
  BY DEF OpToRel
<1> HIDE DEF R
<1>3. \A i \in S : ~(i < m)
  BY <1>1, <1>2
<1> QED
  BY <1>3

-------------------------------------------------------------------------------
(* The bytes of a frame *)

\* A frame that can be sent.
Sendable == {f \in FrameType : CanBeSent(f)}

FormOf(f) == IF ~f.built THEN f.form ELSE IF Len(f.payload) <= 125 THEN 7 ELSE 16

\* The value of the length byte, without the bit for the mask.
CodeOf(form, n) == IF form = 7 THEN n ELSE IF form = 16 THEN 126 ELSE 127
Code(f) == CodeOf(FormOf(f), Len(f.payload))

\* Bytes of the extended length.
ExtLenOf(form) == IF form = 7 THEN 0 ELSE IF form = 16 THEN 2 ELSE 8
ExtLen(f) == ExtLenOf(FormOf(f))

KeyLen(f) == IF IsMasked(f) THEN 4 ELSE 0

\* The bytes that follow the length.
Content(f) == IF IsMasked(f) THEN MaskingKey \o Masked(f.payload) ELSE f.payload

\* Lengths that fit into two bytes.
Short(n) == n \in Nat /\ n < 65536

LEMMA ShortLengths == \A n \in Nat : n < LengthCap => Short(n)
<1>1. LengthCap \in Int /\ LengthCap <= 65536
  BY LengthCapAssumption
<1> QED
  BY <1>1 DEF Short

\* What FrameTyped says of a frame is all that is used of CanBeSent.
LEMMA FrameTyped ==
    ASSUME NEW f \in Sendable
    PROVE  /\ f.payload \in Seq(Byte) /\ Len(f.payload) \in Nat /\ Short(Len(f.payload))
           /\ DOMAIN f.payload = 1..Len(f.payload)
           /\ f.opcode \in 0..15 /\ f.fin \in BOOLEAN /\ f.mask \in BOOLEAN /\ f.built \in BOOLEAN
           /\ FormOf(f) \in {7, 16, 64}
           /\ FormOf(f) = 7 => Len(f.payload) <= 125
           /\ FormOf(f) # 7 => Len(f.payload) > 0
           /\ Len(f.payload) = 0 => f.payload = <<>>
           /\ Len(f.payload) < LengthCap
<1>1. /\ f.payload \in Seq(Byte) /\ f.opcode \in 0..15 /\ f.fin \in BOOLEAN /\ f.mask \in BOOLEAN
      /\ f.built \in BOOLEAN /\ f.form \in {7, 16, 64} /\ CanBeSent(f)
  BY DEF Sendable, FrameType
<1>2. Len(f.payload) \in Nat /\ DOMAIN f.payload = 1..Len(f.payload)
  BY <1>1, LenProperties, Zenon
<1>3. f.payload = <<>> <=> Len(f.payload) = 0
  BY <1>1, EmptySeq, Zenon
<1> DEFINE n == Len(f.payload)
<1>4. n < LengthCap
  BY <1>1, Zenon DEF CanBeSent
<1>5. Short(n)
  BY <1>2, <1>4, ShortLengths, Zenon
<1>6. f.built \/ (f.form = 7 /\ n <= 125) \/ (f.form # 7 /\ n # 0)
  BY <1>1, <1>3 DEF CanBeSent
<1>7. FormOf(f) \in {7, 16, 64} /\ (FormOf(f) = 7 => n <= 125) /\ (FormOf(f) # 7 => n > 0)
  <2> HIDE DEF n
  <2>1. FormOf(f) = IF ~f.built THEN f.form ELSE IF n <= 125 THEN 7 ELSE 16
    BY DEF FormOf, n
  <2>2. n \in Nat
    BY <1>2 DEF n
  <2>3. CASE f.built
    BY <2>1, <2>2, <2>3
  <2>4. CASE ~f.built
    BY <1>1, <1>6, <2>1, <2>2, <2>4
  <2> QED
    BY <2>3, <2>4
<1> QED
  BY <1>1, <1>2, <1>3, <1>4, <1>5, <1>7

\* Built or sent by a peer, a frame has the same layout.
LEMMA EncodedIs ==
    ASSUME NEW f \in Sendable
    PROVE  Encoded(f) = <<(IF f.fin THEN 128 ELSE 0) + f.opcode>>
                        \o LengthBytes(IF IsMasked(f) THEN 128 ELSE 0, FormOf(f), Len(f.payload))
                        \o Content(f)
<1>1. f.built \in BOOLEAN /\ f.mask \in BOOLEAN /\ Len(f.payload) \in Nat
      /\ (f.payload = <<>> <=> Len(f.payload) = 0)
  BY FrameTyped
<1>2. CASE f.built
  <2> DEFINE len == Len(f.payload)
             mask == IF len > 0 /\ f.mask THEN 128 ELSE 0
             form == IF len <= 125 THEN 7 ELSE 16
             b == <<(IF f.fin THEN 128 ELSE 0) + f.opcode>>
  <2>1. Encoded(f) = b \o LengthBytes(mask, form, len)
                     \o (IF mask > 0 THEN MaskingKey \o Masked(f.payload) ELSE f.payload)
    BY <1>2 DEF Encoded, Build
  <2>2. mask = (IF IsMasked(f) THEN 128 ELSE 0) /\ (mask > 0 <=> IsMasked(f)) /\ form = FormOf(f)
    BY <1>1, <1>2 DEF IsMasked, FormOf
  <2> HIDE DEF mask, form
  <2> QED
    BY <2>1, <2>2 DEF Content
<1>3. CASE ~f.built
  <2>1. IsMasked(f) = f.mask /\ FormOf(f) = f.form
    BY <1>1, <1>3 DEF IsMasked, FormOf
  <2> QED
    BY <1>3, <2>1 DEF Encoded, PeerFrame, Content
<1> QED
  BY <1>2, <1>3

\* Masking keeps the length and works byte by byte.
LEMMA MaskedIs ==
    ASSUME NEW f \in Sendable
    PROVE  /\ Masked(f.payload) \in Seq(Byte)
           /\ Len(Masked(f.payload)) = Len(f.payload)
           /\ \A i \in 1..Len(f.payload) :
                  Masked(f.payload)[i] = XOR(f.payload[i], MaskingKey[((i - 1) % 4) + 1])
<1> DEFINE n == Len(f.payload)
           m == Masked(f.payload)
<1>1. f.payload \in Seq(Byte) /\ n \in Nat /\ DOMAIN f.payload = 1..n
  BY FrameTyped
<1>2. m = [i \in 1..n |-> XOR(f.payload[i], MaskingKey[((i - 1) % 4) + 1])]
  BY <1>1 DEF Masked
<1>3. ASSUME NEW i \in 1..n PROVE XOR(f.payload[i], MaskingKey[((i - 1) % 4) + 1]) \in Byte
  <2>1. f.payload[i] \in Byte
    BY <1>1, ElementOfSeq, Zenon
  <2>2. ((i - 1) % 4) + 1 \in 1..4
    BY <1>1
  <2> QED
    BY <2>1, <2>2, XorAssumption
<1> HIDE DEF m, n
<1>4. m \in [1..n -> Byte]
  BY <1>2, <1>3
<1>5. m \in Seq(Byte) /\ Len(m) = n
  BY <1>1, <1>2, <1>4
<1> QED
  BY <1>2, <1>5 DEF m, n

\* The length byte and the extended length.
\* What the length byte and the extended length, of m bytes, are.
LengthField(l, m, mask, form, n) ==
    /\ l \in Seq(Byte) /\ Len(l) = 1 + m
    /\ l[1] = mask + CodeOf(form, n)
    /\ form # 7 => /\ \A i \in 1..(m - 2) : l[1 + i] = 0
                   /\ l[m] = n \div 256 /\ l[1 + m] = n % 256

MaskBit == {0, 128}
LengthForms(form, n) == form \in {7, 16, 64} /\ (form = 7 => n <= 125)

LEMMA LengthBytesAre ==
    ASSUME NEW mask, mask \in MaskBit, NEW form, NEW n, Short(n), LengthForms(form, n)
    PROVE  LengthField(LengthBytes(mask, form, n), ExtLenOf(form), mask, form, n)
<1> DEFINE l == LengthBytes(mask, form, n)
<1>0. /\ mask \in {0, 128} /\ form \in {7, 16, 64} /\ (form = 7 => n <= 125)
      /\ n \in Nat /\ n < 65536
  BY DEF MaskBit, LengthForms, Short
<1>1. n \div 256 \in 0..255 /\ n % 256 \in 0..255
  BY <1>0
<1>2. CASE form = 7
  <2>1. l = <<mask + n>> /\ mask + n \in Byte
    BY <1>0, <1>2 DEF LengthBytes, Byte
  <2> QED
    BY <2>1, <1>2 DEF ExtLenOf, CodeOf, LengthField
<1>3. CASE form = 16
  <2> DEFINE x == mask + 126  y == n \div 256  z == n % 256
  <2>1. l = <<x, y, z>>
    BY <1>3 DEF LengthBytes
  <2>2. x \in Byte /\ y \in Byte /\ z \in Byte
    BY <1>0, <1>1 DEF Byte
  <2> HIDE DEF x, y, z
  <2>3. l \in Seq(Byte) /\ Len(l) = 3 /\ l[1] = x /\ l[2] = y /\ l[3] = z
    BY <2>1, <2>2
  <2> QED
    BY <2>3, <1>3 DEF x, y, z, ExtLenOf, CodeOf, LengthField
<1>4. CASE form = 64
  <2> DEFINE x == mask + 127  y == n \div 256  z == n % 256
  <2>1. l = <<x, 0, 0, 0, 0, 0, 0, y, z>>
    BY <1>4 DEF LengthBytes
  <2>2. x \in Byte /\ y \in Byte /\ z \in Byte /\ 0 \in Byte
    BY <1>0, <1>1 DEF Byte
  <2> HIDE DEF x, y, z
  <2>3. /\ l \in Seq(Byte) /\ Len(l) = 9 /\ l[1] = x /\ l[8] = y /\ l[9] = z
        /\ l[2] = 0 /\ l[3] = 0 /\ l[4] = 0 /\ l[5] = 0 /\ l[6] = 0 /\ l[7] = 0
    BY <2>1, <2>2
  <2>4. \A i \in 1..6 : l[1 + i] = 0
    BY <2>3
  <2> QED
    BY <2>3, <2>4, <1>4 DEF x, y, z, ExtLenOf, CodeOf, LengthField
<1> QED
  BY <1>0, <1>2, <1>3, <1>4

\* A byte followed by two sequences.
LEMMA ThreeParts ==
    ASSUME NEW b \in Byte, NEW l \in Seq(Byte), NEW c \in Seq(Byte), NEW e, e = <<b>> \o l \o c
    PROVE  /\ e \in Seq(Byte) /\ Len(e) = 1 + Len(l) + Len(c)
           /\ e[1] = b
           /\ \A i \in 1..Len(l) : e[1 + i] = l[i]
           /\ \A i \in 1..Len(c) : e[1 + Len(l) + i] = c[i]
<1> DEFINE d == <<b>> \o l
<1>1. Len(l) \in Nat /\ Len(c) \in Nat
  OBVIOUS
<1>2. <<b>> \in Seq(Byte) /\ Len(<<b>>) = 1
  OBVIOUS
<1>3. d \in Seq(Byte) /\ Len(d) = 1 + Len(l)
  BY <1>2, ConcatProperties, Zenon
<1>4. d[1] = b /\ \A i \in 1..Len(l) : d[1 + i] = l[i]
  OBVIOUS
<1>5. e = d \o c
  OBVIOUS
<1> HIDE DEF d
<1>6. e \in Seq(Byte) /\ Len(e) = Len(d) + Len(c)
  BY <1>3, <1>5, ConcatProperties, Zenon
<1>7. \A i \in 1..Len(d) : e[i] = d[i]
  BY <1>1, <1>3, <1>5
<1>8. \A i \in 1..Len(c) : e[Len(d) + i] = c[i]
  BY <1>1, <1>3, <1>5
<1>9. \A i \in 1..Len(l) : e[1 + i] = l[i]
  <2> TAKE i \in 1..Len(l)
  <2>1. 1 + i \in 1..Len(d)
    BY <1>1, <1>3
  <2> QED
    BY <1>4, <1>7, <2>1
<1>10. e[1] = b
  BY <1>1, <1>3, <1>4, <1>7
<1> QED
  BY <1>3, <1>6, <1>8, <1>9, <1>10

\* The extended length, big endian.
LengthSent(f) == /\ \A i \in 1..(ExtLen(f) - 2) : Encoded(f)[2 + i] = 0
                 /\ Encoded(f)[1 + ExtLen(f)] = Len(f.payload) \div 256
                 /\ Encoded(f)[2 + ExtLen(f)] = Len(f.payload) % 256

\* Where the parts of a frame are.
LEMMA FrameBytes ==
    ASSUME NEW f \in Sendable
    PROVE  LET e == Encoded(f)
               n == Len(f.payload)
               k == 2 + ExtLen(f)
               h == k + KeyLen(f)
           IN  /\ e \in Seq(Byte) /\ Len(e) = h + n
               /\ e[1] = (IF f.fin THEN 128 ELSE 0) + f.opcode
               /\ e[2] = (IF IsMasked(f) THEN 128 ELSE 0) + Code(f)
               /\ FormOf(f) # 7 => LengthSent(f)
               /\ IsMasked(f) => \A i \in 1..4 : e[k + i] = MaskingKey[i]
               /\ \A i \in 1..n : e[h + i] = IF IsMasked(f) THEN Masked(f.payload)[i] ELSE f.payload[i]
<1> DEFINE e == Encoded(f)
           n == Len(f.payload)
           k == 2 + ExtLen(f)
           h == k + KeyLen(f)
           b == (IF f.fin THEN 128 ELSE 0) + f.opcode
           mask == IF IsMasked(f) THEN 128 ELSE 0
           l == LengthBytes(mask, FormOf(f), n)
           c == Content(f)
<1>1. /\ f.payload \in Seq(Byte) /\ n \in Nat /\ Short(n) /\ f.opcode \in 0..15 /\ f.fin \in BOOLEAN
      /\ FormOf(f) \in {7, 16, 64} /\ (FormOf(f) = 7 => n <= 125)
  BY FrameTyped
<1>2. e = <<b>> \o l \o c
  BY EncodedIs
<1>3. b \in Byte /\ mask \in {0, 128}
  <2> DEFINE x == IF f.fin THEN 128 ELSE 0
             y == f.opcode
  <2>1. x \in {0, 128} /\ y \in 0..15
    BY <1>1
  <2> HIDE DEF x, y
  <2>2. x + y \in 0..255
    BY <2>1
  <2> QED
    BY <2>2 DEF x, y, Byte
<1> HIDE DEF mask, b
<1> DEFINE el == ExtLen(f)
           kl == KeyLen(f)
<1>6. el \in {0, 2, 8} /\ kl \in {0, 4} /\ (FormOf(f) # 7 => el \in {2, 8})
      /\ (IsMasked(f) => kl = 4)
  BY <1>1 DEF ExtLen, ExtLenOf, KeyLen
<1>4. /\ l \in Seq(Byte) /\ Len(l) = 1 + el
      /\ l[1] = mask + Code(f)
      /\ FormOf(f) # 7 => /\ \A i \in 1..(el - 2) : l[1 + i] = 0
                          /\ l[el] = n \div 256 /\ l[1 + el] = n % 256
  <2> DEFINE form == FormOf(f)
  <2>1. LengthForms(form, n) /\ Short(n) /\ mask \in MaskBit
    BY <1>1, <1>3 DEF LengthForms, MaskBit
  <2>2. Code(f) = CodeOf(form, n) /\ el = ExtLenOf(form) /\ l = LengthBytes(mask, form, n)
    BY DEF Code, ExtLen
  <2> HIDE DEF form, l, n, el
  <2>3. LengthField(l, el, mask, form, n)
    BY <2>1, <2>2, LengthBytesAre, Zenon
  <2> QED
    BY <2>2, <2>3 DEF form, LengthField
<1>5. /\ c \in Seq(Byte) /\ Len(c) = kl + n
      /\ IsMasked(f) => \A i \in 1..4 : c[i] = MaskingKey[i]
      /\ \A i \in 1..n : c[kl + i] = IF IsMasked(f) THEN Masked(f.payload)[i] ELSE f.payload[i]
  <2>1. CASE IsMasked(f)
    <3> DEFINE m == Masked(f.payload)
    <3>1. m \in Seq(Byte) /\ Len(m) = n
      BY MaskedIs
    <3>2. MaskingKey \in Seq(Byte) /\ Len(MaskingKey) = 4
      BY DEF MaskingKey, Byte
    <3> DEFINE key == MaskingKey
    <3>3. c = MaskingKey \o m /\ kl = 4
      BY <2>1 DEF Content, KeyLen
    <3>5. n \in Nat
      BY <1>1
    <3>8. key \in Seq(Byte) /\ Len(key) = 4 /\ c = key \o m
      BY <3>2, <3>3
    <3> HIDE DEF m, c, n, kl, key
    <3>4. c \in Seq(Byte) /\ Len(c) = Len(key) + Len(m)
      BY <3>1, <3>8, ConcatProperties, Zenon
    <3>9. \A i \in 1..Len(c) : c[i] = IF i <= Len(key) THEN key[i] ELSE m[i - Len(key)]
      <4>1. \A i \in 1..Len(key) + Len(m) :
                (key \o m)[i] = IF i <= Len(key) THEN key[i] ELSE m[i - Len(key)]
        BY <3>1, <3>8, ConcatProperties, Zenon
      <4> QED
        BY <3>4, <3>8, <4>1, Zenon
    <3>10. Len(c) = 4 + n
      BY <3>1, <3>4, <3>8
    <3>6. \A i \in 1..4 : c[i] = key[i]
      <4> TAKE i \in 1..4
      <4>1. i \in 1..Len(c) /\ i <= Len(key)
        BY <3>5, <3>8, <3>10
      <4> QED
        BY <3>9, <4>1
    <3>7. \A i \in 1..n : c[4 + i] = m[i]
      <4> TAKE i \in 1..n
      <4>1. 4 + i \in 1..Len(c) /\ ~(4 + i <= Len(key)) /\ (4 + i) - Len(key) = i
        BY <3>5, <3>8, <3>10
      <4> QED
        BY <3>9, <4>1
    <3> QED
      BY <3>1, <3>3, <3>4, <3>6, <3>7, <3>8, <2>1 DEF m, key
  <2>2. CASE ~IsMasked(f)
    <3>1. c = f.payload /\ kl = 0
      BY <2>2 DEF Content, KeyLen
    <3> HIDE DEF c, kl
    <3>2. \A i \in 1..n : 0 + i = i
      BY <1>1
    <3> QED
      BY <1>1, <2>2, <3>1, <3>2
  <2> QED
    BY <2>1, <2>2
<1> HIDE DEF l, c, e, el, kl
<1>7. /\ e \in Seq(Byte) /\ Len(e) = 1 + Len(l) + Len(c)
      /\ e[1] = b
      /\ \A i \in 1..Len(l) : e[1 + i] = l[i]
      /\ \A i \in 1..Len(c) : e[1 + Len(l) + i] = c[i]
  <2>1. b \in Byte /\ l \in Seq(Byte) /\ c \in Seq(Byte)
    BY <1>3, <1>4, <1>5
  <2> QED
    BY <1>2, <2>1, ThreeParts
<1> HIDE DEF n
<1>8. n \in Nat
  BY <1>1
<1>9. Len(e) = 2 + el + kl + n
  BY <1>4, <1>5, <1>6, <1>7, <1>8
<1>10. e[2] = l[1]
  <2>1. 1 \in 1..Len(l) /\ 1 + 1 = 2
    BY <1>4, <1>6
  <2> QED
    BY <1>7, <2>1
<1>11. FormOf(f) # 7 => /\ \A i \in 1..(el - 2) : e[2 + i] = 0
                        /\ e[1 + el] = n \div 256 /\ e[2 + el] = n % 256
  <2> HAVE FormOf(f) # 7
  <2>1. el \in 1..Len(l) /\ 1 + el \in 1..Len(l) /\ 1 + (1 + el) = 2 + el
    BY <1>4, <1>6
  <2>2. e[1 + el] = l[el] /\ e[2 + el] = l[1 + el]
    BY <1>7, <2>1
  <2>3. ASSUME NEW i \in 1..(el - 2) PROVE e[2 + i] = 0
    <3>1. 1 + i \in 1..Len(l) /\ 1 + (1 + i) = 2 + i
      BY <1>4, <1>6
    <3> QED
      BY <1>4, <1>7, <3>1
  <2> QED
    BY <1>4, <2>2, <2>3
<1>12. IsMasked(f) => \A i \in 1..4 : e[2 + el + i] = MaskingKey[i]
  <2> SUFFICES ASSUME IsMasked(f), NEW i \in 1..4 PROVE e[2 + el + i] = MaskingKey[i]
    OBVIOUS
  <2>1. i \in 1..Len(c) /\ 1 + Len(l) + i = 2 + el + i
    BY <1>4, <1>5, <1>6, <1>8
  <2> QED
    BY <1>5, <1>7, <2>1
<1>13. \A i \in 1..n : e[2 + el + kl + i]
                           = IF IsMasked(f) THEN Masked(f.payload)[i] ELSE f.payload[i]
  <2> TAKE i \in 1..n
  <2>1. kl + i \in 1..Len(c) /\ 1 + Len(l) + (kl + i) = 2 + el + kl + i
    BY <1>4, <1>5, <1>6, <1>8
  <2> QED
    BY <1>5, <1>7, <2>1
<1>14. FormOf(f) # 7 => LengthSent(f)
  BY <1>11 DEF LengthSent, e, n, el
<1> QED
  BY <1>4, <1>7, <1>9, <1>10, <1>11, <1>12, <1>13, <1>14 DEF e, b, n, mask, el, kl

\* Where the frames of a stream begin and end.
Size(f) == Len(Encoded(f))

\* The size of a frame and of its parts.
LEMMA SizeIs ==
    ASSUME NEW f \in Sendable
    PROVE  /\ Encoded(f) \in Seq(Byte) /\ Size(f) \in Nat /\ Size(f) >= 2
           /\ Size(f) = 2 + ExtLen(f) + KeyLen(f) + Len(f.payload)
           /\ HeaderLen(f) = 2 + ExtLen(f) + KeyLen(f)
           /\ KeyStart(f) = 2 + ExtLen(f)
           /\ ExtLen(f) \in {0, 2, 8} /\ KeyLen(f) = (IF IsMasked(f) THEN 4 ELSE 0)
           /\ Len(f.payload) \in Nat
<1> DEFINE n == Len(f.payload)
           x == ExtLen(f)
           k == KeyLen(f)
           z == Len(Encoded(f))
<1>1. Encoded(f) \in Seq(Byte) /\ z = 2 + x + k + n
  BY FrameBytes
<1>2. n \in Nat
  BY FrameTyped
<1>3. x \in {0, 2, 8} /\ k = (IF IsMasked(f) THEN 4 ELSE 0)
  BY FrameTyped DEF ExtLen, ExtLenOf, KeyLen
<1>4. HeaderLen(f) = z - n /\ KeyStart(f) = (IF IsMasked(f) THEN HeaderLen(f) - 4 ELSE HeaderLen(f))
  BY DEF HeaderLen, KeyStart
<1> HIDE DEF n, x, k, z
<1>5. z \in Nat /\ z >= 2 /\ HeaderLen(f) = 2 + x + k /\ KeyStart(f) = 2 + x
  BY <1>1, <1>2, <1>3, <1>4
<1> QED
  BY <1>1, <1>2, <1>3, <1>5 DEF Size, n, x, k, z

\* The recursive function of the bytes of the first frames has a solution.
LEMMA BytesAre ==
    ASSUME frames \in Seq(Sendable)
    PROVE  /\ Bytes[0] = <<>>
           /\ \A i \in 1..Len(frames) : Bytes[i] = Bytes[i - 1] \o Encoded(frames[i])
<1> DEFINE n == Len(frames)
           e(i) == Encoded(frames[i])
           join(x, i) == x \o e(i)
           IsBytes(g, m) == g = [i \in 0..m |-> IF i = 0 THEN <<>> ELSE join(g[i - 1], i)]
           upto == CHOOSE g : IsBytes(g, n)
<1>1. n \in Nat
  OBVIOUS
<1>2. Bytes = upto
  BY DEF Bytes
<1> HIDE DEF n, join
\* The recursion has a solution.
<1>3. \A m \in Nat : \E g : IsBytes(g, m)
  <2> SUFFICES ASSUME ~(\A m \in Nat : \E g : IsBytes(g, m)) PROVE FALSE
    OBVIOUS
  <2> DEFINE S == {m \in Nat : ~\E g : IsBytes(g, m)}
  <2>1. S \in SUBSET Nat /\ S # {}
    OBVIOUS
  <2>2. PICK m \in S : \A i \in S : m <= i
    BY <2>1, Least
  <2>3. CASE m = 0
    <3>1. IsBytes([i \in 0..0 |-> <<>>], 0)
      OBVIOUS
    <3> QED
      BY <2>3, <3>1
  <2>4. CASE m # 0
    <3>1. m \in Nat /\ m - 1 \in Nat /\ m - 1 \notin S
      <4> HIDE DEF IsBytes
      <4> QED
        BY <2>2, <2>4
    <3>2. PICK g : IsBytes(g, m - 1)
      BY <3>1
    <3> DEFINE h == [i \in 0..m |-> IF i < m THEN g[i] ELSE join(g[m - 1], m)]
    <3>3. \A i \in 0..(m - 1) : g[i] = IF i = 0 THEN <<>> ELSE join(g[i - 1], i)
      BY <3>2
    <3>4. \A i \in 0..m : h[i] = IF i = 0 THEN <<>> ELSE join(h[i - 1], i)
      <4> TAKE i \in 0..m
      <4>1. CASE i = m
        BY <4>1, <3>1, <2>4
      <4>2. CASE i < m
        <5>1. h[i] = g[i] /\ (i # 0 => h[i - 1] = g[i - 1])
          BY <4>2, <3>1
        <5> QED
          BY <5>1, <3>3, <4>2, <3>1
      <4> QED
        BY <4>1, <4>2, <3>1
    <3>5. DOMAIN h = 0..m /\ h = [i \in 0..m |-> h[i]]
      OBVIOUS
    <3> HIDE DEF h
    <3>6. IsBytes(h, m)
      BY <3>4, <3>5
    <3> QED
      BY <3>6, <2>2
  <2> QED
    BY <2>3, <2>4
<1>4. IsBytes(upto, n)
  BY <1>1, <1>3
<1> HIDE DEF upto
<1>5. \A i \in 0..n : upto[i] = IF i = 0 THEN <<>> ELSE join(upto[i - 1], i)
  BY <1>4
<1>6. 0 \in 0..n /\ \A i \in 1..n : i \in 0..n /\ i # 0
  BY <1>1
<1> QED
  BY <1>2, <1>5, <1>6 DEF n, join

LEMMA BytesTyped ==
    ASSUME frames \in Seq(Sendable)
    PROVE  \A i \in 0..Len(frames) : Bytes[i] \in Seq(Byte) /\ End(i) \in Nat
<1> DEFINE n == Len(frames)
<1>1. n \in Nat /\ \A i \in 1..n : frames[i] \in Sendable
  OBVIOUS
<1> HIDE DEF n
<1>2. \A i \in 0..n : Bytes[i] \in Seq(Byte)
  <2> SUFFICES ASSUME ~(\A i \in 0..n : Bytes[i] \in Seq(Byte)) PROVE FALSE
    OBVIOUS
  <2> DEFINE S == {i \in 0..n : Bytes[i] \notin Seq(Byte)}
  <2>1. S \in SUBSET Nat /\ S # {}
    OBVIOUS
  <2>2. PICK m \in S : \A i \in S : m <= i
    BY <2>1, Least
  <2>3. m # 0
    <3>1. Bytes[0] \in Seq(Byte)
      <4>1. Bytes[0] = <<>>
        BY BytesAre
      <4> QED
        BY <4>1, EmptySeq
    <3> QED
      BY <2>2, <3>1
  <2>4. m \in 1..n /\ m - 1 \in 0..n /\ Bytes[m - 1] \in Seq(Byte)
    BY <2>2, <2>3, <1>1
  <2>5. Bytes[m] = Bytes[m - 1] \o Encoded(frames[m]) /\ frames[m] \in Sendable
    BY <2>4, <1>1, BytesAre DEF n
  <2>6. Encoded(frames[m]) \in Seq(Byte)
    BY <2>5, SizeIs
  <2>7. Bytes[m] \in Seq(Byte)
    BY <2>4, <2>5, <2>6, ConcatProperties, Zenon
  <2> QED
    BY <2>2, <2>7
<1>3. \A i \in 0..n : End(i) \in Nat
  BY <1>2, LenProperties, Zenon DEF End
<1> QED
  BY <1>2, <1>3 DEF n

\* Where the frames of the stream end.
LEMMA Ends ==
    ASSUME frames \in Seq(Sendable)
    PROVE  /\ End(0) = 0
           /\ \A i \in 1..Len(frames) : /\ frames[i] \in Sendable
                                        /\ End(i) = End(i - 1) + Size(frames[i])
                                        /\ End(i - 1) \in Nat /\ End(i) \in Nat
           /\ \A i, j \in 0..Len(frames) : i < j => End(i) < End(j)
           /\ Stream \in Seq(Byte) /\ Len(Stream) = End(Len(frames))
<1> DEFINE n == Len(frames)
<1>1. n \in Nat /\ \A i \in 1..n : frames[i] \in Sendable
  OBVIOUS
<1>2. \A i \in 0..n : Bytes[i] \in Seq(Byte) /\ End(i) \in Nat
  BY BytesTyped
<1>3. End(0) = 0
  BY BytesAre DEF End
<1> HIDE DEF n
<1>4. ASSUME NEW i \in 1..n
      PROVE  /\ frames[i] \in Sendable /\ End(i) = End(i - 1) + Size(frames[i])
             /\ End(i - 1) \in Nat /\ End(i) \in Nat /\ End(i - 1) < End(i)
  <2>1. i - 1 \in 0..n /\ i \in 0..n
    BY <1>1
  <2>2. Bytes[i] = Bytes[i - 1] \o Encoded(frames[i])
    BY BytesAre DEF n
  <2>3. frames[i] \in Sendable
    BY <1>1
  <2>4. Encoded(frames[i]) \in Seq(Byte) /\ Size(frames[i]) \in Nat /\ Size(frames[i]) >= 2
    BY <2>3, SizeIs
  <2>5. End(i) = End(i - 1) + Size(frames[i])
    BY <1>2, <2>1, <2>2, <2>4, ConcatProperties, Zenon DEF End, Size
  <2> QED
    BY <1>2, <2>1, <2>3, <2>4, <2>5
<1>5. \A i, j \in 0..n : i < j => End(i) < End(j)
  <2> SUFFICES ASSUME NEW i \in 0..n, ~(\A j \in 0..n : i < j => End(i) < End(j)) PROVE FALSE
    OBVIOUS
  <2> DEFINE S == {j \in 0..n : i < j /\ ~(End(i) < End(j))}
  <2>1. S \in SUBSET Nat /\ S # {}
    OBVIOUS
  <2>2. PICK m \in S : \A j \in S : m <= j
    BY <2>1, Least
  <2>3. m \in 1..n /\ m - 1 \in 0..n /\ i < m
    BY <2>2, <1>1
  <2>4. End(m - 1) < End(m) /\ End(m - 1) \in Nat /\ End(m) \in Nat /\ End(i) \in Nat
    BY <1>2, <1>4, <2>3
  <2>5. CASE i = m - 1
    BY <2>2, <2>4, <2>5
  <2>6. CASE i < m - 1
    <3>1. m - 1 \notin S
      BY <2>2, <2>3
    <3>2. End(i) < End(m - 1)
      BY <3>1, <2>3, <2>6
    <3> QED
      BY <2>2, <2>4, <3>2
  <2> QED
    BY <2>3, <2>5, <2>6
<1>6. Stream \in Seq(Byte) /\ Len(Stream) = End(n)
  <2>1. n \in 0..n
    BY <1>1
  <2> QED
    BY <1>2, <2>1 DEF Stream, End, n
<1> QED
  BY <1>3, <1>4, <1>5, <1>6 DEF n

\* The stream holds the bytes of each frame.
LEMMA StreamHolds ==
    ASSUME frames \in Seq(Sendable), NEW i \in 1..Len(frames), NEW b \in 1..Size(frames[i])
    PROVE  Stream[End(i - 1) + b] = Encoded(frames[i])[b]
<1> DEFINE n == Len(frames)
           x == End(i - 1) + b
<1>1. n \in Nat /\ i \in 1..n
  OBVIOUS
<1>2. \A j \in 0..n : Bytes[j] \in Seq(Byte) /\ End(j) \in Nat
  BY BytesTyped
<1>3. /\ frames[i] \in Sendable /\ End(i) = End(i - 1) + Size(frames[i])
      /\ End(i - 1) \in Nat /\ End(i) \in Nat
  BY Ends
<1>4. Encoded(frames[i]) \in Seq(Byte) /\ Size(frames[i]) \in Nat
  BY <1>3, SizeIs
<1>5. \A j \in 1..n : Bytes[j] = Bytes[j - 1] \o Encoded(frames[j]) /\ Encoded(frames[j]) \in Seq(Byte)
  <2> TAKE j \in 1..n
  <2>1. frames[j] \in Sendable
    BY Ends
  <2> QED
    BY <2>1, BytesAre, SizeIs
<1> HIDE DEF n, x
<1>6. x \in 1..End(i) /\ ~(x <= End(i - 1)) /\ x - End(i - 1) = b
  <2>1. b \in 1..Size(frames[i])
    OBVIOUS
  <2> QED
    BY <1>3, <1>4, <2>1 DEF x
<1>7. Bytes[i][x] = Encoded(frames[i])[b]
  <2>1. i - 1 \in 0..n /\ i \in 0..n
    BY <1>1
  <2>2. Bytes[i] = Bytes[i - 1] \o Encoded(frames[i]) /\ Bytes[i - 1] \in Seq(Byte)
    BY <1>1, <1>2, <1>5, <2>1
  <2>3. Len(Bytes[i - 1]) = End(i - 1) /\ Len(Encoded(frames[i])) = Size(frames[i])
    BY DEF End, Size
  <2>4. \A j \in 1..(End(i - 1) + Size(frames[i])) :
            Bytes[i][j] = IF j <= End(i - 1) THEN Bytes[i - 1][j]
                          ELSE Encoded(frames[i])[j - End(i - 1)]
    <3> DEFINE s == Bytes[i - 1]  t == Encoded(frames[i])
    <3>1. \A j \in 1..(Len(s) + Len(t)) : (s \o t)[j] = IF j <= Len(s) THEN s[j] ELSE t[j - Len(s)]
      BY <1>4, <2>2, ConcatProperties, Zenon
    <3> QED
      BY <2>2, <2>3, <3>1, Zenon
  <2>5. x \in 1..(End(i - 1) + Size(frames[i]))
    BY <1>3, <1>6
  <2> QED
    BY <1>6, <2>4, <2>5
<1>8. \A m \in i..n : Bytes[m][x] = Bytes[i][x]
  <2> SUFFICES ASSUME ~(\A m \in i..n : Bytes[m][x] = Bytes[i][x]) PROVE FALSE
    OBVIOUS
  <2> DEFINE S == {m \in i..n : Bytes[m][x] # Bytes[i][x]}
  <2>1. S \in SUBSET Nat /\ S # {}
    BY <1>1
  <2>2. PICK m \in S : \A j \in S : m <= j
    BY <2>1, Least
  <2>3. m # i /\ m \in i..n
    BY <2>2
  <2>4. m \in 1..n /\ m - 1 \in i..n /\ m - 1 \in 0..n /\ m - 1 \notin S
    BY <2>2, <2>3, <1>1
  <2>5. Bytes[m - 1][x] = Bytes[i][x]
    BY <2>4
  <2>6. Bytes[m] = Bytes[m - 1] \o Encoded(frames[m]) /\ Bytes[m - 1] \in Seq(Byte)
        /\ Encoded(frames[m]) \in Seq(Byte)
    BY <1>2, <1>5, <2>4
  <2>7. \A j \in 1..(Len(Bytes[m - 1]) + Len(Encoded(frames[m]))) :
            Bytes[m][j] = IF j <= Len(Bytes[m - 1]) THEN Bytes[m - 1][j]
                          ELSE Encoded(frames[m])[j - Len(Bytes[m - 1])]
    <3> DEFINE s == Bytes[m - 1]  t == Encoded(frames[m])
    <3>1. \A j \in 1..(Len(s) + Len(t)) : (s \o t)[j] = IF j <= Len(s) THEN s[j] ELSE t[j - Len(s)]
      BY <2>6, ConcatProperties, Zenon
    <3> QED
      BY <2>6, <3>1, Zenon
  <2>8. Len(Bytes[m - 1]) \in Nat /\ Len(Encoded(frames[m])) \in Nat
    BY <2>6, LenProperties, Zenon
  <2>9. End(i) <= Len(Bytes[m - 1])
    <3>1. i = m - 1 \/ i < m - 1
      BY <2>4, <1>1
    <3>2. End(i) <= End(m - 1)
      <4>1. i < m - 1 => End(i) < End(m - 1)
        <5>1. i \in 0..Len(frames) /\ m - 1 \in 0..Len(frames)
          BY <1>1, <2>4 DEF n
        <5> QED
          BY <5>1, Ends
      <4>2. End(i) \in Nat /\ End(m - 1) \in Nat
        BY <1>2, <1>3, <2>4
      <4> QED
        BY <3>1, <4>1, <4>2
    <3> QED
      BY <3>2 DEF End
  <2>10. x \in 1..(Len(Bytes[m - 1]) + Len(Encoded(frames[m]))) /\ x <= Len(Bytes[m - 1])
    <3> DEFINE a == Len(Bytes[m - 1])  d == Len(Encoded(frames[m]))  c == End(i)
    <3>1. a \in Nat /\ d \in Nat /\ c \in Nat /\ c <= a /\ x \in 1..c
      BY <1>3, <1>6, <2>8, <2>9
    <3> HIDE DEF a, d, c
    <3>2. x \in 1..(a + d) /\ x <= a
      BY <3>1
    <3> QED
      BY <3>2 DEF a, d
  <2>11. Bytes[m][x] = Bytes[m - 1][x]
    BY <2>7, <2>10
  <2> QED
    BY <2>2, <2>5, <2>11
<1>9. n \in i..n
  BY <1>1
<1>10. Stream[x] = Bytes[i][x]
  BY <1>8, <1>9 DEF Stream, n
<1> QED
  BY <1>7, <1>10 DEF x

\* While the frames stay the same, so does the stream.
LEMMA StreamKept ==
    ASSUME frames' = frames
    PROVE  Bytes' = Bytes /\ Stream' = Stream /\ \A i : End(i)' = End(i)
<1>1. Bytes' = Bytes
  BY DEF Bytes
<1> QED
  BY <1>1 DEF Stream, End

-------------------------------------------------------------------------------
(* The parser inside a frame *)

ParserType ==
    [step : {"fixed_header", "payload_len", "extened_payload_len", "masking_key", "payload_data"},
     len_offset : Nat, key_pos : Nat, payload : Seq(Byte), fin : BOOLEAN, opcode : Nat, mask : BOOLEAN,
     code : Nat, ext : [1..8 -> Byte], key : [1..4 -> Byte], len : Nat]

Report(f) == [payload |-> f.payload, opcode |-> f.opcode, fin |-> f.fin]

\* The parser has seen the first byte of f and nothing of its payload.
Opened(q, f) == /\ q \in ParserType
                /\ q.fin = f.fin /\ q.opcode = f.opcode
                /\ q.payload = <<>> /\ q.key_pos = 0 /\ q.len_offset = 0

AtLength(q, f) == q.step = "payload_len" /\ Opened(q, f)

AtExtended(q, f) == /\ q.step = "extened_payload_len" /\ Opened(q, f)
                    /\ q.mask = IsMasked(f) /\ q.code = Code(f)

AtKey(q, f) == /\ q \in ParserType /\ q.step = "masking_key"
               /\ q.fin = f.fin /\ q.opcode = f.opcode
               /\ q.payload = <<>> /\ q.key_pos = 0
               /\ q.mask = TRUE /\ q.len = Len(f.payload)

\* Behind m bytes of the payload.
AtPayload(q, f, m) == /\ q \in ParserType /\ q.step = "payload_data"
                      /\ q.fin = f.fin /\ q.opcode = f.opcode
                      /\ q.mask = IsMasked(f) /\ q.len = Len(f.payload)
                      /\ Len(q.payload) = m /\ \A i \in 1..m : q.payload[i] = f.payload[i]
                      /\ IsMasked(f) => q.key = MaskingKey /\ m % 4 = 0

\* Behind the first o bytes of f.
At(q, f, o) ==
    \/ o = 0 /\ q = reset_parser
    \/ o = 1 /\ AtLength(q, f)
    \/ o = 2 /\ FormOf(f) # 7 /\ AtExtended(q, f)
    \/ o = KeyStart(f) /\ IsMasked(f) /\ AtKey(q, f)
    \/ \E m \in 0..(Len(f.payload) - 1) : o = HeaderLen(f) + m /\ AtPayload(q, f, m)

\* What a turn of the loop that starts behind o bytes of f may give: it goes on
\* inside the frame, or it ends the frame and reports it.
Turned(r, f, o, d) ==
    /\ r.used \in 1..d
    /\ \/ o + r.used < Size(f) /\ r.calls = <<>> /\ At(r.p, f, o + r.used)
       \/ o + r.used = Size(f) /\ r.calls = <<Report(f)>> /\ r.p = reset_parser

LEMMA ResetTyped == reset_parser \in ParserType
<1>1. <<0, 0, 0, 0, 0, 0, 0, 0>> \in [1..8 -> Byte] /\ <<0, 0, 0, 0>> \in [1..4 -> Byte]
  BY DEF Byte
<1>2. <<>> \in Seq(Byte)
  OBVIOUS
<1> QED
  BY <1>1, <1>2 DEF reset_parser, ParserType

\* The first byte gives fin and the opcode.
LEMMA HeaderTurn ==
    ASSUME NEW f \in Sendable, NEW data \in Seq(Byte), Len(data) >= 1, data[1] = Encoded(f)[1]
    PROVE  Turned(parse_fixed_header(reset_parser, data), f, 0, Len(data))
<1> DEFINE r == parse_fixed_header(reset_parser, data)
           b == data[1]
           q == r.p
<1>1. f.fin \in BOOLEAN /\ f.opcode \in 0..15
  BY FrameTyped
<1>2. b = (IF f.fin THEN 128 ELSE 0) + f.opcode
  BY FrameBytes
<1>3. (b \div 16 # 0) = f.fin /\ b % 16 = f.opcode
  <2> HIDE DEF b
  <2>1. CASE f.fin
    <3>1. b = 128 + f.opcode
      BY <1>2, <2>1
    <3>2. \A x \in 0..15 : (128 + x) \div 16 # 0 /\ (128 + x) % 16 = x
      OBVIOUS
    <3> QED
      BY <1>1, <2>1, <3>1, <3>2
  <2>2. CASE ~f.fin
    <3>1. b = f.opcode
      BY <1>1, <1>2, <2>2
    <3>2. b \div 16 = 0 /\ b % 16 = f.opcode
      BY <1>1, <3>1
    <3> QED
      BY <1>1, <2>2, <3>2
  <2> QED
    BY <1>1, <2>1, <2>2
<1>4. r.used = 1 /\ r.calls = <<>>
      /\ q = [reset_parser EXCEPT !.step = "payload_len", !.key_pos = reset_parser.key_pos,
                                  !.payload = reset_parser.payload,
                                  !.fin = (b \div 16 # 0), !.opcode = b % 16]
  BY DEF parse_fixed_header
<1> HIDE DEF r, b, q
<1>5. /\ q \in ParserType
      /\ q.step = "payload_len" /\ q.fin = f.fin /\ q.opcode = f.opcode
      /\ q.payload = <<>> /\ q.key_pos = 0 /\ q.len_offset = 0
  <2>1. reset_parser.key_pos = 0 /\ reset_parser.payload = <<>> /\ reset_parser.len_offset = 0
    BY DEF reset_parser
  <2>2. f.opcode \in Nat
    BY <1>1
  <2>3. q = [reset_parser EXCEPT !.step = "payload_len", !.key_pos = 0, !.payload = <<>>,
                                 !.fin = f.fin, !.opcode = f.opcode]
    BY <1>3, <1>4, <2>1
  <2> QED
    BY <1>1, <2>1, <2>2, <2>3, ResetTyped DEF ParserType
<1>6. AtLength(q, f)
  BY <1>5 DEF AtLength, Opened
<1>7. 0 + 1 = 1 /\ 1 < Size(f)
  BY SizeIs
<1>8. 1 \in 1..Len(data)
  OBVIOUS
<1> QED
  BY <1>4, <1>6, <1>7, <1>8 DEF Turned, At, r, q
\* An empty frame that is not masked ends with its length.
LEMMA LengthTurn ==
    ASSUME NEW f \in Sendable, NEW q, AtLength(q, f),
           NEW data \in Seq(Byte), Len(data) >= 1, data[1] = Encoded(f)[2],
           IsMasked(f) => f.payload # <<>>
    PROVE  Turned(parse_payload_len(q, data), f, 1, Len(data))
<1> DEFINE r == parse_payload_len(q, data)
           n == Len(f.payload)
           b == data[1]
           c == Code(f)
           masked == IsMasked(f)
<1>1. /\ n \in Nat /\ FormOf(f) \in {7, 16, 64} /\ (FormOf(f) = 7 => n <= 125)
      /\ (FormOf(f) # 7 => n > 0) /\ (n = 0 => f.payload = <<>>) /\ (f.payload = <<>> => n = 0)
  BY FrameTyped, EmptySeq
<1>2. b = (IF masked THEN 128 ELSE 0) + c
  BY FrameBytes
<1>3. c = (IF FormOf(f) = 7 THEN n ELSE IF FormOf(f) = 16 THEN 126 ELSE 127)
  BY DEF Code, CodeOf
<1>4. masked \in BOOLEAN
  BY FrameTyped DEF IsMasked
<1> HIDE DEF b, c, masked
<1> USE DEF n
<1>5. c \in 0..127 /\ (c = 0 <=> n = 0) /\ (c <= 125 <=> FormOf(f) = 7)
  <2> HIDE DEF n
  <2> QED
    BY <1>1, <1>3
<1>6. b % 128 = c /\ (b >= 128) = masked
  <2>1. \A x \in 0..127 : x % 128 = x /\ (128 + x) % 128 = x /\ ~(x >= 128) /\ 128 + x >= 128
    OBVIOUS
  <2>2. CASE masked
    BY <1>2, <1>5, <2>1, <2>2
  <2>3. CASE ~masked
    BY <1>2, <1>4, <1>5, <2>1, <2>3
  <2> QED
    BY <2>2, <2>3
<1>7. 1 \in 1..Len(data) /\ 1 + 1 = 2
  OBVIOUS
<1>8. /\ Size(f) = 2 + ExtLen(f) + KeyLen(f) + n /\ HeaderLen(f) = 2 + ExtLen(f) + KeyLen(f)
      /\ KeyStart(f) = 2 + ExtLen(f) /\ ExtLen(f) \in {0, 2, 8}
      /\ KeyLen(f) = (IF masked THEN 4 ELSE 0)
      /\ (ExtLen(f) = 0 <=> FormOf(f) = 7)
  <2>1. ExtLen(f) = 0 <=> FormOf(f) = 7
    BY <1>1 DEF ExtLen, ExtLenOf
  <2> QED
    BY <2>1, SizeIs DEF masked
<1>9. CASE n = 0
  <2>1. f.payload = <<>> /\ ~masked /\ FormOf(f) = 7 /\ c = 0
    BY <1>1, <1>5, <1>9 DEF masked
  <2>2. r = [p |-> reset_parser, used |-> 1,
             calls |-> <<[payload |-> <<>>, opcode |-> q.opcode, fin |-> q.fin]>>]
    BY <1>6, <2>1 DEF parse_payload_len, b
  <2>3. q.opcode = f.opcode /\ q.fin = f.fin
    BY DEF AtLength, Opened
  <2>4. r.calls = <<Report(f)>> /\ r.p = reset_parser /\ r.used = 1
    BY <2>1, <2>2, <2>3 DEF Report
  <2>5. 1 + 1 = Size(f)
    BY <1>8, <1>9, <2>1
  <2> QED
    BY <1>7, <2>4, <2>5 DEF Turned
<1>10. CASE n # 0
  <2> DEFINE s == [q EXCEPT !.mask = masked, !.code = c, !.len = IF c <= 125 THEN c ELSE 0]
             t == [s EXCEPT !.step = IF c <= 125 THEN AfterLength(s) ELSE "extened_payload_len"]
  <2>1. c # 0
    BY <1>5, <1>10
  <2>2. r = [p |-> t, used |-> 1, calls |-> <<>>]
    BY <1>6, <2>1 DEF parse_payload_len, b
  <2>3. r.p = t /\ r.used = 1 /\ r.calls = <<>>
    BY <2>2
  <2>4. q \in ParserType /\ q.payload = <<>> /\ q.key_pos = 0 /\ q.len_offset = 0
        /\ q.fin = f.fin /\ q.opcode = f.opcode
    BY DEF AtLength, Opened
  <2>5. c \in Nat /\ (IF c <= 125 THEN c ELSE 0) \in Nat
    BY <1>5
  <2>6. /\ s \in ParserType /\ s.payload = <<>> /\ s.key_pos = 0 /\ s.len_offset = 0
        /\ s.fin = f.fin /\ s.opcode = f.opcode /\ s.mask = masked /\ s.code = c
        /\ (c <= 125 => s.len = c)
    BY <1>4, <2>4, <2>5 DEF ParserType
  <2>7. AfterLength(s) = (IF masked THEN "masking_key" ELSE "payload_data")
    BY <2>6 DEF AfterLength
  <2> HIDE DEF s
  <2>8. /\ t \in ParserType /\ t.payload = <<>> /\ t.key_pos = 0 /\ t.len_offset = 0
        /\ t.fin = f.fin /\ t.opcode = f.opcode /\ t.mask = masked /\ t.code = c
        /\ (c <= 125 => t.len = c)
        /\ t.step = (IF c <= 125 THEN IF masked THEN "masking_key" ELSE "payload_data"
                     ELSE "extened_payload_len")
    BY <2>6, <2>7 DEF ParserType
  <2> HIDE DEF t, r
  <2>9. 2 < Size(f)
    BY <1>1, <1>8, <1>10
  <2>10. At(t, f, 2)
    <3>1. CASE FormOf(f) # 7
      <4>1. AtExtended(t, f)
        BY <1>5, <2>8, <3>1 DEF AtExtended, Opened, masked, c
      <4> QED
        BY <3>1, <4>1 DEF At
    <3>2. CASE FormOf(f) = 7 /\ masked
      <4>1. t.len = n
        BY <1>3, <1>5, <2>8, <3>2
      <4>2. AtKey(t, f)
        BY <1>4, <1>5, <2>8, <3>2, <4>1 DEF AtKey
      <4>3. 2 = KeyStart(f)
        BY <1>8, <3>2
      <4> QED
        BY <3>2, <4>2, <4>3 DEF At, masked
    <3>3. CASE FormOf(f) = 7 /\ ~masked
      <4>1. t.len = n /\ t.step = "payload_data"
        BY <1>3, <1>5, <2>8, <3>3
      <4>2. Len(t.payload) = 0 /\ 1..0 = {}
        BY <2>8
      <4>3. AtPayload(t, f, 0)
        BY <2>8, <3>3, <4>1, <4>2 DEF AtPayload, masked
      <4>4. 2 = HeaderLen(f) + 0 /\ 0 \in 0..(n - 1)
        <5> HIDE DEF n
        <5> QED
          BY <1>1, <1>8, <1>10, <3>3
      <4> QED
        BY <4>3, <4>4 DEF At
    <3> QED
      BY <3>1, <3>2, <3>3
  <2> QED
    BY <1>7, <2>3, <2>9, <2>10 DEF Turned, r
<1> QED
  BY <1>9, <1>10

\* memcpy puts the first bytes of a read at the beginning of a field.
LEMMA Field ==
    ASSUME NEW n \in Nat, NEW field \in [1..n -> Byte],
           NEW data \in Seq(Byte), NEW k \in 1..n, k <= Len(data)
    PROVE  /\ SubSeq(data, 1, k) \in Seq(Byte) /\ Len(SubSeq(data, 1, k)) = k
           /\ \A i \in 1..k : SubSeq(data, 1, k)[i] = data[i]
           /\ memcpy(field, SubSeq(data, 1, k)) \in [1..n -> Byte]
           /\ \A i \in 1..k : memcpy(field, SubSeq(data, 1, k))[i] = data[i]
<1> DEFINE s == SubSeq(data, 1, k)
           g == memcpy(field, s)
<1>1. Len(data) \in Nat /\ \A i \in 1..Len(data) : data[i] \in Byte
  OBVIOUS
<1>2. s \in Seq(Byte) /\ Len(s) = k /\ \A i \in 1..k : s[i] = data[i]
  <2>1. \A i \in 1..k : data[i] \in Byte
    BY <1>1
  <2>2. s = [i \in 1..k |-> data[i]]
    BY <1>1
  <2> HIDE DEF s
  <2>3. s \in [1..k -> Byte]
    BY <2>1, <2>2
  <2>4. s \in Seq(Byte) /\ Len(s) = k
    BY <2>3
  <2> QED
    BY <2>2, <2>4
<1> HIDE DEF s
<1>3. DOMAIN s = 1..k
  BY <1>2, LenProperties, Zenon
<1>4. g = [i \in 1..n |-> IF i \in 1..k THEN s[i] ELSE field[i]]
  BY <1>3 DEF memcpy
<1>5. \A i \in 1..k : s[i] \in Byte
  BY <1>1, <1>2
<1> HIDE DEF g
<1>6. g \in [1..n -> Byte] /\ \A i \in 1..k : g[i] = s[i]
  BY <1>4, <1>5
<1> QED
  BY <1>2, <1>6 DEF s, g

\* A length is put together again from its two bytes.
LEMMA TwoBytes ==
    ASSUME NEW n \in Nat, NEW a \in Nat, a = n \div 256, NEW b \in Nat, b = n % 256
    PROVE  a * 256 + b = n
  OBVIOUS

LEMMA FieldIsSeq ==
    ASSUME NEW n \in Nat, NEW field \in [1..n -> Byte]
    PROVE  field \in Seq(Byte) /\ Len(field) = n
  OBVIOUS

\* The extended length arrives in one piece.
LEMMA ExtendedTurn ==
    ASSUME NEW f \in Sendable, FormOf(f) # 7, NEW q, AtExtended(q, f),
           NEW data \in Seq(Byte), Len(data) >= ExtLen(f),
           \A i \in 1..ExtLen(f) : data[i] = Encoded(f)[2 + i]
    PROVE  Turned(parse_extened_payload_len(q, data), f, 2, Len(data))
<1> DEFINE x == ExtLen(f)
           n == Len(f.payload)
           masked == IsMasked(f)
           size == IF q.code = 126 THEN 2 ELSE 8
           s == SubSeq(data, 1, x)
           e == [q EXCEPT !.ext = memcpy(@, s), !.len_offset = @ + x]
           t == SubSeq(e.ext, 1, x)
           u == [e EXCEPT !.len = decode(t), !.step = AfterLength(e)]
           r == parse_extened_payload_len(q, data)
<1>1. n \in Nat /\ Short(n) /\ n < LengthCap /\ n > 0 /\ FormOf(f) \in {16, 64} /\ masked \in BOOLEAN
  BY FrameTyped DEF IsMasked
<1>2. x \in {2, 8} /\ q.code = (IF x = 2 THEN 126 ELSE 127)
  BY <1>1 DEF ExtLen, ExtLenOf, AtExtended, Code, CodeOf
<1>3. /\ q \in ParserType /\ q.payload = <<>> /\ q.key_pos = 0 /\ q.len_offset = 0
      /\ q.fin = f.fin /\ q.opcode = f.opcode /\ q.mask = masked
      /\ q.step = "extened_payload_len"
  BY DEF AtExtended, Opened
<1>4. q.ext \in [1..8 -> Byte]
  BY <1>3 DEF ParserType
<1>5. size = x /\ Min2(size - q.len_offset, Len(data)) = x
  <2> HIDE DEF x
  <2>1. size = x
    BY <1>2
  <2> HIDE DEF size
  <2>2. Len(data) >= x
    BY DEF x
  <2> QED
    BY <1>2, <1>3, <2>1, <2>2 DEF Min2
<1> HIDE DEF n, masked, x
<1>6. x \in 1..8 /\ x <= Len(data) /\ x \in Nat
  BY <1>2 DEF x
<1>7. /\ memcpy(q.ext, s) \in [1..8 -> Byte]
      /\ \A i \in 1..x : memcpy(q.ext, s)[i] = data[i]
  <2>1. 8 \in Nat
    OBVIOUS
  <2> QED
    BY <1>4, <1>6, <2>1, Field, Zenon
<1> DEFINE m == memcpy(q.ext, s)
<1>8. /\ e \in ParserType /\ e.payload = <<>> /\ e.key_pos = 0 /\ e.len_offset = x
      /\ e.fin = f.fin /\ e.opcode = f.opcode /\ e.mask = masked /\ e.ext = m
  <2> HIDE DEF m
  <2>1. e = [q EXCEPT !.ext = m, !.len_offset = x]
    <3>1. 0 + x = x
      BY <1>6
    <3>2. e = [q EXCEPT !.ext = m, !.len_offset = q.len_offset + x]
      BY DEF m
    <3> QED
      BY <1>3, <3>1, <3>2, Zenon
  <2> HIDE DEF e
  <2>2. m \in [1..8 -> Byte]
    BY <1>7 DEF m
  <2> QED
    BY <1>3, <1>6, <2>1, <2>2 DEF ParserType
<1>9. r = [p |-> u, used |-> x, calls |-> <<>>]
  <2>1. r = [p |-> IF e.len_offset = size
                   THEN [e EXCEPT !.len = decode(SubSeq(e.ext, 1, size)), !.step = AfterLength(e)]
                   ELSE e,
             used |-> x, calls |-> <<>>]
    <3> DEFINE k == Min2(size - q.len_offset, Len(data))
               v(y) == [q EXCEPT !.ext = memcpy(@, SubSeq(data, 1, y)), !.len_offset = @ + y]
               turn(y) == [p |-> IF v(y).len_offset = size
                                 THEN [v(y) EXCEPT !.len = decode(SubSeq(v(y).ext, 1, size)),
                                                   !.step = AfterLength(v(y))]
                                 ELSE v(y),
                           used |-> y, calls |-> <<>>]
    <3>1. r = turn(k)
      BY DEF parse_extened_payload_len
    <3>2. k = x
      BY <1>5
    <3>3. v(x) = e
      OBVIOUS
    <3> HIDE DEF k, size, r, v, e
    <3>4. r = turn(x)
      BY <3>1, <3>2
    <3> QED
      BY <3>3, <3>4
  <2> HIDE DEF e, size, r
  <2> QED
    BY <1>5, <1>8, <2>1
<1>10. decode(t) = n
  <2> HIDE DEF m, e
  <2>1. m \in Seq(Byte) /\ Len(m) = 8
    <3>1. m \in [1..8 -> Byte] /\ 8 \in Nat
      BY <1>7 DEF m
    <3> QED
      BY <3>1, FieldIsSeq, Zenon
  <2>2. Len(t) = x /\ \A i \in 1..x : t[i] = m[i]
    <3>1. \A i \in 1..x : m[i] \in Byte
      BY <1>6, <1>7 DEF m
    <3>2. m \in [1..8 -> Byte]
      BY <1>7 DEF m
    <3>3. x <= Len(m)
      BY <1>6, <2>1
    <3> QED
      BY <1>6, <1>8, <2>1, <3>2, <3>3, Field
  <2>3. \A i \in 1..x : t[i] = Encoded(f)[2 + i]
    BY <1>7, <2>2 DEF m, x
  <2>4. /\ \A i \in 1..(x - 2) : Encoded(f)[2 + i] = 0
        /\ Encoded(f)[1 + x] = n \div 256 /\ Encoded(f)[2 + x] = n % 256
    <3>1. LengthSent(f)
      BY FrameBytes
    <3> QED
      BY <3>1 DEF LengthSent, x, n
  <2>5. x - 1 \in 1..x /\ x \in 1..x /\ 2 + (x - 1) = 1 + x /\ \A i \in 1..(x - 2) : i \in 1..x
    BY <1>6, <1>2
  <2>6. (\A i \in 1..(x - 2) : t[i] = 0) /\ t[x - 1] = n \div 256 /\ t[x] = n % 256
    BY <2>3, <2>4, <2>5
  <2> HIDE DEF t
  <2> QED
    <3>1. decode(t) = Min2(t[x - 1] * 256 + t[x], LengthCap)
      BY <1>2, <2>2, <2>6 DEF decode
    <3>2. t[x - 1] * 256 + t[x] = n
      <4> DEFINE a == t[x - 1]  b == t[x]
      <4>1. a = n \div 256 /\ b = n % 256
        BY <2>6
      <4> HIDE DEF a, b
      <4>2. a \in Nat /\ b \in Nat /\ n \in Nat
        BY <1>1, <4>1
      <4>3. a * 256 + b = n
        BY <4>1, <4>2, TwoBytes
      <4> QED
        BY <4>3 DEF a, b
    <3>3. LengthCap \in Int
      BY LengthCapAssumption
    <3> QED
      BY <1>1, <3>1, <3>2, <3>3 DEF Min2
<1>11. AfterLength(e) = (IF masked THEN "masking_key" ELSE "payload_data")
  BY <1>8 DEF AfterLength
<1>12. /\ u \in ParserType /\ u.payload = <<>> /\ u.key_pos = 0 /\ u.mask = masked
       /\ u.fin = f.fin /\ u.opcode = f.opcode /\ u.len = n
       /\ u.step = (IF masked THEN "masking_key" ELSE "payload_data")
  <2> HIDE DEF e, t
  <2>1. u = [e EXCEPT !.len = n, !.step = IF masked THEN "masking_key" ELSE "payload_data"]
    BY <1>10, <1>11
  <2> HIDE DEF u
  <2> QED
    BY <1>1, <1>8, <2>1 DEF ParserType
<1>13. /\ Size(f) = 2 + x + KeyLen(f) + n /\ HeaderLen(f) = 2 + x + KeyLen(f) /\ KeyStart(f) = 2 + x
       /\ KeyLen(f) = (IF masked THEN 4 ELSE 0)
  BY SizeIs DEF x, n, masked
<1> HIDE DEF u, r
<1>14. 2 + x < Size(f) /\ x \in 1..Len(data)
  BY <1>1, <1>6, <1>13
<1>15. At(u, f, 2 + x)
  <2>1. CASE masked
    <3>1. AtKey(u, f)
      BY <1>12, <2>1 DEF AtKey, n
    <3> QED
      BY <1>13, <2>1, <3>1 DEF At, masked
  <2>2. CASE ~masked
    <3>1. Len(u.payload) = 0 /\ 1..0 = {}
      BY <1>12
    <3>2. AtPayload(u, f, 0)
      BY <1>12, <2>2, <3>1 DEF AtPayload, n, masked
    <3>3. 2 + x = HeaderLen(f) + 0 /\ 0 \in 0..(n - 1)
      BY <1>1, <1>6, <1>13, <2>2
    <3> QED
      BY <3>2, <3>3 DEF At, n
  <2> QED
    BY <1>1, <2>1, <2>2
<1> QED
  BY <1>9, <1>14, <1>15 DEF Turned, r

\* So does the masking key.
LEMMA KeyTurn ==
    ASSUME NEW f \in Sendable, IsMasked(f), f.payload # <<>>, NEW q, AtKey(q, f),
           NEW data \in Seq(Byte), Len(data) >= 4,
           \A i \in 1..4 : data[i] = Encoded(f)[KeyStart(f) + i]
    PROVE  Turned(parse_masking_key(q, data), f, KeyStart(f), Len(data))
<1> DEFINE n == Len(f.payload)
           s == SubSeq(data, 1, 4)
           e == [q EXCEPT !.key = memcpy(@, s), !.key_pos = @ + 4]
           u == [e EXCEPT !.step = "payload_data"]
           r == parse_masking_key(q, data)
           m == memcpy(q.key, s)
<1>1. n \in Nat /\ n > 0
  BY FrameTyped
<1>2. /\ q \in ParserType /\ q.payload = <<>> /\ q.key_pos = 0
      /\ q.fin = f.fin /\ q.opcode = f.opcode /\ q.mask = TRUE /\ q.len = n
  BY DEF AtKey
<1>3. q.key \in [1..4 -> Byte] /\ 4 \in 1..4 /\ 4 \in Nat
  BY <1>2 DEF ParserType
<1>4. m \in [1..4 -> Byte] /\ \A i \in 1..4 : m[i] = data[i]
  BY <1>3, Field, Zenon
<1>5. m = MaskingKey
  <2>1. \A i \in 1..4 : data[i] = MaskingKey[i]
    <3>1. KeyStart(f) = 2 + ExtLen(f)
      BY SizeIs
    <3>2. \A i \in 1..4 : Encoded(f)[2 + ExtLen(f) + i] = MaskingKey[i]
      BY FrameBytes
    <3> QED
      BY <3>1, <3>2
  <2>2. MaskingKey = [i \in 1..4 |-> MaskingKey[i]]
    BY DEF MaskingKey
  <2> HIDE DEF m
  <2>3. m = [i \in 1..4 |-> m[i]] /\ \A i \in 1..4 : m[i] = MaskingKey[i]
    BY <1>4, <2>1
  <2> QED
    BY <2>2, <2>3
<1>6. e = [q EXCEPT !.key = MaskingKey, !.key_pos = 4]
  <2>1. 0 + 4 = 4
    OBVIOUS
  <2>2. e = [q EXCEPT !.key = m, !.key_pos = q.key_pos + 4]
    OBVIOUS
  <2> HIDE DEF m, e
  <2> QED
    BY <1>2, <1>5, <2>1, <2>2
<1>7. MaskingKey \in [1..4 -> Byte]
  BY <1>4, <1>5
<1> HIDE DEF m
<1>8. r = [p |-> u, used |-> 4, calls |-> <<>>]
  <2> DEFINE k == Min2(4 - q.key_pos, Len(data))
             v(y) == [q EXCEPT !.key = memcpy(@, SubSeq(data, 1, y)), !.key_pos = @ + y]
             turn(y) == [p |-> IF v(y).key_pos = 4 THEN [v(y) EXCEPT !.step = "payload_data"] ELSE v(y),
                         used |-> y, calls |-> <<>>]
  <2>1. r = turn(k)
    BY DEF parse_masking_key
  <2>2. k = 4
    <3>1. 4 - q.key_pos = 4
      BY <1>2
    <3>2. ~(4 < Len(data)) => Len(data) = 4
      <4> DEFINE d == Len(data)
      <4>1. d \in Nat /\ d >= 4
        OBVIOUS
      <4> HIDE DEF d, e, k, v, turn
      <4>2. ~(4 < d) => d = 4
        BY <4>1
      <4> QED
        BY <4>2 DEF d
    <3>3. k = IF 4 < Len(data) THEN 4 ELSE Len(data)
      BY <3>1 DEF Min2
    <3> HIDE DEF k
    <3> QED
      BY <3>2, <3>3
  <2>3. v(4) = e
    OBVIOUS
  <2> HIDE DEF k, r, v, e
  <2>4. r = turn(4)
    BY <2>1, <2>2
  <2>5. e.key_pos = 4
    BY <1>2, <1>6 DEF ParserType
  <2> QED
    BY <2>3, <2>4, <2>5
<1> HIDE DEF e
<1>9. /\ u \in ParserType /\ u.payload = <<>> /\ u.mask = TRUE /\ u.key = MaskingKey
      /\ u.fin = f.fin /\ u.opcode = f.opcode /\ u.len = n /\ u.step = "payload_data"
  BY <1>2, <1>6, <1>7 DEF ParserType
<1> HIDE DEF u, r
<1>10. /\ Size(f) = HeaderLen(f) + n /\ HeaderLen(f) = KeyStart(f) + 4 /\ KeyStart(f) \in Nat
  <2>1. /\ Size(f) = 2 + ExtLen(f) + KeyLen(f) + n /\ HeaderLen(f) = 2 + ExtLen(f) + KeyLen(f)
        /\ KeyStart(f) = 2 + ExtLen(f) /\ ExtLen(f) \in Nat /\ KeyLen(f) = 4
    BY SizeIs
  <2> HIDE DEF n
  <2> QED
    BY <1>1, <2>1
<1>11. AtPayload(u, f, 0)
  <2>1. Len(u.payload) = 0 /\ 1..0 = {} /\ 0 % 4 = 0
    BY <1>9
  <2>2. IsMasked(f) = TRUE
    BY FrameTyped DEF IsMasked
  <2> QED
    BY <1>9, <2>1, <2>2 DEF AtPayload, n
<1>12. /\ KeyStart(f) + 4 = HeaderLen(f) + 0 /\ 0 \in 0..(n - 1) /\ 4 \in 1..Len(data)
       /\ KeyStart(f) + 4 < Size(f)
  BY <1>1, <1>10
<1>13. At(u, f, KeyStart(f) + 4)
  BY <1>11, <1>12 DEF At, n
<1> QED
  BY <1>8, <1>12, <1>13 DEF Turned, r

\* The key is in step with the payload behind a multiple of four bytes.
LEMMA Unmasked ==
    ASSUME NEW m \in Nat, m % 4 = 0, NEW i \in Nat, i > 0
    PROVE  (m + i - 1) % 4 = (i - 1) % 4 /\ ((i - 1) % 4) + 1 \in 1..4
  OBVIOUS

\* The payload may arrive in pieces.
LEMMA PayloadTurn ==
    ASSUME NEW f \in Sendable, NEW m \in 0..(Len(f.payload) - 1), NEW q, AtPayload(q, f, m),
           NEW data \in Seq(Byte), Len(data) >= 1,
           \A i \in 1..Len(data) : m + i <= Len(f.payload) => data[i] = Encoded(f)[HeaderLen(f) + m + i],
           IsMasked(f) => m + Len(data) >= Len(f.payload) \/ (m + Len(data)) % 4 = 0
    PROVE  Turned(parse_payload(q, data), f, HeaderLen(f) + m, Len(data))
<1> DEFINE len == Len(f.payload)
           d == Len(data)
           n == Min2(len - m, d)
           masked == IsMasked(f)
           byte(i) == IF q.mask THEN XOR(data[i], q.key[((i - 1) % 4) + 1]) ELSE data[i]
           part == [i \in 1..n |-> byte(i)]
           e == [q EXCEPT !.payload = @ \o part]
           r == parse_payload(q, data)
<1>1. len \in Nat /\ f.payload \in Seq(Byte) /\ DOMAIN f.payload = 1..len /\ masked \in BOOLEAN
  BY FrameTyped DEF IsMasked
<1>2. d \in Nat /\ d >= 1 /\ m \in Nat /\ m < len
  <2>1. d \in Nat
    OBVIOUS
  <2> HIDE DEF len
  <2>2. m \in 0..(len - 1)
    BY DEF len
  <2> QED
    BY <1>1, <2>1, <2>2
<1>3. /\ q \in ParserType /\ q.fin = f.fin /\ q.opcode = f.opcode /\ q.mask = masked /\ q.len = len
      /\ Len(q.payload) = m /\ (\A i \in 1..m : q.payload[i] = f.payload[i])
      /\ (masked => q.key = MaskingKey /\ m % 4 = 0)
      /\ q.step = "payload_data"
  BY DEF AtPayload
<1>4. \A i \in 1..d : m + i <= len => data[i] = Encoded(f)[HeaderLen(f) + m + i]
  OBVIOUS
<1>5. masked => m + d >= len \/ (m + d) % 4 = 0
  OBVIOUS
<1> HIDE DEF len, d, masked
<1>6. n \in Nat /\ n >= 1 /\ n <= d /\ m + n <= len /\ (n = d \/ m + n = len)
  BY <1>1, <1>2 DEF Min2
<1> HIDE DEF n
<1>7. ASSUME NEW i \in 1..n PROVE byte(i) = f.payload[m + i] /\ byte(i) \in Byte
  <2>1. i \in 1..d /\ m + i <= len /\ m + i \in 1..len /\ i \in Nat /\ i > 0
    <3>1. i \in Nat /\ i >= 1 /\ i <= n /\ len \in Nat
      BY <1>1, <1>6
    <3> HIDE DEF byte
    <3> QED
      BY <1>2, <1>6, <3>1
  <2>2. data[i] = Encoded(f)[HeaderLen(f) + m + i]
    BY <1>4, <2>1
  <2>3. HeaderLen(f) + m + i = 2 + ExtLen(f) + KeyLen(f) + (m + i)
    <3>1. HeaderLen(f) = 2 + ExtLen(f) + KeyLen(f) /\ ExtLen(f) \in Nat /\ KeyLen(f) \in Nat
      BY SizeIs
    <3> QED
      BY <1>2, <2>1, <3>1
  <2>4. data[i] = IF masked THEN Masked(f.payload)[m + i] ELSE f.payload[m + i]
    <3>1. \A j \in 1..len : Encoded(f)[2 + ExtLen(f) + KeyLen(f) + j]
                            = IF masked THEN Masked(f.payload)[j] ELSE f.payload[j]
      BY FrameBytes DEF len, masked
    <3> QED
      BY <2>1, <2>2, <2>3, <3>1
  <2>5. f.payload[m + i] \in Byte
    BY <1>1, <2>1, ElementOfSeq, Zenon DEF len
  <2>6. CASE masked
    <3> DEFINE k == ((i - 1) % 4) + 1
    <3>1. (m + i - 1) % 4 = (i - 1) % 4 /\ k \in 1..4
      BY <1>2, <1>3, <2>1, <2>6, Unmasked
    <3>2. Masked(f.payload)[m + i] = XOR(f.payload[m + i], MaskingKey[k])
      <4>1. \A j \in 1..len : Masked(f.payload)[j] = XOR(f.payload[j], MaskingKey[((j - 1) % 4) + 1])
        BY MaskedIs DEF len
      <4> QED
        BY <2>1, <3>1, <4>1
    <3> HIDE DEF k
    <3>3. XOR(XOR(f.payload[m + i], MaskingKey[k]), MaskingKey[k]) = f.payload[m + i]
      BY <2>5, <3>1, XorAssumption
    <3>4. byte(i) = XOR(data[i], MaskingKey[k])
      BY <1>3, <2>6 DEF k
    <3> HIDE DEF byte
    <3> QED
      BY <2>4, <2>5, <2>6, <3>2, <3>3, <3>4
  <2>7. CASE ~masked
    <3>1. byte(i) = data[i]
      BY <1>3, <2>7
    <3> HIDE DEF byte
    <3> QED
      BY <2>4, <2>5, <2>7, <3>1
  <2> QED
    BY <1>1, <2>6, <2>7
<1> HIDE DEF byte
<1>8. part \in Seq(Byte) /\ Len(part) = n /\ \A i \in 1..n : part[i] = f.payload[m + i]
  <2>1. part \in [1..n -> Byte]
    BY <1>7
  <2>2. \A i \in 1..n : part[i] = f.payload[m + i]
    BY <1>7
  <2> HIDE DEF part
  <2> QED
    BY <1>6, <2>1, <2>2, FieldIsSeq, Zenon
<1> DEFINE w == q.payload \o part
<1>9. /\ w \in Seq(Byte) /\ Len(w) = m + n /\ \A i \in 1..(m + n) : w[i] = f.payload[i]
  <2> HIDE DEF part
  <2>1. q.payload \in Seq(Byte)
    BY <1>3 DEF ParserType
  <2>2. /\ w \in Seq(Byte) /\ Len(w) = Len(q.payload) + Len(part)
        /\ \A i \in 1..(Len(q.payload) + Len(part)) :
               w[i] = IF i <= Len(q.payload) THEN q.payload[i] ELSE part[i - Len(q.payload)]
    BY <1>8, <2>1, ConcatProperties, Zenon
  <2> HIDE DEF w
  <2>3. Len(w) = m + n /\ \A i \in 1..(m + n) : w[i] = IF i <= m THEN q.payload[i] ELSE part[i - m]
    BY <1>3, <1>8, <2>2
  <2>4. ASSUME NEW i \in 1..(m + n) PROVE w[i] = f.payload[i]
    <3>1. CASE i <= m
      <4>1. i \in 1..m
        BY <3>1, <1>2, <1>6
      <4> QED
        BY <1>3, <2>3, <3>1, <4>1
    <3>2. CASE ~(i <= m)
      <4>1. i - m \in 1..n /\ m + (i - m) = i
        BY <3>2, <1>2, <1>6
      <4> QED
        BY <1>8, <2>3, <3>2, <4>1
    <3> QED
      BY <3>1, <3>2
  <2> QED
    BY <2>2, <2>3, <2>4
<1>10. e = [q EXCEPT !.payload = w]
  OBVIOUS
<1> HIDE DEF e, w
<1>11. /\ e \in ParserType /\ e.step = "payload_data" /\ e.fin = f.fin /\ e.opcode = f.opcode
       /\ e.mask = masked /\ e.len = len /\ e.payload = w /\ e.key = q.key
  BY <1>3, <1>9, <1>10 DEF ParserType
<1>12. r = IF Len(e.payload) = e.len
           THEN [p |-> reset_parser, used |-> n,
                 calls |-> <<[payload |-> e.payload, opcode |-> e.opcode, fin |-> e.fin]>>]
           ELSE [p |-> e, used |-> n, calls |-> <<>>]
  <2> DEFINE k == Min2(q.len - Len(q.payload), Len(data))
             v(y) == [q EXCEPT !.payload = @ \o [i \in 1..y |-> byte(i)]]
             turn(y) == IF Len(v(y).payload) = v(y).len
                        THEN [p |-> reset_parser, used |-> y,
                              calls |-> <<[payload |-> v(y).payload, opcode |-> v(y).opcode,
                                           fin |-> v(y).fin]>>]
                        ELSE [p |-> v(y), used |-> y, calls |-> <<>>]
  <2>1. r = turn(k)
    BY DEF parse_payload, byte
  <2>2. k = n
    BY <1>3 DEF n, d
  <2>3. v(n) = e
    BY DEF e
  <2> HIDE DEF k, r, v
  <2>4. r = turn(n)
    BY <2>1, <2>2
  <2> QED
    BY <2>3, <2>4
<1> HIDE DEF r
<1>13. Size(f) = HeaderLen(f) + len /\ HeaderLen(f) \in Nat
  BY SizeIs DEF len
<1>14. n \in 1..d
  BY <1>2, <1>6
<1>15. CASE m + n = len
  <2>1. w = f.payload
    <3>1. Len(w) = Len(f.payload)
      BY <1>9, <1>15 DEF len
    <3> QED
      BY <1>1, <1>9, <1>15, <3>1, SeqEqual, Zenon DEF len
  <2>2. Len(e.payload) = e.len
    BY <1>9, <1>11, <1>15
  <2>3. r = [p |-> reset_parser, used |-> n,
             calls |-> <<[payload |-> f.payload, opcode |-> f.opcode, fin |-> f.fin]>>]
    BY <1>11, <1>12, <2>1, <2>2
  <2>4. r.calls = <<Report(f)>> /\ r.p = reset_parser /\ r.used = n
    BY <2>3 DEF Report
  <2>5. HeaderLen(f) + m + n = Size(f)
    BY <1>2, <1>6, <1>13, <1>15
  <2> QED
    BY <1>14, <2>4, <2>5 DEF Turned, r, d
<1>16. CASE m + n # len
  <2>1. n = d /\ m + n < len
    <3>1. n = d /\ n \in Nat /\ len \in Nat /\ m + n <= len /\ m + n # len
      BY <1>1, <1>6, <1>16, Zenon
    <3> QED
      BY <1>2, <3>1
  <2>2. Len(e.payload) # e.len
    BY <1>9, <1>11, <1>16
  <2>3. r.p = e /\ r.used = n /\ r.calls = <<>>
    BY <1>12, <2>2
  <2>4. masked => (m + n) % 4 = 0
    BY <1>1, <1>2, <1>5, <2>1
  <2>5. AtPayload(e, f, m + n)
    BY <1>3, <1>9, <1>11, <2>4 DEF AtPayload, masked, len
  <2>6. m + n \in 0..(len - 1) /\ HeaderLen(f) + m + n = HeaderLen(f) + (m + n)
        /\ HeaderLen(f) + m + n < Size(f)
    BY <1>1, <1>2, <1>6, <1>13, <2>1
  <2>7. At(e, f, HeaderLen(f) + m + n)
    BY <2>5, <2>6 DEF At, len
  <2> QED
    BY <1>14, <2>3, <2>6, <2>7 DEF Turned, r, d
<1> QED
  BY <1>15, <1>16

\* A turn of the loop inside a frame, with the bytes at hand.
LEMMA FrameTurn ==
    ASSUME NEW f \in Sendable, NEW o \in Nat, NEW q, At(q, f, o),
           NEW data \in Seq(Byte), Len(data) >= 1,
           \A i \in 1..Len(data) : o + i <= Size(f) => data[i] = Encoded(f)[o + i],
           o + Len(data) < Size(f) => ~BadCut(f, o + Len(data)),
           IsMasked(f) /\ f.payload = <<>> => o + Len(data) < 2
    PROVE  Turned(Step(q, data), f, o, Len(data))
<1> DEFINE d == Len(data)
           n == Len(f.payload)
           x == ExtLen(f)
           k == KeyLen(f)
           z == Size(f)
<1>1. /\ z = 2 + x + k + n /\ HeaderLen(f) = 2 + x + k /\ KeyStart(f) = 2 + x
      /\ x \in {0, 2, 8} /\ k = (IF IsMasked(f) THEN 4 ELSE 0) /\ n \in Nat
  BY SizeIs
<1>2. d \in Nat /\ d >= 1
  OBVIOUS
<1>3. \A i \in 1..d : o + i <= z => data[i] = Encoded(f)[o + i]
  OBVIOUS
<1>4. o + d < z => ~BadCut(f, o + d)
  OBVIOUS
<1>5. (f.payload = <<>> <=> n = 0) /\ (FormOf(f) # 7 => n > 0 /\ x # 0)
  BY FrameTyped, EmptySeq DEF ExtLen, ExtLenOf
<1>6. IsMasked(f) /\ f.payload = <<>> => o + d < 2
  OBVIOUS
<1> HIDE DEF d, n, x, k, z
<1>7. CASE o = 0 /\ q = reset_parser
  <2>1. 1 \in 1..d /\ 0 + 1 <= z /\ 0 + 1 = 1
    BY <1>1, <1>2
  <2>2. data[1] = Encoded(f)[1]
    BY <1>3, <1>7, <2>1
  <2>3. Step(q, data) = parse_fixed_header(reset_parser, data)
    BY <1>7 DEF Step, reset_parser
  <2> QED
    BY <1>7, <2>2, <2>3, HeaderTurn
<1>8. CASE o = 1 /\ AtLength(q, f)
  <2>1. 1 \in 1..d /\ 1 + 1 <= z /\ 1 + 1 = 2 /\ ~(1 + d < 2)
    BY <1>1, <1>2
  <2>2. data[1] = Encoded(f)[2]
    BY <1>3, <1>8, <2>1
  <2>3. Step(q, data) = parse_payload_len(q, data)
    BY <1>8 DEF Step, AtLength
  <2>4. IsMasked(f) => f.payload # <<>>
    BY <1>6, <1>8, <2>1
  <2> QED
    BY <1>8, <2>2, <2>3, <2>4, LengthTurn
<1>9. CASE o = 2 /\ FormOf(f) # 7 /\ AtExtended(q, f)
  <2>1. d >= x
    <3>1. CASE 2 + d < z
      <4>1. ~(2 + d > 2 /\ 2 + d < 2 + x)
        BY <1>1, <1>4, <1>9, <3>1 DEF BadCut
      <4> QED
        BY <1>1, <1>2, <4>1
    <3>2. CASE ~(2 + d < z)
      BY <1>1, <1>2, <3>2
    <3> QED
      BY <3>1, <3>2
  <2>2. \A i \in 1..x : i \in 1..d /\ 2 + i <= z
    BY <1>1, <1>2, <2>1
  <2>3. \A i \in 1..x : data[i] = Encoded(f)[2 + i]
    BY <1>3, <1>9, <2>2
  <2>4. Step(q, data) = parse_extened_payload_len(q, data)
    BY <1>9 DEF Step, AtExtended
  <2> QED
    BY <1>9, <2>1, <2>3, <2>4, ExtendedTurn DEF d, x
<1>10. CASE o = KeyStart(f) /\ IsMasked(f) /\ AtKey(q, f)
  <2>0. k = 4 /\ o = 2 + x
    BY <1>1, <1>10
  <2>1. d >= 4
    <3>1. CASE o + d < z
      <4>1. ~(o + d > KeyStart(f) /\ o + d < HeaderLen(f))
        BY <1>4, <3>1 DEF BadCut
      <4> QED
        BY <1>1, <1>2, <2>0, <4>1
    <3>2. CASE ~(o + d < z)
      BY <1>1, <1>2, <2>0, <3>2
    <3> QED
      BY <3>1, <3>2
  <2>2. \A i \in 1..4 : i \in 1..d /\ o + i <= z
    BY <1>1, <1>2, <2>0, <2>1
  <2>3. \A i \in 1..4 : data[i] = Encoded(f)[KeyStart(f) + i]
    BY <1>3, <1>10, <2>2
  <2>4. Step(q, data) = parse_masking_key(q, data)
    BY <1>10 DEF Step, AtKey
  <2>5. f.payload # <<>>
    <3>1. ~(o + d < 2)
      BY <1>1, <1>2, <2>0
    <3> QED
      BY <1>6, <1>10, <3>1
  <2> QED
    BY <1>10, <2>1, <2>3, <2>4, <2>5, KeyTurn DEF d
<1>11. CASE \E m \in 0..(n - 1) : o = HeaderLen(f) + m /\ AtPayload(q, f, m)
  <2>1. PICK m \in 0..(n - 1) : o = HeaderLen(f) + m /\ AtPayload(q, f, m)
    BY <1>11
  <2>2. HeaderLen(f) \in Nat /\ m \in Nat /\ m < n /\ z = HeaderLen(f) + n
    BY <1>1
  <2>3. ASSUME NEW i \in 1..d, m + i <= n PROVE data[i] = Encoded(f)[HeaderLen(f) + m + i]
    <3>1. o + i <= z /\ o + i = HeaderLen(f) + m + i
      BY <1>1, <1>2, <2>1, <2>2, <2>3
    <3> QED
      BY <1>3, <3>1
  <2>4. ASSUME IsMasked(f), ~(m + d >= n) PROVE (m + d) % 4 = 0
    <3> DEFINE h == HeaderLen(f)
    <3>0. h \in Nat /\ m \in Nat /\ m < n /\ z = h + n /\ o = h + m /\ n \in Nat /\ ~(m + d >= n)
      BY <1>1, <2>1, <2>2, <2>4
    <3> HIDE DEF h
    <3>2. o + d < z /\ o + d > h /\ (o + d) - h = m + d
      BY <1>2, <3>0
    <3>1. o + d < z /\ o + d > HeaderLen(f) /\ (o + d) - HeaderLen(f) = m + d
      BY <3>2 DEF h
    <3> QED
      BY <1>4, <2>4, <3>1 DEF BadCut
  <2>5. Step(q, data) = parse_payload(q, data)
    BY <2>1 DEF Step, AtPayload
  <2> QED
    BY <2>1, <2>3, <2>4, <2>5, PayloadTurn DEF d, n
<1> QED
  BY <1>7, <1>8, <1>9, <1>10, <1>11 DEF At, n

-------------------------------------------------------------------------------
(* The invariant *)

\* None of the first frames has a callback that throws.
Quiet(i) == \A j \in 1..i : frames[j].opcode \notin Throws
Reports(i) == [j \in 1..i |-> Report(frames[j])]

\* The first i frames have been reported, and the parser is in the next one or
\* between two frames.
ParsedTo(i) ==
    LET o == parsed - End(i)
    IN  /\ o \in Nat
        /\ out = Reports(i) /\ Quiet(i)
        /\ \/ o = 0 /\ p = reset_parser
           \/ i < Len(frames) /\ o < Size(frames[i + 1]) /\ At(p, frames[i + 1], o)

\* The callback of frame i has thrown.
RefusedAt(i) == /\ End(i) <= pos /\ out = Reports(i)
                /\ Quiet(i - 1) /\ frames[i].opcode \in Throws

StreamInv ==
    /\ frames \in Seq(Sendable) /\ refused \in BOOLEAN /\ spoilt \in BOOLEAN
    /\ ~spoilt => /\ pos \in Nat /\ pos <= Len(Stream)
                  /\ parsed \in Nat /\ parsed <= pos
                  /\ ~SpoiledBy(pos)
                  /\ ~refused => \E i \in 0..Len(frames) : ParsedTo(i)
                  /\ refused => \E i \in 1..Len(frames) : RefusedAt(i)

LEMMA FrameInitial == FrameInit => StreamInv
<1> SUFFICES ASSUME FrameInit PROVE StreamInv
  OBVIOUS
<1>1. frames \in Seq(Sendable) /\ Len(frames) \in Nat
  <2>1. frames \in Seq(FrameType) /\ \A i \in DOMAIN frames : CanBeSent(frames[i])
    BY FrameStreamsAssumption DEF FrameInit
  <2>2. Len(frames) \in Nat /\ DOMAIN frames = 1..Len(frames)
    BY <2>1, LenProperties, Zenon
  <2>3. \A i \in 1..Len(frames) : frames[i] \in Sendable
    <3> TAKE i \in 1..Len(frames)
    <3>1. frames[i] \in FrameType
      BY <2>1, ElementOfSeq, Zenon
    <3> QED
      BY <2>1, <2>2, <3>1 DEF Sendable
  <2>4. frames = [i \in 1..Len(frames) |-> frames[i]]
    BY <2>1
  <2>5. frames \in [1..Len(frames) -> Sendable]
    BY <2>3, <2>4
  <2> QED
    BY <2>2, <2>5
<1>2. pos = 0 /\ parsed = 0 /\ p = reset_parser /\ out = <<>> /\ refused = FALSE /\ spoilt = FALSE
  BY DEF FrameInit
<1>3. End(0) = 0 /\ Len(Stream) \in Nat /\ \A i \in 1..Len(frames) : End(i - 1) \in Nat
  <2>1. Len(Stream) \in Nat
    BY <1>1, Ends, LenProperties, Zenon
  <2> QED
    BY <1>1, <2>1, Ends
<1>4. ~SpoiledBy(0)
  <2> SUFFICES ASSUME NEW i \in DOMAIN frames PROVE ~(0 - End(i - 1) > 0) /\ ~(0 - End(i - 1) >= 2)
    BY DEF SpoiledBy
  <2>1. i \in 1..Len(frames)
    BY <1>1, LenProperties, Zenon
  <2>2. End(i - 1) \in Nat
    BY <1>3, <2>1
  <2> DEFINE e == End(i - 1)
  <2> HIDE DEF e
  <2>3. e \in Nat
    BY <2>2 DEF e
  <2>4. ~(0 - e > 0) /\ ~(0 - e >= 2)
    BY <2>3
  <2> QED
    BY <2>4 DEF e
<1>5. ParsedTo(0)
  <2>1. parsed - End(0) = 0
    BY <1>2, <1>3
  <2>2. Reports(0) = <<>> /\ Quiet(0)
    BY DEF Reports, Quiet
  <2> QED
    BY <1>2, <2>1, <2>2 DEF ParsedTo
<1>6. 0 \in 0..Len(frames)
  BY <1>1
<1>7. ~SpoiledBy(pos) /\ pos \in Nat /\ parsed \in Nat /\ pos <= Len(Stream) /\ parsed <= pos
  BY <1>2, <1>3, <1>4
<1>8. refused \in BOOLEAN /\ spoilt \in BOOLEAN /\ ~refused
  BY <1>2
<1> QED
  BY <1>1, <1>5, <1>6, <1>7, <1>8, Zenon DEF StreamInv

\* A read leaves the parser alone.
LEMMA ReadStep ==
    ASSUME StreamInv, NEW k \in 1..(Len(Stream) - pos), Read(k)
    PROVE  StreamInv'
<1>1. /\ frames \in Seq(Sendable) /\ ~refused /\ ~spoilt /\ parsed = pos
      /\ pos \in Nat /\ parsed \in Nat /\ pos <= Len(Stream)
      /\ \E i \in 0..Len(frames) : ParsedTo(i)
  BY DEF StreamInv, Read
<1>2. /\ frames' = frames /\ parsed' = parsed /\ p' = p /\ out' = out /\ refused' = refused
      /\ pos' = pos + k /\ spoilt' = SpoiledBy(pos + k)
  BY DEF Read
<1>3. Stream' = Stream /\ \A i : End(i)' = End(i)
  BY <1>2, StreamKept
<1>4. Len(Stream) \in Nat
  BY <1>1, Ends, LenProperties, Zenon
<1>5. pos' \in Nat /\ pos' <= Len(Stream)' /\ parsed' \in Nat /\ parsed' <= pos'
  <2> DEFINE l == Len(Stream)
  <2>1. l \in Nat /\ k \in 1..(l - pos) /\ Len(Stream)' = l
    BY <1>3, <1>4
  <2> HIDE DEF l
  <2> QED
    BY <1>1, <1>2, <2>1
<1>6. SpoiledBy(pos)' = SpoiledBy(pos + k)
  BY <1>2, <1>3 DEF SpoiledBy
<1>7. spoilt' \in BOOLEAN
  BY <1>2 DEF SpoiledBy
<1>8. PICK i \in 0..Len(frames) : ParsedTo(i)
  BY <1>1
<1>9. ParsedTo(i)'
  BY <1>2, <1>3, <1>8 DEF ParsedTo, Reports, Quiet
<1>10. /\ frames' \in Seq(Sendable) /\ refused' \in BOOLEAN /\ ~refused'
       /\ i \in 0..Len(frames)'
  <2>1. refused \in BOOLEAN
    BY DEF StreamInv
  <2>2. Len(frames)' = Len(frames)
    BY <1>2
  <2> QED
    BY <1>1, <1>2, <1>8, <2>1, <2>2, Zenon
<1> QED
  BY <1>2, <1>5, <1>6, <1>7, <1>9, <1>10 DEF StreamInv

\* A turn of the loop.
LEMMA ParseStep ==
    ASSUME StreamInv, Parse
    PROVE  StreamInv'
<1> DEFINE data == SubSeq(Stream, parsed + 1, pos)
           r == Step(p, data)
           d == pos - parsed
<1>1. /\ frames' = frames /\ pos' = pos /\ spoilt' = spoilt
      /\ parsed' = parsed + r.used /\ p' = r.p /\ out' = out \o r.calls
      /\ refused' = \E i \in DOMAIN r.calls : r.calls[i].opcode \in Throws
      /\ ~refused /\ parsed < pos
  BY DEF Parse
<1>2. /\ frames \in Seq(Sendable) /\ Len(frames) \in Nat /\ spoilt \in BOOLEAN
  BY DEF StreamInv
<1>3. refused' \in BOOLEAN /\ frames' \in Seq(Sendable) /\ spoilt' \in BOOLEAN
  <2> HIDE DEF r
  <2> QED
    BY <1>1, <1>2
<1>4. CASE spoilt
  BY <1>1, <1>3, <1>4 DEF StreamInv
<1>5. CASE ~spoilt
  <2>1. /\ pos \in Nat /\ pos <= Len(Stream) /\ parsed \in Nat /\ ~SpoiledBy(pos)
        /\ \E i \in 0..Len(frames) : ParsedTo(i)
    BY <1>1, <1>5 DEF StreamInv
  <2>2. PICK i \in 0..Len(frames) : ParsedTo(i)
    BY <2>1
  <2> DEFINE o == parsed - End(i)
             f == frames[i + 1]
  <2>3. /\ Stream \in Seq(Byte) /\ Len(Stream) = End(Len(frames)) /\ Len(Stream) \in Nat
    BY <1>2, Ends, LenProperties, Zenon
  <2>4. End(i) \in Nat
    BY <1>2, BytesTyped
  <2>5. o \in Nat /\ out = Reports(i) /\ Quiet(i) /\ parsed = End(i) + o
    <3>1. o \in Nat /\ out = Reports(i) /\ Quiet(i)
      BY <2>2 DEF ParsedTo
    <3>2. parsed = End(i) + o
      BY <2>1, <2>4
    <3> QED
      BY <3>1, <3>2
  <2>6. i < Len(frames)
    <3>1. CASE i = Len(frames)
      <4>1. End(i) = Len(Stream)
        BY <2>3, <3>1
      <4> QED
        BY <1>1, <2>1, <2>3, <2>4, <2>5, <4>1
    <3> QED
      BY <1>2, <3>1
  <2>7. i + 1 \in 1..Len(frames) /\ (i + 1) - 1 = i
    BY <1>2, <2>6
  <2>8. f \in Sendable /\ End(i + 1) = End(i) + Size(f) /\ End(i + 1) \in Nat
    BY <1>2, <2>7, Ends
  <2>9. Size(f) \in Nat /\ Size(f) >= 2
    BY <2>8, SizeIs
  <2>10. o < Size(f) /\ At(p, f, o)
    BY <2>2, <2>9 DEF ParsedTo, At
  <2>11. data \in Seq(Byte) /\ Len(data) = d /\ \A j \in 1..d : data[j] = Stream[parsed + j]
    <3>1. \A j \in (parsed + 1)..pos : Stream[j] \in Byte
      <4> TAKE j \in (parsed + 1)..pos
      <4>1. j \in 1..Len(Stream)
        BY <2>1, <2>3
      <4> QED
        BY <2>3, <4>1, ElementOfSeq, Zenon
    <3>2. data = [j \in 1..d |-> Stream[parsed + j]]
      <4>1. SubSeq(Stream, parsed + 1, pos)
              = [j \in 1..(pos - (parsed + 1) + 1) |-> Stream[j + (parsed + 1) - 1]]
        BY <2>1
      <4>2. pos - (parsed + 1) + 1 = d /\ \A j \in 1..d : j + (parsed + 1) - 1 = parsed + j
        BY <2>1
      <4> QED
        BY <4>1, <4>2
    <3>3. d \in Nat /\ \A j \in 1..d : parsed + j \in (parsed + 1)..pos
      BY <1>1, <2>1
    <3> HIDE DEF data, d
    <3>4. data \in [1..d -> Byte]
      BY <3>1, <3>2, <3>3
    <3>5. \A j \in 1..d : data[j] = Stream[parsed + j]
      BY <3>2
    <3> QED
      BY <3>3, <3>4, <3>5, FieldIsSeq, Zenon
  <2>12. d \in Nat /\ d >= 1 /\ o + d = pos - End(i)
    BY <1>1, <2>1, <2>4, <2>5
  <2> HIDE DEF data, d, r, o, f
  <2>13. ASSUME NEW j \in 1..d, o + j <= Size(f) PROVE data[j] = Encoded(f)[o + j]
    <3>1. o + j \in 1..Size(f) /\ parsed + j = End(i) + (o + j)
      BY <2>4, <2>5, <2>9, <2>12, <2>13
    <3>2. Stream[End((i + 1) - 1) + (o + j)] = Encoded(frames[i + 1])[o + j]
      BY <1>2, <2>7, <3>1, StreamHolds DEF f
    <3> QED
      BY <2>7, <2>11, <3>1, <3>2 DEF f
  <2>14. i + 1 \in DOMAIN frames
    BY <1>2, <2>7, LenProperties, Zenon
  <2>15. o + d < Size(f) => ~BadCut(f, o + d)
    <3> SUFFICES ASSUME o + d < Size(f) PROVE ~BadCut(f, o + d)
      OBVIOUS
    <3>1. pos - End((i + 1) - 1) = o + d /\ o + d > 0 /\ pos < End(i + 1)
      BY <2>1, <2>4, <2>5, <2>7, <2>8, <2>9, <2>12
    <3> QED
      BY <2>1, <2>14, <3>1 DEF SpoiledBy, f
  <2>16. IsMasked(f) /\ f.payload = <<>> => o + d < 2
    <3> SUFFICES ASSUME IsMasked(f), f.payload = <<>>, ~(o + d < 2) PROVE FALSE
      OBVIOUS
    <3>1. pos - End((i + 1) - 1) = o + d /\ o + d >= 2
      BY <2>5, <2>7, <2>12
    <3> QED
      BY <2>1, <2>14, <3>1 DEF SpoiledBy, f
  <2>17. Turned(r, f, o, d)
    <3>1. Turned(Step(p, data), f, o, Len(data))
      <4>1. Len(data) = d /\ Len(data) >= 1
        BY <2>11, <2>12
      <4>2. \A j \in 1..Len(data) : o + j <= Size(f) => data[j] = Encoded(f)[o + j]
        BY <2>13, <4>1
      <4>3. o + Len(data) < Size(f) => ~BadCut(f, o + Len(data))
        BY <2>15, <4>1
      <4>4. IsMasked(f) /\ f.payload = <<>> => o + Len(data) < 2
        BY <2>16, <4>1
      <4> QED
        BY <2>5, <2>8, <2>10, <2>11, <4>1, <4>2, <4>3, <4>4, FrameTurn
    <3> QED
      BY <2>11, <3>1 DEF r
  <2>18. r.used \in 1..d
    BY <2>17 DEF Turned
  <2>19. parsed' \in Nat /\ parsed' <= pos /\ parsed' = End(i) + (o + r.used)
    <3> DEFINE u == r.used
    <3>1. u \in 1..d /\ parsed' = parsed + u
      BY <1>1, <2>18
    <3> HIDE DEF u
    <3>2. d = pos - parsed
      BY DEF d
    <3>3. parsed + u \in Nat /\ parsed + u <= pos /\ parsed + u = End(i) + (o + u)
      <4> DEFINE e == End(i)
      <4>1. e \in Nat /\ parsed = e + o /\ parsed \in Nat /\ pos \in Nat /\ o \in Nat
        BY <2>1, <2>4, <2>5
      <4> HIDE DEF e
      <4>2. parsed + u \in Nat /\ parsed + u <= pos /\ parsed + u = e + (o + u)
        BY <2>12, <3>1, <3>2, <4>1
      <4> QED
        BY <4>2 DEF e
    <3> QED
      BY <3>1, <3>3 DEF u
  <2>20. /\ Stream' = Stream /\ (\A j : End(j)' = End(j)) /\ ~SpoiledBy(pos)'
         /\ \A j : Reports(j)' = Reports(j) /\ Quiet(j)' = Quiet(j)
    <3>1. Stream' = Stream /\ \A j : End(j)' = End(j)
      BY <1>1, StreamKept
    <3> QED
      BY <1>1, <2>1, <3>1 DEF SpoiledBy, Reports, Quiet
  <2>21. (~refused' => \E j \in 0..Len(frames) : ParsedTo(j)')
         /\ (refused' => \E j \in 1..Len(frames) : RefusedAt(j)')
    <3>1. CASE o + r.used < Size(f) /\ r.calls = <<>> /\ At(r.p, f, o + r.used)
      <4>1. out' = out /\ ~refused'
        <5>1. out \in Seq({out[j] : j \in 1..i})
          <6>1. out = [j \in 1..i |-> Report(frames[j])] /\ i \in Nat
            BY <1>2, <2>5 DEF Reports
          <6> HIDE DEF Report
          <6> QED
            BY <6>1
        <5>2. out \o <<>> = out
          BY <5>1, ConcatEmptySeq, Zenon
        <5>3. DOMAIN <<>> = {}
          OBVIOUS
        <5> QED
          BY <1>1, <3>1, <5>2, <5>3
      <4>2. parsed' - End(i) = o + r.used /\ o + r.used \in Nat
        <5> DEFINE u == r.used
        <5>1. u \in 1..d /\ parsed' = End(i) + (o + u)
          BY <2>18, <2>19
        <5> HIDE DEF u
        <5>2. parsed' - End(i) = o + u /\ o + u \in Nat
          BY <2>4, <2>5, <2>12, <5>1
        <5> QED
          BY <5>2 DEF u
      <4>3. ParsedTo(i)'
        BY <1>1, <2>5, <2>6, <2>20, <3>1, <4>1, <4>2 DEF ParsedTo, f
      <4> QED
        BY <4>1, <4>3
    <3>2. CASE o + r.used = Size(f) /\ r.calls = <<Report(f)>> /\ r.p = reset_parser
      <4>1. out' = Reports(i + 1)
        <5>1. out = [j \in 1..i |-> Report(frames[j])] /\ i \in Nat
          BY <1>2, <2>5 DEF Reports
        <5>2. out' = out \o <<Report(frames[i + 1])>>
          BY <1>1, <3>2 DEF f
        <5> HIDE DEF Report
        <5>3. out' = [j \in 1..(i + 1) |-> Report(frames[j])]
          BY <5>1, <5>2
        <5> QED
          BY <5>3 DEF Reports
      <4>2. refused' <=> f.opcode \in Throws
        <5>1. DOMAIN r.calls = {1} /\ r.calls[1].opcode = f.opcode
          BY <3>2 DEF Report
        <5>2. (\E j \in DOMAIN r.calls : r.calls[j].opcode \in Throws) <=> f.opcode \in Throws
          BY <5>1, Zenon
        <5>3. refused' <=> \E j \in DOMAIN r.calls : r.calls[j].opcode \in Throws
          BY <1>1, Zenon
        <5> QED
          BY <5>2, <5>3, Zenon
      <4>3. parsed' = End(i + 1) /\ parsed' - End(i + 1) = 0
        BY <2>8, <2>19, <3>2
      <4>4. CASE refused'
        <5>1. f.opcode \in Throws /\ End(i + 1) <= pos
          BY <2>19, <4>2, <4>3, <4>4
        <5>2. RefusedAt(i + 1)'
          BY <1>1, <2>5, <2>7, <2>20, <4>1, <5>1 DEF RefusedAt, f
        <5> QED
          BY <2>7, <4>4, <5>2
      <4>5. CASE ~refused'
        <5>1. Quiet(i + 1)
          <6>1. frames[i + 1].opcode \notin Throws
            BY <4>2, <4>5, Zenon DEF f
          <6>2. \A j \in 1..(i + 1) : j \in 1..i \/ j = i + 1
            BY <1>2
          <6> QED
            BY <2>5, <6>1, <6>2, Zenon DEF Quiet
        <5>2. ParsedTo(i + 1)'
          BY <1>1, <2>20, <3>2, <4>1, <4>3, <5>1 DEF ParsedTo
        <5>3. i + 1 \in 0..Len(frames)
          BY <1>2, <2>6
        <5> QED
          BY <4>5, <5>2, <5>3
      <4> QED
        BY <4>4, <4>5
    <3> QED
      BY <2>17, <3>1, <3>2 DEF Turned
  <2> QED
    BY <1>1, <1>3, <2>1, <2>19, <2>20, <2>21 DEF StreamInv
<1> QED
  BY <1>4, <1>5

\* Every frame that has arrived has been reported as it was sent.
LEMMA FrameResult == StreamInv => FramesAsSent
<1> SUFFICES ASSUME StreamInv, ~spoilt, parsed = pos \/ refused PROVE out = Expected
  BY DEF FramesAsSent
<1> DEFINE D(i) == {j \in DOMAIN frames : /\ End(j) <= pos
                                         /\ \A k \in 1..(j - 1) : frames[k].opcode \notin Throws}
<1>1. /\ frames \in Seq(Sendable) /\ Len(frames) \in Nat /\ DOMAIN frames = 1..Len(frames)
      /\ pos \in Nat /\ parsed \in Nat
  <2>1. frames \in Seq(Sendable)
    BY DEF StreamInv
  <2> QED
    BY <2>1, LenProperties DEF StreamInv
<1>2. SUFFICES \E i \in 0..Len(frames) :
                   /\ out = Reports(i)
                   /\ \A j \in 1..Len(frames) :
                          j <= i <=> /\ End(j) <= pos
                                     /\ \A k \in 1..(j - 1) : frames[k].opcode \notin Throws
  <2>1. PICK i \in 0..Len(frames) :
                   /\ out = Reports(i)
                   /\ \A j \in 1..Len(frames) :
                          j <= i <=> /\ End(j) <= pos
                                     /\ \A k \in 1..(j - 1) : frames[k].opcode \notin Throws
    BY <1>2
  <2>2. {j \in DOMAIN frames : /\ End(j) <= pos
                              /\ \A k \in 1..(j - 1) : frames[k].opcode \notin Throws} = 1..i
    BY <1>1, <2>1
  <2>3. Expected = [j \in 1..i |-> Report(frames[j])]
    BY <2>2 DEF Expected, Report
  <2> QED
    BY <2>1, <2>3 DEF Reports
<1>3. \A i \in 0..Len(frames) : End(i) \in Nat
  BY <1>1, BytesTyped
<1>4. \A i, j \in 0..Len(frames) : i < j => End(i) < End(j)
  BY <1>1, Ends
<1>5. CASE ~refused
  <2>1. PICK i \in 0..Len(frames) : ParsedTo(i)
    BY <1>5 DEF StreamInv
  <2>2. parsed = pos /\ out = Reports(i) /\ Quiet(i) /\ parsed - End(i) \in Nat
    BY <1>5, <2>1 DEF ParsedTo
  <2>3. ASSUME NEW j \in 1..Len(frames)
        PROVE  j <= i <=> /\ End(j) <= pos
                          /\ \A k \in 1..(j - 1) : frames[k].opcode \notin Throws
    <3>1. j \in 0..Len(frames) /\ End(j) \in Nat /\ End(i) \in Nat /\ End(i) <= pos
      BY <1>1, <1>3, <2>2
    <3>2. CASE j <= i
      <4>1. End(j) <= End(i)
        <5>1. CASE j = i
          BY <3>1, <5>1
        <5>2. CASE j < i
          BY <1>4, <3>1, <5>2
        <5> QED
          BY <1>1, <3>2, <5>1, <5>2
      <4>2. \A k \in 1..(j - 1) : k \in 1..i
        BY <1>1, <3>2
      <4> QED
        BY <1>1, <2>2, <3>1, <3>2, <4>1, <4>2 DEF Quiet
    <3>3. CASE ~(j <= i)
      <4>1. i < Len(frames) /\ i + 1 \in 1..Len(frames) /\ (i + 1) - 1 = i /\ i + 1 <= j
            /\ i + 1 \in 0..Len(frames)
        BY <1>1, <3>3
      <4>2. parsed < End(i + 1)
        <5>1. frames[i + 1] \in Sendable /\ End(i + 1) = End(i) + Size(frames[i + 1])
          BY <1>1, <4>1, Ends
        <5>2. Size(frames[i + 1]) \in Nat /\ Size(frames[i + 1]) >= 2
          BY <5>1, SizeIs
        <5>3. parsed - End(i) < Size(frames[i + 1])
          BY <2>1, <5>2 DEF ParsedTo
        <5> QED
          BY <1>1, <3>1, <5>1, <5>2, <5>3
      <4>3. End(i + 1) <= End(j)
        <5>1. CASE j = i + 1
          BY <3>1, <5>1
        <5>2. CASE i + 1 < j
          BY <1>3, <1>4, <3>1, <4>1, <5>2
        <5> QED
          BY <1>1, <4>1, <5>1, <5>2
      <4>4. ~(End(j) <= pos)
        BY <1>1, <1>3, <2>2, <3>1, <4>1, <4>2, <4>3
      <4> QED
        BY <3>3, <4>4
    <3> QED
      BY <3>2, <3>3
  <2> QED
    BY <2>2, <2>3
<1>6. CASE refused
  <2>1. PICK i \in 1..Len(frames) : RefusedAt(i)
    BY <1>6 DEF StreamInv
  <2>2. /\ End(i) <= pos /\ out = Reports(i) /\ Quiet(i - 1) /\ frames[i].opcode \in Throws
        /\ i \in 0..Len(frames)
    BY <1>1, <2>1 DEF RefusedAt
  <2>3. ASSUME NEW j \in 1..Len(frames)
        PROVE  j <= i <=> /\ End(j) <= pos
                          /\ \A k \in 1..(j - 1) : frames[k].opcode \notin Throws
    <3>1. j \in 0..Len(frames) /\ End(j) \in Nat /\ End(i) \in Nat
      BY <1>1, <1>3, <2>2
    <3>2. CASE j <= i
      <4>1. End(j) <= pos
        <5>1. CASE j = i
          BY <2>2, <5>1
        <5>2. CASE j < i
          <6>1. End(j) < End(i)
            BY <1>4, <2>2, <3>1, <5>2
          <6> QED
            BY <1>1, <2>2, <3>1, <6>1
        <5> QED
          BY <1>1, <3>2, <5>1, <5>2
      <4>2. \A k \in 1..(j - 1) : k \in 1..(i - 1)
        BY <1>1, <2>2, <3>2
      <4> QED
        BY <2>2, <3>2, <4>1, <4>2 DEF Quiet
    <3>3. CASE ~(j <= i)
      <4>1. i \in 1..(j - 1)
        BY <1>1, <2>2, <3>3
      <4> QED
        BY <2>2, <3>3, <4>1
    <3> QED
      BY <3>2, <3>3
  <2> QED
    BY <2>2, <2>3
<1> QED
  BY <1>2, <1>5, <1>6 DEF StreamInv

\* However the stream of frames is cut into reads, each frame that has arrived is
\* reported once, in order and as it was sent, unless a cut fell where the parser
\* cannot cope with it.
THEOREM FramesArrive == FrameSpec => []FramesAsSent
<1>1. StreamInv /\ [FrameNext]_frameVars => StreamInv'
  <2> SUFFICES ASSUME StreamInv, [FrameNext]_frameVars PROVE StreamInv'
    OBVIOUS
  <2>1. CASE \E k \in 1..(Len(Stream) - pos) : Read(k)
    BY <2>1, ReadStep
  <2>2. CASE Parse
    BY <2>2, ParseStep
  <2>3. CASE UNCHANGED frameVars
    <3>1. /\ frames' = frames /\ pos' = pos /\ parsed' = parsed /\ p' = p /\ out' = out
          /\ refused' = refused /\ spoilt' = spoilt
      BY <2>3 DEF frameVars
    <3>2. Stream' = Stream /\ \A i : End(i)' = End(i)
      BY <3>1, StreamKept
    <3> QED
      BY <3>1, <3>2 DEF StreamInv, ParsedTo, RefusedAt, SpoiledBy, Reports, Quiet
  <2> QED
    BY <2>1, <2>2, <2>3 DEF FrameNext
<1> QED
  BY <1>1, FrameInitial, FrameResult, PTL DEF FrameSpec
================================================================================

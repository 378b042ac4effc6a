----------------------- MODULE RequestAndResponse_proofs -----------------------
(***************************************************************************)
(* Theorems about ChunkedResponse, for any threads and any number of       *)
(* chunks, and about RequestReader, for any requests and any fragments.    *)
(*                                                                         *)
(* ReplyIntact says nothing of the chunks that are still queued.  The      *)
(* inductive invariant does: what is written, the chunk that is being      *)
(* written and what is queued are the chunks in the order in which they    *)
(* were pushed, and the mark is right behind the one last chunk.           *)
(*                                                                         *)
(* HeadersAsSent says nothing of the request that is being read.  The      *)
(* inductive invariant says for every position in its fields and values    *)
(* what the connection holds: the headers that have been appended, the     *)
(* field and the value that have not, and that the body changes neither.   *)
(***************************************************************************)
EXTENDS ChunkedResponse, RequestReader, SequenceTheorems, WellFoundedInduction, TLAPS

\* Chunks that have left the queue.
Taken == Len(wire) + Len(current)

\* What has left the queue, in the order in which it was pushed.
TakenInOrder ==
    /\ Taken <= Len(pushed)
    /\ \A i \in 1..Len(wire) : wire[i] = pushed[i]
    /\ current # <<>> => current[1] = pushed[Len(wire) + 1]
    /\ phase = "writing" => current # <<>>
    /\ phase \in {"header", "next", "done", "timeout"} => current = <<>>

\* The queue before StopChunkedResponse is called: the rest of what was pushed.
Open == /\ phase # "done"
        /\ \A i \in 1..Len(pushed) : pushed[i].body # "last"
        /\ Len(bodies) = Len(pushed) - Taken
        /\ \A j \in 1..Len(bodies) : bodies[j] = pushed[Taken + j]

\* The queue after StopChunkedResponse has pushed the p-th chunk: the mark is behind
\* it, and perhaps chunks of other threads behind that; or the loop has ended at p.
Shut(p) ==
    /\ pushed[p].body = "last"
    /\ \A i \in 1..Len(pushed) : pushed[i].body = "last" => i = p
    /\ Taken <= p
    /\ phase = "done" => Taken = p
    /\ phase # "done" =>
          /\ Len(bodies) = Len(pushed) - Taken + 1
          /\ \A j \in 1..Len(bodies) :
                bodies[j] = IF j <= p - Taken THEN pushed[Taken + j]
                            ELSE IF j = p - Taken + 1 THEN Mark
                            ELSE pushed[Taken + j - 1]

ChunkInv == /\ TypeOK
            /\ TakenInOrder
            /\ ~stopped => Open
            /\ stopped => \E p \in 1..Len(pushed) : Shut(p)

-------------------------------------------------------------------------------
(* Lemmas *)

\* The sequences of the state, and their lengths.
LEMMA Lengths ==
    ASSUME TypeOK
    PROVE  /\ bodies \in Seq(Chunk \cup {Mark}) /\ Len(bodies) \in Nat
           /\ pushed \in Seq(Chunk) /\ Len(pushed) \in Nat
           /\ wire \in Seq(Chunk) /\ Len(wire) \in Nat
           /\ current \in Seq(Chunk) /\ Len(current) \in Nat /\ Len(current) <= 1
           /\ Taken \in Nat
           /\ current = <<>> => Taken = Len(wire)
           /\ current # <<>> => Len(current) = 1 /\ Taken = Len(wire) + 1
<1>1. /\ bodies \in Seq(Chunk \cup {Mark}) /\ pushed \in Seq(Chunk) /\ wire \in Seq(Chunk)
      /\ current \in Seq(Chunk) /\ Len(current) <= 1
  BY DEF TypeOK
<1>2. Len(bodies) \in Nat /\ Len(pushed) \in Nat /\ Len(wire) \in Nat /\ Len(current) \in Nat
  BY <1>1
<1>3. current # <<>> => Len(current) = 1
  <2> SUFFICES ASSUME current # <<>> PROVE Len(current) = 1
    OBVIOUS
  <2>1. PICK n : n = Len(current)
    OBVIOUS
  <2>2. n \in Nat /\ n # 0
    BY <1>1, <2>1, EmptySeq
  <2>3. n <= 1
    BY <1>1, <2>1
  <2>4. n = 1
    BY <2>2, <2>3
  <2> QED
    BY <2>1, <2>4
<1> QED
  BY <1>1, <1>2, <1>3 DEF Taken

\* A chunk is not the mark.
LEMMA ChunkNotMark == \A ch \in Chunk : ch # Mark
<1> SUFFICES ASSUME NEW ch \in Chunk PROVE ch # Mark
  OBVIOUS
<1>1. ch.body \in {"some", "empty", "last"}
  BY DEF Chunk
<1>2. Mark.body = "mark"
  BY DEF Mark
<1> QED
  BY <1>1, <1>2

\* What a thread pushes.
LEMMA TextTyped ==
    ASSUME TypeOK, NEW t \in Threads, pushes[t] < MaxPushes, NEW b \in {"some", "empty", "last"}
    PROVE  Text(t, b) \in Chunk /\ Text(t, b).body = b
<1>1. pushes[t] + 1 \in 1..MaxPushes
  BY ChunkedAssumption DEF TypeOK
<1> QED
  BY <1>1 DEF Text, Chunk

\* The parts of the types that pushing disturbs.
LEMMA PushTypes ==
    ASSUME TypeOK, NEW ch \in Chunk, pushed' = Append(pushed, ch), UNCHANGED loopVars,
           bodies' \in Seq(Chunk \cup {Mark}), pushes' \in [Threads -> 0..MaxPushes], stopped' \in BOOLEAN
    PROVE  TypeOK'
<1>1. pushed' \in Seq(Chunk)
  BY AppendProperties DEF TypeOK
<1> QED
  BY <1>1 DEF TypeOK, loopVars

\* What has left the queue is not disturbed by pushing.
LEMMA PushKeepsTaken ==
    ASSUME TypeOK, TakenInOrder, NEW ch \in Chunk, pushed' = Append(pushed, ch), UNCHANGED loopVars
    PROVE  TakenInOrder' /\ Taken' = Taken
<1>1. /\ pushed' \in Seq(Chunk) /\ Len(pushed') = Len(pushed) + 1
      /\ \A i \in 1..Len(pushed) : pushed'[i] = pushed[i]
  BY Lengths, AppendProperties
<1>2. wire' = wire /\ current' = current /\ phase' = phase
  BY DEF loopVars
<1>3. Taken' = Taken
  BY <1>2 DEF Taken
<1>4. Taken <= Len(pushed) /\ Taken \in Nat /\ Len(pushed) \in Nat /\ Len(wire) \in Nat /\ Len(wire) <= Taken
  BY Lengths DEF TakenInOrder, Taken
<1>5. Taken' <= Len(pushed')
  BY <1>1, <1>3, <1>4
<1>6. \A i \in 1..Len(wire) : wire'[i] = pushed'[i]
  <2> SUFFICES ASSUME NEW i \in 1..Len(wire) PROVE wire[i] = pushed'[i]
    BY <1>2
  <2>1. i \in 1..Len(pushed)
    BY <1>4
  <2> QED
    BY <1>1, <2>1 DEF TakenInOrder
<1>7. current # <<>> => current[1] = pushed'[Len(wire) + 1]
  <2> SUFFICES ASSUME current # <<>> PROVE current[1] = pushed'[Len(wire) + 1]
    OBVIOUS
  <2>1. Taken = Len(wire) + 1
    BY Lengths
  <2>2. Len(wire) + 1 \in 1..Len(pushed)
    BY <1>4, <2>1
  <2> QED
    BY <1>1, <2>2 DEF TakenInOrder
<1> QED
  BY <1>2, <1>3, <1>5, <1>6, <1>7 DEF TakenInOrder

-------------------------------------------------------------------------------
(* Pushing *)

\* NextChunkedResponse queues a chunk behind everything else.
LEMMA PushStep ==
    ASSUME ChunkInv, NEW t \in Threads, NEW b \in {"some", "empty"}, NextChunkedResponse(t, b)
    PROVE  ChunkInv'
<1> DEFINE ch == Text(t, b)
<1>t. TypeOK /\ TakenInOrder
  BY DEF ChunkInv
<1>1. /\ pushes[t] < MaxPushes /\ bodies' = Append(bodies, ch) /\ pushed' = Append(pushed, ch)
      /\ stopped' = stopped /\ UNCHANGED loopVars
  BY DEF NextChunkedResponse
<1>2. ch \in Chunk /\ ch.body # "last" /\ ch \in Chunk \cup {Mark}
  BY <1>t, <1>1, TextTyped
<1>3. pushes' \in [Threads -> 0..MaxPushes]
  <2>1. pushes \in [Threads -> 0..MaxPushes] /\ pushes' = [pushes EXCEPT ![t] = @ + 1]
    BY <1>t DEF TypeOK, NextChunkedResponse
  <2>2. pushes[t] + 1 \in 0..MaxPushes
    BY <1>1, <2>1, ChunkedAssumption
  <2> QED
    BY <2>1, <2>2
<1>l. /\ bodies \in Seq(Chunk \cup {Mark}) /\ Len(bodies) \in Nat
      /\ pushed \in Seq(Chunk) /\ Len(pushed) \in Nat /\ Taken \in Nat
  BY <1>t, Lengths
<1> HIDE DEF ch
<1>4. /\ bodies' \in Seq(Chunk \cup {Mark}) /\ Len(bodies') = Len(bodies) + 1
      /\ \A j \in 1..Len(bodies) : bodies'[j] = bodies[j]
      /\ bodies'[Len(bodies) + 1] = ch
  BY <1>1, <1>2, <1>l, AppendProperties
<1>5. /\ pushed' \in Seq(Chunk) /\ Len(pushed') = Len(pushed) + 1
      /\ \A i \in 1..Len(pushed) : pushed'[i] = pushed[i]
      /\ pushed'[Len(pushed) + 1] = ch
  BY <1>1, <1>2, <1>l, AppendProperties
<1>6. TypeOK'
  <2>1. stopped' \in BOOLEAN
    BY <1>t, <1>1 DEF TypeOK
  <2> QED
    BY <1>t, <1>1, <1>2, <1>3, <1>4, <2>1, PushTypes
<1>7. TakenInOrder' /\ Taken' = Taken
  BY <1>t, <1>1, <1>2, PushKeepsTaken
<1>8. phase' = phase /\ Taken <= Len(pushed)
  BY <1>t, <1>1 DEF loopVars, TakenInOrder
<1>9. ASSUME ~stopped PROVE Open'
  <2>1. Open
    BY <1>9 DEF ChunkInv
  <2>2. Len(bodies') = Len(pushed') - Taken'
    BY <1>l, <1>4, <1>5, <1>7, <2>1 DEF Open
  <2>3. ASSUME NEW i \in 1..Len(pushed') PROVE pushed'[i].body # "last"
    <3>1. i \in 1..Len(pushed) \/ i = Len(pushed) + 1
      BY <1>l, <1>5
    <3> QED
      BY <1>2, <1>5, <2>1, <3>1 DEF Open
  <2>4. ASSUME NEW j \in 1..Len(bodies') PROVE bodies'[j] = pushed'[Taken' + j]
    <3>1. j \in 1..Len(bodies) \/ j = Len(bodies) + 1
      BY <1>l, <1>4
    <3>2. Len(bodies) = Len(pushed) - Taken
      BY <2>1 DEF Open
    <3>3. CASE j \in 1..Len(bodies)
      <4>1. Taken + j \in 1..Len(pushed)
        BY <1>l, <3>2, <3>3
      <4> QED
        BY <1>4, <1>5, <1>7, <2>1, <3>3, <4>1 DEF Open
    <3>4. CASE j = Len(bodies) + 1
      <4>1. Taken + j = Len(pushed) + 1
        BY <1>l, <3>2, <3>4
      <4> QED
        BY <1>4, <1>5, <1>7, <3>4, <4>1
    <3> QED
      BY <3>1, <3>3, <3>4
  <2> QED
    BY <1>8, <2>1, <2>2, <2>3, <2>4 DEF Open
<1>10. ASSUME stopped PROVE \E p \in 1..Len(pushed') : Shut(p)'
  <2>1. PICK p \in 1..Len(pushed) : Shut(p)
    BY <1>10 DEF ChunkInv
  <2>2. p \in 1..Len(pushed') /\ p \in Nat /\ p <= Len(pushed)
    BY <1>l, <1>5
  <2>3. pushed'[p].body = "last" /\ Taken' <= p /\ (phase' = "done" => Taken' = p)
    BY <1>5, <1>7, <1>8, <2>1 DEF Shut
  <2>4. ASSUME NEW i \in 1..Len(pushed'), pushed'[i].body = "last" PROVE i = p
    <3>1. i \in 1..Len(pushed) \/ i = Len(pushed) + 1
      BY <1>l, <1>5
    <3> QED
      BY <1>2, <1>5, <2>1, <2>4, <3>1 DEF Shut
  <2>5. ASSUME phase # "done"
        PROVE  /\ Len(bodies') = Len(pushed') - Taken' + 1
               /\ \A j \in 1..Len(bodies') :
                     bodies'[j] = IF j <= p - Taken' THEN pushed'[Taken' + j]
                                  ELSE IF j = p - Taken' + 1 THEN Mark
                                  ELSE pushed'[Taken' + j - 1]
    <3>1. Len(bodies) = Len(pushed) - Taken + 1
      BY <2>1, <2>5 DEF Shut
    <3>2. Len(bodies') = Len(pushed') - Taken' + 1
      BY <1>l, <1>4, <1>5, <1>7, <3>1
    <3>3. ASSUME NEW j \in 1..Len(bodies')
          PROVE  bodies'[j] = IF j <= p - Taken THEN pushed'[Taken + j]
                              ELSE IF j = p - Taken + 1 THEN Mark
                              ELSE pushed'[Taken + j - 1]
      <4>0. j \in Nat /\ j >= 1 /\ (j \in 1..Len(bodies) \/ j = Len(bodies) + 1)
        BY <1>l, <1>4
      <4>1. CASE j \in 1..Len(bodies)
        <5>1. bodies'[j] = IF j <= p - Taken THEN pushed[Taken + j]
                           ELSE IF j = p - Taken + 1 THEN Mark
                           ELSE pushed[Taken + j - 1]
          BY <1>4, <2>1, <2>5, <4>1 DEF Shut
        <5>2. j <= p - Taken => Taken + j \in 1..Len(pushed)
          BY <1>l, <2>2, <4>0
        <5>3. ~(j <= p - Taken) /\ j # p - Taken + 1 => Taken + j - 1 \in 1..Len(pushed)
          <6>1. Taken <= p
            BY <2>1 DEF Shut
          <6>2. j <= Len(pushed) - Taken + 1
            BY <1>l, <3>1, <4>1
          <6> QED
            BY <1>l, <2>2, <4>0, <6>1, <6>2
        <5> QED
          BY <1>5, <5>1, <5>2, <5>3
      <4>2. CASE j = Len(bodies) + 1
        <5>1. Taken + j - 1 = Len(pushed) + 1
          BY <1>l, <3>1, <4>2
        <5>2. ~(j <= p - Taken) /\ j # p - Taken + 1
          BY <1>l, <2>2, <3>1, <4>2
        <5> QED
          BY <1>4, <1>5, <4>2, <5>1, <5>2
      <4> QED
        BY <4>0, <4>1, <4>2
    <3> QED
      BY <1>7, <3>2, <3>3
  <2>6. Shut(p)'
    BY <1>8, <2>3, <2>4, <2>5 DEF Shut, Mark
  <2> QED
    BY <2>2, <2>6
<1> QED
  BY <1>1, <1>6, <1>7, <1>9, <1>10 DEF ChunkInv

\* StopChunkedResponse queues the last chunk, and the mark right behind it.
LEMMA StopStep ==
    ASSUME ChunkInv, NEW t \in Threads, StopChunkedResponse(t)
    PROVE  ChunkInv'
<1> DEFINE ch == Text(t, "last")
           m == Mark
           L == Len(bodies)
<1>t. TypeOK /\ TakenInOrder /\ Open
  BY DEF ChunkInv, StopChunkedResponse
<1>1. /\ pushes[t] < MaxPushes /\ bodies' = bodies \o <<ch, m>> /\ pushed' = Append(pushed, ch)
      /\ stopped' = TRUE /\ UNCHANGED loopVars
  BY DEF StopChunkedResponse
<1>2. ch \in Chunk /\ ch.body = "last" /\ ch \in Chunk \cup {m} /\ m \in Chunk \cup {m}
  BY <1>t, <1>1, TextTyped
<1>3. pushes' \in [Threads -> 0..MaxPushes]
  <2>1. MaxPushes \in 0..MaxPushes
    BY ChunkedAssumption
  <2> QED
    BY <1>t, <2>1 DEF TypeOK, StopChunkedResponse
<1>l. /\ bodies \in Seq(Chunk \cup {m}) /\ L \in Nat
      /\ pushed \in Seq(Chunk) /\ Len(pushed) \in Nat /\ Taken \in Nat
  BY <1>t, Lengths
<1> HIDE DEF ch, m
<1>4. /\ bodies' \in Seq(Chunk \cup {m}) /\ Len(bodies') = L + 2
      /\ \A j \in 1..L : bodies'[j] = bodies[j]
      /\ bodies'[L + 1] = ch /\ bodies'[L + 2] = m
  <2> DEFINE e == <<ch, m>>
  <2>1. e \in Seq(Chunk \cup {m}) /\ Len(e) = 2 /\ e[1] = ch /\ e[2] = m
    BY <1>2
  <2>2. bodies' = bodies \o e
    BY <1>1
  <2> HIDE DEF e, L
  <2>3. /\ bodies' \in Seq(Chunk \cup {m})
        /\ Len(bodies') = Len(bodies) + Len(e)
        /\ \A i \in 1..(Len(bodies) + Len(e)) :
              bodies'[i] = IF i <= Len(bodies) THEN bodies[i] ELSE e[i - Len(bodies)]
    BY <1>l, <2>1, <2>2, ConcatProperties
  <2>4. /\ bodies' \in Seq(Chunk \cup {m}) /\ Len(bodies') = L + 2
        /\ \A i \in 1..(L + 2) : bodies'[i] = IF i <= L THEN bodies[i] ELSE e[i - L]
    BY <2>1, <2>3 DEF L
  <2>5. L + 1 \in 1..(L + 2) /\ L + 2 \in 1..(L + 2) /\ ~(L + 1 <= L) /\ ~(L + 2 <= L)
        /\ (L + 1) - L = 1 /\ (L + 2) - L = 2
    BY <1>l
  <2>6. bodies'[L + 1] = ch /\ bodies'[L + 2] = m
    BY <2>1, <2>4, <2>5
  <2>7. \A j \in 1..L : j \in 1..(L + 2) /\ j <= L
    BY <1>l
  <2> QED
    BY <2>4, <2>6, <2>7
<1>5. /\ pushed' \in Seq(Chunk) /\ Len(pushed') = Len(pushed) + 1
      /\ \A i \in 1..Len(pushed) : pushed'[i] = pushed[i]
      /\ pushed'[Len(pushed) + 1] = ch
  BY <1>1, <1>2, <1>l, AppendProperties
<1>6. TypeOK'
  BY <1>t, <1>1, <1>2, <1>3, <1>4, PushTypes DEF m
<1>7. TakenInOrder' /\ Taken' = Taken
  BY <1>t, <1>1, <1>2, PushKeepsTaken
<1>8. phase' = phase /\ Taken <= Len(pushed) /\ phase # "done"
  BY <1>t, <1>1 DEF loopVars, TakenInOrder, Open
<1>9. L = Len(pushed) - Taken
  BY <1>t DEF Open
<1>p. PICK p : p = Len(pushed) + 1
  OBVIOUS
<1>10. p \in 1..Len(pushed') /\ p \in Nat /\ p - Taken = L + 1
  BY <1>l, <1>5, <1>9, <1>p
<1>11. pushed'[p].body = "last" /\ Taken' <= p
  BY <1>l, <1>2, <1>5, <1>7, <1>8, <1>p
<1>12. ASSUME NEW i \in 1..Len(pushed'), pushed'[i].body = "last" PROVE i = p
  <2>1. i \in 1..Len(pushed) \/ i = Len(pushed) + 1
    BY <1>l, <1>5
  <2> QED
    BY <1>t, <1>5, <1>12, <1>p, <2>1 DEF Open
<1>13. Len(bodies') = Len(pushed') - Taken' + 1
  BY <1>l, <1>4, <1>5, <1>7, <1>9
<1>14. ASSUME NEW j \in 1..Len(bodies')
       PROVE  bodies'[j] = IF j <= p - Taken THEN pushed'[Taken + j]
                           ELSE IF j = p - Taken + 1 THEN Mark
                           ELSE pushed'[Taken + j - 1]
  <2>1. j \in Nat /\ j >= 1 /\ (j \in 1..L \/ j = L + 1 \/ j = L + 2)
    BY <1>l, <1>4
  <2>2. CASE j \in 1..L
    <3>1. j <= p - Taken /\ Taken + j \in 1..Len(pushed)
      BY <1>l, <1>9, <1>10, <2>1, <2>2
    <3> QED
      BY <1>t, <1>4, <1>5, <2>2, <3>1 DEF Open
  <2>3. CASE j = L + 1
    <3>1. j <= p - Taken /\ Taken + j = Len(pushed) + 1
      BY <1>l, <1>9, <1>10, <2>3
    <3> QED
      BY <1>4, <1>5, <2>3, <3>1
  <2>4. CASE j = L + 2
    <3>1. ~(j <= p - Taken) /\ j = p - Taken + 1
      BY <1>l, <1>10, <2>4
    <3> QED
      BY <1>4, <2>4, <3>1 DEF m
  <2> QED
    BY <2>1, <2>2, <2>3, <2>4
<1>15. Shut(p)'
  BY <1>7, <1>8, <1>11, <1>12, <1>13, <1>14 DEF Shut, Mark
<1> QED
  BY <1>1, <1>6, <1>7, <1>10, <1>15 DEF ChunkInv

-------------------------------------------------------------------------------
(* The loop *)

\* The mark is at the head of the queue only behind the last chunk.
LEMMA FinishStep ==
    ASSUME ChunkInv, Finish
    PROVE  ChunkInv'
<1>t. TypeOK /\ TakenInOrder
  BY DEF ChunkInv
<1>1. /\ phase = "next" /\ bodies # <<>> /\ Head(bodies) = Mark /\ bodies' = Tail(bodies)
      /\ phase' = "done" /\ pushes' = pushes /\ waited' = waited /\ current' = current /\ wire' = wire
      /\ stopped' = stopped /\ pushed' = pushed
  BY DEF Finish, PopFront
<1>l. /\ bodies \in Seq(Chunk \cup {Mark}) /\ pushed \in Seq(Chunk) /\ Len(pushed) \in Nat
      /\ Taken \in Nat
  BY <1>t, Lengths
<1>2. Len(bodies) \in Nat \ {0} /\ 1 \in 1..Len(bodies) /\ bodies[1] = Mark
  BY <1>1, <1>l, EmptySeq
<1>3. TypeOK'
  <2>1. bodies' \in Seq(Chunk \cup {Mark})
    BY <1>1, <1>l, HeadTailProperties
  <2> QED
    BY <1>t, <1>1, <2>1 DEF TypeOK
<1>4. Taken' = Taken /\ TakenInOrder'
  BY <1>t, <1>1 DEF TakenInOrder, Taken
<1>5. stopped
  <2> SUFFICES ASSUME ~stopped PROVE FALSE
    OBVIOUS
  <2>1. Open
    BY DEF ChunkInv
  <2>2. bodies[1] = pushed[Taken + 1] /\ Taken + 1 \in 1..Len(pushed)
    BY <1>l, <1>2, <2>1 DEF Open
  <2>3. bodies[1] \in Chunk
    BY <1>l, <2>2, ElementOfSeq
  <2> QED
    BY <1>2, <2>3, ChunkNotMark
<1>6. PICK p \in 1..Len(pushed) : Shut(p)
  BY <1>5 DEF ChunkInv
<1>7. Taken = p
  <2> SUFFICES ASSUME Taken # p PROVE FALSE
    OBVIOUS
  <2>1. Taken <= p /\ p \in Nat /\ p <= Len(pushed)
    BY <1>l, <1>6 DEF Shut
  <2>2. 1 <= p - Taken /\ Taken + 1 \in 1..Len(pushed)
    BY <1>l, <2>1
  <2>3. bodies[1] = pushed[Taken + 1]
    BY <1>1, <1>2, <1>6, <2>2 DEF Shut
  <2>4. bodies[1] \in Chunk
    BY <1>l, <2>2, <2>3, ElementOfSeq
  <2> QED
    BY <1>2, <2>4, ChunkNotMark
<1>8. Shut(p)'
  BY <1>1, <1>4, <1>6, <1>7 DEF Shut
<1> QED
  BY <1>1, <1>3, <1>4, <1>5, <1>6, <1>8 DEF ChunkInv

\* A chunk leaves the queue to be written.
LEMMA WriteChunkStep ==
    ASSUME ChunkInv, WriteChunk
    PROVE  ChunkInv'
<1>t. TypeOK /\ TakenInOrder
  BY DEF ChunkInv
<1>1. /\ phase = "next" /\ bodies # <<>> /\ Head(bodies) # Mark /\ bodies' = Tail(bodies)
      /\ current' = <<Head(bodies)>>
      /\ phase' = "writing" /\ pushes' = pushes /\ waited' = waited /\ wire' = wire
      /\ stopped' = stopped /\ pushed' = pushed
  BY DEF WriteChunk, PopFront
<1>l. /\ bodies \in Seq(Chunk \cup {Mark}) /\ pushed \in Seq(Chunk) /\ Len(pushed) \in Nat
      /\ Taken \in Nat /\ Len(wire) \in Nat /\ (current = <<>> => Taken = Len(wire))
  BY <1>t, Lengths
<1>2. Len(bodies) \in Nat \ {0} /\ 1 \in 1..Len(bodies) /\ bodies[1] = Head(bodies)
  BY <1>1, <1>l, EmptySeq
<1>3. /\ bodies' \in Seq(Chunk \cup {Mark}) /\ Len(bodies') = Len(bodies) - 1
      /\ \A j \in 1..Len(bodies') : bodies'[j] = bodies[j + 1]
  BY <1>1, <1>l, HeadTailProperties
<1>4. current = <<>> /\ Taken = Len(wire)
  BY <1>t, <1>1, <1>l DEF TakenInOrder
<1>c. PICK ch : ch = Head(bodies)
  OBVIOUS
<1>5. ch \in Chunk
  <2>1. Head(bodies) \in Chunk \cup {Mark}
    BY <1>l, <1>2, ElementOfSeq
  <2> QED
    BY <1>1, <1>c, <2>1
<1>6. current' = <<ch>> /\ current' \in Seq(Chunk) /\ Len(current') = 1 /\ current'[1] = ch /\ current' # <<>>
  BY <1>1, <1>c, <1>5
<1>7. TypeOK'
  BY <1>t, <1>1, <1>3, <1>6 DEF TypeOK
<1>8. Taken' = Taken + 1
  BY <1>1, <1>4, <1>6 DEF Taken
<1>9. ch = pushed[Taken + 1] /\ Taken + 1 \in 1..Len(pushed) /\ (~stopped => Open') /\ (stopped => \E p \in 1..Len(pushed') : Shut(p)')
  <2>1. CASE ~stopped
    <3>1. Open
      BY <2>1 DEF ChunkInv
    <3>2. Len(bodies) = Len(pushed) - Taken
      BY <3>1 DEF Open
    <3>3. Taken + 1 \in 1..Len(pushed)
      BY <1>l, <1>2, <3>2
    <3>4. ch = pushed[Taken + 1]
      BY <1>2, <1>c, <3>1 DEF Open
    <3>5. Len(bodies') = Len(pushed') - Taken'
      BY <1>l, <1>1, <1>2, <1>3, <1>8, <3>2
    <3>6. ASSUME NEW j \in 1..Len(bodies') PROVE bodies'[j] = pushed'[Taken' + j]
      <4>1. j + 1 \in 1..Len(bodies) /\ j \in Nat
        BY <1>2, <1>3
      <4>2. Taken + (j + 1) = (Taken + 1) + j
        BY <1>l, <4>1
      <4> QED
        BY <1>1, <1>3, <1>8, <3>1, <4>1, <4>2 DEF Open
    <3>7. Open'
      BY <1>1, <3>1, <3>5, <3>6 DEF Open
    <3> QED
      BY <2>1, <3>3, <3>4, <3>7
  <2>2. CASE stopped
    <3>1. PICK p \in 1..Len(pushed) : Shut(p)
      BY <2>2 DEF ChunkInv
    <3>2. p \in Nat /\ p <= Len(pushed) /\ Taken <= p /\ Len(bodies) = Len(pushed) - Taken + 1
      BY <1>l, <1>1, <3>1 DEF Shut
    <3>3. bodies[1] = IF 1 <= p - Taken THEN pushed[Taken + 1]
                      ELSE IF 1 = p - Taken + 1 THEN Mark
                      ELSE pushed[Taken + 1 - 1]
      BY <1>1, <1>2, <3>1 DEF Shut
    <3>4. p # Taken
      <4> SUFFICES ASSUME p = Taken PROVE FALSE
        OBVIOUS
      <4>1. ~(1 <= p - Taken) /\ 1 = p - Taken + 1
        BY <1>l
      <4> QED
        BY <1>1, <1>2, <3>3, <4>1
    <3>5. 1 <= p - Taken /\ Taken + 1 \in 1..Len(pushed) /\ Taken + 1 <= p
      BY <1>l, <3>2, <3>4
    <3>6. ch = pushed[Taken + 1]
      BY <1>2, <1>c, <3>3, <3>5
    <3>7. Len(bodies') = Len(pushed') - Taken' + 1
      BY <1>l, <1>1, <1>2, <1>3, <1>8, <3>2
    <3>8. ASSUME NEW j \in 1..Len(bodies')
          PROVE  bodies'[j] = IF j <= p - Taken' THEN pushed'[Taken' + j]
                              ELSE IF j = p - Taken' + 1 THEN Mark
                              ELSE pushed'[Taken' + j - 1]
      <4>1. j + 1 \in 1..Len(bodies) /\ j \in Nat
        BY <1>2, <1>3
      <4>2. bodies[j + 1] = IF j + 1 <= p - Taken THEN pushed[Taken + (j + 1)]
                            ELSE IF j + 1 = p - Taken + 1 THEN Mark
                            ELSE pushed[Taken + (j + 1) - 1]
        BY <1>1, <3>1, <4>1 DEF Shut
      <4>3. /\ j + 1 <= p - Taken <=> j <= p - (Taken + 1)
            /\ j + 1 = p - Taken + 1 <=> j = p - (Taken + 1) + 1
            /\ Taken + (j + 1) = (Taken + 1) + j
            /\ Taken + (j + 1) - 1 = (Taken + 1) + j - 1
        BY <1>l, <3>2, <4>1
      <4>4. bodies'[j] = IF j <= p - (Taken + 1) THEN pushed[(Taken + 1) + j]
                         ELSE IF j = p - (Taken + 1) + 1 THEN Mark
                         ELSE pushed[(Taken + 1) + j - 1]
        BY <1>3, <4>2, <4>3
      <4> QED
        BY <1>1, <1>8, <4>4
    <3>9. Shut(p)'
      BY <1>1, <1>8, <3>1, <3>5, <3>7, <3>8 DEF Shut, Mark
    <3> QED
      BY <1>1, <2>2, <3>1, <3>5, <3>6, <3>9
  <2> QED
    BY <2>1, <2>2
<1>10. TakenInOrder'
  <2>1. Taken' <= Len(pushed')
    BY <1>l, <1>1, <1>8, <1>9
  <2>2. \A i \in 1..Len(wire') : wire'[i] = pushed'[i]
    BY <1>t, <1>1 DEF TakenInOrder
  <2>3. current'[1] = pushed'[Len(wire') + 1]
    BY <1>1, <1>4, <1>6, <1>9
  <2> QED
    BY <1>1, <1>6, <2>1, <2>2, <2>3 DEF TakenInOrder
<1> QED
  BY <1>1, <1>7, <1>9, <1>10 DEF ChunkInv

\* The write of a chunk completes, or fails.
LEMMA FinishedStep ==
    ASSUME ChunkInv, NEW ok \in BOOLEAN, do_write_chunked_body_finished(ok)
    PROVE  ChunkInv'
<1>t. TypeOK /\ TakenInOrder
  BY DEF ChunkInv
<1>1. /\ phase = "writing" /\ bodies' = bodies /\ pushes' = pushes /\ stopped' = stopped
      /\ pushed' = pushed /\ waited' = FALSE /\ phase' # "done"
      /\ phase' = IF ok THEN "next" ELSE "failed"
  BY DEF do_write_chunked_body_finished
<1>l. /\ pushed \in Seq(Chunk) /\ Len(pushed) \in Nat /\ wire \in Seq(Chunk) /\ current \in Seq(Chunk)
      /\ Taken \in Nat /\ Len(wire) \in Nat /\ Len(current) = 1 /\ Taken = Len(wire) + 1
  BY <1>t, <1>1, Lengths DEF TakenInOrder
<1>2. TypeOK' /\ TakenInOrder' /\ Taken' = Taken
  <2>1. CASE ok
    <3>1. wire' = wire \o current /\ current' = <<>>
      BY <2>1 DEF do_write_chunked_body_finished
    <3>2. /\ wire' \in Seq(Chunk) /\ Len(wire') = Len(wire) + 1
          /\ \A i \in 1..(Len(wire) + 1) :
                wire'[i] = IF i <= Len(wire) THEN wire[i] ELSE current[i - Len(wire)]
      <4>1. /\ wire' \in Seq(Chunk) /\ Len(wire') = Len(wire) + Len(current)
            /\ \A i \in 1..(Len(wire) + Len(current)) :
                  wire'[i] = IF i <= Len(wire) THEN wire[i] ELSE current[i - Len(wire)]
        BY <1>l, <3>1, ConcatProperties
      <4> QED
        BY <1>l, <4>1
    <3>3. Taken' = Taken
      BY <1>l, <3>1, <3>2 DEF Taken
    <3>4. \A i \in 1..Len(wire') : wire'[i] = pushed'[i]
      <4> SUFFICES ASSUME NEW i \in 1..(Len(wire) + 1) PROVE wire'[i] = pushed[i]
        BY <1>1, <3>2
      <4>1. i \in 1..Len(wire) \/ i = Len(wire) + 1
        BY <1>l
      <4>2. CASE i \in 1..Len(wire)
        <5>1. i <= Len(wire)
          BY <1>l, <4>2
        <5> QED
          BY <1>t, <3>2, <4>2, <5>1 DEF TakenInOrder
      <4>3. CASE i = Len(wire) + 1
        <5>1. ~(i <= Len(wire)) /\ i - Len(wire) = 1
          BY <1>l, <4>3
        <5>2. wire'[i] = current[1]
          BY <3>2, <5>1
        <5>3. current[1] = pushed[Len(wire) + 1]
          BY <1>t, <1>1 DEF TakenInOrder
        <5> QED
          BY <4>3, <5>2, <5>3
      <4> QED
        BY <4>1, <4>2, <4>3
    <3>5. TypeOK'
      <4>1. <<>> \in Seq(Chunk) /\ Len(<<>>) <= 1
        BY EmptySeq
      <4> QED
        BY <1>t, <1>1, <2>1, <3>1, <3>2, <4>1 DEF TypeOK
    <3>6. TakenInOrder'
      BY <1>t, <1>1, <2>1, <3>1, <3>3, <3>4 DEF TakenInOrder
    <3> QED
      BY <3>3, <3>5, <3>6
  <2>2. CASE ~ok
    <3>1. wire' = wire /\ current' = current /\ phase' = "failed"
      BY <1>1, <2>2 DEF do_write_chunked_body_finished
    <3>2. Taken' = Taken
      BY <3>1 DEF Taken
    <3>3. TypeOK'
      BY <1>t, <1>1, <3>1 DEF TypeOK
    <3>4. TakenInOrder'
      BY <1>t, <1>1, <3>1, <3>2 DEF TakenInOrder
    <3> QED
      BY <3>2, <3>3, <3>4
  <2> QED
    BY <2>1, <2>2
<1>3. ASSUME Open PROVE Open'
  BY <1>1, <1>2, <1>3 DEF Open
<1>4. ASSUME NEW p, Shut(p) PROVE Shut(p)'
  BY <1>1, <1>2, <1>4 DEF Shut, Mark
<1> QED
  BY <1>1, <1>2, <1>3, <1>4 DEF ChunkInv

\* The other steps of the loop only move it on.
LEMMA QuietLoop ==
    ASSUME ChunkInv, on_header_wrote \/ on_header_error \/ Wait \/ WaitTimeout \/ UNCHANGED vars
    PROVE  ChunkInv'
<1>t. TypeOK /\ TakenInOrder
  BY DEF ChunkInv
<1>1. /\ bodies' = bodies /\ pushes' = pushes /\ current' = current /\ wire' = wire
      /\ stopped' = stopped /\ pushed' = pushed
  BY DEF on_header_wrote, on_header_error, Wait, WaitTimeout, vars
<1>2. waited' \in BOOLEAN
  BY <1>t DEF TypeOK, on_header_wrote, on_header_error, Wait, WaitTimeout, vars
<1>3. \/ phase' = phase
      \/ phase \in {"header", "next"} /\ phase' \in {"next", "failed", "timeout"}
  BY DEF on_header_wrote, on_header_error, Wait, WaitTimeout, vars
<1>4. TypeOK'
  BY <1>t, <1>1, <1>2, <1>3 DEF TypeOK
<1>5. Taken' = Taken
  BY <1>1 DEF Taken
<1>6. TakenInOrder'
  BY <1>t, <1>1, <1>3, <1>5 DEF TakenInOrder
<1>7. ASSUME Open PROVE Open'
  BY <1>1, <1>3, <1>5, <1>7 DEF Open
<1>8. ASSUME NEW p, Shut(p) PROVE Shut(p)'
  BY <1>1, <1>3, <1>5, <1>8 DEF Shut, Mark
<1> QED
  BY <1>1, <1>4, <1>6, <1>7, <1>8 DEF ChunkInv

-------------------------------------------------------------------------------
(* Theorems *)

\* ChunkInv is an invariant of a chunked reply.
THEOREM ChunkInvariance == Spec => []ChunkInv
<1>1. ASSUME Init PROVE ChunkInv
  <2>1. /\ bodies = <<>> /\ current = <<>> /\ wire = <<>> /\ pushed = <<>> /\ phase = "header"
        /\ stopped = FALSE /\ waited = FALSE
    BY <1>1 DEF Init
  <2>2. \A S : <<>> \in Seq(S)
    BY EmptySeq
  <2>3. Len(<<>>) = 0 /\ 1..0 = {} /\ 0 + 0 = 0 /\ 0 <= 0 /\ 0 - 0 = 0 /\ 0 <= 1
    OBVIOUS
  <2>4. pushes \in [Threads -> 0..MaxPushes]
    <3>1. 0 \in 0..MaxPushes
      BY ChunkedAssumption
    <3> QED
      BY <1>1, <3>1 DEF Init
  <2>5. TypeOK
    BY <2>1, <2>2, <2>3, <2>4 DEF TypeOK
  <2>6. Taken = 0
    BY <2>1, <2>3 DEF Taken
  <2>7. TakenInOrder /\ Open
    BY <2>1, <2>3, <2>6 DEF TakenInOrder, Open
  <2> QED
    BY <2>1, <2>5, <2>7 DEF ChunkInv
<1>2. ASSUME ChunkInv, [Next]_vars PROVE ChunkInv'
  <2>1. CASE \E t \in Threads : \E body \in {"some", "empty"} : NextChunkedResponse(t, body)
    BY <1>2, <2>1, PushStep
  <2>2. CASE \E t \in Threads : StopChunkedResponse(t)
    BY <1>2, <2>2, StopStep
  <2>3. CASE Finish
    BY <1>2, <2>3, FinishStep
  <2>4. CASE WriteChunk
    BY <1>2, <2>4, WriteChunkStep
  <2>5. CASE \E ok \in BOOLEAN : do_write_chunked_body_finished(ok)
    BY <1>2, <2>5, FinishedStep
  <2>6. CASE on_header_wrote \/ on_header_error \/ Wait \/ WaitTimeout \/ UNCHANGED vars
    BY <1>2, <2>6, QuietLoop
  <2> QED
    BY <1>2, <2>1, <2>2, <2>3, <2>4, <2>5, <2>6 DEF Next, Loop
<1> QED
  BY <1>1, <1>2, PTL DEF Spec

\* The types of a chunked reply: the mark behind the last chunk is never written.
THEOREM TypeCorrect == Spec => []TypeOK
<1>1. ChunkInv => TypeOK
  BY DEF ChunkInv
<1> QED
  BY ChunkInvariance, <1>1, PTL

\* The reply carries the chunks in the order in which any threads push them, ends
\* with the last chunk when it ends well, and carries nothing behind it unless a
\* program pushes an empty body.
THEOREM RepliesIntact == Spec => []ReplyIntact
<1>1. ASSUME ChunkInv PROVE ReplyIntact
  <2>t. TypeOK
    BY <1>1 DEF ChunkInv
  <2>o. TakenInOrder
    BY <1>1 DEF ChunkInv
  <2>w. wire \in Seq(Chunk) /\ Len(wire) \in Nat
    BY <2>t, Lengths
  <2>p. pushed \in Seq(Chunk) /\ Len(pushed) \in Nat
    BY <2>t, Lengths
  <2>c. Len(current) \in Nat
    BY <2>t, Lengths
  <2>n. Taken \in Nat /\ Len(wire) <= Taken
    BY <2>w, <2>c DEF Taken
  <2>m. Taken <= Len(pushed)
    BY <2>o DEF TakenInOrder
  <2>s. \A i \in 1..Len(wire) : wire[i] = pushed[i]
    BY <2>o DEF TakenInOrder
  <2>d. DOMAIN wire = 1..Len(wire)
    BY <2>w, LenProperties
  <2>e. DOMAIN pushed = 1..Len(pushed)
    BY <2>p, LenProperties
  <2>1. Len(wire) <= Len(pushed)
    BY <2>w, <2>p, <2>n, <2>m
  <2>2. wire = SubSeq(pushed, 1, Len(wire))
    <3> DEFINE q == SubSeq(pushed, 1, Len(wire))
    <3>1. \A i \in 1..Len(wire) : pushed[i] \in Chunk
      <4>1. ASSUME NEW i \in 1..Len(wire) PROVE pushed[i] \in Chunk
        <5>1. i \in 1..Len(pushed)
          BY <2>w, <2>p, <2>1
        <5> QED
          BY <2>p, <5>1, ElementOfSeq
      <4> QED
        BY <4>1
    <3>2. /\ q \in Seq(Chunk)
          /\ Len(q) = IF 1 <= Len(wire) THEN Len(wire) - 1 + 1 ELSE 0
          /\ \A i \in 1..(Len(wire) - 1 + 1) : q[i] = pushed[1 + i - 1]
      BY <2>w, <2>p, <3>1, SubSeqProperties
    <3> HIDE DEF q
    <3>3. Len(q) = Len(wire)
      BY <2>w, <3>2
    <3>4. ASSUME NEW i \in 1..Len(wire) PROVE wire[i] = q[i]
      <4>1. i \in 1..(Len(wire) - 1 + 1) /\ 1 + i - 1 = i
        BY <2>w
      <4>2. q[i] = pushed[i]
        BY <3>2, <4>1
      <4> QED
        BY <2>s, <4>2
    <3>5. wire = q
      BY <2>w, <3>2, <3>3, <3>4, SeqEqual
    <3> QED
      BY <3>5 DEF q
  <2>3. ASSUME phase = "done" PROVE wire # <<>> /\ wire[Len(wire)].body = "last"
    <3>1. stopped
      BY <1>1, <2>3 DEF ChunkInv, Open
    <3>2. PICK p \in 1..Len(pushed) : Shut(p)
      BY <1>1, <3>1 DEF ChunkInv
    <3>3. current = <<>>
      BY <2>o, <2>3 DEF TakenInOrder
    <3>4. Taken = Len(wire)
      BY <2>t, <3>3, Lengths
    <3>5. Taken = p /\ pushed[p].body = "last"
      BY <2>3, <3>2 DEF Shut
    <3>6. p \in 1..p /\ p # 0
      BY <2>p
    <3>7. wire[p] = pushed[p]
      BY <2>s, <3>4, <3>5, <3>6
    <3>8. wire # <<>>
      BY <2>w, <3>4, <3>5, <3>6, EmptySeq
    <3> QED
      BY <3>4, <3>5, <3>7, <3>8
  <2>4. ASSUME \A i \in DOMAIN pushed : pushed[i].body # "empty",
               NEW i \in DOMAIN wire, Zero(wire[i])
        PROVE  i = Len(wire)
    <3>1. i \in 1..Len(wire)
      BY <2>d
    <3>2. i \in 1..Len(pushed)
      BY <2>w, <2>p, <2>1, <3>1
    <3>3. wire[i] = pushed[i]
      BY <2>s, <3>1
    <3>4. pushed[i].body \in {"some", "empty", "last"}
      <4>1. pushed[i] \in Chunk
        BY <2>p, <3>2, ElementOfSeq
      <4> QED
        BY <4>1 DEF Chunk
    <3>5. pushed[i].body # "empty"
      BY <2>e, <2>4, <3>2
    <3>6. pushed[i].body # "some"
      BY <2>4, <3>3 DEF Zero
    <3>7. pushed[i].body = "last"
      BY <3>4, <3>5, <3>6
    <3>8. stopped
      BY <1>1, <3>2, <3>7 DEF ChunkInv, Open
    <3>9. PICK p \in 1..Len(pushed) : Shut(p)
      BY <1>1, <3>8 DEF ChunkInv
    <3>10. i = p
      BY <3>2, <3>7, <3>9 DEF Shut
    <3>11. Taken <= p
      BY <3>9 DEF Shut
    <3>12. i <= Len(wire) /\ Len(wire) <= i
      BY <2>w, <2>p, <2>n, <3>1, <3>10, <3>11
    <3> QED
      BY <2>w, <3>1, <3>12
  <2>5. phase = "done" => wire # <<>> /\ wire[Len(wire)].body = "last"
    BY <2>3
  <2>6. (\A i \in DOMAIN pushed : pushed[i].body # "empty") =>
            \A i \in DOMAIN wire : Zero(wire[i]) => i = Len(wire)
    BY <2>4
  <2> QED
    BY <2>1, <2>2, <2>5, <2>6 DEF ReplyIntact
<1> QED
  BY ChunkInvariance, <1>1, PTL

-------------------------------------------------------------------------------
(* RequestReader *)

\* A set of numbers that is not empty has a least one.
LEMMA Least ==
    ASSUME NEW S \in SUBSET Nat, S # {}
    PROVE  \E m \in S : \A i \in S : m <= i
<1> DEFINE R == OpToRel(<, Nat)
<1>1. PICK m \in S : \A i \in S : ~(<<i, m>> \in R)
  <2> HIDE DEF R
  <2> QED
    BY NatLessThanWellFounded, WFMin DEF R
<1>2. \A i \in S : i < m => <<i, m>> \in R
  BY DEF OpToRel
<1> HIDE DEF R
<1>3. \A i \in S : ~(i < m)
  BY <1>1, <1>2
<1> QED
  BY <1>3

-------------------------------------------------------------------------------
(* The body.  What the multipart parser and its callbacks do to a connection *)
(* leaves the headers of the request and the text of the body alone.          *)

Fields == {"part", "field", "value", "headers", "body", "boundary", "mp",
           "partHeaders", "partData", "parts"}

Reads == {"start_boundary", "header_field", "headers_almost_done", "header_value_start",
          "header_value", "header_value_almost_done", "part_data_start", "part_data",
          "part_data_almost_boundary", "part_data_boundary", "part_data_almost_end",
          "part_data_final_hyphen", "part_data_end", "end"}

\* A parser that has been initialized.
IsParser(mp) == "state" \in DOMAIN mp /\ mp.state \in Reads

\* d with another parser state and other parts.
Keeps(d, e) ==
    /\ DOMAIN e = Fields
    /\ e.headers = d.headers /\ e.body = d.body
    /\ IsParser(e.mp)

LEMMA GotoKeeps ==
    ASSUME NEW d, NEW e, Keeps(d, e), NEW st \in Reads
    PROVE  Keeps(d, Goto(e, st))
  BY DEF Keeps, Goto, IsParser, Fields

LEMMA IndexKeeps ==
    ASSUME NEW d, NEW e, Keeps(d, e), NEW n
    PROVE  Keeps(d, [e EXCEPT !.mp.index = n])
<1>1. [e EXCEPT !.mp.index = n] = [e EXCEPT !.mp = [e.mp EXCEPT !.index = n]]
  BY DEF Keeps, Fields
<1> QED
  BY <1>1 DEF Keeps, IsParser, Fields

LEMMA CallbacksKeep ==
    ASSUME NEW d, NEW e, Keeps(d, e), NEW text
    PROVE  /\ Keeps(d, on_multipart_header_field(e, text))
           /\ Keeps(d, on_header_value(e, text))
           /\ Keeps(d, on_multipart_headers_complete(e))
           /\ Keeps(d, on_multipart_data_begin(e))
           /\ Keeps(d, on_multipart_data(e, text))
           /\ Keeps(d, on_multipart_data_end(e))
<1>1. ASSUME NEW part PROVE Keeps(d, CommitPartHeader(e, part))
  BY DEF Keeps, Fields, CommitPartHeader
<1>2. Keeps(d, on_multipart_header_field(e, text))
  BY <1>1 DEF Keeps, Fields, on_multipart_header_field
<1>3. Keeps(d, on_header_value(e, text))
  BY DEF Keeps, Fields, on_header_value
<1>4. Keeps(d, on_multipart_headers_complete(e))
  BY <1>1 DEF on_multipart_headers_complete
<1>5. Keeps(d, on_multipart_data_begin(e))
  BY DEF Keeps, Fields, on_multipart_data_begin
<1>6. Keeps(d, on_multipart_data(e, text))
  BY DEF Keeps, Fields, on_multipart_data
<1>7. Keeps(d, on_multipart_data_end(e))
  BY DEF Keeps, Fields, on_multipart_data_end
<1> QED
  BY <1>2, <1>3, <1>4, <1>5, <1>6, <1>7

LEMMA ReadsKeep ==
    ASSUME NEW d, NEW e, Keeps(d, e), NEW mark, NEW ch, NEW last
    PROVE  /\ Keeps(d, ReadField(e, mark, ch, last).d)
           /\ Keeps(d, ReadValue(e, mark, ch, last).d)
           /\ Keeps(d, ReadData(e, mark, ch, last).d)
<1>1. Keeps(d, ReadField(e, mark, ch, last).d)
  <2>1. CASE ch = "CR"
    BY <2>1, GotoKeeps DEF ReadField, Reads
  <2>2. CASE ch = ":"
    <3>1. Keeps(d, on_multipart_header_field(e, mark))
      BY CallbacksKeep
    <3> QED
      BY <2>2, <3>1, GotoKeeps DEF ReadField, Reads
  <2>3. CASE ch # "CR" /\ ch # ":"
    BY <2>3, CallbacksKeep DEF ReadField
  <2> QED
    BY <2>1, <2>2, <2>3
<1>2. Keeps(d, ReadValue(e, mark, ch, last).d)
  <2>1. Keeps(d, on_header_value(e, mark)) /\ Keeps(d, on_header_value(e, Append(mark, ch)))
    BY CallbacksKeep
  <2> QED
    BY <2>1, GotoKeeps DEF ReadValue, Reads
<1>3. Keeps(d, ReadData(e, mark, ch, last).d)
  <2>1. Keeps(d, on_multipart_data(e, mark)) /\ Keeps(d, on_multipart_data(e, Append(mark, ch)))
    BY CallbacksKeep
  <2> QED
    BY <2>1, GotoKeeps DEF ReadData, Reads
<1> QED
  BY <1>1, <1>2, <1>3

LEMMA ReadCharKeeps ==
    ASSUME NEW d, NEW e, Keeps(d, e), NEW mark, NEW ch, NEW last
    PROVE  Keeps(d, ReadChar(e, mark, ch, last).d)
<1> DEFINE s == e.mp.state
<1>0. s \in Reads
  BY DEF Keeps, IsParser
<1>1. ASSUME NEW lookbehind
      PROVE  Keeps(d, NoBoundary(e, lookbehind, ch, last).d)
  <2>1. Keeps(d, Goto(on_multipart_data(e, lookbehind), "part_data"))
    BY CallbacksKeep, GotoKeeps DEF Reads
  <2> QED
    BY <2>1, ReadsKeep DEF NoBoundary
<1>2. ASSUME NEW wanted, NEW next, Keeps(d, next)
      PROVE  Keeps(d, Expect(e, ch, wanted, next).d)
  BY <1>2 DEF Expect
<1>3. \A st \in Reads : Keeps(d, Goto(e, st))
  BY GotoKeeps
<1>4. CASE s = "start_boundary"
  <2>1. Keeps(d, [e EXCEPT !.mp.index = e.mp.index + 1])
    BY IndexKeeps
  <2>2. Keeps(d, [on_multipart_data_begin(e) EXCEPT !.mp.index = 0])
    BY CallbacksKeep, IndexKeeps
  <2>3. Keeps(d, Goto([on_multipart_data_begin(e) EXCEPT !.mp.index = 0], "header_field"))
    BY <2>2, GotoKeeps DEF Reads
  <2>4. Keeps(d, StartBoundary(e, ch).d)
    BY <2>1, <2>3, <1>2 DEF StartBoundary
  <2> QED
    BY <1>4, <2>4 DEF ReadChar
<1>5. CASE s = "header_field"
  BY <1>5, ReadsKeep DEF ReadChar
<1>6. CASE s = "headers_almost_done"
  BY <1>6, <1>3, <1>2 DEF ReadChar, Reads
<1>7. CASE s = "header_value_start"
  <2>1. CASE ch = " "
    BY <1>7, <2>1 DEF ReadChar
  <2>2. CASE ch # " "
    <3>1. Keeps(d, Goto(e, "header_value"))
      BY <1>3 DEF Reads
    <3>2. Keeps(d, ReadValue(Goto(e, "header_value"), <<>>, ch, last).d)
      BY <3>1, ReadsKeep
    <3> QED
      BY <1>7, <2>2, <3>2 DEF ReadChar
  <2> QED
    BY <2>1, <2>2
<1>8. CASE s = "header_value"
  BY <1>8, ReadsKeep DEF ReadChar
<1>9. CASE s = "header_value_almost_done"
  BY <1>9, <1>3, <1>2 DEF ReadChar, Reads
<1>10. CASE s = "part_data_start"
  <2>1. Keeps(d, Goto(on_multipart_headers_complete(e), "part_data"))
    BY CallbacksKeep, GotoKeeps DEF Reads
  <2>2. Keeps(d, ReadData(Goto(on_multipart_headers_complete(e), "part_data"), <<>>, ch, last).d)
    BY <2>1, ReadsKeep
  <2> QED
    BY <1>10, <2>2 DEF ReadChar
<1>11. CASE s = "part_data"
  BY <1>11, ReadsKeep DEF ReadChar
<1>12. CASE s = "part_data_almost_boundary"
  <2>1. Keeps(d, Goto([e EXCEPT !.mp.index = 0], "part_data_boundary"))
    BY IndexKeeps, GotoKeeps DEF Reads
  <2> QED
    BY <1>12, <2>1, <1>1 DEF ReadChar
<1>13. CASE s = "part_data_boundary"
  <2> DEFINE n == e.mp.index + 1
  <2>1. Keeps(d, [e EXCEPT !.mp.index = n])
    BY IndexKeeps
  <2>2. Keeps(d, Goto(on_multipart_data_end(e), "part_data_almost_end"))
    BY CallbacksKeep, GotoKeeps DEF Reads
  <2>3. Keeps(d, ReadBoundary(e, ch, last).d)
    <3>1. CASE e.mp.boundary[n] # ch
      BY <3>1, <1>1 DEF ReadBoundary
    <3>2. CASE ~(e.mp.boundary[n] # ch)
      BY <3>2, <2>1, <2>2 DEF ReadBoundary
    <3> QED
      BY <3>1, <3>2
  <2> QED
    BY <1>13, <2>3 DEF ReadChar
<1>14. CASE s = "part_data_almost_end"
  <2>1. Keeps(d, Goto(e, "part_data_final_hyphen")) /\ Keeps(d, Goto(e, "part_data_end"))
    BY <1>3 DEF Reads
  <2> QED
    BY <1>14, <2>1, <1>2 DEF ReadChar
<1>15. CASE s = "part_data_final_hyphen"
  BY <1>15, <1>3, <1>2 DEF ReadChar, Reads
<1>16. CASE s = "part_data_end"
  <2>1. Keeps(d, Goto(on_multipart_data_begin(e), "header_field"))
    BY CallbacksKeep, GotoKeeps DEF Reads
  <2> QED
    BY <1>16, <2>1, <1>2 DEF ReadChar
<1>17. CASE s = "end"
  BY <1>17 DEF ReadChar
<1> QED
  BY <1>0, <1>4, <1>5, <1>6, <1>7, <1>8, <1>9, <1>10, <1>11, <1>12, <1>13, <1>14, <1>15,
     <1>16, <1>17 DEF Reads

LEMMA ExecuteKeeps ==
    ASSUME NEW d, Keeps(d, d), NEW text \in Chars
    PROVE  Keeps(d, multipart_parser_execute(d, text).d)
<1> DEFINE n == Len(text)
           start == [d |-> d, mark |-> <<>>, ok |-> TRUE]
           next(x, i) == IF x.ok THEN ReadChar(x.d, x.mark, text[i], i = n) ELSE x
           IsAfter(g, m) == g = [i \in 0..m |-> IF i = 0 THEN start ELSE next(g[i - 1], i)]
           after == CHOOSE g : IsAfter(g, n)
<1>1. n \in Nat
  BY DEF Chars
<1>2. multipart_parser_execute(d, text) = after[n]
  BY DEF multipart_parser_execute
<1> HIDE DEF n, start, next
\* The recursion has a solution.
<1>3. \A m \in Nat : \E g : IsAfter(g, m)
  <2> SUFFICES ASSUME ~(\A m \in Nat : \E g : IsAfter(g, m)) PROVE FALSE
    OBVIOUS
  <2> DEFINE S == {m \in Nat : ~\E g : IsAfter(g, m)}
  <2>1. S \in SUBSET Nat /\ S # {}
    OBVIOUS
  <2>2. PICK m \in S : \A i \in S : m <= i
    BY <2>1, Least
  <2>3. CASE m = 0
    <3>1. IsAfter([i \in 0..0 |-> start], 0)
      OBVIOUS
    <3> QED
      BY <2>3, <3>1
  <2>4. CASE m # 0
    <3>1. m \in Nat /\ m - 1 \in Nat /\ m - 1 \notin S
      <4> HIDE DEF IsAfter
      <4> QED
        BY <2>2, <2>4
    <3>2. PICK g : IsAfter(g, m - 1)
      BY <3>1
    <3> DEFINE h == [i \in 0..m |-> IF i < m THEN g[i] ELSE next(g[m - 1], m)]
    <3>3. \A i \in 0..(m - 1) : g[i] = IF i = 0 THEN start ELSE next(g[i - 1], i)
      BY <3>2
    <3>4. \A i \in 0..m : h[i] = IF i = 0 THEN start ELSE next(h[i - 1], i)
      <4> TAKE i \in 0..m
      <4>1. CASE i = m
        BY <4>1, <3>1, <2>4
      <4>2. CASE i < m
        <5>1. h[i] = g[i] /\ (i # 0 => h[i - 1] = g[i - 1])
          BY <4>2, <3>1
        <5> QED
          BY <5>1, <3>3, <4>2, <3>1
      <4> QED
        BY <4>1, <4>2, <3>1
    <3>5. DOMAIN h = 0..m /\ h = [i \in 0..m |-> h[i]]
      OBVIOUS
    <3> HIDE DEF h
    <3>6. IsAfter(h, m)
      BY <3>4, <3>5
    <3> QED
      BY <3>6, <2>2
  <2> QED
    BY <2>3, <2>4
<1>4. IsAfter(after, n)
  BY <1>1, <1>3
<1> HIDE DEF after
<1>5. \A i \in 0..n : after[i] = IF i = 0 THEN start ELSE next(after[i - 1], i)
  BY <1>4
<1>6. \A i \in 0..n : Keeps(d, after[i].d)
  <2> SUFFICES ASSUME ~(\A i \in 0..n : Keeps(d, after[i].d)) PROVE FALSE
    OBVIOUS
  <2> DEFINE S == {i \in 0..n : ~Keeps(d, after[i].d)}
  <2>1. S \in SUBSET Nat /\ S # {}
    OBVIOUS
  <2>2. PICK m \in S : \A i \in S : m <= i
    BY <2>1, Least
  <2>3. m # 0
    BY <1>5, <1>1 DEF start
  <2>4. m \in 1..n /\ m - 1 \in 0..n /\ Keeps(d, after[m - 1].d)
    BY <2>2, <2>3, <1>1
  <2>5. after[m] = next(after[m - 1], m)
    BY <1>5, <2>4, <2>3
  <2>6. Keeps(d, after[m].d)
    BY <2>4, <2>5, ReadCharKeeps DEF next
  <2> QED
    BY <2>2, <2>6
<1> QED
  BY <1>1, <1>2, <1>6

\* The connection between two callbacks.
IsConnection(d) ==
    /\ DOMAIN d = Fields
    /\ d.body \in Chars
    /\ d.mp = NoParser \/ IsParser(d.mp)

\* init_multipart_parser changes the parser and the boundary.
LEMMA InitKeeps ==
    ASSUME NEW d, IsConnection(d), NEW boundary
    PROVE  /\ IsConnection(init_multipart_parser(d, boundary))
           /\ Keeps(d, init_multipart_parser(d, boundary))
  BY DEF IsConnection, Keeps, Fields, IsParser, Reads, init_multipart_parser

\* A fragment of the body leaves the headers of the request alone.
LEMMA BodyKeepsHeaders ==
    ASSUME NEW d, IsConnection(d), NEW text \in Chars
    PROVE  LET x == on_body(d, text)
           IN  IsConnection(x.d) /\ x.d.headers = d.headers
<1> DEFINE b == [d EXCEPT !.body = @ \o text]
           e == IF b.mp = NoParser THEN try_fix_multipart_bad_request_without_boundary(b) ELSE b
           x == multipart_parser_execute(e, e.body)
<1>1. IsConnection(b) /\ b.headers = d.headers
  BY DEF IsConnection, Fields, Chars
<1>2. CASE ~IsMultiPart(b)
  BY <1>1, <1>2 DEF on_body
<1>3. CASE IsMultiPart(b)
  <2>1. on_body(d, text) = do_multipart_parse(b)
    BY <1>3 DEF on_body
  <2> HIDE DEF b
  <2>2. IsConnection(e) /\ e.headers = d.headers
    <3>1. e = b \/ \E boundary : e = init_multipart_parser(b, boundary)
      BY DEF try_fix_multipart_bad_request_without_boundary
    <3> QED
      BY <3>1, <1>1, InitKeeps DEF Keeps
  <2>3. do_multipart_parse(b) =
            IF e.mp = NoParser THEN [d |-> e, ok |-> TRUE]
            ELSE [d |-> [x.d EXCEPT !.body = IF x.ok THEN <<>> ELSE @], ok |-> x.ok]
    BY DEF do_multipart_parse
  <2> HIDE DEF e
  <2>4. CASE e.mp = NoParser
    BY <2>1, <2>2, <2>3, <2>4
  <2>5. CASE e.mp # NoParser
    <3>1. Keeps(e, e) /\ e.body \in Chars
      BY <2>2, <2>5 DEF Keeps, IsConnection
    <3>2. Keeps(e, x.d)
      BY <3>1, ExecuteKeeps
    <3> HIDE DEF x
    <3> DEFINE text2 == IF x.ok THEN <<>> ELSE x.d.body
               y == [x.d EXCEPT !.body = text2]
    <3>3. text2 \in Chars
      <4>1. <<>> \in Chars
        BY DEF Chars
      <4>2. x.d.body \in Chars
        BY <3>1, <3>2 DEF Keeps
      <4> QED
        BY <4>1, <4>2
    <3> HIDE DEF text2
    <3>4. IsConnection(y) /\ y.headers = d.headers
      BY <3>2, <3>3, <2>2 DEF Keeps, IsConnection, Fields
    <3>5. do_multipart_parse(b).d = y
      BY <2>3, <2>5 DEF text2
    <3> QED
      BY <3>4, <3>5, <2>1
  <2> QED
    BY <2>4, <2>5
<1> QED
  BY <1>2, <1>3

\* The texts of a sequence of texts, one behind the other, are a text.
LEMMA FlattenedIsText ==
    ASSUME NEW seqs \in Seq(Chars)
    PROVE  FlattenSeq(seqs) \in Chars
<1> DEFINE n == Len(seqs)
           IsFlat(g, m) == g = [i \in 1..m |-> IF i = 1 THEN seqs[i] ELSE g[i - 1] \o seqs[i]]
           flat == CHOOSE g : IsFlat(g, n)
<1>1. n \in Nat /\ (\A i \in 1..n : seqs[i] \in Chars)
  OBVIOUS
<1>2. FlattenSeq(seqs) = IF n = 0 THEN seqs ELSE flat[n]
  BY DEF FlattenSeq
<1>3. CASE n = 0
  <2>1. seqs = <<>>
    BY <1>3
  <2> QED
    BY <1>2, <1>3, <2>1 DEF Chars
<1>4. CASE n # 0
  <2> HIDE DEF n
  <2>1. \A m \in Nat : \E g : IsFlat(g, m)
    <3> SUFFICES ASSUME ~(\A m \in Nat : \E g : IsFlat(g, m)) PROVE FALSE
      OBVIOUS
    <3> DEFINE S == {m \in Nat : ~\E g : IsFlat(g, m)}
    <3>1. S \in SUBSET Nat /\ S # {}
      OBVIOUS
    <3>2. PICK m \in S : \A i \in S : m <= i
      BY <3>1, Least
    <3>3. CASE m = 0
      <4>1. IsFlat([i \in 1..0 |-> <<>>], 0)
        OBVIOUS
      <4> QED
        BY <3>3, <4>1
    <3>4. CASE m # 0
      <4>1. m \in Nat /\ m - 1 \in Nat /\ m - 1 \notin S
        <5> HIDE DEF IsFlat
        <5> QED
          BY <3>2, <3>4
      <4>2. PICK g : IsFlat(g, m - 1)
        BY <4>1
      <4> DEFINE last == IF m = 1 THEN seqs[m] ELSE g[m - 1] \o seqs[m]
                 h == [i \in 1..m |-> IF i < m THEN g[i] ELSE last]
      <4>3. \A i \in 1..(m - 1) : g[i] = IF i = 1 THEN seqs[i] ELSE g[i - 1] \o seqs[i]
        BY <4>2
      <4>4. \A i \in 1..m : h[i] = IF i = 1 THEN seqs[i] ELSE h[i - 1] \o seqs[i]
        <5> TAKE i \in 1..m
        <5>1. CASE i = m
          BY <5>1, <4>1
        <5>2. CASE i < m
          <6>1. h[i] = g[i] /\ (i # 1 => h[i - 1] = g[i - 1])
            BY <5>2, <4>1
          <6> QED
            BY <6>1, <4>3, <5>2, <4>1
        <5> QED
          BY <5>1, <5>2, <4>1
      <4>5. h = [i \in 1..m |-> h[i]]
        OBVIOUS
      <4> HIDE DEF h
      <4>6. IsFlat(h, m)
        BY <4>4, <4>5
      <4> QED
        BY <4>6, <3>2
    <3> QED
      BY <3>3, <3>4
  <2>2. IsFlat(flat, n)
    BY <1>1, <2>1
  <2> HIDE DEF flat
  <2>3. \A i \in 1..n : flat[i] = IF i = 1 THEN seqs[i] ELSE flat[i - 1] \o seqs[i]
    BY <2>2
  <2>4. \A i \in 1..n : flat[i] \in Chars
    <3> SUFFICES ASSUME ~(\A i \in 1..n : flat[i] \in Chars) PROVE FALSE
      OBVIOUS
    <3> DEFINE S == {i \in 1..n : flat[i] \notin Chars}
    <3>1. S \in SUBSET Nat /\ S # {}
      OBVIOUS
    <3>2. PICK m \in S : \A i \in S : m <= i
      BY <3>1, Least
    <3>3. m \in 1..n /\ m # 1 /\ m - 1 \in 1..n /\ flat[m - 1] \in Chars
      BY <3>2, <2>3, <1>1
    <3>4. flat[m] = flat[m - 1] \o seqs[m] /\ seqs[m] \in Chars
      BY <3>3, <2>3, <1>1
    <3>5. flat[m] \in Chars
      BY <3>3, <3>4 DEF Chars
    <3> QED
      BY <3>2, <3>5
  <2> QED
    BY <1>1, <1>2, <1>4, <2>4
<1> QED
  BY <1>3, <1>4

LEMMA SequencesAre ==
    ASSUME NEW S, NEW n \in Nat, NEW f \in [1..n -> S]
    PROVE  f \in Seq(S)
  OBVIOUS

LEMMA TextsJoin ==
    ASSUME NEW s \in Chars, NEW t \in Chars
    PROVE  s \o t \in Chars
  BY DEF Chars

LEMMA BodyIsText ==
    ASSUME NEW r \in RequestType
    PROVE  Body(r) \in Chars
<1>1. /\ LineEnd \in Chars /\ <<"-", "-">> \in Chars /\ <<":", " ">> \in Chars
      /\ <<>> \in Chars /\ r.boundary \in Chars /\ r.parts \in Seq(PartType)
  <2>1. LineEnd \in Chars /\ <<"-", "-">> \in Chars /\ <<":", " ">> \in Chars
    <3>1. ASSUME NEW x \in Characters, NEW y \in Characters
          PROVE  <<x, y>> \in Seq(Characters)
      OBVIOUS
    <3> QED
      BY CharactersAssumption, <3>1 DEF Chars, LineEnd
  <2>2. <<>> \in Chars
    BY DEF Chars
  <2>3. r.boundary \in Chars /\ r.parts \in Seq(PartType)
    BY DEF RequestType
  <2> QED
    BY <2>1, <2>2, <2>3
<1>2. ASSUME NEW h \in [field : Chars, value : Chars]
      PROVE  Line(h) \in Chars
  BY <1>1, <1>2, TextsJoin DEF Line
<1> DEFINE lines(i) == [j \in DOMAIN r.parts[i].headers |-> Line(r.parts[i].headers[j])]
           text(i) == <<"-", "-">> \o r.boundary \o LineEnd \o FlattenSeq(lines(i))
                      \o LineEnd \o r.parts[i].data \o LineEnd
           texts == [i \in DOMAIN r.parts |-> text(i)]
           end == IF r.parts = <<>> THEN <<>> ELSE <<"-", "-">> \o r.boundary \o <<"-", "-">> \o LineEnd
<1>3. \A i \in DOMAIN r.parts : text(i) \in Chars
  <2> TAKE i \in DOMAIN r.parts
  <2>1. /\ r.parts[i].headers \in Seq([field : Chars, value : Chars])
        /\ r.parts[i].data \in Chars
    <3>1. r.parts[i] \in PartType
      <4>1. i \in 1..Len(r.parts)
        BY <1>1, LenProperties, Zenon
      <4> QED
        BY <1>1, <4>1, ElementOfSeq, Zenon
    <3> QED
      BY <3>1 DEF PartType
  <2>2. lines(i) \in Seq(Chars)
    <3> DEFINE hs == r.parts[i].headers
    <3>1. DOMAIN hs = 1..Len(hs) /\ Len(hs) \in Nat
      BY <2>1
    <3>2. \A j \in 1..Len(hs) : Line(hs[j]) \in Chars
      <4>1. \A j \in 1..Len(hs) : hs[j] \in [field : Chars, value : Chars]
        BY <2>1, ElementOfSeq, Zenon
      <4> QED
        BY <4>1, <1>2, Zenon
    <3>3. lines(i) = [j \in 1..Len(hs) |-> Line(hs[j])]
      BY <3>1
    <3> HIDE DEF hs, lines
    <3> QED
      BY <3>1, <3>2, <3>3, SequencesAre
  <2>3. FlattenSeq(lines(i)) \in Chars
    BY <2>2, FlattenedIsText
  <2> HIDE DEF lines
  <2> QED
    BY <1>1, <2>1, <2>3, TextsJoin
<1> HIDE DEF text
<1>4. texts \in Seq(Chars)
  <2>1. Len(r.parts) \in Nat /\ DOMAIN r.parts = 1..Len(r.parts)
    BY <1>1, LenProperties, Zenon
  <2>2. texts = [i \in 1..Len(r.parts) |-> text(i)] /\ \A i \in 1..Len(r.parts) : text(i) \in Chars
    BY <2>1, <1>3
  <2> HIDE DEF texts
  <2> QED
    BY <2>1, <2>2, SequencesAre
<1>5. FlattenSeq(texts) \in Chars
  BY <1>4, FlattenedIsText
<1>6. end \in Chars
  BY <1>1, TextsJoin
<1>7. Body(r) = FlattenSeq(texts) \o end
  BY DEF Body, text
<1> HIDE DEF texts, end
<1> QED
  BY <1>5, <1>6, <1>7, TextsJoin

-------------------------------------------------------------------------------
(* Fields that are equal but for the case. *)

LEMMA Equivalence ==
    ASSUME NEW l \in Chars, NEW m \in Chars, NEW r \in Chars
    PROVE  /\ iEquals(l, l)
           /\ iEquals(l, m) => iEquals(m, l)
           /\ iEquals(l, m) /\ iEquals(m, r) => iEquals(l, r)
<1>1. /\ DOMAIN l = 1..Len(l) /\ Len(l) \in Nat
      /\ DOMAIN m = 1..Len(m) /\ Len(m) \in Nat
      /\ DOMAIN r = 1..Len(r) /\ Len(r) \in Nat
  BY DEF Chars
<1>2. iEquals(l, l)
  BY <1>1 DEF iEquals, iStartsWith
<1>3. iEquals(l, m) => iEquals(m, l)
  BY <1>1 DEF iEquals, iStartsWith
<1>4. iEquals(l, m) /\ iEquals(m, r) => iEquals(l, r)
  BY <1>1 DEF iEquals, iStartsWith
<1> QED
  BY <1>2, <1>3, <1>4

\* Headers i and j have the same field.
Same(headers, i, j) == iEquals(headers[i].field, headers[j].field)

LEMMA SameField ==
    ASSUME NEW headers \in Seq(HeaderType)
    PROVE  /\ \A i \in 1..Len(headers) : headers[i].field \in Chars
           /\ \A i \in 1..Len(headers) : headers[i].field # <<>> /\ headers[i].value \in Chars
           /\ \A i \in 1..Len(headers) : Same(headers, i, i)
           /\ \A i, j \in 1..Len(headers) : Same(headers, i, j) => Same(headers, j, i)
           /\ \A i, j, k \in 1..Len(headers) :
                  Same(headers, i, j) /\ Same(headers, j, k) => Same(headers, i, k)
<1>1. \A i \in 1..Len(headers) : headers[i] \in HeaderType
  BY ElementOfSeq, Zenon
<1>2. \A i \in 1..Len(headers) : /\ headers[i].field \in Chars /\ headers[i].field # <<>>
                                 /\ headers[i].value \in Chars
  BY <1>1 DEF HeaderType
<1> QED
  BY <1>2, Equivalence DEF Same

LEMMA FirstOfField ==
    ASSUME NEW headers \in Seq(HeaderType), NEW i \in 1..Len(headers)
    PROVE  /\ FirstOf(headers, i) \in 1..i
           /\ Same(headers, FirstOf(headers, i), i)
           /\ \A k \in 1..(FirstOf(headers, i) - 1) : ~Same(headers, k, i)
<1> DEFINE First(j) == /\ Same(headers, j, i)
                       /\ \A k \in 1..(j - 1) : ~Same(headers, k, i)
           S == {j \in 1..i : Same(headers, j, i)}
           f == FirstOf(headers, i)
<1>0. Len(headers) \in Nat /\ DOMAIN headers = 1..Len(headers)
  BY LenProperties, Zenon
<1>1. i \in S /\ S \in SUBSET Nat
  BY SameField
<1>2. PICK m \in S : \A j \in S : m <= j
  BY <1>1, Least
<1>3. m \in 1..Len(headers) /\ m <= i /\ First(m)
  BY <1>2, <1>0
<1>4. f = CHOOSE j \in 1..Len(headers) : First(j)
  BY <1>0 DEF FirstOf, Same
<1> HIDE DEF First
<1>5. f \in 1..Len(headers) /\ First(f)
  BY <1>3, <1>4
<1> HIDE DEF f
<1>6. f <= m
  <2> SUFFICES ASSUME m < f PROVE FALSE
    BY <1>3, <1>5, <1>0
  <2>1. m \in 1..(f - 1)
    BY <1>3, <1>5, <1>0
  <2> QED
    BY <2>1, <1>3, <1>5 DEF First
<1> QED
  BY <1>0, <1>3, <1>5, <1>6 DEF First, f

LEMMA SameFirst ==
    ASSUME NEW headers \in Seq(HeaderType),
           NEW i \in 1..Len(headers), NEW j \in 1..Len(headers), Same(headers, i, j)
    PROVE  FirstOf(headers, i) = FirstOf(headers, j)
<1> DEFINE f == FirstOf(headers, i)
           g == FirstOf(headers, j)
<1>0. Len(headers) \in Nat
  BY LenProperties, Zenon
<1>1. f \in 1..Len(headers) /\ g \in 1..Len(headers)
  BY FirstOfField, <1>0
<1>2. Same(headers, f, j) /\ Same(headers, g, i)
  BY FirstOfField, SameField, <1>1
<1>3. ~(f < g)
  <2> SUFFICES ASSUME f < g PROVE FALSE
    OBVIOUS
  <2>1. f \in 1..(g - 1)
    BY <1>1, <1>0
  <2> QED
    BY <2>1, <1>2, FirstOfField
<1>4. ~(g < f)
  <2> SUFFICES ASSUME g < f PROVE FALSE
    OBVIOUS
  <2>1. g \in 1..(f - 1)
    BY <1>1, <1>0
  <2> QED
    BY <2>1, <1>2, FirstOfField
<1> QED
  BY <1>0, <1>1, <1>3, <1>4

-------------------------------------------------------------------------------
(* The headers after the first n have been appended. *)

Entry(headers, i) == [field |-> headers[FirstOf(headers, i)].field, value |-> headers[i].value]
IsLastOf(headers, i, n) == \A j \in (i + 1)..n : ~Same(headers, j, i)
Appended(headers, n) == {Entry(headers, i) : i \in {j \in 1..n : IsLastOf(headers, j, n)}}

LEMMA AllAppended ==
    ASSUME NEW headers \in Seq(HeaderType)
    PROVE  Appended(headers, Len(headers)) = Sent(headers)
<1>1. DOMAIN headers = 1..Len(headers)
  BY LenProperties, Zenon
<1> QED
  BY <1>1 DEF Appended, Sent, Entry, IsLastOf, IsLast, Same

LEMMA FieldAppended ==
    ASSUME NEW headers \in Seq(HeaderType), NEW n \in 0..Len(headers), NEW k \in 1..Len(headers)
    PROVE  (\E h \in Appended(headers, n) : iEquals(h.field, headers[k].field))
           <=> (\E i \in 1..n : Same(headers, i, k))
<1>0. Len(headers) \in Nat
  BY LenProperties, Zenon
<1>1. \A i \in 1..n : iEquals(Entry(headers, i).field, headers[k].field) <=> Same(headers, i, k)
  <2> TAKE i \in 1..n
  <2> DEFINE f == FirstOf(headers, i)
  <2>1. i \in 1..Len(headers) /\ f \in 1..Len(headers) /\ Same(headers, f, i)
    BY FirstOfField, <1>0
  <2>2. iEquals(Entry(headers, i).field, headers[k].field) <=> Same(headers, f, k)
    BY DEF Entry, Same
  <2> QED
    BY <2>1, <2>2, SameField
<1>2. ASSUME NEW h \in Appended(headers, n), iEquals(h.field, headers[k].field)
      PROVE  \E i \in 1..n : Same(headers, i, k)
  BY <1>1, <1>2 DEF Appended
<1>3. ASSUME NEW i \in 1..n, Same(headers, i, k)
      PROVE  \E h \in Appended(headers, n) : iEquals(h.field, headers[k].field)
  <2> DEFINE S == {n - j : j \in {l \in 1..n : Same(headers, l, k)}}
  <2>1. n - i \in S /\ S \in SUBSET Nat
    BY <1>3, <1>0
  <2>2. PICK d \in S : \A e \in S : d <= e
    BY <2>1, Least
  <2>3. PICK j \in 1..n : Same(headers, j, k) /\ d = n - j
    BY <2>2
  <2>4. \A l \in 1..n : Same(headers, l, k) => l <= j
    <3> SUFFICES ASSUME NEW l \in 1..n, Same(headers, l, k) PROVE l <= j
      OBVIOUS
    <3>1. n - l \in S
      OBVIOUS
    <3>2. d <= n - l
      BY <3>1, <2>2
    <3> QED
      BY <3>2, <2>3, <1>0
  <2>5. IsLastOf(headers, j, n)
    <3> SUFFICES ASSUME NEW l \in (j + 1)..n, Same(headers, l, j) PROVE FALSE
      BY DEF IsLastOf
    <3>1. l \in 1..n /\ l > j /\ {l, j} \subseteq 1..Len(headers)
      BY <1>0
    <3>2. Same(headers, l, k)
      BY <3>1, <2>3, SameField
    <3> QED
      BY <3>1, <3>2, <2>4
  <2>6. Entry(headers, j) \in Appended(headers, n)
    BY <2>5 DEF Appended
  <2> QED
    BY <2>6, <2>3, <1>1
<1> QED
  BY <1>2, <1>3

\* AppendHeader appends the next header, whether or not its field is new.
LEMMA AppendNext ==
    ASSUME NEW headers \in Seq(HeaderType), NEW n \in 1..Len(headers)
    PROVE  AppendHeader(Appended(headers, n - 1), headers[n].field, headers[n].value)
               = Appended(headers, n)
<1> DEFINE f == headers[n].field
           v == headers[n].value
           old == Appended(headers, n - 1)
           last == {j \in 1..n : IsLastOf(headers, j, n)}
           oldLast == {j \in 1..(n - 1) : IsLastOf(headers, j, n - 1)}
           e(i) == Entry(headers, i)
<1>0. Len(headers) \in Nat /\ n \in Nat /\ n >= 1 /\ n - 1 \in 0..Len(headers)
  <2>1. Len(headers) \in Nat
    BY LenProperties, Zenon
  <2> QED
    BY <2>1
<1>1. \A i \in 1..(n - 1) : iEquals(e(i).field, f) <=> Same(headers, i, n)
  <2> TAKE i \in 1..(n - 1)
  <2>1. /\ i \in 1..Len(headers) /\ FirstOf(headers, i) \in 1..Len(headers)
        /\ Same(headers, FirstOf(headers, i), i)
    BY FirstOfField, <1>0
  <2>2. iEquals(e(i).field, f) <=> Same(headers, FirstOf(headers, i), n)
    BY DEF Entry, Same
  <2> QED
    BY <2>1, <2>2, SameField, <1>0
\* The last ones are those of before with another field, and the new one.
<1>2. last = {i \in oldLast : ~Same(headers, i, n)} \cup {n}
  <2>1. n \in last
    BY <1>0 DEF IsLastOf
  <2>2. ASSUME NEW i \in 1..(n - 1)
        PROVE  IsLastOf(headers, i, n) <=> IsLastOf(headers, i, n - 1) /\ ~Same(headers, i, n)
    <3>1. (i + 1)..n = ((i + 1)..(n - 1)) \cup {n}
      BY <1>0
    <3>2. Same(headers, i, n) <=> Same(headers, n, i)
      BY SameField, <1>0
    <3> QED
      BY <3>1, <3>2 DEF IsLastOf
  <2>3. 1..n = (1..(n - 1)) \cup {n}
    BY <1>0
  <2> HIDE DEF last
  <2>4. \A i \in 1..(n - 1) : i \in last <=> i \in oldLast /\ ~Same(headers, i, n)
    BY <2>2, <2>3 DEF last
  <2>5. last \subseteq 1..n /\ oldLast \subseteq 1..(n - 1)
    BY DEF last
  <2> HIDE DEF oldLast
  <2> QED
    BY <2>1, <2>3, <2>4, <2>5, Zenon
<1>3. old = {e(i) : i \in oldLast} /\ Appended(headers, n) = {e(i) : i \in last}
  BY DEF Appended
<1>4. oldLast \subseteq 1..(n - 1)
  OBVIOUS
<1>5. (\E h \in old : iEquals(h.field, f)) <=> (\E i \in 1..(n - 1) : Same(headers, i, n))
  BY FieldAppended, <1>0
<1>6. CASE \E i \in 1..(n - 1) : Same(headers, i, n)
  <2> DEFINE changed(h) == IF iEquals(h.field, f) THEN [h EXCEPT !.value = v] ELSE h
  <2>1. AppendHeader(old, f, v) = {changed(h) : h \in old}
    BY <1>5, <1>6 DEF AppendHeader
  <2>2. ASSUME NEW i \in 1..(n - 1), Same(headers, i, n)
        PROVE  changed(e(i)) = e(n)
    <3>1. FirstOf(headers, i) = FirstOf(headers, n)
      BY SameFirst, <2>2, <1>0
    <3>2. changed(e(i)) = [e(i) EXCEPT !.value = v]
      BY <1>1, <2>2
    <3> QED
      BY <3>1, <3>2 DEF Entry
  <2>3. ASSUME NEW i \in 1..(n - 1), ~Same(headers, i, n)
        PROVE  changed(e(i)) = e(i)
    BY <1>1, <2>3
  <2>4. \E i \in oldLast : Same(headers, i, n)
    <3>1. PICK h \in old : iEquals(h.field, f)
      BY <1>5, <1>6
    <3>2. PICK i \in oldLast : h = e(i)
      BY <3>1, <1>3
    <3> QED
      BY <3>1, <3>2, <1>1, <1>4
  <2> HIDE DEF changed, e, old, last, oldLast, f, v
  <2>5. {changed(h) : h \in old} = {changed(e(i)) : i \in oldLast}
    BY <1>3
  <2>6. {changed(e(i)) : i \in oldLast} = {e(i) : i \in last}
    BY <2>2, <2>3, <2>4, <1>2, <1>4
  <2> QED
    BY <2>1, <2>5, <2>6, <1>3 DEF old, f, v
<1>7. CASE ~\E i \in 1..(n - 1) : Same(headers, i, n)
  <2>1. AppendHeader(old, f, v) = old \cup {[field |-> f, value |-> v]}
    BY <1>5, <1>7 DEF AppendHeader
  <2>2. FirstOf(headers, n) = n
    <3>1. FirstOf(headers, n) \in 1..n /\ Same(headers, FirstOf(headers, n), n)
      BY FirstOfField
    <3> QED
      BY <3>1, <1>7, <1>0
  <2>3. e(n) = [field |-> f, value |-> v]
    BY <2>2 DEF Entry
  <2>4. last = oldLast \cup {n}
    BY <1>2, <1>4, <1>7
  <2> HIDE DEF e, old, last, oldLast, f, v
  <2> QED
    BY <2>1, <2>3, <2>4, <1>3 DEF old, f, v
<1> QED
  BY <1>6, <1>7

\* The field stays in its place only if it was repeated.
LEMMA FieldTaken ==
    ASSUME NEW headers \in Seq(HeaderType), NEW n \in 1..Len(headers), n < Len(headers), ~Spoils(headers)
    PROVE  FieldAfter(Appended(headers, n - 1), headers[n].field) = <<>>
<1>0. Len(headers) \in Nat /\ DOMAIN headers = 1..Len(headers) /\ n - 1 \in 0..Len(headers)
  <2>1. Len(headers) \in Nat /\ DOMAIN headers = 1..Len(headers)
    BY LenProperties, Zenon
  <2> QED
    BY <2>1
<1>1. ~\E i \in 1..(n - 1) : Same(headers, i, n)
  BY <1>0 DEF Spoils, Same
<1>2. ~\E h \in Appended(headers, n - 1) : iEquals(h.field, headers[n].field)
  BY <1>0, <1>1, FieldAppended
<1> QED
  BY <1>2 DEF FieldAfter

-------------------------------------------------------------------------------
(* The connection while the headers of a request are read. *)

\* k headers have been read; the last one has not been appended.
BehindHeader(d, headers, k) ==
    IF k = 0 THEN d.part = "none" /\ d.field = <<>> /\ d.headers = {}
    ELSE /\ d.part = "value"
         /\ d.field = headers[k].field /\ d.value = headers[k].value
         /\ d.headers = Appended(headers, k - 1)

\* The first n characters of field k have been read, or of its value.
InField(d, headers, k, n) ==
    /\ d.part = "field" /\ d.field = SubSeq(headers[k].field, 1, n)
    /\ d.headers = Appended(headers, k - 1)

InValue(d, headers, k, n) ==
    /\ d.part = "value" /\ d.field = headers[k].field
    /\ d.value = SubSeq(headers[k].value, 1, n)
    /\ d.headers = Appended(headers, k - 1)

BehindField(d, headers, k) ==
    /\ d.part = "field" /\ d.field = headers[k].field
    /\ d.headers = Appended(headers, k - 1)

HeadersRead(d, headers, r, n) ==
    /\ \A k \in 0..Len(headers) : r = 2 * k + 1 /\ n = 0 => BehindHeader(d, headers, k)
    /\ \A k \in 1..Len(headers) : r = 2 * k - 1 /\ n > 0 => InField(d, headers, k, n)
    /\ \A k \in 1..Len(headers) : r = 2 * k /\ n = 0 => BehindField(d, headers, k)
    /\ \A k \in 1..Len(headers) : r = 2 * k /\ n > 0 => InValue(d, headers, k, n)
    /\ r = 2 * Len(headers) + 2 => d.headers = Sent(headers)

\* try_commit_reading_request_header appends the header that has been read, and
\* the place for the next field is empty.
LEMMA Committed ==
    ASSUME NEW d, IsConnection(d), NEW headers \in Seq(HeaderType), NEW k \in 0..Len(headers),
           BehindHeader(d, headers, k)
    PROVE  LET e == try_commit_reading_request_header(d)
           IN  /\ e.headers = Appended(headers, k)
               /\ k < Len(headers) /\ ~Spoils(headers) => e.field = <<>>
<1> DEFINE e == try_commit_reading_request_header(d)
<1>1. DOMAIN d = Fields
  BY DEF IsConnection
<1>2. CASE k = 0
  <2>1. e = d /\ d.headers = {} /\ d.field = <<>>
    BY <1>2 DEF try_commit_reading_request_header, HaveUncommitted, BehindHeader
  <2>2. Appended(headers, 0) = {}
    BY DEF Appended
  <2> QED
    BY <1>2, <2>1, <2>2
<1>3. CASE k # 0
  <2>1. k \in 1..Len(headers) /\ headers[k].field # <<>>
    BY <1>3, SameField
  <2>2. HaveUncommitted(d)
    BY <1>3, <2>1 DEF HaveUncommitted, BehindHeader
  <2>3. /\ e.headers = AppendHeader(Appended(headers, k - 1), headers[k].field, headers[k].value)
        /\ e.field = FieldAfter(Appended(headers, k - 1), headers[k].field)
    BY <1>1, <1>3, <2>2 DEF try_commit_reading_request_header, Fields, BehindHeader
  <2> QED
    BY <2>1, <2>3, AppendNext, FieldTaken
<1> QED
  BY <1>2, <1>3

LEMMA HeaderKeeps ==
    ASSUME NEW d, IsConnection(d), NEW text
    PROVE  /\ IsConnection(try_commit_reading_request_header(d))
           /\ IsConnection(on_header_field(d, text))
           /\ IsConnection(on_header_value(d, text))
<1>1. IsConnection(try_commit_reading_request_header(d))
  BY DEF IsConnection, Fields, try_commit_reading_request_header
<1>2. IsConnection(on_header_field(d, text))
  BY <1>1 DEF IsConnection, Fields, on_header_field
<1>3. IsConnection(on_header_value(d, text))
  BY DEF IsConnection, Fields, on_header_value
<1> QED
  BY <1>1, <1>2, <1>3

\* A fragment continues what has been read of a text.
LEMMA Continued ==
    ASSUME NEW text \in Chars, NEW o \in Nat, NEW n \in Nat, o + n <= Len(text)
    PROVE  /\ SubSeq(text, 1, o) \o SubSeq(text, o + 1, o + n) = SubSeq(text, 1, o + n)
           /\ SubSeq(text, 1, 0) = <<>>
           /\ SubSeq(text, 1, Len(text)) = text
           /\ SubSeq(text, o + 1, o + n) \in Chars
           /\ <<>> \o SubSeq(text, o + 1, o + n) = SubSeq(text, o + 1, o + n)
<1>0. Len(text) \in Nat
  BY DEF Chars
<1>1. SubSeq(text, o + 1, o + n) \in Chars
  BY <1>0 DEF Chars
<1>2. SubSeq(text, 1, 0) = <<>>
  BY DEF Chars
<1>3. SubSeq(text, 1, Len(text)) = text
  BY <1>0 DEF Chars
<1>4. SubSeq(text, 1, o) \o SubSeq(text, o + 1, o + n) = SubSeq(text, 1, o + n)
  BY <1>0 DEF Chars
<1>5. <<>> \o SubSeq(text, o + 1, o + n) = SubSeq(text, o + 1, o + n)
  BY <1>1 DEF Chars
<1> QED
  BY <1>1, <1>2, <1>3, <1>4, <1>5

LEMMA FieldFragment ==
    ASSUME NEW d, IsConnection(d), NEW headers \in Seq(HeaderType), ~Spoils(headers),
           NEW k \in 1..Len(headers), NEW o \in Nat, NEW n \in Nat,
           o + n <= Len(headers[k].field),
           IF o = 0 THEN BehindHeader(d, headers, k - 1) ELSE InField(d, headers, k, o)
    PROVE  InField(on_header_field(d, SubSeq(headers[k].field, o + 1, o + n)), headers, k, o + n)
<1> DEFINE f == headers[k].field
           text == SubSeq(f, o + 1, o + n)
           e == try_commit_reading_request_header(d)
<1>1. f \in Chars /\ Len(headers) \in Nat
  BY SameField, LenProperties, Zenon
<1>2. IsConnection(e)
  BY HeaderKeeps
<1>3. e.field = SubSeq(f, 1, o) /\ e.headers = Appended(headers, k - 1)
  <2>1. CASE o = 0
    <3>1. k - 1 \in 0..Len(headers) /\ k - 1 < Len(headers) /\ SubSeq(f, 1, 0) = <<>>
      BY <1>1, Continued
    <3> QED
      BY <2>1, <3>1, Committed
  <2>2. CASE o # 0
    <3>1. e = d
      BY <2>2 DEF try_commit_reading_request_header, HaveUncommitted, InField
    <3> QED
      BY <2>2, <3>1 DEF InField
  <2> QED
    BY <2>1, <2>2
<1>4. /\ on_header_field(d, text).part = "field" /\ on_header_field(d, text).headers = e.headers
      /\ on_header_field(d, text).field = e.field \o text
  BY <1>2 DEF on_header_field, IsConnection, Fields
<1>5. SubSeq(f, 1, o) \o text = SubSeq(f, 1, o + n)
  BY <1>1, Continued
<1> HIDE DEF e, text, f
<1> QED
  BY <1>3, <1>4, <1>5 DEF InField, text, f

LEMMA ValueFragment ==
    ASSUME NEW d, IsConnection(d), NEW headers \in Seq(HeaderType),
           NEW k \in 1..Len(headers), NEW o \in Nat, NEW n \in Nat,
           o + n <= Len(headers[k].value),
           IF o = 0 THEN BehindField(d, headers, k) ELSE InValue(d, headers, k, o)
    PROVE  InValue(on_header_value(d, SubSeq(headers[k].value, o + 1, o + n)), headers, k, o + n)
<1> DEFINE v == headers[k].value
           text == SubSeq(v, o + 1, o + n)
           e == on_header_value(d, text)
<1>1. v \in Chars
  BY SameField
<1>2. /\ e.part = "value" /\ e.field = d.field /\ e.headers = d.headers
      /\ e.value = (IF d.part = "field" THEN <<>> ELSE d.value) \o text
  BY DEF on_header_value, IsConnection, Fields
<1>3. SubSeq(v, 1, o) \o text = SubSeq(v, 1, o + n) /\ SubSeq(v, 1, 0) = <<>>
  BY <1>1, Continued
<1> HIDE DEF e, text, v
<1>4. CASE o = 0
  BY <1>2, <1>3, <1>4 DEF InValue, BehindField, e, text, v
<1>5. CASE o # 0
  BY <1>2, <1>3, <1>5 DEF InValue, e, text, v
<1> QED
  BY <1>4, <1>5

-------------------------------------------------------------------------------
(* The inductive invariant *)

\* What is known of the request that is being read.
CurrentRead ==
    LET sent == Current.headers
        last == 2 * Len(sent)
    IN  /\ IsConnection(c)
        /\ run \in 1..(last + 2)
        /\ run <= last => offset = 0 \/ offset < Len(Runs(Current)[run].text)
        /\ run = last + 1 => offset = 0
        /\ ~Spoils(sent) => HeadersRead(c, sent, run, offset)

ReaderInv ==
    /\ requests \in Seq(RequestType) /\ offset \in Nat
    /\ \E S : handled \in Seq(S)
    /\ Len(handled) <= Len(requests)
    /\ HeadersAsSent
    /\ Reading => CurrentRead

LEMMA CurrentTyped ==
    ASSUME ReaderInv, Reading
    PROVE  /\ Current \in RequestType /\ Current.headers \in Seq(HeaderType)
           /\ Len(Current.headers) \in Nat /\ Len(Runs(Current)) = 2 * Len(Current.headers)
           /\ Len(handled) \in Nat /\ Len(requests) \in Nat /\ DOMAIN handled = 1..Len(handled)
           /\ CurrentRead
<1>1. Len(handled) \in Nat /\ Len(requests) \in Nat /\ DOMAIN handled = 1..Len(handled)
  BY LenProperties, Zenon DEF ReaderInv
<1>2. Len(handled) + 1 \in 1..Len(requests)
  BY <1>1 DEF Reading
<1>3. Current \in RequestType
  BY <1>2, ElementOfSeq, Zenon DEF ReaderInv, Current
<1>4. Current.headers \in Seq(HeaderType)
  BY <1>3 DEF RequestType
<1>5. Len(Current.headers) \in Nat
  BY <1>4, LenProperties, Zenon
<1>6. Len(Runs(Current)) = 2 * Len(Current.headers)
  BY <1>5 DEF Runs
<1> QED
  BY <1>1, <1>3, <1>4, <1>5, <1>6 DEF ReaderInv

LEMMA RunsAre ==
    ASSUME NEW r, Len(r.headers) \in Nat, NEW k \in 1..Len(r.headers)
    PROVE  /\ Runs(r)[2 * k - 1] = [kind |-> "field", text |-> r.headers[k].field]
           /\ Runs(r)[2 * k] = [kind |-> "value", text |-> r.headers[k].value]
<1>1. /\ 2 * k - 1 \in 1..(2 * Len(r.headers)) /\ (2 * k - 1) % 2 = 1 /\ ((2 * k - 1) + 1) \div 2 = k
      /\ 2 * k \in 1..(2 * Len(r.headers)) /\ (2 * k) % 2 # 1 /\ (2 * k) \div 2 = k
  OBVIOUS
<1> QED
  BY <1>1 DEF Runs

\* An odd run is a field, an even one a value.
LEMMA OddOrEven ==
    ASSUME NEW n \in Nat, NEW i \in 1..(2 * n)
    PROVE  \E k \in 1..n : i = 2 * k - 1 \/ i = 2 * k
<1>1. CASE i % 2 = 1
  <2>1. (i + 1) \div 2 \in 1..n /\ i = 2 * ((i + 1) \div 2) - 1
    BY <1>1
  <2> QED
    BY <2>1
<1>2. CASE i % 2 # 1
  <2>1. i \div 2 \in 1..n /\ i = 2 * (i \div 2)
    BY <1>2
  <2> QED
    BY <2>1
<1> QED
  BY <1>1, <1>2

\* A position is at one of the places of HeadersRead only.
LEMMA AtOnePlace ==
    ASSUME NEW d, NEW headers, Len(headers) \in Nat, NEW k \in 0..Len(headers), NEW n \in Nat
    PROVE  /\ BehindHeader(d, headers, k) => HeadersRead(d, headers, 2 * k + 1, 0)
           /\ k > 0 /\ n > 0 /\ InField(d, headers, k, n) => HeadersRead(d, headers, 2 * k - 1, n)
           /\ k > 0 /\ BehindField(d, headers, k) => HeadersRead(d, headers, 2 * k, 0)
           /\ k > 0 /\ n > 0 /\ InValue(d, headers, k, n) => HeadersRead(d, headers, 2 * k, n)
<1>1. \A j \in 0..Len(headers) :
          /\ 2 * k + 1 = 2 * j + 1 => j = k
          /\ 2 * k - 1 = 2 * j - 1 => j = k
          /\ 2 * k = 2 * j => j = k
          /\ 2 * k # 2 * j + 1 /\ 2 * k # 2 * j - 1 /\ 2 * k + 1 # 2 * j /\ 2 * k - 1 # 2 * j
  OBVIOUS
<1>2. /\ 2 * k + 1 # 2 * Len(headers) + 2 /\ 2 * k - 1 # 2 * Len(headers) + 2
      /\ 2 * k # 2 * Len(headers) + 2
  OBVIOUS
<1>3. ~(0 > 0) /\ (n > 0 => n # 0) /\ 1..Len(headers) \subseteq 0..Len(headers)
  OBVIOUS
<1>4. BehindHeader(d, headers, k) => HeadersRead(d, headers, 2 * k + 1, 0)
  BY <1>1, <1>2, <1>3, Zenon DEF HeadersRead
<1>5. k > 0 /\ n > 0 /\ InField(d, headers, k, n) => HeadersRead(d, headers, 2 * k - 1, n)
  BY <1>1, <1>2, <1>3, Zenon DEF HeadersRead
<1>6. k > 0 /\ BehindField(d, headers, k) => HeadersRead(d, headers, 2 * k, 0)
  BY <1>1, <1>2, <1>3, Zenon DEF HeadersRead
<1>7. k > 0 /\ n > 0 /\ InValue(d, headers, k, n) => HeadersRead(d, headers, 2 * k, n)
  BY <1>1, <1>2, <1>3, Zenon DEF HeadersRead
<1> QED
  BY <1>4, <1>5, <1>6, <1>7

\* The connection when a request begins.
LEMMA ResetReader ==
    ASSUME NEW headers, Len(headers) \in Nat
    PROVE  IsConnection(reset) /\ HeadersRead(reset, headers, 1, 0)
<1>1. IsConnection(reset)
  <2>1. <<>> \in Chars
    BY DEF Chars
  <2> QED
    BY <2>1 DEF IsConnection, reset, Fields
<1>2. BehindHeader(reset, headers, 0)
  BY DEF BehindHeader, reset
<1>3. \A k \in 0..Len(headers) : 1 = 2 * k + 1 => k = 0
  OBVIOUS
<1>4. \A k \in 1..Len(headers) : 1 # 2 * k /\ 1 # 2 * Len(headers) + 2
  OBVIOUS
<1>5. 1 # 2 * Len(headers) + 2
  OBVIOUS
<1>6. ~(0 > 0)
  OBVIOUS
<1> QED
  BY <1>1, <1>2, <1>3, <1>4, <1>5, <1>6, Zenon DEF HeadersRead

LEMMA InitReader == ReadInit => ReaderInv
<1> SUFFICES ASSUME ReadInit PROVE ReaderInv
  OBVIOUS
<1> USE DEF ReadInit
<1>1. requests \in Seq(RequestType)
  BY ConnectionsAssumption
<1>2. handled \in Seq({}) /\ Len(handled) = 0 /\ DOMAIN handled = {}
  OBVIOUS
<1>3. Len(requests) \in Nat
  BY <1>1, LenProperties, Zenon
<1>4. HeadersAsSent
  BY <1>2 DEF HeadersAsSent
<1>5. ASSUME Reading PROVE CurrentRead
  <2>1. Current = requests[1] /\ 1 \in 1..Len(requests)
    BY <1>2, <1>3, <1>5 DEF Current, Reading
  <2>2. Current \in RequestType
    BY <2>1, <1>1, ElementOfSeq, Zenon
  <2>3. Len(Current.headers) \in Nat
    <3>1. Current.headers \in Seq(HeaderType)
      BY <2>2 DEF RequestType
    <3> QED
      BY <3>1, LenProperties, Zenon
  <2>4. IsConnection(c) /\ HeadersRead(c, Current.headers, run, offset)
    BY <2>3, ResetReader
  <2> QED
    BY <2>3, <2>4 DEF CurrentRead
<1> QED
  BY <1>1, <1>2, <1>3, <1>4, <1>5 DEF ReaderInv

\* The requests and what has been handled stay the same.
LEMMA SameRequest ==
    ASSUME ReaderInv, requests' = requests, handled' = handled, offset' \in Nat,
           Reading, Reading' => CurrentRead'
    PROVE  ReaderInv'
<1>1. HeadersAsSent'
  BY DEF ReaderInv, HeadersAsSent
<1> QED
  BY <1>1 DEF ReaderInv

LEMMA FragmentStep ==
    ASSUME ReaderInv, Reading, NEW n \in Nat, HeaderFragment(n)
    PROVE  ReaderInv'
<1> DEFINE sent == Current.headers
           last == 2 * Len(sent)
           r    == Runs(Current)[run]
           text == SubSeq(r.text, offset + 1, offset + n)
<1>1. /\ sent \in Seq(HeaderType) /\ Len(sent) \in Nat /\ Len(Runs(Current)) = last
      /\ CurrentRead /\ offset \in Nat
  BY CurrentTyped DEF ReaderInv
<1>2. run \in 1..last
  BY <1>1 DEF HeaderFragment, CurrentRead
<1>3. /\ IsConnection(c) /\ (offset = 0 \/ offset < Len(r.text))
      /\ ~Spoils(sent) => HeadersRead(c, sent, run, offset)
  BY <1>1, <1>2 DEF CurrentRead
<1>4. /\ c' = IF r.kind = "field" THEN on_header_field(c, text) ELSE on_header_value(c, text)
      /\ IF r.text = <<>> THEN n = 0 ELSE n \in 1..(Len(r.text) - offset)
      /\ IF offset + n = Len(r.text) THEN run' = run + 1 /\ offset' = 0
                                     ELSE run' = run /\ offset' = offset + n
      /\ requests' = requests /\ handled' = handled
  BY DEF HeaderFragment
<1>5. PICK k \in 1..Len(sent) : run = 2 * k - 1 \/ run = 2 * k
  BY <1>1, <1>2, OddOrEven
<1>6. /\ sent[k].field \in Chars /\ sent[k].field # <<>> /\ sent[k].value \in Chars
  BY <1>1, SameField
<1>7. /\ run = 2 * k - 1 => r = [kind |-> "field", text |-> sent[k].field]
      /\ run = 2 * k => r = [kind |-> "value", text |-> sent[k].value]
  BY <1>1, <1>5, RunsAre
<1>8. r.text \in Chars
  BY <1>5, <1>6, <1>7
<1>9. Len(r.text) \in Nat /\ (r.text = <<>> <=> Len(r.text) = 0)
  BY <1>8 DEF Chars
<1>10. /\ offset + n <= Len(r.text) /\ (n = 0 => r.text = <<>> /\ offset = 0)
       /\ offset' \in Nat
  BY <1>1, <1>3, <1>4, <1>9
<1>11. IsConnection(c')
  BY <1>3, <1>4, HeaderKeeps
<1>12. Current' = Current
  BY <1>4 DEF Current
<1> HIDE DEF sent, last, r, text
<1>13. ASSUME ~Spoils(sent) PROVE HeadersRead(c', sent, run', offset')
  <2>1. HeadersRead(c, sent, run, offset)
    BY <1>3, <1>13
  <2>2. CASE run = 2 * k - 1
    <3>1. IF offset = 0 THEN BehindHeader(c, sent, k - 1) ELSE InField(c, sent, k, offset)
      <4>1. k - 1 \in 0..Len(sent) /\ run = 2 * (k - 1) + 1
        BY <2>2, <1>1
      <4> QED
        BY <2>1, <2>2, <4>1, <1>1 DEF HeadersRead
    <3>2. InField(c', sent, k, offset + n) /\ r.text = sent[k].field
      <4>1. r.text = sent[k].field /\ r.kind = "field"
        BY <1>7, <2>2
      <4>2. c' = on_header_field(c, SubSeq(sent[k].field, offset + 1, offset + n))
        BY <4>1, <1>4 DEF text
      <4>3. n \in Nat /\ offset + n <= Len(sent[k].field)
        BY <4>1, <1>10
      <4> QED
        BY <3>1, <4>1, <4>2, <4>3, <1>1, <1>3, <1>13, FieldFragment
    <3>3. CASE offset + n = Len(r.text)
      <4>1. SubSeq(sent[k].field, 1, offset + n) = sent[k].field
        <5>1. /\ offset + n = Len(sent[k].field)
              /\ offset \in Nat /\ n \in Nat /\ offset + n <= Len(sent[k].field)
          BY <1>1, <1>9, <3>2, <3>3
        <5>2. SubSeq(sent[k].field, 1, Len(sent[k].field)) = sent[k].field
          BY <5>1, <1>6, Continued
        <5> QED
          BY <5>1, <5>2
      <4>2. BehindField(c', sent, k) /\ run' = 2 * k /\ offset' = 0
        BY <3>2, <3>3, <4>1, <1>4, <2>2 DEF InField, BehindField
      <4> HIDE DEF HeadersRead
      <4> QED
        BY <4>2, AtOnePlace, <1>1
    <3>4. CASE offset + n # Len(r.text)
      <4>1. run' = 2 * k - 1 /\ offset' = offset + n /\ offset' > 0
        BY <3>4, <1>4, <1>10, <2>2, <1>1, <1>9
      <4> QED
        BY <4>1, <3>2, AtOnePlace, <1>1
    <3> QED
      BY <3>3, <3>4
  <2>3. CASE run = 2 * k
    <3>1. IF offset = 0 THEN BehindField(c, sent, k) ELSE InValue(c, sent, k, offset)
      BY <2>1, <2>3, <1>1 DEF HeadersRead
    <3>2. InValue(c', sent, k, offset + n) /\ r.text = sent[k].value
      <4>1. r.text = sent[k].value /\ r.kind = "value"
        BY <1>7, <2>3
      <4>2. c' = on_header_value(c, SubSeq(sent[k].value, offset + 1, offset + n))
        BY <4>1, <1>4 DEF text
      <4>3. n \in Nat /\ offset + n <= Len(sent[k].value)
        BY <4>1, <1>10
      <4> QED
        BY <3>1, <4>1, <4>2, <4>3, <1>1, <1>3, ValueFragment
    <3>3. CASE offset + n = Len(r.text)
      <4>1. SubSeq(sent[k].value, 1, offset + n) = sent[k].value
        <5>1. /\ offset + n = Len(sent[k].value)
              /\ offset \in Nat /\ n \in Nat /\ offset + n <= Len(sent[k].value)
          BY <1>1, <1>9, <3>2, <3>3
        <5>2. SubSeq(sent[k].value, 1, Len(sent[k].value)) = sent[k].value
          BY <5>1, <1>6, Continued
        <5> QED
          BY <5>1, <5>2
      <4>2. BehindHeader(c', sent, k) /\ run' = 2 * k + 1 /\ offset' = 0
        BY <3>2, <3>3, <4>1, <1>4, <2>3 DEF InValue, BehindHeader
      <4>3. k \in 0..Len(sent) /\ 0 \in Nat
        BY <1>1
      <4>4. HeadersRead(c', sent, 2 * k + 1, 0)
        BY <4>2, <4>3, <1>1, AtOnePlace
      <4> QED
        BY <4>2, <4>4
    <3>4. CASE offset + n # Len(r.text)
      <4>1. run' = 2 * k /\ offset' = offset + n /\ offset' > 0
        BY <3>4, <1>4, <1>10, <2>3, <1>1, <1>9
      <4> QED
        BY <4>1, <3>2, AtOnePlace, <1>1
    <3> QED
      BY <3>3, <3>4
  <2> QED
    BY <2>2, <2>3, <1>5
<1>14. CurrentRead'
  <2>1. run' \in 1..(last + 2) /\ (run' = last + 1 => offset' = 0)
    BY <1>1, <1>2, <1>4
  <2>2. run' <= last => offset' = 0 \/ offset' < Len(Runs(Current)[run'].text)
    BY <1>1, <1>4, <1>9, <1>10 DEF r
  <2> QED
    BY <2>1, <2>2, <1>11, <1>12, <1>13 DEF CurrentRead, sent, last
<1> QED
  BY <1>4, <1>10, <1>14, SameRequest

LEMMA HeadersCompleteStep ==
    ASSUME ReaderInv, Reading, on_headers_complete
    PROVE  ReaderInv'
<1> DEFINE sent == Current.headers
           d == try_commit_reading_request_header(c)
<1>1. /\ sent \in Seq(HeaderType) /\ Len(sent) \in Nat /\ Len(Runs(Current)) = 2 * Len(sent)
      /\ CurrentRead /\ offset \in Nat
  BY CurrentTyped DEF ReaderInv
<1>2. /\ run = 2 * Len(sent) + 1 /\ run' = 2 * Len(sent) + 2
      /\ requests' = requests /\ handled' = handled /\ offset' = offset
      /\ c' = IF Named(d.headers) = <<>> THEN d ELSE init_multipart_parser(d, Named(d.headers))
  BY <1>1 DEF on_headers_complete
<1>3. /\ IsConnection(c) /\ offset = 0
      /\ ~Spoils(sent) => HeadersRead(c, sent, run, offset)
  BY <1>1, <1>2 DEF CurrentRead
<1>4. Current' = Current
  BY <1>2 DEF Current
<1>5. IsConnection(d)
  BY <1>3, HeaderKeeps
<1>6. IsConnection(c') /\ c'.headers = d.headers
  BY <1>2, <1>5, InitKeeps DEF Keeps
<1> HIDE DEF sent, d
<1>7. ASSUME ~Spoils(sent) PROVE HeadersRead(c', sent, run', offset')
  <2>1. Len(sent) \in 0..Len(sent)
    BY <1>1
  <2>2. BehindHeader(c, sent, Len(sent))
    BY <2>1, <1>2, <1>3, <1>7 DEF HeadersRead
  <2>3. d.headers = Appended(sent, Len(sent))
    BY <1>1, <1>3, <2>1, <2>2, Committed DEF d
  <2>4. c'.headers = Sent(sent)
    BY <1>1, <1>6, <2>3, AllAppended
  <2>5. /\ \A k \in 0..Len(sent) : run' # 2 * k + 1
        /\ \A k \in 1..Len(sent) : run' # 2 * k - 1 /\ run' # 2 * k
    BY <1>1, <1>2
  <2> QED
    BY <2>4, <2>5 DEF HeadersRead
<1>8. CurrentRead'
  <2>1. /\ run' \in 1..(2 * Len(sent) + 2) /\ ~(run' <= 2 * Len(sent)) /\ offset' = 0
    BY <1>1, <1>2, <1>3
  <2> QED
    BY <2>1, <1>4, <1>6, <1>7 DEF CurrentRead, sent
<1> QED
  BY <1>1, <1>2, <1>8, SameRequest

LEMMA BodyStep ==
    ASSUME ReaderInv, Reading, NEW n \in 1..Len(Body(Current)), BodyFragment(n)
    PROVE  ReaderInv'
<1> DEFINE sent == Current.headers
           text == SubSeq(Body(Current), offset + 1, offset + n)
           x == on_body(c, text)
<1>1. /\ sent \in Seq(HeaderType) /\ Len(sent) \in Nat /\ Len(Runs(Current)) = 2 * Len(sent)
      /\ Current \in RequestType /\ CurrentRead /\ offset \in Nat
  BY CurrentTyped DEF ReaderInv
<1>2. Body(Current) \in Chars
  BY <1>1, BodyIsText
<1>3. Len(Body(Current)) \in Nat
  BY <1>2 DEF Chars
<1>4. /\ run = 2 * Len(sent) + 2 /\ run' = run /\ n \in 1..(Len(Body(Current)) - offset)
      /\ requests' = requests /\ handled' = handled /\ offset' = offset + n
      /\ c' = x.d
  BY <1>1 DEF BodyFragment
<1>5. text \in Chars
  <2>1. n \in Nat /\ offset + n <= Len(Body(Current))
    BY <1>1, <1>3, <1>4
  <2> QED
    BY <2>1, <1>1, <1>2, Continued
<1>6. /\ IsConnection(c)
      /\ ~Spoils(sent) => HeadersRead(c, sent, run, offset)
  BY <1>1 DEF CurrentRead
<1>7. Current' = Current
  BY <1>4 DEF Current
<1> HIDE DEF text
<1>8. IsConnection(c') /\ c'.headers = c.headers
  BY <1>4, <1>5, <1>6, BodyKeepsHeaders
<1> HIDE DEF sent, x
<1>9. ASSUME ~Spoils(sent) PROVE HeadersRead(c', sent, run', offset')
  <2>1. c'.headers = Sent(sent)
    BY <1>4, <1>6, <1>8, <1>9 DEF HeadersRead
  <2>2. /\ \A k \in 0..Len(sent) : run' # 2 * k + 1
        /\ \A k \in 1..Len(sent) : run' # 2 * k - 1 /\ run' # 2 * k
    BY <1>1, <1>4
  <2> QED
    BY <2>1, <2>2 DEF HeadersRead
<1>10. CurrentRead'
  <2>1. /\ run' \in 1..(2 * Len(sent) + 2) /\ ~(run' <= 2 * Len(sent)) /\ run' # 2 * Len(sent) + 1
    BY <1>1, <1>4
  <2> QED
    BY <2>1, <1>7, <1>8, <1>9 DEF CurrentRead, sent
<1>11. offset' \in Nat
  BY <1>1, <1>4
<1> QED
  BY <1>4, <1>10, <1>11, SameRequest

LEMMA CompleteStep ==
    ASSUME ReaderInv, Reading, on_message_complete
    PROVE  ReaderInv'
<1> DEFINE sent == Current.headers
           n == Len(handled)
           got == [headers |-> c.headers, parts |-> c.parts]
<1>1. /\ sent \in Seq(HeaderType) /\ Len(sent) \in Nat /\ Len(Runs(Current)) = 2 * Len(sent)
      /\ n \in Nat /\ Len(requests) \in Nat /\ n < Len(requests) /\ DOMAIN handled = 1..n
      /\ CurrentRead /\ requests \in Seq(RequestType) /\ HeadersAsSent
  BY CurrentTyped DEF ReaderInv, Reading
<1>2. /\ run = 2 * Len(sent) + 2 /\ run' = 1 /\ offset' = 0 /\ c' = reset
      /\ requests' = requests /\ handled' = Append(handled, got)
  BY <1>1 DEF on_message_complete
<1>3. PICK S : handled \in Seq(S)
  BY DEF ReaderInv
<1>4. /\ handled' \in Seq(S \cup {got}) /\ Len(handled') = n + 1 /\ DOMAIN handled' = 1..(n + 1)
      /\ \A i \in 1..n : handled'[i] = handled[i]
      /\ handled'[n + 1] = got
  <2>1. handled \in Seq(S \cup {got}) /\ got \in S \cup {got}
    BY <1>3
  <2> HIDE DEF got
  <2> QED
    BY <2>1, <1>1, <1>2
<1>5. HeadersAsSent'
  <2> SUFFICES ASSUME NEW i \in 1..(n + 1), ~Spoils(requests[i].headers)
               PROVE  handled'[i].headers = Sent(requests[i].headers)
    BY <1>2, <1>4 DEF HeadersAsSent
  <2>1. CASE i \in 1..n
    BY <2>1, <1>1, <1>4 DEF HeadersAsSent
  <2>2. CASE i = n + 1
    <3>1. requests[i].headers = sent
      BY <2>2 DEF Current
    <3>2. c.headers = Sent(sent)
      BY <1>1, <1>2, <3>1 DEF CurrentRead, HeadersRead
    <3> QED
      BY <2>2, <3>1, <3>2, <1>4
  <2> QED
    BY <2>1, <2>2, <1>1
<1>6. ASSUME Reading' PROVE CurrentRead'
  <2>1. Current' = requests[n + 2] /\ n + 2 \in 1..Len(requests)
    BY <1>1, <1>2, <1>4, <1>6 DEF Current, Reading
  <2>2. Current' \in RequestType
    BY <2>1, <1>1, ElementOfSeq, Zenon
  <2>3. Len(Current'.headers) \in Nat
    <3>1. Current'.headers \in Seq(HeaderType)
      BY <2>2 DEF RequestType
    <3> QED
      BY <3>1, LenProperties, Zenon
  <2>4. IsConnection(c') /\ HeadersRead(c', Current'.headers, run', offset')
    BY <1>2, <2>3, ResetReader
  <2> QED
    BY <1>2, <2>3, <2>4 DEF CurrentRead
<1> QED
  BY <1>1, <1>2, <1>4, <1>5, <1>6 DEF ReaderInv

-------------------------------------------------------------------------------
(* The theorem *)

LEMMA ReaderStep == ReaderInv /\ [ReadNext]_readVars => ReaderInv'
<1> SUFFICES ASSUME ReaderInv, [ReadNext]_readVars PROVE ReaderInv'
  OBVIOUS
<1>1. CASE ReadNext
  <2>1. Reading
    BY <1>1 DEF ReadNext
  <2>2. ASSUME NEW n \in 0..MaxFragment, HeaderFragment(n) PROVE ReaderInv'
    BY <2>1, <2>2, MaxFragmentAssumption, FragmentStep
  <2>3. CASE on_headers_complete
    BY <2>1, <2>3, HeadersCompleteStep
  <2>4. ASSUME NEW n \in 1..Len(Body(Current)), BodyFragment(n) PROVE ReaderInv'
    BY <2>1, <2>4, BodyStep
  <2>5. CASE on_message_complete
    BY <2>1, <2>5, CompleteStep
  <2> QED
    BY <1>1, <2>2, <2>3, <2>4, <2>5 DEF ReadNext
<1>2. CASE UNCHANGED readVars
  BY <1>2 DEF readVars, ReaderInv, HeadersAsSent, Reading, CurrentRead, Current
<1> QED
  BY <1>1, <1>2

\* However the requests of a connection are cut into fragments, the application
\* gets of each the headers that were sent, and of a field that was sent twice the
\* last value: HeadersAsSent of RequestReader.
THEOREM HeadersArrive == ReadSpec => []HeadersAsSent
<1>1. ReaderInv => HeadersAsSent
  BY DEF ReaderInv
<1> QED
  BY <1>1, InitReader, ReaderStep, PTL DEF ReadSpec
================================================================================

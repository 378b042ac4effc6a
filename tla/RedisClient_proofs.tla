-------------------------- MODULE RedisClient_proofs --------------------------
(***************************************************************************)
(* Theorems about RedisClient, for any number of commands, breaks and      *)
(* calls, and any replies that the parser rejects.                         *)
(*                                                                         *)
(* OneOperation and CallbacksInOrder are inductive with the types.         *)
(* ReplyMatches is not: it says nothing of the replies that are still on   *)
(* their way.  Expected does: until a reply that does not parse has been   *)
(* handed to its callback, nothing is left over in the buffer, and what is *)
(* on the link belongs to the command that is being read, its last segment *)
(* at the end.                                                             *)
(***************************************************************************)
EXTENDS RedisClient, SequenceTheorems, WellFoundedInduction, TLAPS

Operations == [kind : {"write", "read"}, cmd : 1..MaxCommands,
               state : {"open", "done", "aborted"}]
AnswerRecords == [cmd : 1..MaxCommands, value : 0..MaxCommands]

\* No command with a reply that does not parse has been called back.
Unspoilt == \A j \in DOMAIN answered : answered[j].cmd \notin Malformed

\* r is a part of the reply to cmd.
PartOfReply(r, cmd) == \A i \in DOMAIN r :
    /\ r[i].cmd = cmd
    /\ r[i].kind = "end" => i = Len(r)
    /\ r[i].kind = "bad" => cmd \in Malformed

Expected == Unspoilt =>
    /\ buf = <<>>
    /\ replies # <<>> => /\ ops # <<>>
                         /\ Head(ops).kind = "read"
                         /\ Head(ops).state # "aborted"
                         /\ PartOfReply(replies, Head(ops).cmd)

RedisInv == TypeOK /\ OneOperation /\ CallbacksInOrder /\ ReplyMatches /\ Expected

-------------------------------------------------------------------------------
(* Sequences *)

\* A sequence of at most one element.
LEMMA AtMostOne ==
    ASSUME NEW S, NEW s \in Seq(S), Len(s) <= 1, s # <<>>
    PROVE  s = <<Head(s)>> /\ Tail(s) = <<>> /\ Len(s) = 1 /\ Head(s) \in S /\ Head(s) = s[1]
<1>1. Len(s) = 1
  <2>1. Len(s) \in Nat \ {0}
    BY EmptySeq
  <2> QED
    BY <2>1
<1>2. Head(s) = s[1] /\ Head(s) \in S
  BY <1>1
<1>3. s = <<s[1]>>
  BY <1>1, <1>2, SeqEqual
<1>4. Tail(s) = <<>>
  <2>1. Tail(s) \in Seq(S) /\ Len(Tail(s)) = 0
    BY <1>1, HeadTailProperties
  <2> QED
    BY <2>1, EmptySeq
<1> QED
  BY <1>1, <1>2, <1>3, <1>4

\* Any subsequence of a sequence has its elements.
LEMMA SubSeqElements ==
    ASSUME NEW S, NEW s \in Seq(S), NEW m \in Nat, NEW n \in 0..Len(s), m >= 1
    PROVE  /\ SubSeq(s, m, n) \in Seq(S)
           /\ Len(SubSeq(s, m, n)) = IF m <= n THEN n - m + 1 ELSE 0
           /\ \A i \in DOMAIN SubSeq(s, m, n) : /\ i \in 1..(n - m + 1)
                                                /\ SubSeq(s, m, n)[i] = s[m + i - 1]
                                                /\ m + i - 1 \in DOMAIN s
<1>1. \A i \in m..n : s[i] \in S
  BY ElementOfSeq
<1>2. /\ SubSeq(s, m, n) \in Seq(S)
      /\ Len(SubSeq(s, m, n)) = IF m <= n THEN n - m + 1 ELSE 0
      /\ \A i \in 1..(n - m + 1) : SubSeq(s, m, n)[i] = s[m + i - 1]
  BY <1>1, SubSeqProperties
<1>3. DOMAIN SubSeq(s, m, n) = 1..(IF m <= n THEN n - m + 1 ELSE 0)
  BY <1>2
<1> QED
  BY <1>2, <1>3

-------------------------------------------------------------------------------
(* Calling back *)

\* The callback of the command at the head of the queue is called, and the command
\* is popped: what has been answered and what is queued stay in order.
LEMMA CallBackInOrder ==
    ASSUME TypeOK, CallbacksInOrder, queue # <<>>,
           NEW value \in 0..MaxCommands, NEW again \in BOOLEAN,
           CallBackAndPop(Head(queue), value, again)
    PROVE  /\ CallbacksInOrder'
           /\ queue' \in Seq(1..MaxCommands)
           /\ issued' \in 0..MaxCommands
           /\ answered' \in Seq(AnswerRecords)
           /\ Len(answered') = Len(answered) + 1 /\ Len(answered) \in Nat
           /\ \A i \in 1..Len(answered) : answered'[i] = answered[i]
           /\ answered'[Len(answered) + 1] = [cmd |-> Head(queue), value |-> value]
<1> USE RedisAssumption
<1> DEFINE q == IF again THEN Append(queue, issued + 1) ELSE queue
           a == [cmd |-> Head(queue), value |-> value]
<1>1. queue \in Seq(1..MaxCommands) /\ issued \in 0..MaxCommands /\ answered \in Seq(AnswerRecords)
  BY DEF TypeOK, AnswerRecords
<1>2. Len(queue) \in Nat /\ Len(queue) >= 1 /\ Len(answered) \in Nat /\ Head(queue) = queue[1]
  BY <1>1, EmptySeq
<1>o. Len(answered) + Len(queue) = issued
  BY DEF CallbacksInOrder
<1>3. Head(queue) = Len(answered) + 1 /\ Head(queue) \in 1..MaxCommands
  BY <1>1, <1>2 DEF CallbacksInOrder
<1>4. a \in AnswerRecords
  BY <1>3 DEF AnswerRecords
<1>5. /\ again => issued < MaxCommands
      /\ answered' = Append(answered, a)
      /\ issued' = IF again THEN issued + 1 ELSE issued
      /\ queue' = Tail(q)
  BY DEF CallBackAndPop
<1>6. /\ q \in Seq(1..MaxCommands)
      /\ Len(q) = IF again THEN Len(queue) + 1 ELSE Len(queue)
      /\ \A j \in 1..Len(q) : q[j] = Len(answered) + j
  <2>1. CASE again
    <3>1. issued + 1 \in 1..MaxCommands
      BY <1>1, <1>5, <2>1
    <3>2. /\ q \in Seq(1..MaxCommands) /\ Len(q) = Len(queue) + 1
          /\ \A j \in 1..Len(queue) : q[j] = queue[j]
          /\ q[Len(queue) + 1] = issued + 1
      BY <1>1, <2>1, <3>1, AppendProperties
    <3>3. \A j \in 1..Len(queue) : queue[j] = Len(answered) + j
      BY <1>1 DEF CallbacksInOrder
    <3>4. issued + 1 = Len(answered) + (Len(queue) + 1)
      BY <1>1, <1>2, <1>o
    <3> HIDE DEF q
    <3>5. ASSUME NEW j \in 1..Len(q) PROVE q[j] = Len(answered) + j
      <4>1. j \in 1..Len(queue) \/ j = Len(queue) + 1
        BY <1>2, <3>2
      <4> QED
        BY <3>2, <3>3, <3>4, <4>1
    <3> QED
      BY <2>1, <3>2, <3>5
  <2>2. CASE ~again
    BY <1>1, <2>2 DEF CallbacksInOrder
  <2> QED
    BY <2>1, <2>2
<1> HIDE DEF q, a
<1>7. q # <<>> /\ Len(q) >= 1
  BY <1>2, <1>6, EmptySeq
<1>8. /\ queue' \in Seq(1..MaxCommands) /\ Len(queue') = Len(q) - 1
      /\ \A j \in 1..Len(queue') : queue'[j] = q[j + 1]
  BY <1>5, <1>6, <1>7, HeadTailProperties
<1>9. issued' \in 0..MaxCommands
  BY <1>1, <1>5
<1>10. /\ answered' \in Seq(AnswerRecords) /\ Len(answered') = Len(answered) + 1
       /\ \A i \in 1..Len(answered) : answered'[i] = answered[i]
       /\ answered'[Len(answered) + 1] = a
  BY <1>1, <1>4, <1>5, AppendProperties
<1>11. Len(answered') + Len(queue') = issued'
  <2>1. Len(queue') = IF again THEN Len(queue) ELSE Len(queue) - 1
    BY <1>2, <1>6, <1>8
  <2>2. issued' = IF again THEN issued + 1 ELSE issued
    BY <1>5
  <2>3. Len(answered') = Len(answered) + 1
    BY <1>10
  <2>4. issued = Len(answered) + Len(queue)
    BY <1>o
  <2>5. CASE again
    BY <1>2, <2>1, <2>2, <2>3, <2>4, <2>5
  <2>6. CASE ~again
    BY <1>2, <2>1, <2>2, <2>3, <2>4, <2>6
  <2> QED
    BY <2>5, <2>6
<1>12. \A i \in DOMAIN answered' : answered'[i].cmd = i
  <2>1. DOMAIN answered' = 1..(Len(answered) + 1) /\ DOMAIN answered = 1..Len(answered)
    BY <1>1, <1>10
  <2>2. a.cmd = Len(answered) + 1
    BY <1>3 DEF a
  <2> QED
    BY <1>2, <1>10, <2>1, <2>2 DEF CallbacksInOrder
<1>13. \A j \in DOMAIN queue' : queue'[j] = Len(answered') + j
  <2>1. DOMAIN queue' = 1..Len(queue') /\ Len(q) \in Nat
    BY <1>6, <1>8
  <2>2. ASSUME NEW j \in 1..(Len(q) - 1) PROVE q[j + 1] = Len(answered) + 1 + j
    <3>1. j + 1 \in 1..Len(q) /\ Len(answered) + (j + 1) = Len(answered) + 1 + j
      BY <1>2, <2>1
    <3> QED
      BY <1>6, <3>1
  <2> QED
    BY <1>8, <1>10, <2>1, <2>2
<1>14. CallbacksInOrder'
  BY <1>11, <1>12, <1>13 DEF CallbacksInOrder
<1> QED
  BY <1>2, <1>8, <1>9, <1>10, <1>14 DEF a

\* What is called back stays called back: a client that is unspoilt was so before.
LEMMA UnspoiltBefore ==
    ASSUME Len(answered) \in Nat, answered \in Seq(AnswerRecords), answered' \in Seq(AnswerRecords),
           Len(answered') = Len(answered) + 1,
           \A i \in 1..Len(answered) : answered'[i] = answered[i]
    PROVE  Unspoilt' => Unspoilt /\ answered'[Len(answered) + 1].cmd \notin Malformed
<1>1. DOMAIN answered = 1..Len(answered) /\ DOMAIN answered' = 1..(Len(answered) + 1)
  OBVIOUS
<1>2. DOMAIN answered \subseteq DOMAIN answered' /\ Len(answered) + 1 \in DOMAIN answered'
  BY <1>1
<1> QED
  BY <1>1, <1>2 DEF Unspoilt

\* Every callback so far, and one more that is given its own reply or an error as
\* long as the client is unspoilt.
LEMMA MatchesOneMore ==
    ASSUME ReplyMatches, answered \in Seq(AnswerRecords), answered' \in Seq(AnswerRecords),
           Len(answered) \in Nat, Len(answered') = Len(answered) + 1,
           \A i \in 1..Len(answered) : answered'[i] = answered[i],
           Unspoilt => answered'[Len(answered) + 1].value \in {Error, answered'[Len(answered) + 1].cmd}
    PROVE  ReplyMatches'
<1>1. DOMAIN answered = 1..Len(answered) /\ DOMAIN answered' = 1..(Len(answered) + 1)
  OBVIOUS
<1> SUFFICES ASSUME NEW i \in 1..(Len(answered) + 1),
                    \A j \in 1..(i - 1) : answered'[j].cmd \notin Malformed
             PROVE  answered'[i].value \in {Error, answered'[i].cmd}
  BY <1>1 DEF ReplyMatches, Error
<1>2. \A j \in 1..(i - 1) : answered[j].cmd \notin Malformed
  OBVIOUS
<1>3. CASE i \in 1..Len(answered)
  BY <1>1, <1>2, <1>3 DEF ReplyMatches
<1>4. CASE i = Len(answered) + 1
  BY <1>1, <1>2, <1>4 DEF Unspoilt
<1> QED
  BY <1>3, <1>4

-------------------------------------------------------------------------------
(* The parser *)

\* A set of numbers that is not empty has a first element.
LEMMA FirstIsFirst ==
    ASSUME NEW S \in SUBSET Nat, S # {}
    PROVE  First(S) \in S
<1> DEFINE R == OpToRel(<, Nat)
<1>1. IsWellFoundedOn(R, Nat)
  BY NatLessThanWellFounded
<1>2. \A x, y \in Nat : y < x => <<y, x>> \in R
  BY DEF OpToRel
<1> HIDE DEF R
<1>3. PICK x \in S : \A y \in S : ~(<<y, x>> \in R)
  BY <1>1, WFMin
<1>4. ASSUME NEW y \in S PROVE x <= y
  <2>1. x \in Nat /\ y \in Nat
    OBVIOUS
  <2>2. ~(y < x)
    BY <1>2, <1>3, <2>1, Zenon
  <2> QED
    BY <2>1, <2>2
<1> QED
  BY <1>4 DEF First

\* The reply of the server is a part of itself.
LEMMA ReplyIsPart ==
    ASSUME NEW cmd \in 1..MaxCommands
    PROVE  ReplyTo(cmd) \in Seq(Segments) /\ PartOfReply(ReplyTo(cmd), cmd)
<1> DEFINE b == [cmd |-> cmd, kind |-> "bad"]
           p == [cmd |-> cmd, kind |-> "part"]
           e == [cmd |-> cmd, kind |-> "end"]
<1>1. b \in Segments /\ p \in Segments /\ e \in Segments
  BY DEF Segments
<1>2. ReplyTo(cmd) = IF cmd \in Malformed THEN <<b, e>> ELSE <<p, e>>
  BY DEF ReplyTo
<1>3. /\ b.cmd = cmd /\ p.cmd = cmd /\ e.cmd = cmd
      /\ b.kind = "bad" /\ p.kind = "part" /\ e.kind = "end"
  OBVIOUS
<1> HIDE DEF b, p, e
<1>4. CASE cmd \in Malformed
  BY <1>1, <1>2, <1>3, <1>4 DEF PartOfReply
<1>5. CASE cmd \notin Malformed
  BY <1>1, <1>2, <1>3, <1>5 DEF PartOfReply
<1> QED
  BY <1>4, <1>5

\* So are the beginning and the rest of a part of a reply.
LEMMA PartOfPart ==
    ASSUME NEW r \in Seq(Segments), NEW cmd, PartOfReply(r, cmd), NEW n \in 0..Len(r)
    PROVE  /\ SubSeq(r, 1, n) \in Seq(Segments) /\ PartOfReply(SubSeq(r, 1, n), cmd)
           /\ SubSeq(r, n + 1, Len(r)) \in Seq(Segments) /\ PartOfReply(SubSeq(r, n + 1, Len(r)), cmd)
<1>0. Len(r) \in Nat /\ Len(r) \in 0..Len(r) /\ n + 1 \in Nat /\ n \in Nat /\ DOMAIN r = 1..Len(r)
  BY LenProperties
<1>1. /\ SubSeq(r, 1, n) \in Seq(Segments)
      /\ Len(SubSeq(r, 1, n)) = n
      /\ \A i \in DOMAIN SubSeq(r, 1, n) : /\ i \in 1..n
                                           /\ SubSeq(r, 1, n)[i] = r[i]
                                           /\ i \in DOMAIN r
  BY <1>0, SubSeqElements
<1>2. /\ SubSeq(r, n + 1, Len(r)) \in Seq(Segments)
      /\ Len(SubSeq(r, n + 1, Len(r))) = Len(r) - n
      /\ \A i \in DOMAIN SubSeq(r, n + 1, Len(r)) : /\ i \in 1..(Len(r) - n)
                                                    /\ SubSeq(r, n + 1, Len(r))[i] = r[n + i]
                                                    /\ n + i \in DOMAIN r
  <2> DEFINE m == n + 1
  <2>1. m \in Nat /\ m >= 1
    BY <1>0
  <2>2. /\ SubSeq(r, m, Len(r)) \in Seq(Segments)
        /\ Len(SubSeq(r, m, Len(r))) = IF m <= Len(r) THEN Len(r) - m + 1 ELSE 0
        /\ \A i \in DOMAIN SubSeq(r, m, Len(r)) : /\ i \in 1..(Len(r) - m + 1)
                                                  /\ SubSeq(r, m, Len(r))[i] = r[m + i - 1]
                                                  /\ m + i - 1 \in DOMAIN r
    <3> HIDE DEF m
    <3> QED
      BY <1>0, <2>1, SubSeqElements
  <2>4. Len(r) - m + 1 = Len(r) - n
    BY <1>0
  <2>5. (IF m <= Len(r) THEN Len(r) - m + 1 ELSE 0) = Len(r) - n
    <3>1. CASE n = Len(r)
      BY <1>0, <3>1
    <3>2. CASE n < Len(r)
      <4>1. m <= Len(r)
        BY <1>0, <3>2
      <4> QED
        BY <2>4, <4>1
    <3>3. n = Len(r) \/ n < Len(r)
      <4>1. n \in Int /\ Len(r) \in Int /\ n <= Len(r)
        BY <1>0
      <4> HIDE DEF m
      <4> QED
        BY <4>1
    <3> QED
      BY <3>1, <3>2, <3>3, Zenon
  <2> DEFINE s == SubSeq(r, m, Len(r))
  <2>6. ASSUME NEW i \in DOMAIN s
        PROVE  i \in 1..(Len(r) - n) /\ s[i] = r[n + i] /\ n + i \in DOMAIN r
    <3>1. i \in 1..(Len(r) - m + 1) /\ s[i] = r[m + i - 1] /\ m + i - 1 \in DOMAIN r
      BY <2>2
    <3> HIDE DEF s
    <3>2. i \in Nat
      BY <1>0, <3>1
    <3>3. m + i - 1 = n + i
      BY <1>0, <3>2
    <3> QED
      BY <2>4, <3>1, <3>3
  <2> QED
    BY <2>2, <2>5, <2>6
<1>3. PartOfReply(SubSeq(r, 1, n), cmd)
  <2> DEFINE s == SubSeq(r, 1, n)
  <2>1. \A i \in DOMAIN s : i \in 1..n /\ s[i] = r[i] /\ i \in DOMAIN r
    BY <1>1
  <2>2. Len(s) = n
    BY <1>1
  <2> HIDE DEF s
  <2>3. ASSUME NEW i \in DOMAIN s
        PROVE  /\ s[i].cmd = cmd
               /\ s[i].kind = "end" => i = Len(s)
               /\ s[i].kind = "bad" => cmd \in Malformed
    BY <1>0, <2>1, <2>2 DEF PartOfReply
  <2> QED
    BY <2>3 DEF PartOfReply, s
<1>4. PartOfReply(SubSeq(r, n + 1, Len(r)), cmd)
  <2> DEFINE s == SubSeq(r, n + 1, Len(r))
  <2>1. \A i \in DOMAIN s : i \in 1..(Len(r) - n) /\ s[i] = r[n + i] /\ n + i \in DOMAIN r
    BY <1>2
  <2>2. Len(s) = Len(r) - n
    BY <1>2
  <2> HIDE DEF s
  <2>3. ASSUME NEW i \in DOMAIN s
        PROVE  /\ s[i].cmd = cmd
               /\ s[i].kind = "end" => i = Len(s)
               /\ s[i].kind = "bad" => cmd \in Malformed
    BY <1>0, <2>1, <2>2 DEF PartOfReply
  <2> QED
    BY <2>3 DEF PartOfReply, s
<1> QED
  BY <1>1, <1>2, <1>3, <1>4

-------------------------------------------------------------------------------
(* Operations *)

\* An operation that starts; on a socket that is connected it does not fail at once.
LEMMA Starts ==
    ASSUME NEW cmd \in 1..MaxCommands
    PROVE  /\ WriteOp(cmd) \in Operations /\ WriteOp(cmd).cmd = cmd
           /\ ReadOp(cmd) \in Operations /\ ReadOp(cmd).cmd = cmd /\ ReadOp(cmd).kind = "read"
           /\ link # "down" => ReadOp(cmd).state = "open"
<1>1. StateAtStart \in {"open", "done", "aborted"} /\ (link # "down" => StateAtStart = "open")
  BY DEF StateAtStart
<1> QED
  BY <1>1 DEF WriteOp, ReadOp, Operations

-------------------------------------------------------------------------------
(* The invariant *)

\* The part of the types that commands have nothing to do with.
ConnTypes == /\ status \in {"not_connect", "is_connectting", "is_connected"}
             /\ link \in {"down", "up", "lost"}
             /\ connects \in Nat
             /\ left \in 0..Interval
             /\ expired \in Nat
             /\ breaks \in 0..MaxBreaks
             /\ calls \in 0..MaxCalls

\* A step of the connection or the network, which can only lose replies.
LEMMA QuietStep ==
    ASSUME RedisInv, UNCHANGED cmdVars, ConnTypes', replies' \in Seq(Segments),
           replies' # <<>> => replies # <<>>,
           replies # <<>> /\ PartOfReply(replies, Head(ops).cmd) => PartOfReply(replies', Head(ops).cmd)
    PROVE  RedisInv'
<1>1. queue' = queue /\ ops' = ops /\ buf' = buf /\ issued' = issued /\ answered' = answered
  BY DEF cmdVars
<1>2. TypeOK'
  BY <1>1 DEF RedisInv, TypeOK, ConnTypes
<1>3. OneOperation' /\ CallbacksInOrder' /\ ReplyMatches'
  BY <1>1 DEF RedisInv, OneOperation, CallbacksInOrder, ReplyMatches, Error
<1>4. Unspoilt' => Unspoilt
  BY <1>1 DEF Unspoilt
<1>5. Expected'
  <2>1. PartOfReply(replies, Head(ops).cmd) /\ replies # <<>> => PartOfReply(replies, Head(ops).cmd)'
    BY <1>1 DEF PartOfReply
  <2> QED
    BY <1>1, <1>4, <2>1 DEF RedisInv, Expected
<1> QED
  BY <1>2, <1>3, <1>5 DEF RedisInv

\* The command at the head of the queue is called back and popped, by a handler that
\* leaves nothing of an expected reply behind, and the next one may be written.
LEMMA CallBackInv ==
    ASSUME RedisInv, queue # <<>>,
           NEW value \in 0..MaxCommands, NEW again \in BOOLEAN,
           CallBackAndPop(Head(queue), value, again),
           Unspoilt => value \in {Error, Head(queue)},
           Unspoilt /\ Head(queue) \notin Malformed => buf' = <<>> /\ replies' = <<>>,
           ops' = <<>> \/ (queue' # <<>> /\ ops' = <<WriteOp(Head(queue'))>>),
           ConnTypes', buf' \in Seq(Segments), replies' \in Seq(Segments)
    PROVE  RedisInv'
<1>0. TypeOK /\ CallbacksInOrder /\ ReplyMatches
  BY DEF RedisInv
<1>1. /\ CallbacksInOrder'
      /\ queue' \in Seq(1..MaxCommands)
      /\ issued' \in 0..MaxCommands
      /\ answered' \in Seq(AnswerRecords)
      /\ Len(answered') = Len(answered) + 1 /\ Len(answered) \in Nat
      /\ \A i \in 1..Len(answered) : answered'[i] = answered[i]
      /\ answered'[Len(answered) + 1] = [cmd |-> Head(queue), value |-> value]
  BY <1>0, CallBackInOrder
<1>2. answered \in Seq(AnswerRecords)
  BY <1>0 DEF TypeOK, AnswerRecords
<1>3. /\ answered'[Len(answered) + 1].cmd = Head(queue)
      /\ answered'[Len(answered) + 1].value = value
  BY <1>1
<1>4. ReplyMatches'
  BY <1>0, <1>1, <1>2, <1>3, MatchesOneMore
<1>5. Unspoilt' => Unspoilt /\ Head(queue) \notin Malformed
  BY <1>1, <1>2, <1>3, UnspoiltBefore
<1>6. Expected'
  BY <1>5 DEF Expected
<1>7. ops' \in Seq(Operations) /\ OneOperation'
  <2>1. CASE ops' = <<>>
    BY <2>1 DEF OneOperation
  <2>2. CASE queue' # <<>> /\ ops' = <<WriteOp(Head(queue'))>>
    <3>1. Head(queue') \in 1..MaxCommands
      <4>1. Len(queue') \in Nat \ {0} /\ Head(queue') = queue'[1]
        BY <1>1, <2>2, EmptySeq
      <4>2. 1 \in 1..Len(queue')
        BY <4>1
      <4>3. queue'[1] \in 1..MaxCommands
        BY <1>1, <4>2, ElementOfSeq
      <4> QED
        BY <4>1, <4>3
    <3>2. WriteOp(Head(queue')) \in Operations /\ WriteOp(Head(queue')).cmd = Head(queue')
      BY <3>1, Starts
    <3> DEFINE w == WriteOp(Head(queue'))
    <3> HIDE DEF w
    <3>3. ops' = <<w>> /\ w \in Operations /\ w.cmd = Head(queue')
      BY <2>2, <3>2 DEF w
    <3>4. ops' \in Seq(Operations) /\ Len(ops') = 1 /\ Head(ops') = w
      BY <3>3
    <3> QED
      BY <2>2, <3>3, <3>4 DEF OneOperation
  <2> QED
    BY <2>1, <2>2
<1>8. TypeOK'
  BY <1>1, <1>7 DEF TypeOK, ConnTypes, Operations, AnswerRecords
<1> QED
  BY <1>1, <1>4, <1>6, <1>7, <1>8 DEF RedisInv

\* What the invariant says of the operation that is outstanding.
LEMMA Outstanding ==
    ASSUME RedisInv, ops # <<>>
    PROVE  /\ Tail(ops) = <<>>
           /\ ops = <<Head(ops)>>
           /\ Head(ops) \in Operations
           /\ queue # <<>> /\ Head(ops).cmd = Head(queue) /\ Head(queue) \in 1..MaxCommands
<1>1. ops \in Seq(Operations) /\ Len(ops) <= 1
  BY DEF RedisInv, TypeOK, Operations, OneOperation
<1>2. ops = <<Head(ops)>> /\ Tail(ops) = <<>> /\ Head(ops) \in Operations
  BY <1>1, AtMostOne
<1>3. queue # <<>> /\ Head(ops).cmd = Head(queue)
  BY DEF RedisInv, OneOperation
<1> QED
  BY <1>2, <1>3 DEF Operations

\* A command is issued: it is queued behind the others, and written when it is alone.
LEMMA CommandStep ==
    ASSUME RedisInv, Command
    PROVE  RedisInv'
<1> USE RedisAssumption
<1> DEFINE n == issued + 1
<1>1. /\ queue \in Seq(1..MaxCommands) /\ issued \in 0..MaxCommands /\ issued < MaxCommands
      /\ answered \in Seq(AnswerRecords) /\ ops \in Seq(Operations)
  BY DEF RedisInv, TypeOK, AnswerRecords, Operations, Command
<1>2. Len(answered) \in Nat /\ Len(queue) \in Nat /\ n \in 1..MaxCommands
  BY <1>1
<1>3. /\ queue' = Append(queue, n) /\ issued' = n /\ buf' = buf /\ answered' = answered
      /\ ops' = IF queue = <<>> THEN Append(ops, WriteOp(n)) ELSE ops
      /\ replies' = replies
  BY DEF Command, netVars
<1>4. n = Len(answered) + (Len(queue) + 1)
  <2>1. Len(answered) + Len(queue) = issued
    BY DEF RedisInv, CallbacksInOrder
  <2> QED
    BY <1>1, <1>2, <2>1
<1>5. WriteOp(n) \in Operations /\ WriteOp(n).cmd = n
  BY <1>2, Starts
<1> HIDE DEF n
<1>6. /\ queue' \in Seq(1..MaxCommands) /\ Len(queue') = Len(queue) + 1
      /\ \A j \in 1..Len(queue) : queue'[j] = queue[j]
      /\ queue'[Len(queue) + 1] = n
  BY <1>1, <1>2, <1>3, AppendProperties
<1>7. CallbacksInOrder'
  <2>1. \A j \in 1..Len(queue) : queue[j] = Len(answered) + j
    BY <1>1 DEF RedisInv, CallbacksInOrder
  <2>2. ASSUME NEW j \in 1..(Len(queue) + 1) PROVE queue'[j] = Len(answered) + j
    <3>1. j \in 1..Len(queue) \/ j = Len(queue) + 1
      BY <1>2
    <3> QED
      BY <1>4, <1>6, <2>1, <3>1
  <2>3. Len(answered') + Len(queue') = issued'
    BY <1>2, <1>3, <1>4, <1>6
  <2>4. \A i \in DOMAIN answered' : answered'[i].cmd = i
    BY <1>3 DEF RedisInv, CallbacksInOrder
  <2>5. \A j \in DOMAIN queue' : queue'[j] = Len(answered') + j
    BY <1>3, <1>6, <2>2
  <2> QED
    BY <2>3, <2>4, <2>5 DEF CallbacksInOrder
<1>8. ops' \in Seq(Operations) /\ OneOperation' /\ (ops # <<>> => ops' = ops)
  <2>1. CASE queue = <<>>
    <3>1. ops = <<>>
      BY <2>1 DEF RedisInv, OneOperation
    <3> DEFINE w == WriteOp(n)
    <3> HIDE DEF w
    <3>2. ops' = <<w>> /\ w \in Operations /\ w.cmd = n
      BY <1>3, <1>5, <2>1, <3>1 DEF w
    <3>3. queue' # <<>> /\ Head(queue') = n
      BY <1>3, <2>1
    <3>4. ops' \in Seq(Operations) /\ Len(ops') = 1 /\ Head(ops') = w
      BY <3>2
    <3> QED
      BY <3>1, <3>2, <3>3, <3>4 DEF OneOperation
  <2>2. CASE queue # <<>>
    <3>1. queue' # <<>> /\ Head(queue') = Head(queue)
      <4>1. Len(queue) \in Nat \ {0} /\ Head(queue) = queue[1]
        BY <1>1, <2>2, EmptySeq
      <4>2. Head(queue') = queue'[1]
        BY <1>6
      <4>3. Len(queue') # 0
        BY <1>2, <1>6
      <4> QED
        BY <1>6, <4>1, <4>2, <4>3
    <3>2. ops' = ops
      BY <1>3, <2>2
    <3> QED
      BY <1>1, <3>1, <3>2 DEF RedisInv, OneOperation
  <2> QED
    BY <2>1, <2>2
<1>9. TypeOK'
  BY <1>1, <1>2, <1>3, <1>6, <1>8
  DEF RedisInv, TypeOK, Command, netVars, connVars, AnswerRecords, Operations
<1>10. ReplyMatches'
  BY <1>3 DEF RedisInv, ReplyMatches, Error
<1>11. Expected'
  <2>1. Unspoilt' => Unspoilt
    BY <1>3 DEF Unspoilt
  <2>2. ops # <<>> /\ PartOfReply(replies, Head(ops).cmd) => PartOfReply(replies, Head(ops).cmd)'
    BY <1>3, <1>8 DEF PartOfReply
  <2> QED
    BY <1>3, <1>8, <2>1, <2>2 DEF RedisInv, Expected
<1> QED
  BY <1>7, <1>8, <1>9, <1>10, <1>11 DEF RedisInv

\* The write completes: the reply is expected, and the read started.
LEMMA WroteStep ==
    ASSUME RedisInv, on_wrote
    PROVE  RedisInv'
<1> USE RedisAssumption
<1> DEFINE cmd == Head(ops).cmd
           r == ReadOp(Head(queue))
<1>1. ops # <<>> /\ Head(ops).kind = "write"
  BY DEF on_wrote, Completing
<1>2. /\ Tail(ops) = <<>> /\ queue # <<>> /\ cmd = Head(queue) /\ cmd \in 1..MaxCommands
  BY <1>1, Outstanding
<1>3. /\ queue' = queue /\ buf' = buf /\ issued' = issued /\ answered' = answered
      /\ link' = link /\ ops' = Append(Tail(ops), r)
      /\ replies' = IF link = "up" THEN replies \o ReplyTo(cmd) ELSE replies
  BY DEF on_wrote
<1>4. r \in Operations /\ r.cmd = cmd /\ r.kind = "read" /\ (link = "up" => r.state = "open")
  BY <1>2, Starts
<1>5. ReplyTo(cmd) \in Seq(Segments) /\ PartOfReply(ReplyTo(cmd), cmd)
  BY <1>2, ReplyIsPart
<1>6. replies \in Seq(Segments)
  BY DEF RedisInv, TypeOK
<1> HIDE DEF cmd, r
<1>7. ops' = <<r>>
  <2>1. ops' = Append(<<>>, r)
    BY <1>2, <1>3
  <2> QED
    BY <2>1
<1>8. ops' \in Seq(Operations) /\ Len(ops') = 1 /\ Head(ops') = r /\ ops' # <<>>
  BY <1>4, <1>7
<1>9. OneOperation'
  BY <1>2, <1>3, <1>4, <1>8 DEF OneOperation
<1>10. replies' \in Seq(Segments)
  BY <1>3, <1>5, <1>6
<1>11. TypeOK'
  BY <1>3, <1>8, <1>10 DEF RedisInv, TypeOK, on_wrote, connVars, Operations
<1>12. CallbacksInOrder' /\ ReplyMatches'
  BY <1>3 DEF RedisInv, CallbacksInOrder, ReplyMatches, Error
<1>13. Expected'
  <2>1. Unspoilt' => Unspoilt
    BY <1>3 DEF Unspoilt
  <2>2. ASSUME Unspoilt PROVE buf = <<>> /\ replies = <<>>
    BY <1>1, <2>2 DEF RedisInv, Expected
  <2>3. ASSUME Unspoilt, replies' # <<>>
        PROVE  PartOfReply(replies', Head(ops').cmd) /\ Head(ops').state # "aborted"
    <3>0. link = "up"
      BY <1>3, <2>2, <2>3
    <3>1. replies' = ReplyTo(cmd)
      <4>1. <<>> \o ReplyTo(cmd) = ReplyTo(cmd)
        BY <1>5
      <4> QED
        BY <1>3, <2>2, <2>3, <4>1
    <3> QED
      BY <1>4, <1>5, <1>8, <3>0, <3>1
  <2> QED
    BY <1>3, <1>4, <1>8, <2>1, <2>2, <2>3 DEF Expected, PartOfReply
<1> QED
  BY <1>9, <1>11, <1>12, <1>13 DEF RedisInv

\* A failed write calls the command back with an error.
LEMMA WriteErrorStep ==
    ASSUME RedisInv, NEW again \in BOOLEAN, on_write_error(again)
    PROVE  RedisInv'
<1> USE RedisAssumption
<1>1. ops # <<>> /\ Head(ops).kind = "write"
  BY DEF on_write_error, Completing
<1>2. Tail(ops) = <<>> /\ queue # <<>>
  BY <1>1, Outstanding
<1>3. /\ CallBackAndPop(Head(queue), Error, again)
      /\ ops' = <<>> /\ buf' = buf /\ replies' = replies
  BY <1>2 DEF on_write_error, netVars
<1>4. Unspoilt => buf = <<>> /\ replies = <<>>
  BY <1>1 DEF RedisInv, Expected
<1>5. ConnTypes'
  BY DEF RedisInv, TypeOK, ConnTypes, on_write_error, netVars, connVars, Reconnect,
         start_reconnect_timer
<1>6. buf' \in Seq(Segments) /\ replies' \in Seq(Segments)
  BY <1>3 DEF RedisInv, TypeOK
<1>7. Error \in 0..MaxCommands
  BY DEF Error
<1> QED
  BY <1>2, <1>3, <1>4, <1>5, <1>6, <1>7, CallBackInv

\* A failed read calls the command back with an error.
LEMMA ReadErrorStep ==
    ASSUME RedisInv, NEW again \in BOOLEAN, on_read_error(again)
    PROVE  RedisInv'
<1> USE RedisAssumption
<1>1. ops # <<>> /\ (replies = <<>> \/ Head(ops).state = "aborted")
  BY DEF on_read_error, Completing
<1>2. Tail(ops) = <<>> /\ queue # <<>> /\ Head(ops).cmd = Head(queue)
  BY <1>1, Outstanding
<1>3. /\ CallBackAndPop(Head(queue), Error, again)
      /\ ops' = <<>> /\ buf' = buf /\ replies' = replies
  BY <1>2 DEF on_read_error, netVars
<1>4. Unspoilt => buf = <<>> /\ replies = <<>>
  BY <1>1 DEF RedisInv, Expected
<1>5. ConnTypes'
  BY DEF RedisInv, TypeOK, ConnTypes, on_read_error, netVars, connVars
<1>6. buf' \in Seq(Segments) /\ replies' \in Seq(Segments)
  BY <1>3 DEF RedisInv, TypeOK
<1>7. Error \in 0..MaxCommands
  BY DEF Error
<1> QED
  BY <1>2, <1>3, <1>4, <1>5, <1>6, <1>7, CallBackInv

\* The operation that is outstanding ends otherwise; it is for the same command.
LEMMA EndedOperation ==
    ASSUME RedisInv, NEW state \in {"open", "done", "aborted"}, ops' = Ended(ops, state),
           queue' = queue
    PROVE  /\ ops' \in Seq(Operations) /\ OneOperation'
           /\ ops # <<>> => /\ ops' # <<>>
                            /\ Head(ops').kind = Head(ops).kind
                            /\ Head(ops').cmd = Head(ops).cmd
                            /\ Head(ops).state = "open" => Head(ops').state = state
<1>1. ops \in Seq(Operations) /\ Len(ops) <= 1
  BY DEF RedisInv, TypeOK, OneOperation, Operations
<1>2. CASE ops = <<>>
  <2>1. ops' = <<>>
    BY <1>2 DEF Ended
  <2>2. ops' \in Seq(Operations) /\ Len(ops') = 0
    BY <2>1, EmptySeq
  <2> QED
    BY <1>2, <2>1, <2>2 DEF OneOperation
<1>3. CASE ops # <<>>
  <2>1. Len(ops) = 1 /\ Head(ops) = ops[1] /\ Head(ops) \in Operations
    BY <1>1, <1>3, AtMostOne
  <2>2. queue # <<>> /\ Head(ops).cmd = Head(queue)
    BY <1>3, Outstanding
  <2> DEFINE a == IF ops[1].state = "open" THEN [ops[1] EXCEPT !.state = state] ELSE ops[1]
  <2>3. /\ a \in Operations /\ a.cmd = Head(ops).cmd /\ a.kind = Head(ops).kind
        /\ Head(ops).state = "open" => a.state = state
    BY <2>1 DEF Operations
  <2>4. ops' = [i \in 1..1 |-> a]
    <3>1. DOMAIN ops = 1..1
      BY <1>1, <2>1
    <3>2. \A i \in 1..1 : i = 1
      OBVIOUS
    <3>3. ops' = [i \in 1..1 |-> IF ops[i].state = "open"
                                  THEN [ops[i] EXCEPT !.state = state] ELSE ops[i]]
      BY <3>1 DEF Ended
    <3> QED
      BY <3>2, <3>3
  <2> HIDE DEF a
  <2>5. ops' \in Seq(Operations) /\ Len(ops') = 1 /\ Head(ops') = a
    BY <2>3, <2>4
  <2>6. ops' # <<>>
    BY <2>5
  <2> QED
    BY <2>2, <2>3, <2>5, <2>6 DEF OneOperation
<1> QED
  BY <1>2, <1>3

\* Disconnect aborts the operation that is outstanding and drops the replies, or
\* leaves it the success that it has had, and a reader what it has read.
LEMMA DisconnectStep ==
    ASSUME RedisInv, Disconnect
    PROVE  RedisInv'
<1> USE RedisAssumption
<1>1. /\ queue' = queue /\ buf' = buf /\ issued' = issued /\ answered' = answered
  BY DEF Disconnect
<1>2. ConnTypes'
  <2>1. calls' \in 0..MaxCalls
    BY DEF RedisInv, TypeOK, Disconnect
  <2>2. connects' \in Nat /\ expired' \in Nat /\ breaks' \in 0..MaxBreaks
    BY DEF RedisInv, TypeOK, Disconnect
  <2>3. /\ status' \in {"not_connect", "is_connectting", "is_connected"}
        /\ link' \in {"down", "up", "lost"}
    BY Zenon DEF RedisInv, TypeOK, Disconnect
  <2>4. left' \in 0..Interval
    <3>1. left' = left \/ left' = 0
      BY Zenon DEF Disconnect
    <3> QED
      BY <3>1 DEF RedisInv, TypeOK
  <2> QED
    BY <2>1, <2>2, <2>3, <2>4 DEF ConnTypes
<1>0. replies \in Seq(Segments)
  BY DEF RedisInv, TypeOK
<1>3. ASSUME NEW state \in {"done", "aborted"}, ops' = Ended(ops, state), replies' \in Seq(Segments),
             replies' # <<>> =>
                 /\ state = "done" /\ ops # <<>> /\ replies # <<>>
                 /\ Head(ops).state = "open" /\ Head(ops).kind = "read"
                 /\ PartOfReply(replies, Head(ops).cmd) => PartOfReply(replies', Head(ops).cmd)
      PROVE  RedisInv'
  <2>1. /\ ops' \in Seq(Operations) /\ OneOperation'
        /\ ops # <<>> => /\ ops' # <<>>
                         /\ Head(ops').kind = Head(ops).kind
                         /\ Head(ops').cmd = Head(ops).cmd
                         /\ Head(ops).state = "open" => Head(ops').state = state
    BY <1>1, <1>3, EndedOperation
  <2>2. TypeOK'
    BY <1>1, <1>2, <1>3, <2>1 DEF RedisInv, TypeOK, ConnTypes, Operations
  <2>3. CallbacksInOrder' /\ ReplyMatches'
    BY <1>1 DEF RedisInv, CallbacksInOrder, ReplyMatches, Error
  <2>4. Expected'
    <3>1. Unspoilt' => Unspoilt
      BY <1>1 DEF Unspoilt
    <3>2. ASSUME Unspoilt, replies' # <<>>
          PROVE  /\ ops' # <<>> /\ Head(ops').kind = "read" /\ Head(ops').state # "aborted"
                 /\ PartOfReply(replies', Head(ops').cmd)
      <4>1. PartOfReply(replies, Head(ops).cmd)
        BY <1>3, <3>2 DEF RedisInv, Expected
      <4> QED
        BY <1>3, <2>1, <3>2, <4>1
    <3> QED
      BY <1>1, <3>1, <3>2 DEF RedisInv, Expected, PartOfReply
  <2> QED
    BY <2>1, <2>2, <2>3, <2>4 DEF RedisInv
<1>4. CASE status = "is_connected"
  <2>1. CASE ops' = Ended(ops, "aborted") /\ replies' = <<>>
    <3>1. replies' \in Seq(Segments)
      BY <2>1, EmptySeq
    <3> QED
      BY <1>3, <2>1, <3>1
  <2>2. CASE /\ ops # <<>> /\ Head(ops).state = "open"
             /\ ops' = Ended(ops, "done")
             /\ \E k \in 0..Len(replies) :
                   /\ k > 0 <=> Head(ops).kind = "read"
                   /\ replies' = SubSeq(replies, 1, k)
    <3>1. PICK k \in 0..Len(replies) : /\ k > 0 <=> Head(ops).kind = "read"
                                       /\ replies' = SubSeq(replies, 1, k)
      BY <2>2
    <3>2. /\ replies' \in Seq(Segments)
          /\ Len(replies') = IF 1 <= k THEN k ELSE 0
      <4>1. 1 \in Nat /\ 1 >= 1 /\ k - 1 + 1 = k
        OBVIOUS
      <4> QED
        BY <1>0, <3>1, <4>1, SubSeqElements
    <3>3. replies' # <<>> => k > 0 /\ replies # <<>>
      <4>1. k = 0 => replies' = <<>>
        BY <3>2, EmptySeq
      <4>2. replies = <<>> => k = 0
        BY <1>0
      <4>3. k = 0 \/ k > 0
        OBVIOUS
      <4> QED
        BY <4>1, <4>2, <4>3
    <3>4. PartOfReply(replies, Head(ops).cmd) => PartOfReply(replies', Head(ops).cmd)
      BY <1>0, <3>1, PartOfPart
    <3> QED
      BY <1>3, <2>2, <3>1, <3>2, <3>3, <3>4
  <2> QED
    BY <1>4, <2>1, <2>2 DEF Disconnect
<1>5. CASE status # "is_connected"
  <2>1. replies' = replies /\ ops' = ops
    BY <1>5 DEF Disconnect
  <2> QED
    BY <1>0, <1>1, <1>2, <2>1, QuietStep DEF cmdVars
<1> QED
  BY <1>4, <1>5

\* A read that completes the reply of its command, or has it rejected, or goes on.
LEMMA ReadStep ==
    ASSUME RedisInv, NEW k \in 1..Len(replies), NEW again \in BOOLEAN, on_read(k, again)
    PROVE  RedisInv'
<1> USE RedisAssumption
<1> DEFINE cmd == Head(ops).cmd
           more == SubSeq(replies, 1, k)
           rest == SubSeq(replies, k + 1, Len(replies))
           got == buf \o more
           d == First(Decisive(got))
<1>1. ops # <<>> /\ Head(ops).kind = "read"
  BY DEF on_read, Completing
<1>2. /\ Tail(ops) = <<>> /\ queue # <<>> /\ cmd = Head(queue) /\ cmd \in 1..MaxCommands
  BY <1>1, Outstanding
<1>3. replies \in Seq(Segments) /\ buf \in Seq(Segments) /\ Len(replies) \in Nat
  BY LenProperties DEF RedisInv, TypeOK
<1>4. k \in Nat /\ k + 1 \in Nat /\ k >= 1 /\ k \in 0..Len(replies) /\ k <= Len(replies)
  BY <1>3
<1>5. /\ more \in Seq(Segments) /\ Len(more) = k
      /\ \A i \in DOMAIN more : more[i] = replies[i] /\ i \in DOMAIN replies
  BY <1>3, <1>4, SubSeqElements
<1>6. rest \in Seq(Segments) /\ (k = Len(replies) => rest = <<>>)
  <2>1. Len(replies) \in 0..Len(replies)
    BY <1>3
  <2>2. rest \in Seq(Segments) /\ Len(rest) = IF k + 1 <= Len(replies) THEN Len(replies) - (k + 1) + 1 ELSE 0
    BY <1>3, <1>4, <2>1, SubSeqElements
  <2>3. k = Len(replies) => ~(k + 1 <= Len(replies))
    BY <1>3, <1>4
  <2>4. k = Len(replies) => Len(rest) = 0
    BY <2>2, <2>3
  <2> QED
    BY <2>2, <2>4, EmptySeq
<1>7. got \in Seq(Segments) /\ Len(got) \in Nat /\ DOMAIN got = 1..Len(got)
  BY <1>3, <1>5
<1>8. /\ replies' = rest
      /\ Decisive(got) = {} => /\ buf' = <<>> /\ UNCHANGED <<queue, issued, answered>>
                               /\ ops' = Append(Tail(ops), ReadOp(cmd))
      /\ Decisive(got) # {} =>
            /\ buf' = SubSeq(got, d + 1, Len(got))
            /\ CallBackAndPop(cmd, IF got[d].kind = "end" THEN got[d].cmd ELSE Error, again)
            /\ start_async_write(queue')
  BY DEF on_read
<1>9. ConnTypes'
  BY DEF RedisInv, TypeOK, ConnTypes, on_read, connVars
<1>10. ASSUME Unspoilt
       PROVE  buf = <<>> /\ got = more /\ PartOfReply(replies, cmd)
  <2>1. buf = <<>> /\ PartOfReply(replies, cmd)
    <3>1. replies # <<>>
      BY <1>3, <1>4, EmptySeq
    <3> QED
      BY <1>10, <3>1 DEF RedisInv, Expected
  <2>2. <<>> \o more = more
    BY <1>5
  <2> QED
    BY <2>1, <2>2
<1>11. PartOfReply(replies, cmd) => PartOfReply(rest, cmd)
  BY <1>3, <1>4, PartOfPart
<1> HIDE DEF cmd, more, rest, got, d
<1>12. CASE Decisive(got) = {}
  <2> DEFINE r == ReadOp(cmd)
  <2>1. /\ buf' = <<>> /\ queue' = queue /\ issued' = issued /\ answered' = answered
        /\ replies' = rest
    BY <1>8, <1>12
  <2>2. buf' \in Seq(Segments) /\ replies' \in Seq(Segments)
    BY <1>6, <2>1
  <2>a. r \in Operations /\ r.cmd = cmd /\ r.kind = "read" /\ (link # "down" => r.state = "open")
    BY <1>2, Starts
  <2> HIDE DEF r
  <2>b. ops' = <<r>>
    <3>1. ops' = Append(<<>>, r)
      BY <1>2, <1>8, <1>12 DEF r
    <3> QED
      BY <3>1
  <2>c. ops' \in Seq(Operations) /\ Len(ops') = 1 /\ Head(ops') = r /\ ops' # <<>>
    BY <2>a, <2>b
  <2>3. TypeOK'
    BY <1>9, <2>1, <2>2, <2>c DEF RedisInv, TypeOK, ConnTypes, Operations
  <2>4. OneOperation' /\ CallbacksInOrder' /\ ReplyMatches'
    <3>1. OneOperation'
      BY <1>2, <2>1, <2>a, <2>c DEF OneOperation
    <3> QED
      BY <2>1, <3>1 DEF RedisInv, CallbacksInOrder, ReplyMatches, Error
  <2>5. Expected'
    <3>1. Unspoilt' => Unspoilt
      BY <2>1 DEF Unspoilt
    <3>2. ASSUME Unspoilt PROVE PartOfReply(replies', Head(ops').cmd)
      BY <1>10, <1>11, <2>1, <2>a, <2>c, <3>2
    <3>3. ASSUME replies' # <<>> PROVE Head(ops').state # "aborted"
      <4>1. Head(ops).state # "done"
        BY <1>6, <2>1, <3>3 DEF on_read
      <4>2. link # "down"
        BY <4>1 DEF on_read, Succeeds
      <4> QED
        BY <2>a, <2>c, <4>2
    <3> QED
      BY <2>1, <2>a, <2>c, <3>1, <3>2, <3>3 DEF Expected, PartOfReply
  <2> QED
    BY <2>3, <2>4, <2>5 DEF RedisInv
<1>13. CASE Decisive(got) # {}
  <2> DEFINE value == IF got[d].kind = "end" THEN got[d].cmd ELSE Error
  <2>1. d \in Decisive(got) /\ d \in 1..Len(got) /\ got[d].kind # "part"
    <3>1. Decisive(got) \in SUBSET Nat
      BY <1>7 DEF Decisive
    <3>2. d \in Decisive(got)
      BY <1>13, <3>1, FirstIsFirst DEF d
    <3> QED
      BY <1>7, <3>2 DEF Decisive
  <2>2. got[d] \in Segments
    BY <1>7, <2>1, ElementOfSeq
  <2>3. /\ buf' = SubSeq(got, d + 1, Len(got))
        /\ CallBackAndPop(Head(queue), value, again)
        /\ start_async_write(queue')
        /\ replies' = rest
    BY <1>2, <1>8, <1>13
  <2>4. value \in 0..MaxCommands
    <3>1. got[d].cmd \in 0..MaxCommands /\ Error \in 0..MaxCommands
      BY <2>2 DEF Segments, Error
    <3> QED
      BY <3>1
  <2>5. /\ buf' \in Seq(Segments)
        /\ d = Len(got) => buf' = <<>>
    <3>0. d \in Nat /\ d + 1 \in Nat /\ d + 1 >= 1 /\ Len(got) \in 0..Len(got)
      BY <1>7, <2>1
    <3>1. buf' \in Seq(Segments) /\ Len(buf') = IF d + 1 <= Len(got) THEN Len(got) - (d + 1) + 1 ELSE 0
      BY <1>7, <2>3, <3>0, SubSeqElements
    <3>2. d = Len(got) => ~(d + 1 <= Len(got))
      BY <3>0
    <3>3. d = Len(got) => Len(buf') = 0
      BY <3>1, <3>2
    <3> QED
      BY <3>1, <3>3, EmptySeq
  <2>6. ops' = <<>> \/ (queue' # <<>> /\ ops' = <<WriteOp(Head(queue'))>>)
    <3>1. CASE queue' = <<>>
      BY <1>2, <2>3, <3>1 DEF start_async_write
    <3>2. CASE queue' # <<>>
      <4> DEFINE w == WriteOp(Head(queue'))
      <4>1. ops' = Append(<<>>, w)
        BY <1>2, <2>3, <3>2 DEF start_async_write
      <4> HIDE DEF w
      <4>2. ops' = <<w>>
        BY <4>1
      <4> QED
        BY <3>2, <4>2 DEF w
    <3> QED
      BY <3>1, <3>2
  <2>7. ASSUME Unspoilt
        PROVE  /\ got[d].cmd = cmd /\ d \in DOMAIN replies
               /\ got[d].kind = "end" => d = Len(replies)
               /\ got[d].kind = "bad" => cmd \in Malformed
    <3>1. got = more /\ PartOfReply(replies, cmd)
      BY <1>10, <2>7
    <3>2. d \in DOMAIN more
      BY <1>7, <2>1, <3>1
    <3>3. got[d] = replies[d] /\ d \in DOMAIN replies
      BY <1>5, <3>1, <3>2
    <3> QED
      BY <3>1, <3>3 DEF PartOfReply
  <2>8. Unspoilt => value \in {Error, Head(queue)}
    BY <1>2, <2>7
  <2>9. ASSUME Unspoilt, Head(queue) \notin Malformed PROVE buf' = <<>> /\ replies' = <<>>
    <3>1. got[d].kind = "end"
      BY <1>2, <2>1, <2>2, <2>7, <2>9 DEF Segments
    <3>2. d = Len(replies)
      BY <2>7, <2>9, <3>1
    <3>3. Len(got) = k
      BY <1>5, <1>10, <2>9
    <3>4. d <= k /\ k <= Len(replies) /\ d \in Nat
      BY <1>4, <2>1, <3>3
    <3>5. k = Len(replies) /\ d = Len(got)
      BY <1>3, <1>4, <3>2, <3>3, <3>4
    <3> QED
      BY <1>6, <2>3, <2>5, <3>5
  <2> HIDE DEF value
  <2>10. replies' \in Seq(Segments)
    BY <1>6, <2>3
  <2> QED
    BY <1>2, <1>9, <2>3, <2>4, <2>5, <2>6, <2>8, <2>9, <2>10, CallBackInv
<1> QED
  BY <1>12, <1>13

\* A break of the link loses the end of what the server has sent.
LEMMA BreakStep ==
    ASSUME RedisInv, Break
    PROVE  RedisInv'
<1> USE RedisAssumption
<1>1. PICK n \in 0..Len(replies) : replies' = SubSeq(replies, 1, n)
  BY DEF Break
<1>2. replies \in Seq(Segments)
  BY DEF RedisInv, TypeOK
<1>3. replies' \in Seq(Segments)
  <2>1. n \in 0..Len(replies) /\ 1 \in Nat /\ 1 >= 1
    OBVIOUS
  <2> QED
    BY <1>1, <1>2, <2>1, SubSeqElements
<1>4. replies' # <<>> => replies # <<>>
  <2>1. replies = <<>> => n = 0
    BY <1>2
  <2>2. SubSeq(<<>>, 1, 0) = <<>>
    OBVIOUS
  <2> QED
    BY <1>1, <2>1, <2>2
<1>5. PartOfReply(replies, Head(ops).cmd) => PartOfReply(replies', Head(ops).cmd)
  BY <1>1, <1>2, PartOfPart
<1>6. ConnTypes'
  BY DEF RedisInv, TypeOK, ConnTypes, Break, connVars
<1>7. UNCHANGED cmdVars
  BY DEF Break
<1> QED
  BY <1>3, <1>4, <1>5, <1>6, <1>7, QuietStep

\* async_connect completes: a new connection has no replies on it yet.
LEMMA ConnectFinishedStep ==
    ASSUME RedisInv, NEW ok \in BOOLEAN, on_connect_finished(ok)
    PROVE  RedisInv'
<1> USE RedisAssumption
<1>1. replies' = <<>> \/ replies' = replies
  BY DEF on_connect_finished
<1>2. replies' \in Seq(Segments)
  <2>1. replies \in Seq(Segments) /\ <<>> \in Seq(Segments)
    BY EmptySeq DEF RedisInv, TypeOK
  <2> QED
    BY <1>1, <2>1
<1>3. ConnTypes'
  <2>1. connects' \in Nat
    BY DEF RedisInv, TypeOK, on_connect_finished
  <2>2. expired' \in Nat /\ breaks' \in 0..MaxBreaks /\ calls' \in 0..MaxCalls
    BY DEF RedisInv, TypeOK, on_connect_finished
  <2>3. left' \in 0..Interval
    <3>1. left' = left \/ left' = Interval
      BY Zenon DEF on_connect_finished, start_reconnect_timer
    <3> QED
      BY <3>1 DEF RedisInv, TypeOK
  <2>4. /\ status' \in {"not_connect", "is_connectting", "is_connected"}
        /\ link' \in {"down", "up", "lost"}
    BY Zenon DEF RedisInv, TypeOK, on_connect_finished
  <2> QED
    BY <2>1, <2>2, <2>3, <2>4 DEF ConnTypes
<1>4. UNCHANGED cmdVars
  BY DEF on_connect_finished
<1>5. PartOfReply(replies, Head(ops).cmd) => PartOfReply(replies', Head(ops).cmd)
  <2>1. PartOfReply(<<>>, Head(ops).cmd)
    BY DEF PartOfReply
  <2> QED
    BY <1>1, <2>1
<1>6. replies' # <<>> => replies # <<>>
  BY <1>1
<1> QED
  BY <1>2, <1>3, <1>4, <1>5, <1>6, QuietStep

\* The steps of the timer and of the programs that manage the connection.
LEMMA ManageStep ==
    ASSUME RedisInv, TimerRuns \/ on_reconnect_timer \/ Connect \/ ReconnectCall \/ UNCHANGED vars
    PROVE  RedisInv'
<1> USE RedisAssumption
<1>1. replies' = replies /\ UNCHANGED cmdVars /\ replies' \in Seq(Segments)
  BY DEF RedisInv, TypeOK, TimerRuns, on_reconnect_timer, Connect, ReconnectCall, vars, cmdVars,
         netVars
<1>2. ConnTypes
  BY DEF RedisInv, TypeOK, ConnTypes
<1>3. ConnTypes'
  <2>1. CASE TimerRuns
    <3>1. expired' \in Nat
      BY <1>2, <2>1 DEF ConnTypes, TimerRuns
    <3>2. status' = status /\ link' = link /\ connects' = connects /\ breaks' = breaks /\ calls' = calls
      BY <2>1 DEF TimerRuns, netVars
    <3>3. left' \in 0..Interval
      BY <1>2, <2>1 DEF ConnTypes, TimerRuns
    <3> QED
      BY <1>2, <3>1, <3>2, <3>3 DEF ConnTypes
  <2>2. CASE on_reconnect_timer
    BY <1>2, <2>2 DEF ConnTypes, on_reconnect_timer, do_async_connect, netVars
  <2>3. CASE Connect
    BY <1>2, <2>3 DEF ConnTypes, Connect, do_async_connect, netVars
  <2>4. CASE ReconnectCall
    <3>1. calls' \in 0..MaxCalls
      BY <1>2, <2>4 DEF ConnTypes, ReconnectCall
    <3>2. status' = status /\ link' = link /\ connects' = connects /\ breaks' = breaks /\ expired' = expired
      BY <2>4 DEF ReconnectCall, Reconnect, netVars
    <3>3. left' \in 0..Interval
      <4>1. left' = left \/ left' = Interval
        BY <2>4, Zenon DEF ReconnectCall, Reconnect, start_reconnect_timer
      <4> QED
        BY <1>2, <4>1 DEF ConnTypes
    <3> QED
      BY <1>2, <3>1, <3>2, <3>3 DEF ConnTypes
  <2>5. CASE UNCHANGED vars
    BY <1>2, <2>5 DEF ConnTypes, vars
  <2> QED
    BY <2>1, <2>2, <2>3, <2>4, <2>5
<1> QED
  BY <1>1, <1>3, QuietStep

-------------------------------------------------------------------------------
(* Theorems *)

\* RedisInv is an invariant of the client.
THEOREM RedisInvariance == Spec => []RedisInv
<1>1. ASSUME Init PROVE RedisInv
  <2>1. /\ queue = <<>> /\ ops = <<>> /\ replies = <<>> /\ buf = <<>> /\ answered = <<>>
        /\ issued = 0
    BY <1>1 DEF Init
  <2>2. TypeOK
    <3>1. ConnTypes
      <4>1. 0 \in 0..MaxBreaks /\ 0 \in 0..MaxCalls /\ 0 \in 0..Interval /\ 1 \in Nat /\ 0 \in Nat
        BY RedisAssumption
      <4> QED
        BY <1>1, <4>1 DEF Init, ConnTypes
    <3>2. \A S : <<>> \in Seq(S)
      BY EmptySeq
    <3>3. 0 \in 0..MaxCommands
      BY RedisAssumption
    <3> QED
      BY <2>1, <3>1, <3>2, <3>3 DEF TypeOK, ConnTypes
  <2>3. Len(<<>>) = 0 /\ DOMAIN <<>> = {}
    OBVIOUS
  <2>4. OneOperation /\ CallbacksInOrder /\ ReplyMatches /\ Expected
    BY <2>1, <2>3 DEF OneOperation, CallbacksInOrder, ReplyMatches, Expected
  <2> QED
    BY <2>2, <2>4 DEF RedisInv
<1>2. ASSUME RedisInv, [Next]_vars PROVE RedisInv'
  <2>1. CASE \E ok \in BOOLEAN : on_connect_finished(ok)
    BY <1>2, <2>1, ConnectFinishedStep
  <2>2. CASE TimerRuns \/ on_reconnect_timer \/ Connect \/ ReconnectCall \/ UNCHANGED vars
    BY <1>2, <2>2, ManageStep
  <2>3. CASE Command
    BY <1>2, <2>3, CommandStep
  <2>4. CASE on_wrote
    BY <1>2, <2>4, WroteStep
  <2>5. CASE \E again \in BOOLEAN : on_write_error(again)
    BY <1>2, <2>5, WriteErrorStep
  <2>6. CASE \E again \in BOOLEAN : on_read_error(again)
    BY <1>2, <2>6, ReadErrorStep
  <2>7. CASE \E k \in 1..Len(replies), again \in BOOLEAN : on_read(k, again)
    BY <1>2, <2>7, ReadStep
  <2>8. CASE Disconnect
    BY <1>2, <2>8, DisconnectStep
  <2>9. CASE Break
    BY <1>2, <2>9, BreakStep
  <2> QED
    BY <1>2, <2>1, <2>2, <2>3, <2>4, <2>5, <2>6, <2>7, <2>8, <2>9 DEF Next, Completion
<1> QED
  BY <1>1, <1>2, PTL DEF Spec

\* The types of the redis client's state.
THEOREM TypeCorrect == Spec => []TypeOK
<1>1. RedisInv => TypeOK
  BY DEF RedisInv
<1> QED
  BY RedisInvariance, <1>1, PTL

\* However connections fail and are renewed, and whatever callbacks issue, at most
\* one write or read is outstanding on the client's socket, and it is for the
\* command at the head of the queue.
THEOREM OneOperationOnly == Spec => []OneOperation
<1>1. RedisInv => OneOperation
  BY DEF RedisInv
<1> QED
  BY RedisInvariance, <1>1, PTL

\* Every command is called back at most once, in the order of issue, and those that
\* have not been are still queued in that order.
THEOREM CalledBackInOrder == Spec => []CallbacksInOrder
<1>1. RedisInv => CallbacksInOrder
  BY DEF RedisInv
<1> QED
  BY RedisInvariance, <1>1, PTL

\* A callback is never given the reply to another command, as long as no reply that
\* does not parse has been handed out: not over lost and new connections either.
THEOREM RepliesMatch == Spec => []ReplyMatches
<1>1. RedisInv => ReplyMatches
  BY DEF RedisInv
<1> QED
  BY RedisInvariance, <1>1, PTL
===============================================================================

------------------------- MODULE HttpConnection_proofs -------------------------
(***************************************************************************)
(* Theorems about HttpConnection, for any number of requests on the        *)
(* connection, any cut of their bytes and any order of completions.        *)
(*                                                                         *)
(* OneAtATime holds when no client asks for "100 Continue": OneInv adds to *)
(* it that nothing is outstanding while llhttp runs, unless a callback has *)
(* just refused the request, after which llhttp calls back no more.        *)
(*                                                                         *)
(* WholeRequests holds when clients do not pipeline either.  It says       *)
(* nothing of the request that is being read; Progress does: the bytes     *)
(* that are sent and not parsed are what the request still lacks, and what *)
(* _request and _body_buffer hold is the rest of it.                       *)
(***************************************************************************)
EXTENDS HttpConnection, SequenceTheorems, FiniteSetTheorems, TLAPS

PartSet == (1..MaxRequests) \X {"headers", "body"}

\* The events of the requests that the clients send.
Sendable == {e \in Event : e.req.kind \in Kinds}

Headers(r)  == [what |-> "headers", req |-> r]
Body(r)     == [what |-> "body", req |-> r]
Complete(r) == [what |-> "complete", req |-> r]

ScalarTypes == /\ sent \in 0..MaxRequests
               /\ io \in {"handshake", "reactor", "Parse"}
               /\ parser \in {"ok", "error"}
               /\ read_complete \in {"none", "header", "message"}
               /\ app \in BOOLEAN /\ keep \in BOOLEAN /\ upgrade \in BOOLEAN
               /\ parts \subseteq PartSet
               /\ status \in Status
               /\ reads \in Nat

QueueTypes == /\ input \in Seq(Sendable)
              /\ batch \in Seq(Sendable)
              /\ writes \in Seq(Reply)
              /\ contexts \in Seq(SUBSET PartSet)
              /\ wire \in Seq(Reply)
              /\ handled \in Seq(SUBSET PartSet)

Types == ScalarTypes /\ QueueTypes

-------------------------------------------------------------------------------
(* Types *)

\* Any subsequence of a sequence has its elements.
LEMMA SubSeqElements ==
    ASSUME NEW S, NEW s \in Seq(S), NEW m \in Nat, NEW n \in 0..Len(s), m >= 1
    PROVE  SubSeq(s, m, n) \in Seq(S)
<1>1. \A i \in m..n : s[i] \in S
  BY ElementOfSeq
<1> QED
  BY <1>1, SubSeqProperties

\* What the parser calls back for a request that a client may send.
LEMMA EventsTyped ==
    ASSUME NEW r \in Request, r.kind \in Kinds
    PROVE  /\ Headers(r) \in Sendable /\ Body(r) \in Sendable /\ Complete(r) \in Sendable
           /\ Events(r) = IF HasBody(r.kind) THEN <<Headers(r), Body(r), Complete(r)>> ELSE <<Headers(r)>>
           /\ Events(r) \in Seq(Sendable)
<1>1. /\ Headers(r).req = r /\ Body(r).req = r /\ Complete(r).req = r
      /\ Headers(r) \in Event /\ Body(r) \in Event /\ Complete(r) \in Event
  BY DEF Headers, Body, Complete, Event
<1>2. Headers(r) \in Sendable /\ Body(r) \in Sendable /\ Complete(r) \in Sendable
  BY <1>1 DEF Sendable
<1>3. Events(r) = IF HasBody(r.kind) THEN <<Headers(r), Body(r), Complete(r)>> ELSE <<Headers(r)>>
  BY DEF Events, Headers, Body, Complete
<1>4. Events(r) \in Seq(Sendable)
  <2> DEFINE h == Headers(r)
             b == Body(r)
             c == Complete(r)
  <2> HIDE DEF h, b, c
  <2>1. h \in Sendable /\ b \in Sendable /\ c \in Sendable
    BY <1>2 DEF h, b, c
  <2>2. <<h, b, c>> \in Seq(Sendable) /\ <<h>> \in Seq(Sendable)
    BY <2>1
  <2> QED
    BY <1>3, <2>2 DEF h, b, c
<1> QED
  BY <1>2, <1>3, <1>4

\* The event that llhttp calls back for next.
LEMMA NextEventTyped ==
    ASSUME Types, batch # <<>>
    PROVE  /\ Head(batch) \in Sendable /\ Tail(batch) \in Seq(Sendable)
           /\ Head(batch).req \in Request /\ Head(batch).req.kind \in Kinds
           /\ Head(batch).req.id \in 1..MaxRequests
           /\ Head(batch).req.keep \in BOOLEAN
           /\ Head(batch) = [what |-> Head(batch).what, req |-> Head(batch).req]
<1>1. Head(batch) \in Sendable /\ Tail(batch) \in Seq(Sendable)
  BY HeadTailProperties DEF Types, QueueTypes
<1>2. Head(batch) \in Event /\ Head(batch).req.kind \in Kinds
  BY <1>1 DEF Sendable
<1>3. Head(batch).req \in Request /\ Head(batch) = [what |-> Head(batch).what, req |-> Head(batch).req]
  BY <1>2 DEF Event
<1>4. Head(batch).req.id \in 1..MaxRequests /\ Head(batch).req.keep \in BOOLEAN
  BY <1>3 DEF Request
<1> QED
  BY <1>1, <1>2, <1>3, <1>4

\* The replies of the callbacks and of the contexts.
LEMMA WriteTyped ==
    ASSUME Types, NEW s \in {"100", "404", "413", "app"}, NEW chunked \in BOOLEAN,
           NEW close \in BOOLEAN, do_write(s, chunked, close)
    PROVE  /\ writes' \in Seq(Reply) /\ s \in Status
           /\ writes = <<>> /\ s # "100" => \E w \in Reply : Final(w) /\ writes' = <<w>>
<1> DEFINE w == [status |-> s, chunked |-> chunked, close |-> close]
<1>1. w \in Reply /\ (s # "100" => Final(w))
  BY DEF Reply, Status, Final
<1>2. writes' = Append(writes, w)
  BY DEF do_write
<1> HIDE DEF w
<1>3. writes' \in Seq(Reply)
  BY <1>1, <1>2, AppendProperties DEF Types, QueueTypes
<1>4. writes = <<>> => writes' = <<w>>
  BY <1>2
<1> QED
  BY <1>1, <1>3, <1>4 DEF Status

\* A client's step and a step of the handshake or of a read keep the types.
LEMMA ReadTypes ==
    ASSUME Types,
           \/ \E kind \in Kinds, k \in BOOLEAN : ClientSends(kind, k)
           \/ StartRead
           \/ HandshakeFails
           \/ \E n \in 1..Len(input) : on_read(n)
           \/ on_read_error
    PROVE  Types'
<1> USE HttpAssumption
<1>1. ASSUME NEW kind \in Kinds, NEW k \in BOOLEAN, ClientSends(kind, k) PROVE Types'
  <2> DEFINE r == [id |-> sent + 1, kind |-> kind, keep |-> k]
  <2>1. sent + 1 \in 1..MaxRequests /\ sent + 1 \in 0..MaxRequests
    BY <1>1 DEF Types, ScalarTypes, ClientSends
  <2>2. r \in Request /\ r.kind \in Kinds
    BY <2>1 DEF Request
  <2>3. sent' = sent + 1 /\ input' = input \o Events(r)
    BY <1>1 DEF ClientSends
  <2> HIDE DEF r
  <2>4. input' \in Seq(Sendable)
    BY <2>2, <2>3, EventsTyped, ConcatProperties DEF Types, QueueTypes
  <2>5. sent' \in 0..MaxRequests
    BY <2>1, <2>3
  <2> QED
    BY <1>1, <2>4, <2>5 DEF Types, ScalarTypes, QueueTypes, ClientSends, requestVars
<1>2. CASE StartRead
  <2>1. reads' \in Nat
    BY <1>2 DEF StartRead, Types, ScalarTypes
  <2> QED
    BY <1>2, <2>1 DEF StartRead, Types, ScalarTypes, QueueTypes, clientVars, requestVars
<1>3. CASE HandshakeFails
  BY <1>3 DEF HandshakeFails, Types, ScalarTypes, QueueTypes, clientVars, requestVars
<1>4. ASSUME NEW n \in 1..Len(input), on_read(n) PROVE Types'
  <2>0. input \in Seq(Sendable) /\ Len(input) \in Nat
    BY DEF Types, QueueTypes
  <2>1. n \in 0..Len(input) /\ n + 1 \in Nat /\ n + 1 >= 1 /\ 1 \in Nat /\ Len(input) \in 0..Len(input)
    BY <2>0
  <2>2. SubSeq(input, n + 1, Len(input)) \in Seq(Sendable)
    BY <2>0, <2>1, SubSeqElements
  <2>3. SubSeq(input, 1, n) \in Seq(Sendable)
    BY <2>0, <2>1, SubSeqElements
  <2>4. <<>> \in Seq(Sendable)
    BY EmptySeq
  <2>5. input' \in Seq(Sendable) /\ batch' \in Seq(Sendable)
    BY <1>4, <2>2, <2>3, <2>4 DEF on_read
  <2>6. reads' \in Nat
    BY <1>4 DEF on_read, Types, ScalarTypes
  <2> QED
    BY <1>4, <2>5, <2>6 DEF Types, ScalarTypes, QueueTypes, on_read, requestVars
<1>5. CASE on_read_error
  <2>1. reads' \in Nat
    BY <1>5 DEF on_read_error, Types, ScalarTypes
  <2> QED
    BY <1>5, <2>1 DEF on_read_error, Types, ScalarTypes, QueueTypes, clientVars, requestVars
<1> QED
  BY <1>1, <1>2, <1>3, <1>4, <1>5

\* A callback that refuses the request.
LEMMA RefuseTypes ==
    ASSUME Types, NEW s \in {"404", "413"}, Refuse(s)
    PROVE  /\ status' \in Status /\ parser' = "error" /\ batch' = <<>> /\ writes' \in Seq(Reply)
           /\ writes = <<>> => \E w \in Reply : Final(w) /\ writes' = <<w>>
<1>1. do_write(s, FALSE, FALSE) /\ status' = s /\ parser' = "error" /\ batch' = <<>>
  BY DEF Refuse
<1>2. s \in {"100", "404", "413", "app"} /\ s # "100"
  OBVIOUS
<1> QED
  BY <1>1, <1>2, WriteTyped

\* What on_headers_complete may do.
LEMMA HeadersCases ==
    ASSUME Types, on_headers_complete, NEW r, r = Head(batch).req
    PROVE  /\ io = "Parse" /\ batch # <<>> /\ Head(batch).what = "headers"
           /\ io' = io /\ reads' = reads /\ contexts' = contexts /\ wire' = wire /\ handled' = handled
           /\ sent' = sent /\ input' = input
           /\ read_complete' = "header"
           /\ parts' = {p \in parts : p[2] # "body"} \cup {<<r.id, "headers">>}
           /\ keep' = r.keep /\ app' \in BOOLEAN /\ upgrade' \in BOOLEAN
           /\ \/ /\ parser' = "error" /\ batch' = <<>>
                 /\ status' \in Status /\ writes' \in Seq(Reply)
                 /\ writes = <<>> => \E w \in Reply : Final(w) /\ writes' = <<w>>
              \/ /\ r.kind = "expect" /\ parser' = parser /\ batch' = Tail(batch)
                 /\ status' \in Status /\ writes' \in Seq(Reply)
              \/ /\ status' = status /\ writes' = writes /\ parser' = parser /\ app'
                 /\ batch' = IF HasBody(r.kind) THEN Tail(batch) ELSE <<Complete(r)>> \o Tail(batch)
<1>1. /\ io = "Parse" /\ batch # <<>> /\ Head(batch).what = "headers"
      /\ io' = io /\ reads' = reads /\ contexts' = contexts /\ wire' = wire /\ handled' = handled
      /\ sent' = sent /\ input' = input
      /\ read_complete' = "header"
      /\ parts' = {p \in parts : p[2] # "body"} \cup {<<r.id, "headers">>}
      /\ keep' = r.keep
  BY DEF on_headers_complete, NextEvent, clientVars
<1>2. app' \in BOOLEAN /\ upgrade' \in BOOLEAN
  BY DEF on_headers_complete
<1>3. \/ r.kind = "noapp" /\ Refuse("404")
      \/ r.kind = "toolarge" /\ Refuse("413")
      \/ /\ r.kind = "expect" /\ status' = "100" /\ do_write("100", FALSE, FALSE)
         /\ batch' = Tail(batch) /\ parser' = parser
      \/ /\ batch' = IF HasBody(r.kind) THEN Tail(batch) ELSE <<Complete(r)>> \o Tail(batch)
         /\ status' = status /\ writes' = writes /\ parser' = parser /\ app'
  <2>1. CASE r.kind = "noapp"
    BY <2>1 DEF on_headers_complete
  <2>2. CASE r.kind = "toolarge"
    BY <2>2 DEF on_headers_complete
  <2>3. CASE r.kind = "expect"
    BY <2>3 DEF on_headers_complete
  <2>4. CASE r.kind \notin {"noapp", "toolarge", "expect"}
    BY <2>4 DEF on_headers_complete, Complete
  <2> QED
    BY <2>1, <2>2, <2>3, <2>4
<1>4. ASSUME Refuse("404") \/ Refuse("413")
      PROVE  /\ parser' = "error" /\ batch' = <<>>
             /\ status' \in Status /\ writes' \in Seq(Reply)
             /\ writes = <<>> => \E w \in Reply : Final(w) /\ writes' = <<w>>
  BY <1>4, RefuseTypes
<1>5. do_write("100", FALSE, FALSE) => writes' \in Seq(Reply) /\ "100" \in Status
  BY WriteTyped
<1> QED
  BY <1>1, <1>2, <1>3, <1>4, <1>5

\* What on_body may do.
LEMMA BodyCases ==
    ASSUME Types, on_body, NEW r, r = Head(batch).req
    PROVE  /\ io = "Parse" /\ batch # <<>> /\ Head(batch).what = "body"
           /\ io' = io /\ reads' = reads /\ contexts' = contexts /\ wire' = wire /\ handled' = handled
           /\ sent' = sent /\ input' = input
           /\ read_complete' = read_complete /\ app' = app /\ keep' = keep /\ upgrade' = upgrade
           /\ \/ /\ parser' = "error" /\ batch' = <<>> /\ parts' = parts
                 /\ status' \in Status /\ writes' \in Seq(Reply)
                 /\ writes' = writes \/ (writes = <<>> => \E w \in Reply : Final(w) /\ writes' = <<w>>)
              \/ /\ status' = status /\ writes' = writes /\ parser' = parser
                 /\ batch' = Tail(batch)
                 /\ parts' = parts \cup {<<r.id, "body">>}
<1>1. /\ io = "Parse" /\ batch # <<>> /\ Head(batch).what = "body"
      /\ io' = io /\ reads' = reads /\ contexts' = contexts /\ wire' = wire /\ handled' = handled
      /\ sent' = sent /\ input' = input
      /\ read_complete' = read_complete /\ app' = app /\ keep' = keep /\ upgrade' = upgrade
  BY DEF on_body, NextEvent, clientVars
<1>2. \/ Refuse("413") /\ parts' = parts
      \/ parser' = "error" /\ batch' = <<>> /\ status' = status /\ writes' = writes /\ parts' = parts
      \/ /\ status' = status /\ writes' = writes /\ parser' = parser
         /\ batch' = Tail(batch) /\ parts' = parts \cup {<<r.id, "body">>}
  <2>1. CASE r.kind = "bigbody"
    BY <2>1 DEF on_body
  <2>2. CASE r.kind = "badparts"
    BY <2>2 DEF on_body
  <2>3. CASE r.kind \notin {"bigbody", "badparts"}
    BY <2>3 DEF on_body
  <2> QED
    BY <2>1, <2>2, <2>3
<1>3. ASSUME Refuse("413")
      PROVE  /\ parser' = "error" /\ batch' = <<>>
             /\ status' \in Status /\ writes' \in Seq(Reply)
             /\ writes = <<>> => \E w \in Reply : Final(w) /\ writes' = <<w>>
  BY <1>3, RefuseTypes
<1>4. status \in Status /\ writes \in Seq(Reply)
  BY DEF Types, ScalarTypes, QueueTypes
<1> QED
  BY <1>1, <1>2, <1>3, <1>4

\* The callbacks of llhttp, and what follows its return, keep the types.
LEMMA ParseTypes ==
    ASSUME Types, Parsing
    PROVE  Types'
<1> DEFINE r == Head(batch).req
<1>0. <<>> \in Seq(Sendable)
  BY EmptySeq
<1>1. CASE on_headers_complete
  <2>0. batch # <<>>
    BY <1>1 DEF on_headers_complete, NextEvent
  <2>1. /\ r \in Request /\ r.kind \in Kinds /\ r.id \in 1..MaxRequests /\ r.keep \in BOOLEAN
        /\ Tail(batch) \in Seq(Sendable)
    BY <2>0, NextEventTyped
  <2>2. Complete(r) \in Sendable
    BY <2>1, EventsTyped
  <2>3. <<Complete(r)>> \o Tail(batch) \in Seq(Sendable)
    <3> DEFINE c == Complete(r)
    <3> HIDE DEF c
    <3>1. <<c>> \in Seq(Sendable)
      BY <2>2 DEF c
    <3> QED
      BY <2>1, <3>1, ConcatProperties DEF c
  <2>4. parts' \subseteq PartSet
    <3>1. <<r.id, "headers">> \in PartSet
      BY <2>1 DEF PartSet
    <3>2. parts' = {p \in parts : p[2] # "body"} \cup {<<r.id, "headers">>}
      BY <1>1, HeadersCases
    <3> QED
      BY <3>1, <3>2 DEF Types, ScalarTypes
  <2> HIDE DEF r
  <2>5. batch' \in Seq(Sendable) /\ writes' \in Seq(Reply) /\ status' \in Status /\ parser' \in {"ok", "error"}
    <3>1. \/ /\ parser' = "error" /\ batch' = <<>>
             /\ status' \in Status /\ writes' \in Seq(Reply)
          \/ /\ parser' = parser /\ batch' = Tail(batch)
             /\ status' \in Status /\ writes' \in Seq(Reply)
          \/ /\ status' = status /\ writes' = writes /\ parser' = parser
             /\ batch' = Tail(batch) \/ batch' = <<Complete(r)>> \o Tail(batch)
      BY <1>1, HeadersCases DEF r
    <3>2. parser \in {"ok", "error"} /\ status \in Status /\ writes \in Seq(Reply)
      BY DEF Types, ScalarTypes, QueueTypes
    <3> QED
      BY <1>0, <2>1, <2>3, <3>1, <3>2
  <2>6. app' \in BOOLEAN /\ upgrade' \in BOOLEAN /\ keep' \in BOOLEAN
    BY <1>1, <2>1, HeadersCases DEF r
  <2>7. /\ io' = io /\ reads' = reads /\ contexts' = contexts /\ wire' = wire /\ handled' = handled
        /\ sent' = sent /\ input' = input /\ read_complete' = "header"
    BY <1>1, HeadersCases
  <2> QED
    BY <2>4, <2>5, <2>6, <2>7 DEF Types, ScalarTypes, QueueTypes
<1>2. CASE on_body
  <2>0. batch # <<>>
    BY <1>2 DEF on_body, NextEvent
  <2>1. r.id \in 1..MaxRequests /\ Tail(batch) \in Seq(Sendable)
    BY <2>0, NextEventTyped
  <2>2. <<r.id, "body">> \in PartSet
    BY <2>1 DEF PartSet
  <2> HIDE DEF r
  <2>3. parts \subseteq PartSet /\ parser \in {"ok", "error"} /\ status \in Status /\ writes \in Seq(Reply)
    BY DEF Types, ScalarTypes, QueueTypes
  <2>4. /\ batch' \in Seq(Sendable) /\ writes' \in Seq(Reply) /\ status' \in Status
        /\ parser' \in {"ok", "error"} /\ parts' \subseteq PartSet
    <3>1. \/ /\ parser' = "error" /\ batch' = <<>> /\ parts' = parts
             /\ status' \in Status /\ writes' \in Seq(Reply)
          \/ /\ status' = status /\ writes' = writes /\ parser' = parser
             /\ batch' = Tail(batch) /\ parts' = parts \cup {<<r.id, "body">>}
      BY <1>2, BodyCases DEF r
    <3> QED
      BY <1>0, <2>1, <2>2, <2>3, <3>1
  <2>5. /\ io' = io /\ reads' = reads /\ contexts' = contexts /\ wire' = wire /\ handled' = handled
        /\ sent' = sent /\ input' = input
        /\ read_complete' = read_complete /\ app' = app /\ keep' = keep /\ upgrade' = upgrade
    BY <1>2, BodyCases
  <2> QED
    BY <2>4, <2>5 DEF Types, ScalarTypes, QueueTypes
<1>3. CASE on_message_complete
  <2>1. batch' \in Seq(Sendable)
    BY <1>3, NextEventTyped DEF on_message_complete, NextEvent
  <2> QED
    BY <1>3, <2>1 DEF on_message_complete, Types, ScalarTypes, QueueTypes, clientVars
<1>4. CASE Executed
  <2>1. contexts' \in Seq(SUBSET PartSet) /\ handled' \in Seq(SUBSET PartSet)
    <3>1. contexts \in Seq(SUBSET PartSet) /\ handled \in Seq(SUBSET PartSet) /\ parts \in SUBSET PartSet
      BY DEF Types, ScalarTypes, QueueTypes
    <3>2. /\ Append(contexts, parts) \in Seq(SUBSET PartSet)
          /\ Append(handled, parts) \in Seq(SUBSET PartSet)
      BY <3>1, AppendProperties
    <3>3. contexts' \in {contexts, Append(contexts, parts)} /\ handled' \in {handled, Append(handled, parts)}
      BY <1>4 DEF Executed, Types, ScalarTypes
    <3> QED
      BY <3>1, <3>2, <3>3
  <2>2. reads' \in Nat
    <3>1. reads' \in {reads, reads + 1}
      BY <1>4 DEF Executed, Types, ScalarTypes
    <3> QED
      BY <3>1 DEF Types, ScalarTypes
  <2> QED
    BY <1>4, <2>1, <2>2 DEF Executed, Types, ScalarTypes, QueueTypes, clientVars, requestVars
<1> QED
  BY <1>1, <1>2, <1>3, <1>4 DEF Parsing

\* So do the steps of a reply.
LEMMA ReplyTypes ==
    ASSUME Types,
           \/ \E chunked, close \in BOOLEAN : StartWrite(chunked, close)
           \/ NoReply
           \/ on_wrote
           \/ on_write_error
    PROVE  Types'
<1>1. ASSUME NEW chunked \in BOOLEAN, NEW close \in BOOLEAN, StartWrite(chunked, close) PROVE Types'
  <2>1. contexts' \in Seq(SUBSET PartSet)
    BY <1>1, HeadTailProperties DEF StartWrite, Types, QueueTypes
  <2>2. writes' \in Seq(Reply) /\ status' \in Status
    <3>1. do_write("app", chunked, close) /\ status' = "app"
      BY <1>1 DEF StartWrite
    <3> QED
      BY <3>1, WriteTyped
  <2> QED
    BY <1>1, <2>1, <2>2 DEF StartWrite, Types, ScalarTypes, QueueTypes, clientVars
<1>2. CASE NoReply
  <2>1. contexts' \in Seq(SUBSET PartSet)
    BY <1>2, HeadTailProperties DEF NoReply, Types, QueueTypes
  <2> QED
    BY <1>2, <2>1 DEF NoReply, Types, ScalarTypes, QueueTypes, clientVars, requestVars
<1>3. CASE on_wrote
  <2>1. writes' \in Seq(Reply) /\ wire' \in Seq(Reply)
    <3>1. writes \in Seq(Reply) /\ writes # <<>> /\ wire \in Seq(Reply)
      BY <1>3 DEF on_wrote, Types, QueueTypes
    <3>2. Head(writes) \in Reply /\ Tail(writes) \in Seq(Reply)
      BY <3>1, HeadTailProperties
    <3>3. Append(wire, Head(writes)) \in Seq(Reply)
      BY <3>1, <3>2, AppendProperties
    <3> QED
      BY <1>3, <3>2, <3>3 DEF on_wrote
  <2>2. ScalarTypes'
    <3>1. CASE reset /\ reads' = reads + 1
      <4>1. reads' \in Nat
        BY <3>1 DEF Types, ScalarTypes
      <4> QED
        BY <1>3, <3>1, <4>1 DEF on_wrote, reset, Types, ScalarTypes, Status, clientVars
    <3>2. CASE UNCHANGED requestVars /\ UNCHANGED reads
      BY <1>3, <3>2 DEF on_wrote, requestVars, Types, ScalarTypes, clientVars
    <3> QED
      BY <1>3, <3>1, <3>2 DEF on_wrote
  <2> QED
    BY <1>3, <2>1, <2>2 DEF on_wrote, Types, QueueTypes, clientVars
<1>4. CASE on_write_error
  <2>1. writes' \in Seq(Reply)
    BY <1>4, HeadTailProperties DEF on_write_error, Types, QueueTypes
  <2> QED
    BY <1>4, <2>1 DEF on_write_error, Types, ScalarTypes, QueueTypes, clientVars, requestVars
<1> QED
  BY <1>1, <1>2, <1>3, <1>4

\* Types is inductive.
LEMMA NextTypes ==
    ASSUME Types, [Next]_vars
    PROVE  Types'
<1>1. CASE UNCHANGED vars
  BY <1>1 DEF vars, Types, ScalarTypes, QueueTypes
<1> QED
  BY <1>1, ReadTypes, ParseTypes, ReplyTypes DEF Next

-------------------------------------------------------------------------------
(* The first invariant: one thing at a time *)

Free == reads = 0 /\ writes = <<>> /\ contexts = <<>>

Reading == reads = 1 /\ writes = <<>> /\ contexts = <<>>

Writing == /\ reads = 0 /\ contexts = <<>>
           /\ \E w \in Reply : Final(w) /\ writes = <<w>>

Handling == /\ reads = 0 /\ writes = <<>>
            /\ \E c \in SUBSET PartSet : contexts = <<c>>

\* Nothing is outstanding while llhttp runs, but the reply of a callback that has
\* refused the request; otherwise one thing is, or nothing.
Alone == /\ io = "handshake" => Free
         /\ io = "reactor" => Free \/ Reading \/ Writing \/ Handling
         /\ io = "Parse" => Free \/ (Writing /\ parser = "error")

OneInv == /\ Types
          /\ io # "Parse" \/ parser = "error" => batch = <<>>
          /\ Alone

\* While llhttp has events to call back for, nothing is outstanding.
LEMMA FreeWhileParsing ==
    ASSUME OneInv, io = "Parse", batch # <<>>
    PROVE  Free /\ parser = "ok"
BY DEF OneInv, Alone, Types, ScalarTypes

\* OneInv is kept by every step, when no client asks for "100 Continue".
LEMMA NextOne ==
    ASSUME "expect" \notin Kinds, OneInv, [Next]_vars
    PROVE  OneInv'
<1> DEFINE Quiet == io # "Parse" \/ parser = "error" => batch = <<>>
<1>t. Types /\ Types'
  BY NextTypes DEF OneInv
<1>q. Quiet /\ Alone
  BY DEF OneInv
<1> SUFFICES Quiet' /\ Alone'
  BY <1>t DEF OneInv
<1>n. reads \in Nat /\ io \in {"handshake", "reactor", "Parse"} /\ parser \in {"ok", "error"}
  BY <1>t DEF Types, ScalarTypes
<1>1. ASSUME NEW kind \in Kinds, NEW k \in BOOLEAN, ClientSends(kind, k) PROVE Quiet' /\ Alone'
  BY <1>q, <1>1 DEF ClientSends, Alone, Free, Reading, Writing, Handling
<1>2. CASE StartRead
  BY <1>q, <1>2 DEF StartRead, Alone, Free, Reading
<1>3. CASE HandshakeFails
  BY <1>q, <1>3 DEF HandshakeFails, Alone, Free
<1>4. ASSUME NEW n \in 1..Len(input), on_read(n) PROVE Quiet' /\ Alone'
  <2>1. Reading
    BY <1>q, <1>4 DEF on_read, Alone, Free, Writing, Handling
  <2>2. reads' = 0 /\ writes' = writes /\ contexts' = contexts /\ io' = "Parse" /\ parser' = parser
    BY <1>4, <2>1 DEF on_read, Reading
  <2>3. parser' = "error" => batch' = <<>>
    BY <1>4, <2>2 DEF on_read
  <2> QED
    BY <2>1, <2>2, <2>3 DEF Alone, Reading, Free
<1>5. CASE on_read_error
  <2>1. Reading
    BY <1>q, <1>5 DEF on_read_error, Alone, Free, Writing, Handling
  <2>2. /\ reads' = 0 /\ writes' = writes /\ contexts' = contexts /\ io' = "reactor" /\ batch' = batch
        /\ parser' = parser /\ io = "reactor"
    BY <1>5, <2>1 DEF on_read_error, Reading
  <2> QED
    BY <1>q, <2>1, <2>2 DEF Alone, Reading, Free
<1>6. CASE on_headers_complete
  <2> DEFINE r == Head(batch).req
  <2>1. io = "Parse" /\ batch # <<>>
    BY <1>6 DEF on_headers_complete, NextEvent
  <2>2. Free /\ parser = "ok"
    BY <2>1, FreeWhileParsing
  <2>3. r.kind # "expect"
    BY <1>t, <2>1, NextEventTyped
  <2>4. /\ io' = "Parse" /\ reads' = 0 /\ contexts' = <<>>
        /\ \/ parser' = "error" /\ batch' = <<>> /\ \E w \in Reply : Final(w) /\ writes' = <<w>>
           \/ writes' = <<>> /\ parser' = "ok"
    BY <1>t, <1>6, <2>1, <2>2, <2>3, HeadersCases DEF Free
  <2> QED
    BY <2>4 DEF Alone, Free, Writing
<1>7. CASE on_body
  <2>1. io = "Parse" /\ batch # <<>>
    BY <1>7 DEF on_body, NextEvent
  <2>2. Free /\ parser = "ok"
    BY <2>1, FreeWhileParsing
  <2>3. /\ io' = "Parse" /\ reads' = 0 /\ contexts' = <<>>
        /\ \/ /\ parser' = "error" /\ batch' = <<>>
              /\ writes' = <<>> \/ \E w \in Reply : Final(w) /\ writes' = <<w>>
           \/ writes' = <<>> /\ parser' = "ok"
    BY <1>t, <1>7, <2>1, <2>2, BodyCases DEF Free
  <2> QED
    BY <2>3 DEF Alone, Free, Writing
<1>8. CASE on_message_complete
  <2>1. io = "Parse" /\ batch # <<>>
    BY <1>8 DEF on_message_complete, NextEvent
  <2>2. Free /\ parser = "ok"
    BY <2>1, FreeWhileParsing
  <2>3. io' = "Parse" /\ parser' = "ok" /\ reads' = reads /\ writes' = writes /\ contexts' = contexts
    BY <1>8, <2>1, <2>2 DEF on_message_complete
  <2> QED
    BY <2>2, <2>3 DEF Alone, Free
<1>9. CASE Executed
  <2>1. io = "Parse" /\ batch = <<>> /\ io' = "reactor" /\ batch' = <<>> /\ writes' = writes
    BY <1>9 DEF Executed
  <2>2. CASE parser = "error"
    <3>1. reads' = reads /\ contexts' = contexts
      BY <1>9, <2>2 DEF Executed
    <3> QED
      BY <1>q, <2>1, <3>1 DEF Alone, Free, Writing
  <2>3. CASE parser = "ok"
    <3>1. Free
      BY <1>q, <2>1, <2>3 DEF Alone
    <3>2. \/ reads' = reads + 1 /\ contexts' = contexts
          \/ reads' = reads /\ contexts' = contexts
          \/ reads' = reads /\ contexts' = Append(contexts, parts)
      BY <1>9, <2>3 DEF Executed
    <3>3. parts \in SUBSET PartSet
      BY <1>t DEF Types, ScalarTypes
    <3>4. Append(<<>>, parts) = <<parts>>
      OBVIOUS
    <3>5. Free' \/ Reading' \/ Handling'
      BY <2>1, <3>1, <3>2, <3>3, <3>4 DEF Free, Reading, Handling
    <3> QED
      BY <2>1, <3>5 DEF Alone
  <2> QED
    BY <1>n, <2>2, <2>3
<1>10. ASSUME NEW chunked \in BOOLEAN, NEW close \in BOOLEAN, StartWrite(chunked, close)
       PROVE  Quiet' /\ Alone'
  <2>1. io = "reactor" /\ contexts # <<>>
    BY <1>10 DEF StartWrite
  <2>2. Handling
    BY <1>q, <2>1 DEF Alone, Free, Reading, Writing
  <2>3. PICK c \in SUBSET PartSet : contexts = <<c>>
    BY <2>2 DEF Handling
  <2>4. Tail(contexts) = <<>>
    BY <2>3
  <2>5. \E w \in Reply : Final(w) /\ writes' = <<w>>
    <3>1. do_write("app", chunked, close)
      BY <1>10 DEF StartWrite
    <3> QED
      BY <1>t, <2>2, <3>1, WriteTyped DEF Handling
  <2>6. contexts' = <<>> /\ reads' = reads /\ io' = io /\ batch' = batch /\ parser' = parser
    BY <1>10, <2>4 DEF StartWrite
  <2> QED
    BY <1>q, <2>1, <2>2, <2>5, <2>6 DEF Alone, Handling, Writing
<1>11. CASE NoReply
  <2>1. io = "reactor" /\ contexts # <<>>
    BY <1>11 DEF NoReply
  <2>2. Handling
    BY <1>q, <2>1 DEF Alone, Free, Reading, Writing
  <2>3. PICK c \in SUBSET PartSet : contexts = <<c>>
    BY <2>2 DEF Handling
  <2>4. Tail(contexts) = <<>>
    BY <2>3
  <2>5. /\ contexts' = <<>> /\ reads' = reads /\ io' = io /\ batch' = batch /\ parser' = parser
        /\ writes' = writes
    BY <1>11, <2>4 DEF NoReply
  <2> QED
    BY <1>q, <2>1, <2>2, <2>5 DEF Alone, Handling, Free
<1>12. CASE on_wrote \/ on_write_error
  <2>1. io = "reactor" /\ writes # <<>>
    BY <1>12 DEF on_wrote, on_write_error
  <2>2. Writing
    BY <1>q, <2>1 DEF Alone, Free, Reading, Handling
  <2>3. PICK w \in Reply : writes = <<w>>
    BY <2>2 DEF Writing
  <2>4. Tail(writes) = <<>>
    BY <2>3
  <2>5. /\ writes' = <<>> /\ reads' \in {reads, reads + 1} /\ io' = io /\ batch' = batch
        /\ parser' = parser /\ contexts' = contexts
    BY <1>12, <2>4 DEF on_wrote, on_write_error, requestVars
  <2>6. Free' \/ Reading'
    BY <2>2, <2>5 DEF Writing, Free, Reading
  <2> QED
    BY <1>q, <2>1, <2>5, <2>6 DEF Alone
<1>13. CASE UNCHANGED vars
  BY <1>q, <1>13 DEF vars, Alone, Free, Reading, Writing, Handling
<1> QED
  BY <1>1, <1>2, <1>3, <1>4, <1>5, <1>6, <1>7, <1>8, <1>9, <1>10, <1>11, <1>12, <1>13
  DEF Next, Parsing

\* Initially there is nothing but the handshake.
LEMMA InitOne ==
    ASSUME Init
    PROVE  OneInv
<1> USE HttpAssumption
<1>1. \A S : <<>> \in Seq(S)
  BY EmptySeq
<1>2. QueueTypes
  BY <1>1 DEF Init, QueueTypes
<1>3. ScalarTypes
  <2>1. 0 \in 0..MaxRequests /\ 0 \in Nat /\ "none" \in Status
    BY DEF Status
  <2> QED
    BY <2>1 DEF Init, ScalarTypes
<1> QED
  BY <1>2, <1>3 DEF Init, OneInv, Types, Alone, Free

-------------------------------------------------------------------------------
(* The second invariant: what the current request still lacks *)

Whole(id) == {{<<id, "headers">>}, {<<id, "headers">>, <<id, "body">>}}

\* The bytes that are sent and not parsed.
Pending == batch \o input

\* No request is on its way.
Idle == /\ Replied = sent
        /\ Pending = <<>>
        /\ io # "Parse" /\ writes = <<>> /\ contexts = <<>>
        /\ parts = {} /\ read_complete = "none"

\* What a request still lacks while it arrives.
Lacks(r) ==
    \/ /\ Pending = Events(r)
       /\ parts = {} /\ read_complete = "none"
    \/ /\ Pending = <<Body(r), Complete(r)>>
       /\ parts = {<<sent, "headers">>} /\ read_complete = "header" /\ app
    \/ /\ Pending = <<Complete(r)>>
       /\ parts \in Whole(sent) /\ read_complete = "header" /\ app

\* Request r is on its way, and no context has been started with it.
Arriving(r) ==
    /\ Replied + 1 = sent
    /\ r.id = sent
    /\ writes = <<>> /\ contexts = <<>>
    /\ \A i \in DOMAIN handled : \A p \in handled[i] : p[1] < sent
    /\ \/ Lacks(r)
       \/ /\ Pending = <<>> /\ io = "Parse"
          /\ parts \in Whole(sent) /\ read_complete = "message" /\ app

\* A context or the reply to the last request is outstanding.
Answering == /\ Replied + 1 = sent
             /\ Pending = <<>>
             /\ io = "reactor" /\ (writes # <<>> \/ contexts # <<>>)

\* The connection can still start a context.
Live == parser = "ok" /\ ~Closed

Progress == Live => Idle \/ Answering \/ \E r \in Request : Arriving(r)

WholeInv == WholeRequests /\ Progress

\* The event that is called back for next is the first of what is pending.
LEMMA PendingHead ==
    ASSUME Types, batch # <<>>
    PROVE  /\ Pending # <<>>
           /\ Head(Pending) = Head(batch)
           /\ Tail(Pending) = Tail(batch) \o input
<1>0. batch \in Seq(Sendable) /\ input \in Seq(Sendable)
  BY DEF Types, QueueTypes
<1>1. Len(batch) \in Nat \ {0} /\ Len(input) \in Nat
  BY <1>0, EmptySeq
<1>2. /\ Pending \in Seq(Sendable)
      /\ Len(Pending) = Len(batch) + Len(input)
      /\ \A i \in 1..(Len(batch) + Len(input)) :
            Pending[i] = IF i <= Len(batch) THEN batch[i] ELSE input[i - Len(batch)]
  BY <1>0, ConcatProperties DEF Pending
<1>3. Pending # <<>> /\ Len(Pending) # 0
  BY <1>1, <1>2, EmptySeq
<1>4. Head(Pending) = Head(batch)
  <2>1. 1 \in 1..(Len(batch) + Len(input)) /\ 1 <= Len(batch)
    BY <1>1
  <2>2. Pending[1] = batch[1]
    BY <1>2, <2>1
  <2>3. Head(Pending) = Pending[1] /\ Head(batch) = batch[1]
    BY <1>0, <1>1, <1>2, <1>3
  <2> QED
    BY <2>2, <2>3
<1>5. /\ Tail(batch) \in Seq(Sendable) /\ Len(Tail(batch)) = Len(batch) - 1
      /\ \A i \in 1..Len(Tail(batch)) : Tail(batch)[i] = batch[i + 1]
  BY <1>0, HeadTailProperties
<1>6. /\ Tail(Pending) \in Seq(Sendable) /\ Len(Tail(Pending)) = Len(Pending) - 1
      /\ \A i \in 1..Len(Tail(Pending)) : Tail(Pending)[i] = Pending[i + 1]
  BY <1>2, <1>3, HeadTailProperties
<1> DEFINE t == Tail(batch)
           q == t \o input
<1>7. /\ q \in Seq(Sendable) /\ Len(q) = Len(t) + Len(input)
      /\ \A i \in 1..(Len(t) + Len(input)) : q[i] = IF i <= Len(t) THEN t[i] ELSE input[i - Len(t)]
  BY <1>0, <1>5, ConcatProperties
<1>8. Len(q) = Len(Tail(Pending)) /\ Len(t) = Len(batch) - 1
  BY <1>1, <1>2, <1>5, <1>6, <1>7
<1> HIDE DEF t, q
<1>9. ASSUME NEW i \in 1..Len(q) PROVE q[i] = Tail(Pending)[i]
  <2>1. i \in Nat /\ i >= 1 /\ i + 1 \in 1..(Len(batch) + Len(input)) /\ i \in 1..Len(Tail(Pending))
    BY <1>1, <1>2, <1>6, <1>8
  <2>2. Tail(Pending)[i] = Pending[i + 1]
    BY <1>6, <2>1
  <2>3. CASE i <= Len(t)
    <3>1. q[i] = t[i]
      BY <1>7, <2>3
    <3>2. t[i] = batch[i + 1]
      BY <1>5, <2>1, <2>3 DEF t
    <3>3. i + 1 <= Len(batch)
      BY <1>1, <1>8, <2>1, <2>3
    <3> QED
      BY <1>2, <2>1, <2>2, <3>1, <3>2, <3>3
  <2>4. CASE ~(i <= Len(t))
    <3>1. q[i] = input[i - Len(t)]
      BY <1>7, <2>4
    <3>2. ~(i + 1 <= Len(batch)) /\ i + 1 - Len(batch) = i - Len(t)
      BY <1>1, <1>8, <2>1, <2>4
    <3> QED
      BY <1>2, <2>1, <2>2, <3>1, <3>2
  <2> QED
    BY <2>3, <2>4
<1>10. q = Tail(Pending)
  BY <1>6, <1>7, <1>8, <1>9, SeqEqual
<1> QED
  BY <1>3, <1>4, <1>10 DEF q, t

\* A read moves bytes from the socket to llhttp.
LEMMA PendingRead ==
    ASSUME Types, batch = <<>>, NEW n \in 1..Len(input),
           batch' = SubSeq(input, 1, n), input' = SubSeq(input, n + 1, Len(input))
    PROVE  Pending' = Pending
<1>0. input \in Seq(Sendable) /\ Len(input) \in Nat
  BY DEF Types, QueueTypes
<1>1. 1 \in 1..(Len(input) + 1) /\ n \in (1 - 1)..Len(input) /\ Len(input) \in n..Len(input)
  BY <1>0
<1>2. SubSeq(input, 1, n) \o SubSeq(input, n + 1, Len(input)) = SubSeq(input, 1, Len(input))
  BY <1>0, <1>1, ConcatAdjacentSubSeq
<1>3. SubSeq(input, 1, Len(input)) = input
  BY <1>0, SubSeqFull
<1>4. <<>> \o input = input
  BY <1>0, ConcatEmptySeq
<1> QED
  BY <1>2, <1>3, <1>4 DEF Pending

\* Nothing is pending.
LEMMA PendingNothing ==
    ASSUME Types
    PROVE  Pending = <<>> <=> batch = <<>> /\ input = <<>>
BY ConcatEqualIffEmpty DEF Types, QueueTypes, Pending

\* The number of requests that have got a final reply.
LEMMA RepliedType ==
    ASSUME wire \in Seq(Reply)
    PROVE  Replied \in Nat /\ IsFiniteSet({i \in DOMAIN wire : Final(wire[i])})
<1>1. Len(wire) \in Nat /\ DOMAIN wire = 1..Len(wire)
  OBVIOUS
<1>2. IsFiniteSet(1..Len(wire))
  BY <1>1, FS_Interval
<1>3. IsFiniteSet({i \in DOMAIN wire : Final(wire[i])})
  BY <1>1, <1>2, FS_Subset
<1> QED
  BY <1>3, FS_CardinalityType DEF Replied

\* A final reply that is written counts.
LEMMA RepliedOnceMore ==
    ASSUME wire \in Seq(Reply), NEW w \in Reply, Final(w), wire' = Append(wire, w)
    PROVE  Replied' = Replied + 1
<1> DEFINE F == {i \in DOMAIN wire : Final(wire[i])}
           G == {i \in DOMAIN wire' : Final(wire'[i])}
<1>1. Len(wire) \in Nat /\ DOMAIN wire = 1..Len(wire) /\ IsFiniteSet(F)
  BY RepliedType
<1>2. /\ wire' \in Seq(Reply) /\ Len(wire') = Len(wire) + 1
      /\ \A i \in 1..Len(wire) : wire'[i] = wire[i]
      /\ wire'[Len(wire) + 1] = w
  BY AppendProperties
<1>3. DOMAIN wire' = 1..(Len(wire) + 1)
  BY <1>2
<1>4. Len(wire) + 1 \notin F
  BY <1>1
<1>5. G = F \cup {Len(wire) + 1}
  <2>1. ASSUME NEW i PROVE i \in G <=> i \in F \/ i = Len(wire) + 1
    <3>1. i \in 1..(Len(wire) + 1) <=> i \in 1..Len(wire) \/ i = Len(wire) + 1
      BY <1>1
    <3> QED
      BY <1>1, <1>2, <1>3, <3>1
  <2> HIDE DEF F, G
  <2> QED
    BY <2>1
<1>6. Cardinality(G) = Cardinality(F) + 1
  <2> HIDE DEF F, G
  <2> QED
    BY <1>1, <1>4, <1>5, FS_AddElement
<1> QED
  BY <1>6 DEF Replied, Final

\* The requests that contexts were started with have been sent.
LEMMA HandledIds ==
    ASSUME WholeRequests
    PROVE  \A i \in DOMAIN handled : \A p \in handled[i] : p[1] \in 1..sent
<1> SUFFICES ASSUME NEW i \in DOMAIN handled, NEW p \in handled[i] PROVE p[1] \in 1..sent
  OBVIOUS
<1>1. PICK id \in 1..sent : handled[i] \in {{<<id, "headers">>}, {<<id, "headers">>, <<id, "body">>}}
  BY DEF WholeRequests
<1>2. p = <<id, "headers">> \/ p = <<id, "body">>
  BY <1>1
<1> QED
  BY <1>2

\* Steps that start no context leave the handled requests whole.
LEMMA KeepWhole ==
    ASSUME WholeRequests, sent \in Nat, handled' = handled, sent' \in {sent, sent + 1}
    PROVE  WholeRequests'
<1>1. 1..sent \subseteq 1..sent'
  OBVIOUS
<1>2. ASSUME NEW i \in DOMAIN handled
      PROVE  \E id \in 1..sent' : handled[i] \in {{<<id, "headers">>}, {<<id, "headers">>, <<id, "body">>}}
  BY <1>1 DEF WholeRequests
<1>3. \A i, j \in DOMAIN handled : i < j => \A p \in handled[i], q \in handled[j] : p[1] < q[1]
  BY DEF WholeRequests
<1> QED
  BY <1>2, <1>3 DEF WholeRequests

\* A request that arrives and a callback that is due: the callback is the first of
\* what the request lacks.
LEMMA NextOfRequest ==
    ASSUME Types, batch # <<>>, NEW r, Arriving(r)
    PROVE  /\ Head(batch).req = r
           /\ Head(batch).what = "headers" =>
                 /\ parts = {} /\ read_complete = "none"
                 /\ Tail(batch) \o input =
                      IF HasBody(r.kind) THEN <<Body(r), Complete(r)>> ELSE <<>>
           /\ Head(batch).what = "body" =>
                 /\ parts = {<<sent, "headers">>} /\ read_complete = "header" /\ app
                 /\ Tail(batch) \o input = <<Complete(r)>>
           /\ Head(batch).what = "complete" =>
                 /\ parts \in Whole(sent) /\ read_complete = "header" /\ app
                 /\ Tail(batch) \o input = <<>>
<1>1. Pending # <<>> /\ Head(Pending) = Head(batch) /\ Tail(Pending) = Tail(batch) \o input
  BY PendingHead
<1>2. /\ Headers(r).what = "headers" /\ Body(r).what = "body" /\ Complete(r).what = "complete"
      /\ Headers(r).req = r /\ Body(r).req = r /\ Complete(r).req = r
  BY DEF Headers, Body, Complete
<1> DEFINE h == Headers(r)
           b == Body(r)
           c == Complete(r)
<1>3. Events(r) = IF HasBody(r.kind) THEN <<h, b, c>> ELSE <<h>>
  BY DEF Events, Headers, Body, Complete
<1>4. /\ h.what = "headers" /\ b.what = "body" /\ c.what = "complete"
      /\ h.req = r /\ b.req = r /\ c.req = r
  BY <1>2
<1>5. Lacks(r)
  BY <1>1 DEF Arriving, Lacks
<1> HIDE DEF h, b, c
<1>6. /\ Head(<<h, b, c>>) = h /\ Tail(<<h, b, c>>) = <<b, c>>
      /\ Head(<<h>>) = h /\ Tail(<<h>>) = <<>>
      /\ Head(<<b, c>>) = b /\ Tail(<<b, c>>) = <<c>>
      /\ Head(<<c>>) = c /\ Tail(<<c>>) = <<>>
  OBVIOUS
<1>7. CASE Pending = Events(r) /\ parts = {} /\ read_complete = "none"
  <2>1. Head(Pending) = h /\ Tail(Pending) = IF HasBody(r.kind) THEN <<b, c>> ELSE <<>>
    BY <1>3, <1>6, <1>7
  <2> QED
    BY <1>1, <1>4, <1>7, <2>1 DEF b, c
<1>8. CASE /\ Pending = <<Body(r), Complete(r)>>
           /\ parts = {<<sent, "headers">>} /\ read_complete = "header" /\ app
  <2>1. Head(Pending) = b /\ Tail(Pending) = <<c>>
    BY <1>6, <1>8 DEF b, c
  <2> QED
    BY <1>1, <1>4, <1>8, <2>1 DEF c
<1>9. CASE /\ Pending = <<Complete(r)>>
           /\ parts \in Whole(sent) /\ read_complete = "header" /\ app
  <2>1. Head(Pending) = c /\ Tail(Pending) = <<>>
    BY <1>6, <1>9 DEF c
  <2> QED
    BY <1>1, <1>4, <1>9, <2>1
<1> QED
  BY <1>5, <1>7, <1>8, <1>9 DEF Lacks

\* While llhttp runs without an error, a request arrives.
LEMMA ParsingArrives ==
    ASSUME Progress, io = "Parse", parser = "ok"
    PROVE  \E r \in Request : Arriving(r)
BY DEF Progress, Live, Closed, Idle, Answering

\* A request goes on arriving.
LEMMA GoesOnArriving ==
    ASSUME NEW r, Arriving(r), Replied' = Replied, sent' = sent, handled' = handled,
           writes' = <<>>, contexts' = <<>>,
           \/ Lacks(r)'
           \/ /\ Pending' = <<>> /\ io' = "Parse"
              /\ parts' \in Whole(sent) /\ read_complete' = "message" /\ app'
    PROVE  Arriving(r)'
<1>1. /\ Replied' + 1 = sent' /\ r.id = sent' /\ writes' = <<>> /\ contexts' = <<>>
      /\ \A i \in DOMAIN handled' : \A p \in handled'[i] : p[1] < sent'
  BY DEF Arriving
<1>2. CASE Lacks(r)'
  BY <1>1, <1>2 DEF Arriving, Lacks, Whole, Body, Complete, Events
<1>3. CASE /\ Pending' = <<>> /\ io' = "Parse"
           /\ parts' \in Whole(sent) /\ read_complete' = "message" /\ app'
  BY <1>1, <1>3 DEF Arriving, Whole
<1> QED
  BY <1>2, <1>3

\* WholeInv is kept by the steps of the client and of reads.
LEMMA ReadWhole ==
    ASSUME ~Pipelining, OneInv, WholeInv,
           \/ \E kind \in Kinds, k \in BOOLEAN : ClientSends(kind, k)
           \/ StartRead
           \/ HandshakeFails
           \/ \E n \in 1..Len(input) : on_read(n)
           \/ on_read_error
    PROVE  WholeInv'
<1> USE HttpAssumption
<1>t. /\ Types /\ sent \in Nat /\ wire \in Seq(Reply) /\ reads \in Nat
      /\ parser \in {"ok", "error"} /\ Replied \in Nat
  BY RepliedType DEF OneInv, Types, ScalarTypes, QueueTypes
<1>w. WholeRequests /\ Progress
  BY DEF WholeInv
<1>1. ASSUME NEW kind \in Kinds, NEW k \in BOOLEAN, ClientSends(kind, k) PROVE WholeInv'
  <2>0. PICK r : r = [id |-> sent + 1, kind |-> kind, keep |-> k]
    OBVIOUS
  <2>1. /\ sent' = sent + 1 /\ input' = input \o Events(r) /\ Replied = sent /\ sent < MaxRequests
        /\ batch' = batch /\ io' = io /\ parser' = parser /\ reads' = reads /\ writes' = writes
        /\ contexts' = contexts /\ wire' = wire /\ handled' = handled
        /\ parts' = parts /\ read_complete' = read_complete /\ app' = app
    BY <1>1, <2>0 DEF ClientSends, requestVars
  <2>2. WholeRequests'
    BY <1>t, <1>w, <2>1, KeepWhole
  <2>3. r \in Request /\ r.kind \in Kinds /\ r.id = sent + 1
    <3>1. sent + 1 \in 1..MaxRequests
      BY <1>t, <2>1
    <3> QED
      BY <2>0, <3>1 DEF Request
  <2>4. ASSUME Live' PROVE Arriving(r)'
    <3>1. Live
      BY <2>1, <2>4 DEF Live, Closed
    <3>2. Replied + 1 # sent
      BY <1>t, <2>1
    <3>3. Idle
      BY <1>w, <3>1, <3>2 DEF Progress, Answering, Arriving
    <3>4. batch = <<>> /\ input = <<>>
      BY <1>t, <3>3, PendingNothing DEF Idle
    <3>5. Pending' = Events(r)
      <4>1. Events(r) \in Seq(Sendable)
        BY <2>3, EventsTyped
      <4>2. <<>> \o (<<>> \o Events(r)) = Events(r)
        BY <4>1, ConcatEmptySeq
      <4> QED
        BY <2>1, <3>4, <4>2 DEF Pending
    <3>6. Replied' = Replied
      BY <2>1 DEF Replied, Final
    <3>7. Replied' + 1 = sent' /\ r.id = sent' /\ writes' = <<>> /\ contexts' = <<>>
      BY <2>1, <2>3, <3>3, <3>6 DEF Idle
    <3>8. \A i \in DOMAIN handled' : \A p \in handled'[i] : p[1] < sent'
      BY <1>t, <1>w, <2>1, HandledIds
    <3>9. Lacks(r)'
      BY <2>1, <3>3, <3>5 DEF Lacks, Idle, Events
    <3> QED
      BY <3>7, <3>8, <3>9 DEF Arriving
  <2> QED
    BY <2>2, <2>3, <2>4 DEF WholeInv, Progress
<1>2. CASE StartRead
  <2>1. /\ sent' = sent /\ input' = input /\ batch' = batch /\ io = "handshake" /\ io' = "reactor"
        /\ parser' = parser /\ writes' = writes
        /\ contexts' = contexts /\ wire' = wire /\ handled' = handled
        /\ parts' = parts /\ read_complete' = read_complete /\ app' = app
    BY <1>2 DEF StartRead, clientVars, requestVars
  <2>2. WholeRequests' /\ Replied' = Replied /\ Pending' = Pending
    BY <1>t, <1>w, <2>1, KeepWhole DEF Replied, Final, Pending
  <2>3. Live' => Live
    BY <2>1 DEF Live, Closed
  <2>4. Idle => Idle'
    BY <2>1, <2>2 DEF Idle
  <2>5. ASSUME NEW r \in Request, Arriving(r) PROVE Arriving(r)'
    <3>1. Lacks(r) /\ writes = <<>> /\ contexts = <<>>
      BY <2>1, <2>5 DEF Arriving
    <3>2. Lacks(r)'
      BY <2>1, <2>2, <3>1 DEF Lacks, Events, Body, Complete, Whole
    <3> QED
      BY <2>1, <2>2, <2>5, <3>1, <3>2, GoesOnArriving
  <2>6. ~Answering
    BY <2>1 DEF Answering
  <2> QED
    BY <1>w, <2>2, <2>3, <2>4, <2>5, <2>6 DEF WholeInv, Progress
<1>3. CASE HandshakeFails
  <2>1. sent' = sent /\ handled' = handled
    BY <1>3 DEF HandshakeFails, clientVars
  <2>2. Closed'
    BY <1>3 DEF HandshakeFails, OneInv, Alone, Free, Closed
  <2> QED
    BY <1>t, <1>w, <2>1, <2>2, KeepWhole DEF WholeInv, Progress, Live
<1>4. ASSUME NEW n \in 1..Len(input), on_read(n) PROVE WholeInv'
  <2>1. /\ io = "reactor" /\ reads > 0 /\ io' = "Parse"
        /\ input' = SubSeq(input, n + 1, Len(input))
        /\ parser = "ok" => batch' = SubSeq(input, 1, n)
        /\ sent' = sent /\ parser' = parser /\ writes' = writes /\ contexts' = contexts
        /\ wire' = wire /\ handled' = handled /\ parts' = parts /\ read_complete' = read_complete /\ app' = app
    BY <1>4 DEF on_read, requestVars
  <2>2. WholeRequests' /\ Replied' = Replied
    BY <1>t, <1>w, <2>1, KeepWhole DEF Replied, Final
  <2>3. Reading /\ batch = <<>>
    BY <2>1 DEF OneInv, Alone, Free, Writing, Handling
  <2>4. ASSUME parser = "ok" PROVE \E r \in Request : Arriving(r)'
    <3>1. Pending' = Pending
      BY <1>t, <2>1, <2>3, <2>4, PendingRead
    <3>2. ~Closed
      BY <2>1 DEF Closed
    <3>3. input # <<>>
      BY <1>4
    <3>4. ~Idle /\ ~Answering
      BY <1>t, <2>3, <3>3, PendingNothing DEF Idle, Answering, Reading
    <3>5. PICK r \in Request : Arriving(r)
      BY <1>w, <2>4, <3>2, <3>4 DEF Progress, Live
    <3>6. Lacks(r)
      BY <2>1, <3>5 DEF Arriving
    <3>7. Lacks(r)'
      BY <2>1, <3>1, <3>6 DEF Lacks, Events, Body, Complete, Whole
    <3>8. writes' = <<>> /\ contexts' = <<>>
      BY <2>1, <2>3 DEF Reading
    <3>9. Arriving(r)'
      BY <2>1, <2>2, <3>5, <3>7, <3>8, GoesOnArriving
    <3> QED
      BY <3>9
  <2> QED
    BY <1>t, <2>1, <2>2, <2>4 DEF WholeInv, Progress, Live
<1>5. CASE on_read_error
  <2>1. /\ sent' = sent /\ handled' = handled /\ io = "reactor" /\ io' = io
        /\ reads > 0 /\ reads' = reads - 1 /\ writes' = writes /\ contexts' = contexts
    BY <1>5 DEF on_read_error, clientVars
  <2>2. Reading
    BY <2>1 DEF OneInv, Alone, Free, Writing, Handling
  <2>3. Closed'
    BY <2>1, <2>2 DEF Reading, Closed
  <2> QED
    BY <1>t, <1>w, <2>1, <2>3, KeepWhole DEF WholeInv, Progress, Live
<1> QED
  BY <1>1, <1>2, <1>3, <1>4, <1>5

\* A callback of llhttp takes the request one step further, or ends the connection.
LEMMA CallbackWhole ==
    ASSUME "expect" \notin Kinds, OneInv, WholeInv,
           on_headers_complete \/ on_body \/ on_message_complete
    PROVE  WholeInv'
<1>t. /\ Types /\ sent \in Nat /\ wire \in Seq(Reply)
      /\ parser \in {"ok", "error"}
  BY HttpAssumption DEF OneInv, Types, ScalarTypes, QueueTypes
<1>w. WholeRequests /\ Progress
  BY DEF WholeInv
<1>1. io = "Parse" /\ batch # <<>>
  BY DEF on_headers_complete, on_body, on_message_complete, NextEvent
<1>2. Free /\ parser = "ok"
  BY <1>1, FreeWhileParsing
<1>3. PICK r \in Request : Arriving(r)
  BY <1>w, <1>1, <1>2, ParsingArrives
<1>4. Head(batch).req = r
  BY <1>t, <1>1, <1>3, NextOfRequest
<1>5. r.id = sent
  BY <1>3 DEF Arriving
<1>6. /\ sent' = sent /\ handled' = handled /\ wire' = wire /\ contexts' = contexts /\ io' = "Parse"
      /\ input' = input
  <2>1. CASE on_headers_complete
    BY <1>t, <1>1, <2>1, HeadersCases
  <2>2. CASE on_body
    BY <1>t, <1>1, <2>2, BodyCases
  <2>3. CASE on_message_complete
    BY <1>1, <2>3 DEF on_message_complete, clientVars
  <2> QED
    BY <2>1, <2>2, <2>3
<1>7. WholeRequests' /\ Replied' = Replied
  BY <1>t, <1>w, <1>6, KeepWhole DEF Replied, Final
<1>8. parser' = "error" \/ Arriving(r)'
  <2>1. CASE on_headers_complete
    <3>1. parser' # "error" =>
             /\ writes' = writes /\ app'
             /\ batch' = IF HasBody(r.kind) THEN Tail(batch) ELSE <<Complete(r)>> \o Tail(batch)
      <4>1. r.kind # "expect"
        BY <1>t, <1>1, <1>4, NextEventTyped
      <4> QED
        BY <1>t, <1>4, <2>1, <4>1, HeadersCases
    <3>2. /\ read_complete' = "header"
          /\ parts' = {p \in parts : p[2] # "body"} \cup {<<r.id, "headers">>}
          /\ Head(batch).what = "headers"
      BY <1>t, <1>4, <2>1, HeadersCases
    <3>3. /\ parts = {}
          /\ Tail(batch) \o input = IF HasBody(r.kind) THEN <<Body(r), Complete(r)>> ELSE <<>>
      BY <1>t, <1>1, <1>3, <3>2, NextOfRequest
    <3>4. parts' = {<<sent', "headers">>} /\ parts' \in Whole(sent')
      BY <1>5, <1>6, <3>2, <3>3 DEF Whole
    <3>5. ASSUME parser' # "error" PROVE Lacks(r)'
      <4>1. CASE HasBody(r.kind)
        <5>1. Pending' = <<Body(r), Complete(r)>>
          BY <1>6, <3>1, <3>3, <3>5, <4>1 DEF Pending
        <5> QED
          BY <3>1, <3>2, <3>4, <3>5, <5>1 DEF Lacks, Body, Complete
      <4>2. CASE ~HasBody(r.kind)
        <5>0. Tail(batch) \in Seq(Sendable) /\ input \in Seq(Sendable)
          BY <1>t, <1>1, NextEventTyped DEF Types, QueueTypes
        <5>1. Tail(batch) = <<>> /\ input = <<>>
          BY <3>3, <4>2, <5>0, ConcatEqualIffEmpty
        <5> DEFINE c == Complete(r)
        <5>2. batch' = <<c>> \o <<>> /\ input' = <<>>
          BY <1>6, <3>1, <3>5, <4>2, <5>1
        <5>3. Pending' = (<<c>> \o <<>>) \o <<>>
          BY <5>2 DEF Pending
        <5> HIDE DEF c
        <5>4. (<<c>> \o <<>>) \o <<>> = <<c>>
          OBVIOUS
        <5>5. Pending' = <<Complete(r)>>
          BY <5>3, <5>4 DEF c
        <5> QED
          BY <3>1, <3>2, <3>4, <3>5, <5>5 DEF Lacks, Complete
      <4> QED
        BY <4>1, <4>2
    <3> QED
      BY <1>2, <1>3, <1>6, <1>7, <3>1, <3>5, GoesOnArriving DEF Free
  <2>2. CASE on_body
    <3>1. /\ Head(batch).what = "body" /\ read_complete' = read_complete /\ app' = app
          /\ parser' # "error" => /\ writes' = writes /\ batch' = Tail(batch)
                                  /\ parts' = parts \cup {<<r.id, "body">>}
      BY <1>t, <1>4, <2>2, BodyCases
    <3>2. /\ parts = {<<sent, "headers">>} /\ read_complete = "header" /\ app
          /\ Tail(batch) \o input = <<Complete(r)>>
      BY <1>t, <1>1, <1>3, <3>1, NextOfRequest
    <3>3. ASSUME parser' # "error" PROVE Lacks(r)'
      <4>1. Pending' = <<Complete(r)>>
        BY <1>6, <3>1, <3>2, <3>3 DEF Pending
      <4>2. parts' = {<<sent', "headers">>, <<sent', "body">>}
        BY <1>5, <1>6, <3>1, <3>2, <3>3
      <4> QED
        BY <3>1, <3>2, <4>1, <4>2 DEF Lacks, Whole, Complete
    <3> QED
      BY <1>2, <1>3, <1>6, <1>7, <3>1, <3>3, GoesOnArriving DEF Free
  <2>3. CASE on_message_complete
    <3>1. /\ Head(batch).what = "complete" /\ read_complete' = "message" /\ batch' = Tail(batch)
          /\ parts' = parts /\ writes' = writes /\ app' = app
      BY <2>3 DEF on_message_complete, NextEvent
    <3>2. parts \in Whole(sent) /\ Tail(batch) \o input = <<>> /\ app
      BY <1>t, <1>1, <1>3, <3>1, NextOfRequest
    <3>3. Pending' = <<>>
      BY <1>6, <3>1, <3>2 DEF Pending
    <3> QED
      BY <1>2, <1>3, <1>6, <1>7, <3>1, <3>2, <3>3, GoesOnArriving DEF Free
  <2> QED
    BY <2>1, <2>2, <2>3
<1> QED
  BY <1>7, <1>8 DEF WholeInv, Progress, Live

\* A context is started with the request that has arrived, which is whole.
LEMMA HandleWhole ==
    ASSUME WholeRequests, handled \in Seq(SUBSET PartSet), sent \in Nat, sent' = sent,
           handled' = Append(handled, parts), parts \in Whole(sent), sent >= 1,
           parts \in SUBSET PartSet,
           \A i \in DOMAIN handled : \A p \in handled[i] : p[1] < sent
    PROVE  WholeRequests'
<1>1. /\ handled' \in Seq(SUBSET PartSet) /\ Len(handled') = Len(handled) + 1
      /\ \A i \in 1..Len(handled) : handled'[i] = handled[i]
      /\ handled'[Len(handled) + 1] = parts
  BY AppendProperties
<1>2. /\ DOMAIN handled = 1..Len(handled) /\ Len(handled) \in Nat
      /\ DOMAIN handled' = 1..(Len(handled) + 1)
  BY <1>1
<1>3. ASSUME NEW i \in DOMAIN handled'
      PROVE  \E id \in 1..sent : handled'[i] \in {{<<id, "headers">>}, {<<id, "headers">>, <<id, "body">>}}
  <2>1. i \in 1..Len(handled) \/ i = Len(handled) + 1
    BY <1>2
  <2>2. CASE i \in 1..Len(handled)
    BY <1>1, <1>2, <2>2 DEF WholeRequests
  <2>3. CASE i = Len(handled) + 1
    <3>1. handled'[i] \in Whole(sent) /\ sent \in 1..sent
      BY <1>1, <2>3
    <3> QED
      BY <3>1 DEF Whole
  <2> QED
    BY <2>1, <2>2, <2>3
<1>4. \A q \in parts : q[1] = sent
  <2> SUFFICES ASSUME NEW q \in parts PROVE q[1] = sent
    OBVIOUS
  <2>1. q = <<sent, "headers">> \/ q = <<sent, "body">>
    BY DEF Whole
  <2> QED
    BY <2>1
<1>5. ASSUME NEW i \in DOMAIN handled', NEW j \in DOMAIN handled', i < j,
             NEW p \in handled'[i], NEW q \in handled'[j]
      PROVE  p[1] < q[1]
  <2>1. i \in 1..Len(handled) /\ handled'[i] = handled[i] /\ i \in DOMAIN handled
    BY <1>1, <1>2, <1>5
  <2>2. j \in 1..Len(handled) \/ j = Len(handled) + 1
    BY <1>2
  <2>3. CASE j \in 1..Len(handled)
    BY <1>1, <1>2, <1>5, <2>1, <2>3 DEF WholeRequests
  <2>4. CASE j = Len(handled) + 1
    <3>1. q[1] = sent
      BY <1>1, <1>4, <2>4
    <3>2. p[1] < sent
      BY <2>1
    <3> QED
      BY <3>1, <3>2
  <2> QED
    BY <2>2, <2>3, <2>4
<1> QED
  BY <1>3, <1>5 DEF WholeRequests

\* The return of llhttp_execute.
LEMMA ExecutedWhole ==
    ASSUME OneInv, WholeInv, Executed
    PROVE  WholeInv'
<1>t. /\ Types /\ sent \in Nat /\ wire \in Seq(Reply) /\ handled \in Seq(SUBSET PartSet)
      /\ parser \in {"ok", "error"} /\ parts \in SUBSET PartSet /\ Replied \in Nat
  BY HttpAssumption, RepliedType DEF OneInv, Types, ScalarTypes, QueueTypes
<1>w. WholeRequests /\ Progress
  BY DEF WholeInv
<1>1. /\ io = "Parse" /\ batch = <<>> /\ io' = "reactor" /\ sent' = sent /\ input' = input
      /\ batch' = batch /\ parser' = parser /\ writes' = writes /\ wire' = wire
      /\ parts' = parts /\ read_complete' = read_complete /\ app' = app
  BY DEF Executed, clientVars, requestVars
<1>2. Replied' = Replied /\ Pending' = Pending
  BY <1>1 DEF Replied, Final, Pending
<1>3. CASE parser = "error"
  <2>1. handled' = handled
    BY <1>3 DEF Executed
  <2> QED
    BY <1>t, <1>w, <1>1, <1>3, <2>1, KeepWhole DEF WholeInv, Progress, Live
<1>4. CASE parser = "ok"
  <2>1. PICK r \in Request : Arriving(r)
    BY <1>w, <1>1, <1>4, ParsingArrives
  <2>2. Free
    BY <1>1, <1>4 DEF OneInv, Alone
  <2>3. CASE read_complete # "message"
    <3>1. handled' = handled /\ contexts' = contexts
      BY <1>4, <2>3 DEF Executed
    <3>2. Lacks(r)
      BY <2>1, <2>3 DEF Arriving
    <3>3. Lacks(r)'
      BY <1>1, <1>2, <3>2 DEF Lacks, Events, Body, Complete, Whole
    <3>4. Arriving(r)'
      BY <1>1, <1>2, <2>1, <2>2, <3>1, <3>3, GoesOnArriving DEF Free
    <3> QED
      BY <1>t, <1>w, <1>1, <3>1, <3>4, KeepWhole DEF WholeInv, Progress
  <2>4. CASE read_complete = "message"
    <3>1. Pending = <<>> /\ parts \in Whole(sent) /\ Replied + 1 = sent
      BY <2>1, <2>4 DEF Arriving, Lacks
    <3>2. \A i \in DOMAIN handled : \A p \in handled[i] : p[1] < sent
      BY <2>1 DEF Arriving
    <3>3. \/ contexts' = contexts /\ handled' = handled /\ reads' = reads
          \/ contexts' = Append(contexts, parts) /\ handled' = Append(handled, parts)
      BY <1>4, <2>4 DEF Executed
    <3>4. CASE contexts' = contexts /\ handled' = handled /\ reads' = reads
      <4>1. Closed'
        BY <1>1, <2>2, <3>4 DEF Closed, Free
      <4> QED
        BY <1>t, <1>w, <1>1, <3>4, <4>1, KeepWhole DEF WholeInv, Progress, Live
    <3>5. CASE contexts' = Append(contexts, parts) /\ handled' = Append(handled, parts)
      <4>1. sent >= 1
        BY <1>t, <3>1
      <4>2. WholeRequests'
        BY <1>t, <1>w, <1>1, <3>1, <3>2, <3>5, <4>1, HandleWhole
      <4>3. contexts' # <<>>
        <5>1. contexts' = Append(<<>>, parts)
          BY <2>2, <3>5 DEF Free
        <5> QED
          BY <5>1
      <4>4. Answering'
        BY <1>1, <1>2, <3>1, <4>3 DEF Answering
      <4> QED
        BY <4>2, <4>4 DEF WholeInv, Progress
    <3> QED
      BY <3>3, <3>4, <3>5
  <2> QED
    BY <2>3, <2>4
<1> QED
  BY <1>t, <1>3, <1>4

\* The steps of a reply.
LEMMA ReplyWhole ==
    ASSUME OneInv, WholeInv,
           \/ \E chunked, close \in BOOLEAN : StartWrite(chunked, close)
           \/ NoReply
           \/ on_wrote
           \/ on_write_error
    PROVE  WholeInv'
<1>t. /\ Types /\ sent \in Nat /\ wire \in Seq(Reply) /\ writes \in Seq(Reply)
  BY HttpAssumption DEF OneInv, Types, ScalarTypes, QueueTypes
<1>w. WholeRequests /\ Progress
  BY DEF WholeInv
<1>1. /\ io = "reactor" /\ io' = io /\ sent' = sent /\ handled' = handled /\ input' = input
      /\ batch' = batch /\ parser' = parser
  BY DEF StartWrite, NoReply, on_wrote, on_write_error, clientVars
<1>2. WholeRequests' /\ Pending' = Pending
  BY <1>t, <1>w, <1>1, KeepWhole DEF Pending
<1>3. writes # <<>> \/ contexts # <<>>
  BY DEF StartWrite, NoReply, on_wrote, on_write_error
<1>4. parser = "ok" => Answering
  BY <1>w, <1>1, <1>3 DEF Progress, Live, Closed, Idle, Arriving
<1>5. ASSUME NEW chunked \in BOOLEAN, NEW close \in BOOLEAN, StartWrite(chunked, close)
      PROVE  WholeInv'
  <2>1. wire' = wire /\ do_write("app", chunked, close)
    BY <1>5 DEF StartWrite
  <2>2. writes' # <<>>
    <3>1. Handling
      BY <1>1, <1>5 DEF StartWrite, OneInv, Alone, Free, Reading, Writing
    <3>2. \E w \in Reply : writes' = <<w>>
      BY <1>t, <2>1, <3>1, WriteTyped DEF Handling
    <3> QED
      BY <3>2
  <2>3. Replied' = Replied
    BY <2>1 DEF Replied, Final
  <2> QED
    BY <1>1, <1>2, <1>4, <2>2, <2>3 DEF Answering, WholeInv, Progress, Live
<1>6. CASE NoReply
  <2>1. Handling
    BY <1>1, <1>6 DEF NoReply, OneInv, Alone, Free, Reading, Writing
  <2>2. PICK c : contexts = <<c>>
    BY <2>1 DEF Handling
  <2>3. Tail(contexts) = <<>>
    BY <2>2
  <2>4. Closed'
    BY <1>1, <1>6, <2>1, <2>3 DEF NoReply, Handling, Closed
  <2> QED
    BY <1>2, <2>4 DEF WholeInv, Progress, Live
<1>7. CASE on_wrote \/ on_write_error
  <2>1. Writing
    BY <1>1, <1>7 DEF on_wrote, on_write_error, OneInv, Alone, Free, Reading, Handling
  <2>2. PICK w \in Reply : Final(w) /\ writes = <<w>>
    BY <2>1 DEF Writing
  <2>3. Tail(writes) = <<>> /\ Head(writes) = w
    BY <2>2
  <2>4. writes' = <<>> /\ contexts' = <<>>
    BY <1>7, <2>1, <2>3 DEF on_wrote, on_write_error, Writing
  <2>5. CASE reads' = reads
    <3>1. Closed'
      BY <1>1, <2>1, <2>4, <2>5 DEF Closed, Writing
    <3> QED
      BY <1>2, <3>1 DEF WholeInv, Progress, Live
  <2>6. CASE reads' # reads
    <3>1. reset /\ wire' = Append(wire, w)
      BY <1>7, <2>3, <2>6 DEF on_wrote, on_write_error
    <3>2. Replied' = Replied + 1
      BY <1>t, <2>2, <3>1, RepliedOnceMore
    <3>3. parser = "ok" => Idle'
      BY <1>1, <1>2, <1>4, <2>4, <3>1, <3>2 DEF Answering, Idle, reset
    <3> QED
      BY <1>1, <1>2, <3>3 DEF WholeInv, Progress, Live
  <2> QED
    BY <2>5, <2>6
<1> QED
  BY <1>5, <1>6, <1>7

-------------------------------------------------------------------------------
(* Theorems *)

\* The types of a connection's state, whatever its clients send.
THEOREM TypeCorrect == Spec => []TypeOK
<1>1. Init => Types
  BY InitOne DEF OneInv
<1>2. Types /\ [Next]_vars => Types'
  BY NextTypes
<1>3. ASSUME Types PROVE TypeOK
  <2>1. input \in Seq(Event) /\ batch \in Seq(Event)
    <3>1. \A s \in Seq(Sendable) : s \in Seq(Event)
      BY DEF Sendable
    <3> QED
      BY <1>3, <3>1 DEF Types, QueueTypes
  <2> QED
    BY <1>3, <2>1 DEF Types, ScalarTypes, QueueTypes, PartSet, TypeOK
<1> QED
  BY <1>1, <1>2, <1>3, PTL DEF Spec

\* OneInv is an invariant of connections whose clients do not ask for "100 Continue".
THEOREM OneInvariance == "expect" \notin Kinds => (Spec => []OneInv)
<1> SUFFICES ASSUME "expect" \notin Kinds PROVE Spec => []OneInv
  OBVIOUS
<1>1. Init => OneInv
  BY InitOne
<1>2. OneInv /\ [Next]_vars => OneInv'
  BY NextOne
<1> QED
  BY <1>1, <1>2, PTL DEF Spec

\* At most one read, write or context uses the connection's _request, _response and
\* buffer at any time, unless a client asks for "100 Continue"; pipelining clients
\* included.
THEOREM OneThingAtATime == "expect" \notin Kinds => (Spec => []OneAtATime)
<1> SUFFICES ASSUME "expect" \notin Kinds PROVE Spec => []OneAtATime
  OBVIOUS
<1>1. ASSUME OneInv PROVE OneAtATime
  <2>1. Free \/ Reading \/ Writing \/ Handling
    BY <1>1 DEF OneInv, Alone, Types, ScalarTypes
  <2>2. CASE Free \/ Reading
    BY <2>2 DEF Free, Reading, OneAtATime
  <2>3. CASE Writing
    <3>1. reads = 0 /\ contexts = <<>> /\ Len(writes) = 1
      BY <2>3 DEF Writing
    <3> QED
      BY <3>1 DEF OneAtATime
  <2>4. CASE Handling
    <3>1. reads = 0 /\ writes = <<>> /\ Len(contexts) = 1
      BY <2>4 DEF Handling
    <3> QED
      BY <3>1 DEF OneAtATime
  <2> QED
    BY <2>1, <2>2, <2>3, <2>4
<1> QED
  BY OneInvariance, <1>1, PTL

\* WholeInv is an invariant of connections whose clients neither pipeline nor ask
\* for "100 Continue".
THEOREM WholeInvariance ==
    "expect" \notin Kinds /\ ~Pipelining => (Spec => []WholeInv)
<1> SUFFICES ASSUME "expect" \notin Kinds, ~Pipelining PROVE Spec => []WholeInv
  OBVIOUS
<1>1. ASSUME Init PROVE WholeInv
  <2>1. DOMAIN handled = {} /\ {i \in DOMAIN wire : Final(wire[i])} = {}
    BY <1>1 DEF Init
  <2>2. WholeRequests
    BY <2>1 DEF WholeRequests
  <2>3. Replied = 0
    BY <2>1, FS_EmptySet DEF Replied
  <2>4. <<>> \o <<>> = <<>>
    OBVIOUS
  <2>5. Idle
    BY <1>1, <2>3, <2>4 DEF Init, Idle, Pending
  <2> QED
    BY <2>2, <2>5 DEF WholeInv, Progress
<1>2. ASSUME OneInv, WholeInv, [Next]_vars PROVE WholeInv'
  <2>1. CASE UNCHANGED vars
    BY <1>2, <2>1
    DEF vars, WholeInv, WholeRequests, Progress, Live, Closed, Idle, Answering, Arriving, Lacks,
        Replied, Final, Pending, Whole, Events, Body, Complete
  <2>2. CASE Next
    BY <1>2, <2>2, ReadWhole, CallbackWhole, ExecutedWhole, ReplyWhole DEF Next, Parsing
  <2> QED
    BY <1>2, <2>1, <2>2
<1> QED
  BY OneInvariance, <1>1, <1>2, PTL DEF Spec

\* Every context is started with one whole request, and requests are handled in the
\* order in which they were sent, each once, however their bytes are cut, for
\* clients that neither pipeline nor ask for "100 Continue".
THEOREM RequestsWhole ==
    "expect" \notin Kinds /\ ~Pipelining => (Spec => []WholeRequests)
<1> SUFFICES ASSUME "expect" \notin Kinds, ~Pipelining PROVE Spec => []WholeRequests
  OBVIOUS
<1>1. WholeInv => WholeRequests
  BY DEF WholeInv
<1> QED
  BY WholeInvariance, <1>1, PTL

\* do_read's assertion that a complete request has an application: it can only fail
\* for clients that pipeline or ask for "100 Continue".
THEOREM AppIsSet ==
    "expect" \notin Kinds /\ ~Pipelining => (Spec => []AppWhenComplete)
<1> SUFFICES ASSUME "expect" \notin Kinds, ~Pipelining PROVE Spec => []AppWhenComplete
  OBVIOUS
<1>1. ASSUME WholeInv, io = "Parse", parser = "ok", read_complete = "message" PROVE app
  <2>1. PICK r \in Request : Arriving(r)
    BY <1>1, ParsingArrives DEF WholeInv
  <2> QED
    BY <1>1, <2>1 DEF Arriving, Lacks
<1>2. WholeInv => AppWhenComplete
  BY <1>1 DEF AppWhenComplete
<1> QED
  BY WholeInvariance, <1>2, PTL
===============================================================================

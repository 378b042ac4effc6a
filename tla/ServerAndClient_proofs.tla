-------------------------- MODULE ServerAndClient_proofs --------------------------
(***************************************************************************)
(* The two ends of a connection, the Server and the HTTP client, which     *)
(* share nothing but this module.                                          *)
(*                                                                         *)
(* Server, for a pool of any size and any number of threads that call      *)
(* Stop: the types, and that no thread of the pool is left behind.         *)
(*                                                                         *)
(* HttpClient, for any number of requests, broken connections and calls    *)
(* of Reset and Close: the types, that what the program is told is true,   *)
(* and that it is not told of a failure without a reason.                  *)
(***************************************************************************)
EXTENDS Server, HttpClient, SequenceTheorems, WellFoundedInduction, TLAPS

(* Server *)

\* A thread that is in the pool's Stop has come to a context of the pool.
AtContext == \A p \in Actors : pc[p] = "contexts" => at[p] < PoolSize

\* Once the flag of the pool is set, every context is stopped or about to be, and
\* the flag of the server was set before.
Covered ==
    /\ \A p \in Actors : pc[p] \in {"pool", "flag", "contexts"} => stopping
    /\ pool_stopping => stopping
    /\ pool_stopping => \A j \in Contexts :
                            \/ j \in stopped
                            \/ \E p \in Actors : pc[p] = "contexts" /\ at[p] <= j
    /\ \A i \in Contexts : pc[i] = "done" => pool_stopping

Inv == TypeOK /\ AtContext /\ Covered

\* The indices that the constructor and GetIOContextAndIndex compute are
\* indices of contexts.
LEMMA IndexInPool == /\ \A n \in Nat : n % PoolSize \in Contexts
                     /\ AcceptorContext \in Contexts
                     /\ SignalContext \in Contexts
  BY ServerAssumption DEF Contexts, AcceptorContext, SignalContext

\* A context is not a thread of the program.
LEMMA Disjoint == /\ Main \in Actors /\ Main \notin Contexts /\ Main \notin Users
                  /\ Contexts \subseteq Actors
                  /\ Users \subseteq Actors /\ Users \cap Contexts = {}
  BY ServerAssumption DEF Actors, Contexts

\* The pool before Run.
LEMMA InitInv == Init => Inv
<1>. SUFFICES ASSUME Init PROVE Inv
  OBVIOUS
<1>1. TypeOK
  <2>1. next_index \in Contexts
    BY IndexInPool DEF Init
  <2>2. pc \in [Actors -> {"none", "new"}] /\ at \in [Actors -> {0}] /\ 0 \in 0..PoolSize
    BY ServerAssumption DEF Init
  <2>3. pc \in [Actors -> {"none", "new", "threads", "returned", "loop", "run", "done",
                          "stop", "pool", "flag", "contexts"}]
        /\ at \in [Actors -> 0..PoolSize]
    BY <2>2
  <2>4. stopping \in BOOLEAN /\ pool_stopping \in BOOLEAN
    BY Zenon DEF Init
  <2>. QED  BY <2>1, <2>3, <2>4, ServerAssumption DEF Init, TypeOK
<1>2. AtContext /\ Covered
  BY Disjoint DEF Init, AtContext, Covered
<1>. QED  BY <1>1, <1>2 DEF Inv

\* The type invariant is preserved by every step.
LEMMA TypeStep == Inv /\ [Next]_vars => TypeOK'
<1>. SUFFICES ASSUME Inv, [Next]_vars PROVE TypeOK'
  OBVIOUS
<1>. USE DEF Inv, TypeOK, Goto, stopVars, acceptVars
<1>1. CASE Run
  <2>1. next_index' \in Contexts /\ accept' = "pending"
    BY <1>1, ServerAssumption DEF Run, do_accept, GetIOContextAndIndex, Contexts
  <2>. QED  BY <1>1, <2>1 DEF Run
<1>2. CASE create_thread
  BY <1>2 DEF create_thread
<1>3. CASE join
  BY <1>3 DEF join
<1>4. ASSUME NEW i \in Contexts,
             loop(i) \/ run_returns(i) \/ handler_throws(i) \/ handler_stops(i)
      PROVE  TypeOK'
  BY <1>4 DEF loop, run_returns, handler_throws, handler_stops
<1>5. CASE on_accept
  BY <1>5, ServerAssumption DEF on_accept, do_accept, GetIOContextAndIndex, Contexts
<1>6. CASE on_signal
  BY <1>6 DEF on_signal
<1>7. ASSUME NEW u \in Users, Stop(u)
      PROVE  TypeOK'
  BY <1>7 DEF Stop
<1>8. ASSUME NEW p \in Actors, stop_steps(p)
      PROVE  TypeOK'
  <2>1. CASE do_stop(p)
    BY <2>1 DEF do_stop
  <2>2. CASE pool_stop(p)
    BY <2>2 DEF pool_stop, After
  <2>3. CASE pool_set_flag(p)
    BY <2>3, ServerAssumption DEF pool_set_flag
  <2>4. CASE stop_context(p)
    <3>1. at[p] \in Contexts /\ at[p] + 1 \in 0..PoolSize
      BY <2>4, ServerAssumption DEF stop_context, AtContext, Contexts
    <3>. QED  BY <2>4, <3>1 DEF stop_context, After
  <2>. QED  BY <1>8, <2>1, <2>2, <2>3, <2>4 DEF stop_steps
<1>9. CASE ClientConnects \/ accept_completes \/ accept_fails \/ SignalArrives
  BY <1>9, ServerAssumption DEF ClientConnects, accept_completes, accept_fails, SignalArrives
<1>10. CASE UNCHANGED vars
  BY <1>10 DEF vars
<1>. QED  BY <1>1, <1>2, <1>3, <1>4, <1>5, <1>6, <1>7, <1>8, <1>9, <1>10 DEF Next

\* Whoever sets the flag of the pool goes on to stop its contexts, one after the other.
LEMMA CoveredStep == Inv /\ [Next]_vars => AtContext' /\ Covered'
<1>. SUFFICES ASSUME Inv, [Next]_vars PROVE AtContext' /\ Covered'
  OBVIOUS
<1>1. CASE Run
  BY <1>1, Disjoint DEF Run, Goto, Inv, TypeOK, AtContext, Covered, stopVars
<1>2. CASE create_thread
  <2>1. PICK i \in Contexts : pc[i] = "new" /\ Goto(i, "loop")
    BY <1>2 DEF create_thread
  <2>. QED  BY <1>2, <2>1, Disjoint DEF create_thread, Goto, Inv, TypeOK, AtContext, Covered, stopVars
<1>3. CASE join
  BY <1>3, Disjoint DEF join, Goto, Inv, TypeOK, AtContext, Covered, stopVars
<1>4. ASSUME NEW i \in Contexts,
             loop(i) \/ run_returns(i) \/ handler_throws(i) \/ handler_stops(i)
      PROVE  AtContext' /\ Covered'
  <2>1. i \in Actors
    BY Disjoint
  <2>2. CASE loop(i)
    BY <2>1, <2>2 DEF loop, Goto, Inv, TypeOK, AtContext, Covered, stopVars
  <2>3. CASE run_returns(i)
    BY <2>1, <2>3 DEF run_returns, Goto, Inv, TypeOK, AtContext, Covered, stopVars
  <2>4. CASE handler_throws(i)
    BY <2>1, <2>4 DEF handler_throws, Ready, Goto, Inv, TypeOK, AtContext, Covered, stopVars
  <2>5. CASE handler_stops(i)
    BY <2>1, <2>5 DEF handler_stops, Ready, Goto, Inv, TypeOK, AtContext, Covered, stopVars
  <2>. QED  BY <1>4, <2>2, <2>3, <2>4, <2>5
<1>5. CASE on_accept \/ ClientConnects \/ accept_completes \/ accept_fails \/ SignalArrives
  <2>1. UNCHANGED <<pc, stopVars>>
    BY <1>5 DEF on_accept, ClientConnects, accept_completes, accept_fails, SignalArrives
  <2>. QED  BY <2>1 DEF Inv, AtContext, Covered, stopVars
<1>6. CASE on_signal
  BY <1>6, Disjoint, IndexInPool DEF on_signal, Ready, Goto, Inv, TypeOK, AtContext, Covered, stopVars
<1>7. ASSUME NEW u \in Users, Stop(u)
      PROVE  AtContext' /\ Covered'
  BY <1>7, Disjoint DEF Stop, Goto, Inv, TypeOK, AtContext, Covered, stopVars
<1>8. ASSUME NEW p \in Actors, stop_steps(p)
      PROVE  AtContext' /\ Covered'
  <2>1. CASE do_stop(p)
    BY <2>1 DEF do_stop, Goto, Inv, TypeOK, AtContext, Covered
  <2>2. CASE pool_stop(p)
    BY <2>2 DEF pool_stop, Goto, After, stopVars, Inv, TypeOK, AtContext, Covered
  <2>3. CASE pool_set_flag(p)
    <3>1. /\ pc' = [pc EXCEPT ![p] = "contexts"]
          /\ at' = [at EXCEPT ![p] = 0]
          /\ pool_stopping' /\ stopping' = stopping /\ stopped' = stopped
          /\ stopping
      BY <2>3 DEF pool_set_flag, Goto, Inv, Covered
    <3>2. AtContext'
      BY <3>1, ServerAssumption DEF Inv, TypeOK, AtContext
    <3>3. \A j \in Contexts : pc'[p] = "contexts" /\ at'[p] <= j
      BY <3>1 DEF Inv, TypeOK, Contexts
    <3>4. /\ \A q \in Actors : pc'[q] \in {"pool", "flag", "contexts"} => stopping'
          /\ pool_stopping' => stopping'
          /\ \A i \in Contexts : pc'[i] = "done" => pool_stopping'
      BY <3>1
    <3>. QED  BY <3>2, <3>3, <3>4 DEF Covered
  <2>4. CASE stop_context(p)
    <3>1. /\ at[p] \in Nat /\ at[p] < PoolSize /\ pc[p] = "contexts"
          /\ at' = [at EXCEPT ![p] = at[p] + 1]
          /\ stopped' = stopped \cup {at[p]}
          /\ pc' = [pc EXCEPT ![p] = IF at[p] + 1 < PoolSize THEN "contexts" ELSE After(p)]
          /\ pool_stopping' = pool_stopping /\ stopping' = stopping
          /\ stopping
      BY <2>4 DEF stop_context, Goto, Inv, TypeOK, AtContext, Covered
    <3>2. AtContext'
      BY <3>1 DEF Inv, TypeOK, AtContext, After
    <3>3. ASSUME pool_stopping, NEW j \in Contexts
          PROVE  j \in stopped' \/ \E q \in Actors : pc'[q] = "contexts" /\ at'[q] <= j
      <4>1. CASE j \in stopped
        BY <3>1, <4>1
      <4>2. ASSUME NEW q \in Actors, pc[q] = "contexts", at[q] <= j
            PROVE  j \in stopped' \/ \E r \in Actors : pc'[r] = "contexts" /\ at'[r] <= j
        <5>1. CASE q # p
          BY <3>1, <4>2, <5>1 DEF Inv, TypeOK
        <5>2. CASE q = p /\ at[p] = j
          BY <3>1, <5>2
        <5>3. CASE q = p /\ at[p] # j
          <6>1. at[p] + 1 <= j /\ at[p] + 1 < PoolSize
            BY <3>1, <4>2, <5>3, ServerAssumption DEF Contexts
          <6>2. pc'[p] = "contexts" /\ at'[p] <= j
            BY <3>1, <6>1 DEF Inv, TypeOK
          <6>. QED  BY <6>2
        <5>. QED  BY <5>1, <5>2, <5>3
      <4>. QED  BY <3>3, <4>1, <4>2 DEF Inv, Covered
    <3>4. /\ \A q \in Actors : pc'[q] \in {"pool", "flag", "contexts"} => stopping'
          /\ pool_stopping' => stopping'
          /\ \A i \in Contexts : pc'[i] = "done" => pool_stopping'
      BY <3>1, Disjoint DEF Inv, TypeOK, Covered, After
    <3>. QED  BY <3>1, <3>2, <3>3, <3>4 DEF Covered
  <2>. QED  BY <1>8, <2>1, <2>2, <2>3, <2>4 DEF stop_steps
<1>9. CASE UNCHANGED vars
  BY <1>9 DEF vars, Inv, AtContext, Covered
<1>. QED  BY <1>1, <1>2, <1>3, <1>4, <1>5, <1>6, <1>7, <1>8, <1>9 DEF Next

\* The invariant of the server holds in every state.
LEMMA Invariance == Spec => []Inv
<1>1. Inv /\ [Next]_vars => Inv'
  BY TypeStep, CoveredStep DEF Inv
<1>. QED  BY InitInv, <1>1, PTL DEF Spec

\* The server keeps its types, in particular its index of the next context.
THEOREM TypeCorrect == Spec => []TypeOK
  BY Invariance, PTL DEF Inv

\* While a thread of the pool has ended, the server is being stopped and every
\* context is stopped or about to be: Run cannot wait for a thread whose context
\* nobody stops, however many threads call Stop and in whatever order.
THEOREM ThreadsEnd == Spec => []NoneLeftBehind
<1>1. Inv => NoneLeftBehind
  BY DEF Inv, Covered, NoneLeftBehind
<1>. QED  BY Invariance, <1>1, PTL

-------------------------------------------------------------------------------
(* Client: what the invariant says *)

\* Nothing has arrived or will where there is no connection; and what the steps
\* of a request presuppose of it.  An _error that is left over while the
\* connection is up goes with its end, or with a parser that has failed.
Connection ==
    /\ socket # "up" => wire = <<>> /\ todo = <<>> /\ ~eof
    /\ socket = "up" => is_connected
    /\ socket = "closed" => ~is_connected
    /\ phase \in {"resolving", "connecting", "handshake"} => ~is_connected
    /\ phase \in {"writing", "reading"} /\ ~is_connected => "closed" \in req.faults
    /\ phase = "reading" => socket # "raw"
    /\ socket = "up" /\ HasError => eof \/ parser = "failed"
    /\ phase = "reading" /\ HasError => "stale_error" \in req.faults

\* Every request that was issued is reported, but the one under way.
Counted == answers + (IF phase = "idle" THEN 0 ELSE 1) = issued

\* What is still to be read.
Stream == wire \o todo

\* It is a part of one response: a fin is the last of three segments.
OneResponse == /\ Len(Stream) <= 3
               /\ \A i \in 1..Len(Stream) : Stream[i].part = "fin" => i = 3
               /\ eof => todo = <<>>

\* The request that the server answers: another one if the buffer was destroyed.
Asked == IF "buffer" \in req.faults THEN 0 ELSE req.n

\* Before the head of a response, with nothing but the response, or with a rest
\* that does not parse.
HeadNext ==
    Stream # <<>> /\ Stream[1].part # "body" =>
        /\ OneResponse
        /\ Stream[1].part = "head_length" =>
               /\ Stream[1].of = Asked
               /\ Len(Stream) <= 2
               /\ Len(Stream) = 2 => Stream[2] = Seg(Asked, "body")

\* Before a body: that of the response, or what a parser that was in the middle of
\* an earlier response takes for it.
BodyNext ==
    /\ OneResponse
    /\ Len(Stream) >= 2 => Stream[2].part = "body"
    /\ "parser" \notin req.faults => /\ Len(Stream) <= 1
                                     /\ Len(Stream) = 1 => Stream[1] = Seg(Asked, "body")

\* The parser and what is still to be read are in step.  Nothing is said of a parser
\* that has failed or that takes all that comes for a body: it stays like that.
InStep ==
    /\ phase \notin {"idle", "reading"} => "buffer" \notin req.faults
    /\ phase # "reading" /\ parser = "start" => Stream = <<>> \/ Stream[1].part = "body"
    /\ phase # "reading" /\ parser = "body" => Stream = <<>>
    /\ phase = "reading" /\ parser = "start" => HeadNext
    /\ phase = "reading" /\ parser = "body" => BodyNext

\* The state of the response, for a request that could get its own.
SoFar ==
    /\ phase # "reading" /\ fresh => resp = NoResponse
    /\ phase = "reading" /\ req.faults \intersect {"parser", "buffer", "reset"} = {} =>
           /\ parser # "failed"
           /\ parser = "body_until_close" => resp.complete # "message"
           /\ parser = "start" /\ "mixed" \notin req.faults => resp.heads = <<>>
           /\ parser = "body" => /\ resp.body = <<>>
                                 /\ "mixed" \notin req.faults => resp.heads = <<req.n>>

\* A request that nothing is against is about to read its own response.
Clean ==
    phase = "reading" /\ req.faults \subseteq {"mixed"} =>
        /\ socket = "up" /\ ~eof /\ ~HasError
        /\ \/ parser = "start" /\ Len(Stream) = 2 /\ Stream[1].part = "head_length"
           \/ parser = "body" /\ Len(Stream) = 1

\* The inductive invariant: the two properties, and what keeps them true.
ClientInv == ClientTypeOK /\ Connection /\ InStep /\ SoFar /\ Clean /\ Truthful /\ NoFalseFailure

-------------------------------------------------------------------------------
(* Client: one segment after the other *)

\* What holds of 0 and is passed on holds up to n.
LEMMA UpTo ==
    ASSUME NEW n \in Nat, NEW good \in SUBSET Nat, 0 \in good,
           \A i \in 1..n : i - 1 \in good => i \in good
    PROVE  0..n \subseteq good
<1> DEFINE R == OpToRel(<, Nat)
           bad == {i \in 0..n : i \notin good}
<1> SUFFICES ASSUME bad # {} PROVE FALSE
  OBVIOUS
<1>1. bad \subseteq Nat
  OBVIOUS
<1>2. PICK m \in bad : \A i \in bad : ~(<<i, m>> \in R)
  <2> HIDE DEF R, bad
  <2> QED
    BY <1>1, NatLessThanWellFounded, WFMin DEF R
<1>3. m \in 1..n /\ m - 1 \in Nat /\ m - 1 < m /\ m - 1 \in 0..n
  OBVIOUS
<1>4. m - 1 \notin bad
  <2>1. \A i \in Nat : i < m => <<i, m>> \in R
    BY DEF OpToRel
  <2> HIDE DEF R, bad
  <2> QED
    BY <1>2, <1>3, <2>1
<1> QED
  BY <1>3, <1>4

\* What llhttp and its callbacks keep: the state of the parser and the response.
Parser == [parser : ParserStates, resp : Responses]

\* The states of a parser that is given one segment after the other.
IsRun(run, p, segs) ==
    run = [i \in 0..Len(segs) |-> IF i = 0 THEN p ELSE Execute(run[i - 1], segs[i])]

\* The definition of llhttp_execute is one of them.
LEMMA RunExists ==
    ASSUME NEW p, NEW segs \in Seq(Segments)
    PROVE  \E run : IsRun(run, p, segs)
<1> DEFINE is(g, k) == g = [i \in 0..k |-> IF i = 0 THEN p ELSE Execute(g[i - 1], segs[i])]
           good == {k \in Nat : \E g : is(g, k)}
<1>0. Len(segs) \in Nat
  BY LenProperties
<1>1. 0 \in good
  <2> DEFINE g == [i \in 0..0 |-> p]
  <2>1. is(g, 0)
    OBVIOUS
  <2> QED
    BY <2>1
<1>2. ASSUME NEW k \in 1..Len(segs), k - 1 \in good PROVE k \in good
  <2>1. PICK g : is(g, k - 1)
    BY <1>2
  <2> DEFINE h == [i \in 0..k |-> IF i = k THEN Execute(g[k - 1], segs[k]) ELSE g[i]]
  <2>2. ASSUME NEW i \in 0..k
        PROVE  h[i] = IF i = 0 THEN p ELSE Execute(h[i - 1], segs[i])
    <3>1. k \in Nat /\ k # 0 /\ i \in Nat
      BY <1>0
    <3>2. CASE i = k
      <4>1. h[k] = Execute(g[k - 1], segs[k])
        BY <3>1
      <4>2. h[k - 1] = g[k - 1]
        BY <3>1
      <4> HIDE DEF h
      <4> QED
        BY <3>1, <3>2, <4>1, <4>2
    <3>3. CASE i # k
      <4>1. i \in 0..(k - 1) /\ h[i] = g[i]
        BY <3>1, <3>3
      <4>2. g[i] = IF i = 0 THEN p ELSE Execute(g[i - 1], segs[i])
        BY <2>1, <4>1, Zenon
      <4>3. i # 0 => h[i - 1] = g[i - 1]
        BY <3>1, <3>3
      <4> HIDE DEF h
      <4> QED
        BY <4>1, <4>2, <4>3
    <3> QED
      BY <3>2, <3>3
  <2>3. is(h, k)
    <3> DEFINE h2 == [i \in 0..k |-> IF i = 0 THEN p ELSE Execute(h[i - 1], segs[i])]
    <3>1. \A i \in 0..k : h[i] = h2[i]
      BY <2>2
    <3>2. h = [i \in 0..k |-> h[i]]
      OBVIOUS
    <3>3. h2 = [i \in 0..k |-> h2[i]]
      OBVIOUS
    <3> HIDE DEF h, h2
    <3>4. h = h2
      BY <3>1, <3>2, <3>3
    <3> QED
      BY <3>4 DEF h2
  <2>4. k \in Nat
    OBVIOUS
  <2> QED
    BY <2>3, <2>4
<1>3. good \in SUBSET Nat
  OBVIOUS
<1> HIDE DEF good
<1>4. Len(segs) \in good
  <2> DEFINE n == Len(segs)
  <2>1. \A i \in 1..n : i - 1 \in good => i \in good
    BY <1>2
  <2>2. n \in Nat /\ n \in 0..n
    BY <1>0
  <2> HIDE DEF n
  <2>3. 0..n \subseteq good
    BY <1>1, <1>3, <2>1, <2>2, UpTo
  <2> QED
    BY <2>2, <2>3 DEF n
<1> USE DEF good
<1>5. PICK g : is(g, Len(segs))
  BY <1>4
<1> QED
  BY <1>5 DEF IsRun

\* llhttp_execute gives the last of these states.
LEMMA ExecuteRun ==
    ASSUME NEW segs \in Seq(Segments)
    PROVE  \E run : /\ llhttp_execute(segs) = run[Len(segs)]
                    /\ IsRun(run, [parser |-> parser, resp |-> resp], segs)
<1> DEFINE p == [parser |-> parser, resp |-> resp]
           run == CHOOSE r : IsRun(r, p, segs)
<1>1. IsRun(run, p, segs)
  <2> HIDE DEF p
  <2> QED
    BY RunExists
<1>2. llhttp_execute(segs) = run[Len(segs)]
  BY DEF llhttp_execute, IsRun
<1> HIDE DEF run
<1> QED
  BY <1>1, <1>2

\* One segment after the other.
LEMMA RunSteps ==
    ASSUME NEW p, NEW segs \in Seq(Segments), NEW run, IsRun(run, p, segs)
    PROVE  /\ run[0] = p
           /\ \A i \in 1..Len(segs) : run[i] = Execute(run[i - 1], segs[i])
<1>1. Len(segs) \in Nat
  BY LenProperties
<1> DEFINE next(i) == IF i = 0 THEN p ELSE Execute(run[i - 1], segs[i])
<1>2. run = [i \in 0..Len(segs) |-> next(i)]
  BY DEF IsRun
<1> HIDE DEF next
<1>3. \A i \in 0..Len(segs) : run[i] = next(i)
  BY <1>2
<1> QED
  BY <1>1, <1>3 DEF next

\* What one segment makes of a parser.
LEMMA ExecuteOne ==
    ASSUME NEW p \in Parser, NEW seg \in Segments, NEW q, q = Execute(p, seg)
    PROVE  /\ q \in Parser
           /\ p.parser = "failed" => q.parser = "failed"
           /\ p.parser = "body_until_close" =>
                  q.parser = "body_until_close" /\ q.resp.complete = p.resp.complete
           /\ p.parser = "body" =>
                  /\ q.parser = "start" /\ q.resp.complete = "message"
                  /\ q.resp.body = Append(p.resp.body, seg) /\ q.resp.heads = p.resp.heads
           /\ p.parser = "start" /\ seg.part = "head_length" =>
                  /\ q.parser = "body" /\ q.resp.complete = "header"
                  /\ q.resp.body = <<>> /\ q.resp.heads = Append(p.resp.heads, seg.of)
           /\ p.parser = "start" /\ seg.part = "head_close" =>
                  q.parser = "body_until_close" /\ q.resp.complete = "header"
           /\ p.parser = "start" /\ seg.part \notin {"head_length", "head_close"} =>
                  q.parser = "failed"
<1>1. /\ p = [parser |-> p.parser, resp |-> p.resp]
      /\ p.resp = [complete |-> p.resp.complete, heads |-> p.resp.heads, body |-> p.resp.body]
      /\ p.resp.heads \in Seq(0..MaxRequests) /\ p.resp.body \in Seq(Segments)
      /\ p.parser \in {"start", "body", "body_until_close", "failed"} /\ seg.of \in 0..MaxRequests
      /\ p.resp.complete \in {"none", "header", "message"}
  BY DEF Parser, ParserStates, Responses, Segments
<1>2. /\ Append(p.resp.heads, seg.of) \in Seq(0..MaxRequests)
      /\ Append(p.resp.body, seg) \in Seq(Segments) /\ <<>> \in Seq(Segments)
      /\ <<>> \in Seq(Segments)
  BY <1>1, AppendProperties
<1> DEFINE parse(state, complete, heads, body) ==
               [parser |-> state, resp |-> [complete |-> complete, heads |-> heads, body |-> body]]
<1>3. CASE p.parser = "failed"
  BY <1>3 DEF Execute
<1>4. CASE p.parser = "body"
  <2>1. Execute(p, seg) = parse("start", "message", p.resp.heads, Append(p.resp.body, seg))
    BY <1>1, <1>4 DEF Execute, on_message_complete, on_body
  <2> QED
    BY <1>1, <1>2, <1>4, <2>1 DEF Parser, ParserStates, Responses
<1>5. CASE p.parser = "body_until_close"
  <2>1. Execute(p, seg) = parse("body_until_close", p.resp.complete, p.resp.heads, Append(p.resp.body, seg))
    BY <1>1, <1>5 DEF Execute, on_body
  <2> QED
    BY <1>1, <1>2, <1>5, <2>1 DEF Parser, ParserStates, Responses
<1>6. CASE p.parser = "start" /\ seg.part = "head_length"
  <2>1. Execute(p, seg) = parse("body", "header", Append(p.resp.heads, seg.of), <<>>)
    BY <1>1, <1>6 DEF Execute, on_headers_complete, on_message_begin
  <2> QED
    BY <1>1, <1>2, <1>6, <2>1 DEF Parser, ParserStates, Responses
<1>7. CASE p.parser = "start" /\ seg.part = "head_close"
  <2>1. Execute(p, seg) = parse("body_until_close", "header", Append(p.resp.heads, seg.of), <<>>)
    BY <1>1, <1>7 DEF Execute, on_headers_complete, on_message_begin
  <2> QED
    BY <1>1, <1>2, <1>7, <2>1 DEF Parser, ParserStates, Responses
<1>8. CASE p.parser = "start" /\ seg.part \notin {"head_length", "head_close"}
  <2>1. Execute(p, seg) = parse("failed", "none", p.resp.heads, <<>>)
    BY <1>1, <1>8 DEF Execute, on_message_begin
  <2> QED
    BY <1>1, <1>2, <1>8, <2>1 DEF Parser, ParserStates, Responses
<1> QED
  BY <1>1, <1>3, <1>4, <1>5, <1>6, <1>7, <1>8

\* A parser keeps its type; an error, and a body without a length, are for good.
LEMMA RunGoesOn ==
    ASSUME NEW p \in Parser, NEW segs \in Seq(Segments), NEW run, IsRun(run, p, segs),
           NEW k \in 0..Len(segs)
    PROVE  /\ run[k] \in Parser /\ run[Len(segs)] \in Parser
           /\ run[k].parser = "failed" => run[Len(segs)].parser = "failed"
           /\ run[k].parser = "body_until_close" =>
                  /\ run[Len(segs)].parser = "body_until_close"
                  /\ run[Len(segs)].resp.complete = run[k].resp.complete
<1> DEFINE n == Len(segs)
           typed == {i \in Nat : run[i] \in Parser}
           same(i) == /\ run[k].parser = "failed" => run[i].parser = "failed"
                      /\ run[k].parser = "body_until_close" =>
                             /\ run[i].parser = "body_until_close"
                             /\ run[i].resp.complete = run[k].resp.complete
           good == {i \in Nat : i >= k => same(i)}
<1>1. n \in Nat /\ k \in 0..n /\ n \in 0..n /\ k \in Nat
  BY LenProperties
<1>2. run[0] = p /\ \A i \in 1..n : run[i] = Execute(run[i - 1], segs[i]) /\ segs[i] \in Segments
  BY RunSteps, ElementOfSeq
<1> HIDE DEF n
<1>3. 0..n \subseteq typed
  <2>1. \A i \in 1..n : i - 1 \in typed => i \in typed
    <3> SUFFICES ASSUME NEW i \in 1..n, run[i - 1] \in Parser PROVE run[i] \in Parser
      BY <1>1
    <3> QED
      BY <1>2, ExecuteOne
  <2>2. 0 \in typed /\ typed \in SUBSET Nat
    BY <1>2
  <2> HIDE DEF typed
  <2> QED
    BY <1>1, <2>1, <2>2, UpTo
<1>4. \A i \in 0..n : run[i] \in Parser
  BY <1>3
<1>5. 0..n \subseteq good
  <2>1. ASSUME NEW i \in 1..n, i - 1 \in good PROVE i \in good
    <3>1. i \in Nat /\ i - 1 \in 0..n
      BY <1>1
    <3>2. CASE i < k
      BY <1>1, <3>1, <3>2
    <3>3. CASE i = k
      BY <1>1, <3>1, <3>3
    <3>4. CASE i > k
      <4>1. same(i - 1)
        BY <1>1, <2>1, <3>1, <3>4
      <4>2. run[i] = Execute(run[i - 1], segs[i]) /\ segs[i] \in Segments /\ run[i - 1] \in Parser
        BY <1>2, <1>4, <3>1
      <4>3. /\ run[i - 1].parser = "failed" => run[i].parser = "failed"
            /\ run[i - 1].parser = "body_until_close" =>
                   /\ run[i].parser = "body_until_close"
                   /\ run[i].resp.complete = run[i - 1].resp.complete
        <5> DEFINE a == run[i - 1]
                   b == run[i]
        <5>1. a \in Parser /\ b = Execute(a, segs[i]) /\ segs[i] \in Segments
          BY <4>2
        <5> HIDE DEF a, b
        <5>2. /\ a.parser = "failed" => b.parser = "failed"
              /\ a.parser = "body_until_close" =>
                     b.parser = "body_until_close" /\ b.resp.complete = a.resp.complete
          BY <5>1, ExecuteOne
        <5> QED
          BY <5>2 DEF a, b
      <4>4. same(i)
        BY <4>1, <4>3
      <4> QED
        BY <3>1, <4>4
    <3> QED
      BY <1>1, <3>1, <3>2, <3>3, <3>4
  <2>2. 0 \in good /\ good \in SUBSET Nat
    BY <1>1
  <2> HIDE DEF good
  <2> QED
    BY <1>1, <2>1, <2>2, UpTo
<1>6. same(n)
  BY <1>1, <1>5
<1> QED
  BY <1>1, <1>4, <1>6 DEF n

\* What llhttp makes of the segments of one read.
LEMMA Outcome ==
    ASSUME parser \in ParserStates, resp \in Responses,
           NEW segs \in Seq(Segments), segs # <<>>, NEW q, q = llhttp_execute(segs)
    PROVE  /\ q \in Parser
           /\ parser = "failed" => q.parser = "failed"
           /\ parser = "body_until_close" =>
                  q.parser = "body_until_close" /\ q.resp.complete = resp.complete
           /\ parser = "start" /\ segs[1].part = "head_length" /\ Len(segs) = 1 =>
                  /\ q.parser = "body" /\ q.resp.complete = "header"
                  /\ q.resp.body = <<>> /\ q.resp.heads = Append(resp.heads, segs[1].of)
           /\ parser = "start" /\ segs[1].part = "head_length" /\ Len(segs) = 2 =>
                  /\ q.parser = "start" /\ q.resp.complete = "message"
                  /\ q.resp.body = Append(<<>>, segs[2])
                  /\ q.resp.heads = Append(resp.heads, segs[1].of)
           /\ parser = "start" /\ segs[1].part = "head_close" =>
                  q.parser = "body_until_close" /\ q.resp.complete = "header"
           /\ parser = "start" /\ segs[1].part \notin {"head_length", "head_close"} =>
                  q.parser = "failed"
           /\ parser = "body" /\ Len(segs) = 1 =>
                  /\ q.parser = "start" /\ q.resp.complete = "message"
                  /\ q.resp.body = Append(resp.body, segs[1]) /\ q.resp.heads = resp.heads
           /\ parser = "body" /\ Len(segs) >= 2 /\ segs[2].part = "body" => q.parser = "failed"
<1> DEFINE p == [parser |-> parser, resp |-> resp]
           n == Len(segs)
<1>0. p \in Parser /\ p.parser = parser /\ p.resp = resp
  BY DEF Parser, ParserStates
<1>1. n \in Nat /\ n >= 1 /\ 1 \in 0..n /\ 0 \in 0..n /\ n \in 1..n /\ 1 \in 1..n
  BY EmptySeq, LenProperties
<1>2. PICK run : q = run[n] /\ IsRun(run, p, segs)
  BY ExecuteRun
<1> HIDE DEF p, n
<1>3. run[0] = p /\ \A i \in 1..n : run[i] = Execute(run[i - 1], segs[i]) /\ segs[i] \in Segments
  BY <1>2, RunSteps, ElementOfSeq DEF n
<1> DEFINE a == run[1]
           b == run[2]
<1>4. a = Execute(p, segs[1]) /\ segs[1] \in Segments
  BY <1>1, <1>3
<1>5. n >= 2 => 2 \in 0..n /\ b = Execute(a, segs[2]) /\ segs[2] \in Segments
  BY <1>1, <1>3
<1>6. \A k \in 0..n : /\ run[k] \in Parser /\ q \in Parser
                      /\ run[k].parser = "failed" => q.parser = "failed"
                      /\ run[k].parser = "body_until_close" =>
                             q.parser = "body_until_close" /\ q.resp.complete = run[k].resp.complete
  BY <1>0, <1>2, RunGoesOn DEF n
<1>7. /\ q \in Parser
      /\ a \in Parser
      /\ p.parser = "failed" => q.parser = "failed"
      /\ a.parser = "failed" => q.parser = "failed"
      /\ n >= 2 /\ b.parser = "failed" => q.parser = "failed"
      /\ p.parser = "body_until_close" =>
             q.parser = "body_until_close" /\ q.resp.complete = p.resp.complete
      /\ a.parser = "body_until_close" =>
             q.parser = "body_until_close" /\ q.resp.complete = a.resp.complete
      /\ n = 1 => q = a
      /\ n = 2 => q = b
  BY <1>1, <1>2, <1>3, <1>5, <1>6
<1> HIDE DEF a, b
<1>8. CASE parser = "failed" \/ parser = "body_until_close"
  BY <1>0, <1>7, <1>8
<1>9. CASE parser = "start"
  <2>1. /\ segs[1].part = "head_length" =>
               /\ a.parser = "body" /\ a.resp.complete = "header"
               /\ a.resp.body = <<>> /\ a.resp.heads = Append(resp.heads, segs[1].of)
        /\ segs[1].part = "head_close" =>
               a.parser = "body_until_close" /\ a.resp.complete = "header"
        /\ segs[1].part \notin {"head_length", "head_close"} => a.parser = "failed"
    <3>1. p \in Parser /\ p.parser = "start" /\ p.resp.heads = resp.heads
      BY <1>0, <1>9
    <3>2. /\ segs[1].part = "head_length" =>
                 /\ a.parser = "body" /\ a.resp.complete = "header"
                 /\ a.resp.body = <<>> /\ a.resp.heads = Append(p.resp.heads, segs[1].of)
          /\ segs[1].part = "head_close" =>
                 a.parser = "body_until_close" /\ a.resp.complete = "header"
          /\ segs[1].part \notin {"head_length", "head_close"} => a.parser = "failed"
      BY <1>4, <3>1, ExecuteOne
    <3> QED
      BY <3>1, <3>2
  <2>2. segs[1].part = "head_length" /\ n = 2 =>
               /\ b.parser = "start" /\ b.resp.complete = "message"
               /\ b.resp.body = Append(<<>>, segs[2])
               /\ b.resp.heads = Append(resp.heads, segs[1].of)
    <3> SUFFICES ASSUME segs[1].part = "head_length", n = 2
                 PROVE  /\ b.parser = "start" /\ b.resp.complete = "message"
                        /\ b.resp.body = Append(<<>>, segs[2])
                        /\ b.resp.heads = Append(resp.heads, segs[1].of)
      OBVIOUS
    <3>1. b = Execute(a, segs[2]) /\ segs[2] \in Segments
      BY <1>5
    <3>2. a \in Parser /\ a.parser = "body"
      BY <1>7, <2>1
    <3>3. /\ b.parser = "start" /\ b.resp.complete = "message"
          /\ b.resp.body = Append(a.resp.body, segs[2]) /\ b.resp.heads = a.resp.heads
      BY <3>1, <3>2, ExecuteOne
    <3> QED
      BY <2>1, <3>3
  <2> QED
    BY <1>7, <1>9, <2>1, <2>2 DEF n
<1>10. CASE parser = "body"
  <2>1. /\ a.parser = "start" /\ a.resp.complete = "message"
        /\ a.resp.body = Append(resp.body, segs[1]) /\ a.resp.heads = resp.heads
    BY <1>0, <1>4, <1>10, ExecuteOne
  <2>2. n >= 2 /\ segs[2].part = "body" => b.parser = "failed"
    BY <1>5, <1>7, <2>1, ExecuteOne
  <2> QED
    BY <1>7, <1>10, <2>1, <2>2 DEF n
<1> QED
  BY <1>8, <1>9, <1>10 DEF ParserStates

-------------------------------------------------------------------------------
(* Client: what has arrived and what is to come *)

\* The elements of two sequences one after the other.
LEMMA Joined ==
    ASSUME NEW S, NEW a \in Seq(S), NEW b \in Seq(S)
    PROVE  /\ a \o b \in Seq(S) /\ Len(a) \in Nat /\ Len(b) \in Nat
           /\ Len(a \o b) = Len(a) + Len(b)
           /\ \A i \in 1..Len(a) : (a \o b)[i] = a[i]
           /\ \A i \in 1..Len(b) : (a \o b)[Len(a) + i] = b[i]
           /\ a \o b = <<>> <=> Len(a) + Len(b) = 0
           /\ a \o b # <<>> <=> Len(a) + Len(b) >= 1
<1> DEFINE c == a \o b
<1>1. Len(a) \in Nat /\ Len(b) \in Nat
  BY LenProperties
<1>2. /\ c \in Seq(S) /\ Len(c) = Len(a) + Len(b)
      /\ \A i \in 1..(Len(a) + Len(b)) : c[i] = IF i <= Len(a) THEN a[i] ELSE b[i - Len(a)]
  BY ConcatProperties
<1>3. c = <<>> <=> Len(c) = 0
  BY <1>2, EmptySeq
<1> HIDE DEF c
<1>4. \A i \in 1..Len(a) : c[i] = a[i]
  BY <1>1, <1>2
<1>5. ASSUME NEW i \in 1..Len(b) PROVE c[Len(a) + i] = b[i]
  <2>1. Len(a) + i \in 1..(Len(a) + Len(b)) /\ ~(Len(a) + i <= Len(a)) /\ (Len(a) + i) - Len(a) = i
    BY <1>1
  <2> QED
    BY <1>2, <2>1
<1> QED
  BY <1>1, <1>2, <1>3, <1>4, <1>5 DEF c

\* Sending a segment on moves it from one sequence to the other.
LEMMA Moved ==
    ASSUME NEW S, NEW a \in Seq(S), NEW b \in Seq(S), b # <<>>
    PROVE  /\ Append(a, Head(b)) \in Seq(S) /\ Tail(b) \in Seq(S)
           /\ Append(a, Head(b)) \o Tail(b) = a \o b
           /\ Head(b) = b[1] /\ Head(b) = (a \o b)[Len(a) + 1]
<1> DEFINE x == Head(b)
           a2 == Append(a, Head(b))
           b2 == Tail(b)
<1>1. /\ x \in S /\ b2 \in Seq(S) /\ Len(b2) = Len(b) - 1 /\ x = b[1]
      /\ \A i \in 1..Len(b2) : b2[i] = b[i + 1]
      /\ Len(a) \in Nat /\ Len(b) \in Nat /\ Len(b) >= 1
  BY HeadTailProperties, LenProperties, EmptySeq
<1>2. /\ a2 \in Seq(S) /\ Len(a2) = Len(a) + 1
      /\ \A i \in 1..Len(a) : a2[i] = a[i]
      /\ a2[Len(a) + 1] = x
  BY <1>1, AppendProperties
<1>3. /\ a \o b \in Seq(S) /\ Len(a \o b) = Len(a) + Len(b)
      /\ \A i \in 1..Len(a) : (a \o b)[i] = a[i]
      /\ \A i \in 1..Len(b) : (a \o b)[Len(a) + i] = b[i]
  BY Joined
<1> HIDE DEF x, a2, b2
<1>4. /\ a2 \o b2 \in Seq(S) /\ Len(a2 \o b2) = Len(a2) + Len(b2)
      /\ \A i \in 1..Len(a2) : (a2 \o b2)[i] = a2[i]
      /\ \A i \in 1..Len(b2) : (a2 \o b2)[Len(a2) + i] = b2[i]
  <2>1. a2 \in Seq(S) /\ b2 \in Seq(S)
    BY <1>1, <1>2
  <2> QED
    BY <2>1, Joined
<1> DEFINE c == a \o b
           c2 == a2 \o b2
<1>c. /\ c \in Seq(S) /\ c2 \in Seq(S)
      /\ Len(c) = Len(a) + Len(b) /\ Len(c2) = Len(a2) + Len(b2)
      /\ \A i \in 1..Len(a) : c[i] = a[i]
      /\ \A i \in 1..Len(b) : c[Len(a) + i] = b[i]
      /\ \A i \in 1..Len(a2) : c2[i] = a2[i]
      /\ \A i \in 1..Len(b2) : c2[Len(a2) + i] = b2[i]
  BY <1>3, <1>4
<1> HIDE DEF c, c2
<1>5. Len(c2) = Len(c)
  BY <1>1, <1>2, <1>c
<1>6. c[Len(a) + 1] = b[1]
  BY <1>1, <1>c
<1>7. ASSUME NEW i \in 1..Len(c) PROVE c2[i] = c[i]
  <2>1. CASE i <= Len(a)
    <3>1. i \in 1..Len(a) /\ i \in 1..Len(a2)
      BY <1>1, <1>2, <1>c, <2>1
    <3> QED
      BY <1>2, <1>c, <3>1
  <2>2. CASE i = Len(a) + 1
    <3>1. i \in 1..Len(a2)
      BY <1>1, <1>2, <2>2
    <3> QED
      BY <1>1, <1>2, <1>6, <1>c, <2>2, <3>1
  <2>3. CASE i > Len(a) + 1
    <3> DEFINE j == i - (Len(a) + 1)
    <3>0. i \in Nat /\ Len(a) \in Nat
      BY <1>1, <1>c
    <3>1. j \in Nat /\ j = i - (Len(a) + 1)
      BY <3>0, <2>3
    <3> HIDE DEF j
    <3>2. j \in 1..Len(b2) /\ j + 1 \in 1..Len(b) /\ i = Len(a2) + j /\ i = Len(a) + (j + 1)
      BY <1>1, <1>2, <1>c, <2>3, <3>1
    <3>3. c2[i] = b2[j]
      BY <1>c, <3>2
    <3>4. c[i] = b[j + 1]
      BY <1>c, <3>2
    <3> QED
      BY <1>1, <3>2, <3>3, <3>4
  <2>4. i \in Nat /\ Len(a) \in Nat
    BY <1>1, <1>c
  <2> QED
    BY <2>1, <2>2, <2>3, <2>4
<1>8. c2 = c
  <2>1. c \in Seq(S) /\ c2 \in Seq(S)
    BY <1>c
  <2> QED
    BY <1>5, <1>7, <2>1, SeqEqual
<1> QED
  BY <1>1, <1>2, <1>6, <1>8 DEF x, a2, b2, c, c2

\* A first part and the rest of what has arrived.
LEMMA Taken ==
    ASSUME NEW S, NEW a \in Seq(S), NEW b \in Seq(S), NEW k \in 0..Len(a)
    PROVE  /\ SubSeq(a, 1, k) \in Seq(S) /\ Len(SubSeq(a, 1, k)) = k
           /\ \A i \in 1..k : SubSeq(a, 1, k)[i] = (a \o b)[i]
           /\ SubSeq(a, k + 1, Len(a)) \in Seq(S)
           /\ Len(SubSeq(a, k + 1, Len(a)) \o b) = Len(a \o b) - k
           /\ \A i \in 1..(Len(a \o b) - k) : (SubSeq(a, k + 1, Len(a)) \o b)[i] = (a \o b)[k + i]
<1>0. Len(a) \in Nat /\ Len(b) \in Nat /\ k \in Nat /\ k <= Len(a) /\ \A i \in 1..Len(a) : a[i] \in S
  BY LenProperties, ElementOfSeq
<1>1. /\ a \o b \in Seq(S) /\ Len(a \o b) = Len(a) + Len(b)
      /\ \A i \in 1..Len(a) : (a \o b)[i] = a[i]
      /\ \A i \in 1..Len(b) : (a \o b)[Len(a) + i] = b[i]
  BY Joined
<1> DEFINE f == SubSeq(a, 1, k)
           m == k + 1
           r == SubSeq(a, m, Len(a))
<1>2. /\ f \in Seq(S) /\ Len(f) = k /\ \A i \in 1..k : f[i] = a[i]
  <2>1. \A i \in 1..k : a[i] \in S
    BY <1>0
  <2>2. /\ f \in Seq(S) /\ Len(f) = IF 1 <= k THEN k - 1 + 1 ELSE 0
        /\ \A i \in 1..(k - 1 + 1) : f[i] = a[1 + i - 1]
    BY <1>0, <2>1, SubSeqProperties
  <2> HIDE DEF f
  <2>3. Len(f) = k
    BY <1>0, <2>2
  <2>4. ASSUME NEW i \in 1..k PROVE f[i] = a[i]
    <3>1. i \in 1..(k - 1 + 1) /\ 1 + i - 1 = i
      BY <1>0
    <3> QED
      BY <2>2, <3>1
  <2> QED
    BY <2>2, <2>3, <2>4
<1>3. m \in Int /\ m = k + 1 /\ Len(a) \in Int /\ m \in Nat /\ m >= 1
  BY <1>0
<1> HIDE DEF m
<1>4. /\ r \in Seq(S) /\ Len(r) = IF m <= Len(a) THEN Len(a) - m + 1 ELSE 0
      /\ \A i \in 1..(Len(a) - m + 1) : r[i] = a[m + i - 1]
  <2>1. \A i \in m..Len(a) : a[i] \in S
    BY <1>0, <1>3
  <2> QED
    BY <1>3, <2>1, SubSeqProperties
<1> HIDE DEF f, r
<1>5. Len(r) = Len(a) - k
  BY <1>0, <1>3, <1>4
<1>6. ASSUME NEW i \in 1..Len(r) PROVE r[i] = a[k + i]
  <2>1. i \in 1..(Len(a) - m + 1) /\ m + i - 1 = k + i
    BY <1>0, <1>3, <1>5
  <2> QED
    BY <1>4, <2>1
<1>7. /\ r \o b \in Seq(S) /\ Len(r \o b) = Len(r) + Len(b)
      /\ \A i \in 1..Len(r) : (r \o b)[i] = r[i]
      /\ \A i \in 1..Len(b) : (r \o b)[Len(r) + i] = b[i]
  <2>1. r \in Seq(S)
    BY <1>4
  <2> QED
    BY <2>1, Joined
<1> DEFINE c == a \o b
           d == r \o b
<1>c. /\ Len(c) = Len(a) + Len(b) /\ Len(d) = Len(r) + Len(b)
      /\ \A i \in 1..Len(a) : c[i] = a[i]
      /\ \A i \in 1..Len(b) : c[Len(a) + i] = b[i]
      /\ \A i \in 1..Len(r) : d[i] = r[i]
      /\ \A i \in 1..Len(b) : d[Len(r) + i] = b[i]
  BY <1>1, <1>7
<1> HIDE DEF c, d
<1>8. Len(d) = Len(c) - k
  BY <1>0, <1>c, <1>5, <1>c
<1>9. ASSUME NEW i \in 1..(Len(c) - k) PROVE d[i] = c[k + i]
  <2>1. CASE i <= Len(r)
    <3>1. i \in 1..Len(r) /\ k + i \in 1..Len(a)
      BY <1>0, <1>c, <1>5, <2>1
    <3> QED
      BY <1>c, <1>6, <3>1
  <2>2. CASE i > Len(r)
    <3> DEFINE j == i - Len(r)
    <3>0. i \in Nat /\ Len(r) \in Nat
      BY <1>0, <1>c, <1>5
    <3>1. j \in Nat /\ j = i - Len(r)
      BY <3>0, <2>2
    <3> HIDE DEF j
    <3>2. j \in 1..Len(b) /\ i = Len(r) + j /\ k + i = Len(a) + j
      BY <1>0, <1>c, <1>5, <2>2, <3>1
    <3>3. d[i] = b[j]
      BY <1>c, <3>2
    <3>4. c[k + i] = b[j]
      BY <1>c, <3>2
    <3> QED
      BY <3>3, <3>4
  <2> QED
    BY <1>0, <1>c, <1>5, <2>1, <2>2
<1>10. \A i \in 1..k : f[i] = c[i]
  BY <1>0, <1>c, <1>2
<1> QED
  BY <1>2, <1>4, <1>8, <1>9, <1>10 DEF f, r, m, c, d

-------------------------------------------------------------------------------
(* Client: the types *)

\* The connection is closed, or the bytes left stay.
Gone == /\ is_connected' = FALSE /\ socket' = "closed"
        /\ wire' = <<>> /\ todo' = <<>> /\ eof' = FALSE
Stays(left) ==
    /\ wire' = left /\ todo' = todo /\ eof' = eof
               /\ is_connected' = is_connected /\ socket' = socket

\* do_close closes what _is_connected says is connected, and leaves the rest.
LEMMA CloseOutcome ==
    ASSUME NEW left
    PROVE  /\ do_close(left) => (is_connected /\ Gone) \/ (~is_connected /\ Stays(left))
           /\ CloseIfAsked(left) => (req.action = "close_connection" /\ do_close(left)) \/ Stays(left)
<1>1. CASE is_connected
  BY <1>1 DEF do_close, CloseIfAsked, Gone, Stays
<1>2. CASE ~is_connected
  BY <1>2 DEF do_close, CloseIfAsked, Gone, Stays
<1> QED
  BY <1>1, <1>2

\* Nothing to be read.
LEMMA EmptySegments == <<>> \in Seq(Segments)
  BY EmptySeq

\* The types of the connection.
NetTypes == /\ is_connected \in BOOLEAN /\ eof \in BOOLEAN /\ socket \in {"closed", "raw", "up"}
            /\ wire \in Seq(Segments) /\ todo \in Seq(Segments)

\* What the server sends.
LEMMA ResponseTypes ==
    ASSUME NEW n \in 0..MaxRequests, NEW kind \in {"length", "until_close", "malformed"}
    PROVE  /\ Response(n, kind) \in Seq(Segments)
           /\ kind = "length" => /\ Len(Response(n, kind)) = 2
                                 /\ Response(n, kind)[1] = Seg(n, "head_length")
                                 /\ Response(n, kind)[2] = Seg(n, "body")
           /\ kind = "until_close" => /\ Len(Response(n, kind)) = 3
                                      /\ Response(n, kind)[1] = Seg(n, "head_close")
                                      /\ Response(n, kind)[2] = Seg(n, "body")
                                      /\ Response(n, kind)[3] = Seg(n, "fin")
           /\ kind = "malformed" => /\ Len(Response(n, kind)) = 1
                                    /\ Response(n, kind)[1] = Seg(n, "bad")
<1> DEFINE a == Seg(n, "head_length")
           b == Seg(n, "head_close")
           c == Seg(n, "body")
           d == Seg(n, "fin")
           e == Seg(n, "bad")
<1>1. a \in Segments /\ b \in Segments /\ c \in Segments /\ d \in Segments /\ e \in Segments
  BY DEF Seg, Segments
<1>2. Response(n, kind) = CASE kind = "length" -> <<a, c>>
                            [] kind = "until_close" -> <<b, c, d>>
                            [] kind = "malformed" -> <<e>>
  BY DEF Response
<1> HIDE DEF a, b, c, d, e
<1>3. CASE kind = "length"
  BY <1>1, <1>2, <1>3 DEF a, c
<1>4. CASE kind = "until_close"
  BY <1>1, <1>2, <1>4 DEF b, c, d
<1>5. CASE kind = "malformed"
  BY <1>1, <1>2, <1>5 DEF e
<1> QED
  BY <1>3, <1>4, <1>5

\* What a write finds against its request is one of the faults.
LEMMA FaultTypes ==
    ASSUME NEW kind \in {"length", "until_close", "malformed"}, NEW intact \in BOOLEAN
    PROVE  FaultsFound(kind, intact) \in SUBSET Faults
  BY DEF FaultsFound, Faults

\* A new client, whatever its _error holds.
LEMMA ClientInitTypes == ClientInit => ClientTypeOK
<1> SUFFICES ASSUME ClientInit PROVE ClientTypeOK
  OBVIOUS
<1>1. <<>> \in Seq(Segments) /\ <<>> \in Seq(0..MaxRequests)
  BY EmptySeq
<1>2. NoResponse \in Responses
  BY <1>1 DEF NoResponse, Responses
<1>3. 0 \in 0..MaxRequests /\ {} \in SUBSET Faults
  BY ClientAssumption
<1>4. req \in Requests
  BY <1>3 DEF ClientInit, NoRequest, Requests
<1>5. last \in Reports
  BY <1>2, <1>3 DEF ClientInit, NoReport, Reports
<1> QED
  BY <1>1, <1>2, <1>3, <1>4, <1>5 DEF ClientInit, ClientTypeOK, Requests, Reports, Errors, ParserStates

\* The connection after a close, or after none.
LEMMA CloseTypes ==
    ASSUME ClientTypeOK, NEW left \in Seq(Segments), do_close(left) \/ CloseIfAsked(left)
    PROVE  NetTypes'
<1>1. Gone \/ Stays(left)
  BY CloseOutcome
<1> QED
  BY <1>1, EmptySegments DEF Gone, Stays, NetTypes, ClientTypeOK

\* What the steps that report do to the report.
LEMMA ReportTypes ==
    ASSUME NEW n, n \in 0..MaxRequests, NEW ok \in BOOLEAN, NEW err \in BOOLEAN,
           NEW faults \in SUBSET Faults, NEW r \in Responses
    PROVE  [n |-> n, ok |-> ok, err |-> err, faults |-> faults, resp |-> r] \in Reports
  BY DEF Reports

\* A request that fails before it is written.
LEMMA EarlyTypes ==
    ASSUME ClientTypeOK, NEW e \in Errors,
           NEW faults \in SUBSET Faults, FailEarly(e, faults),
           endpoint' \in BOOLEAN, UNCHANGED netVars
    PROVE  ClientTypeOK'
<1>1. /\ req \in Requests /\ resp \in Responses /\ answers \in Nat
  BY DEF ClientTypeOK
<1>2. last' \in Reports
  <2>1. req.faults \cup faults \in SUBSET Faults /\ req.n \in 0..MaxRequests
    BY <1>1 DEF Requests
  <2> QED
    BY <1>1, <2>1, ReportTypes DEF FailEarly
<1>3. answers' \in Nat
  BY <1>1 DEF FailEarly
<1> QED
  BY <1>2, <1>3 DEF FailEarly, End, netVars, ClientTypeOK

\* A request whose read has ended, and one that is issued by its notify.
LEMMA ReadOverTypes ==
    ASSUME ClientTypeOK, NEW ok \in BOOLEAN, NEW e \in Errors, NEW r \in Responses,
           NEW left \in Seq(Segments), ReadOver(ok, e, r, left),
           with_ssl' = with_ssl, endpoint' = endpoint, parser' \in ParserStates
    PROVE  ClientTypeOK'
<1>1. req \in Requests /\ resp \in Responses /\ answers \in Nat /\ issued \in 0..MaxRequests
  BY DEF ClientTypeOK
<1>2. last' \in Reports /\ answers' \in Nat /\ error' \in Errors /\ resp' \in Responses
  <2> DEFINE err == e # "on_none"
  <2>1. req.faults \in SUBSET Faults /\ req.n \in 0..MaxRequests /\ err \in BOOLEAN
    BY <1>1 DEF Requests
  <2>2. last' = [n |-> req.n, ok |-> ok, err |-> err, faults |-> req.faults, resp |-> r]
        /\ answers' = answers + 1 /\ error' = e /\ resp' = r
    BY DEF ReadOver, Tell
  <2> HIDE DEF err
  <2>3. [n |-> req.n, ok |-> ok, err |-> err, faults |-> req.faults, resp |-> r] \in Reports
    BY <2>1, ReportTypes
  <2> QED
    BY <1>1, <2>2, <2>3
<1>3. NetTypes'
  BY CloseTypes DEF ReadOver
<1>4. /\ req' \in Requests /\ issued' \in 0..MaxRequests /\ fresh' \in BOOLEAN
      /\ phase' \in {"idle", "writing", "connecting"}
  <2>1. CASE End
    BY <1>1, <2>1 DEF End
  <2>2. ASSUME NEW action \in {"keep_connection", "close_connection"}, Chain(action)
        PROVE  /\ req' \in Requests /\ issued' \in 0..MaxRequests /\ fresh' \in BOOLEAN
               /\ phase' \in {"idle", "writing", "connecting"}
    <3>1. issued + 1 \in 0..MaxRequests
      BY <1>1, <2>2, ClientAssumption DEF Chain
    <3>2. (IF is_connected THEN {"closed"} ELSE {}) \in SUBSET Faults
      BY DEF Faults
    <3> QED
      BY <2>2, <3>1, <3>2 DEF Chain, NewRequest, Requests, do_connect
  <2> QED
    BY <2>1, <2>2 DEF ReadOver
<1> QED
  BY <1>2, <1>3, <1>4 DEF ClientTypeOK, NetTypes

\* Types are kept by every step.
LEMMA ClientTypeStep == ClientTypeOK /\ [ClientNext]_clientVars => ClientTypeOK'
<1> SUFFICES ASSUME ClientTypeOK, [ClientNext]_clientVars PROVE ClientTypeOK'
  OBVIOUS
<1>0. /\ req \in Requests /\ resp \in Responses /\ answers \in Nat /\ issued \in 0..MaxRequests
      /\ wire \in Seq(Segments) /\ todo \in Seq(Segments) /\ parser \in ParserStates
      /\ error \in Errors /\ Len(wire) \in Nat
      /\ req.n \in 0..MaxRequests /\ req.faults \in SUBSET Faults
  BY LenProperties DEF ClientTypeOK, Requests
<1>00. NoResponse \in Responses
  <2>1. <<>> \in Seq(Segments) /\ <<>> \in Seq(0..MaxRequests)
    BY EmptySeq
  <2> QED
    BY <2>1 DEF NoResponse, Responses
<1>1. ASSUME NEW mode \in {"sync", "async"}, NEW action \in {"keep_connection", "close_connection"},
             Request(mode, action)
      PROVE  ClientTypeOK'
  <2>1. issued + 1 \in 0..MaxRequests
    BY <1>0, <1>1, ClientAssumption DEF Request
  <2>2. req' \in Requests /\ issued' \in 0..MaxRequests
    BY <1>1, <2>1 DEF Request, NewRequest, Requests
  <2>3. last' \in Reports
    BY <1>00, <1>1, ClientAssumption DEF Request, NoReport, Reports
  <2>4. phase' \in {"resolving", "connecting", "writing"}
    BY <1>1 DEF Request, do_connect
  <2> QED
    BY <1>1, <2>2, <2>3, <2>4 DEF Request, netVars, ClientTypeOK
<1>2. CASE on_resolve_error
  BY <1>2, EarlyTypes DEF on_resolve_error, Errors, Faults, ClientTypeOK
<1>3. CASE on_resolve_empty
  <2>1. CASE req.mode = "sync"
    <3>1. FailEarly("on_resolver", {"resolver"}) /\ UNCHANGED endpoint /\ UNCHANGED netVars
      BY <1>3, <2>1 DEF on_resolve_empty
    <3> QED
      BY <3>1, EarlyTypes DEF Errors, Faults, ClientTypeOK
  <2>2. CASE req.mode # "sync"
    BY <1>3, <2>2 DEF on_resolve_empty, netVars, ClientTypeOK, Errors
  <2> QED
    BY <2>1, <2>2
<1>4. CASE on_resolved
  <2>1. CASE FailEarly(error, {"stale_error"})
    <3>1. endpoint' \in BOOLEAN /\ UNCHANGED netVars
      BY <1>4 DEF on_resolved
    <3> QED
      BY <1>0, <2>1, <3>1, EarlyTypes DEF Faults
  <2>2. CASE ~FailEarly(error, {"stale_error"})
    <3>1. /\ endpoint' = TRUE /\ UNCHANGED netVars
          /\ do_connect(is_connected)
          /\ req' = [req EXCEPT !.again = (req.mode = "async")]
          /\ UNCHANGED <<with_ssl, is_connected, error, parser, resp, last,
                         answers, fresh, issued, breaks, calls>>
      BY <1>4, <2>2 DEF on_resolved
    <3>2. req' \in Requests
      BY <1>0, <3>1 DEF Requests
    <3> QED
      BY <3>1, <3>2 DEF do_connect, netVars, ClientTypeOK
  <2> QED
    BY <2>1, <2>2
<1>5. ASSUME Connected, socket' \in {"closed", "raw", "up"}, eof' \in BOOLEAN,
             wire' \in Seq(Segments), todo' \in Seq(Segments)
      PROVE  ClientTypeOK'
  <2>1. req' \in Requests
    BY <1>0, <1>5 DEF Connected, Requests
  <2>2. phase' \in {"connecting", "writing"}
    BY <1>5 DEF Connected, do_connect
  <2> QED
    BY <1>00, <1>5, <2>1, <2>2 DEF Connected, ClientTypeOK, Errors
<1>6. CASE on_connected
  <2>1. wire' \in Seq(Segments) /\ todo' \in Seq(Segments) /\ eof' \in BOOLEAN
    BY <1>6, EmptySegments DEF on_connected
  <2>2. CASE with_ssl /\ req.mode = "async"
    BY <1>6, <2>1, <2>2 DEF on_connected, ClientTypeOK
  <2>3. CASE ~(with_ssl /\ req.mode = "async")
    <3>1. Connected /\ socket' = IF with_ssl THEN "raw" ELSE "up"
      BY <1>6, <2>3 DEF on_connected
    <3> QED
      BY <1>5, <2>1, <3>1
  <2> QED
    BY <2>2, <2>3
<1>7. CASE on_connect_error
  <2> DEFINE f == CASE socket = "closed" -> {"connect"} [] socket = "raw" -> {"open_socket"} [] OTHER -> {}
  <2>1. f \in SUBSET Faults
    BY DEF Faults
  <2>2. FailEarly("on_connect", f) /\ UNCHANGED endpoint /\ UNCHANGED netVars
    BY <1>7 DEF on_connect_error
  <2>3. endpoint' \in BOOLEAN /\ "on_connect" \in Errors
    BY <2>2 DEF ClientTypeOK, Errors
  <2> HIDE DEF f
  <2> QED
    BY <2>1, <2>2, <2>3, EarlyTypes
<1>8. CASE on_handshake
  BY <1>0, <1>5, <1>8 DEF on_handshake, ClientTypeOK
<1>9. CASE on_handshake_error
  BY <1>9, EarlyTypes DEF on_handshake_error, Errors, Faults, ClientTypeOK
<1>10. ASSUME NEW kind \in {"length", "until_close", "malformed"}, NEW intact \in BOOLEAN,
              on_wrote(kind, intact)
       PROVE  ClientTypeOK'
  <2> DEFINE r == [req EXCEPT !.faults = @ \union FaultsFound(kind, intact)]
             n == IF intact THEN req.n ELSE 0
             sent == IF socket = "up" /\ ~eof THEN todo \o Response(n, kind) ELSE todo
  <2>1. r \in Requests
    BY <1>0, FaultTypes DEF Requests
  <2>2. sent \in Seq(Segments)
    <3>1. n \in 0..MaxRequests
      BY <1>0, ClientAssumption
    <3> HIDE DEF n
    <3>2. Response(n, kind) \in Seq(Segments)
      BY <3>1, ResponseTypes
    <3> QED
      BY <1>0, <3>2, ConcatProperties
  <2> HIDE DEF sent
  <2>3. CASE req' = r /\ todo' = sent /\ phase' = "reading"
             /\ UNCHANGED <<is_connected, error, resp, socket, wire, eof, last, answers, fresh, issued>>
    BY <1>10, <2>1, <2>2, <2>3 DEF on_wrote, ClientTypeOK
  <2>4. CASE /\ last' = [n |-> req.n, ok |-> FALSE, err |-> TRUE, faults |-> r.faults, resp |-> resp]
             /\ answers' = answers + 1
             /\ End
             /\ IF req.action = "close_connection"
                THEN do_close(wire)
                ELSE todo' = sent /\ UNCHANGED <<is_connected, socket, wire, eof>>
             /\ UNCHANGED <<error, resp>>
    <3>1. last' \in Reports
      <4>1. r.faults \in SUBSET Faults
        BY <2>1 DEF Requests
      <4> QED
        BY <1>0, <2>4, <4>1, ReportTypes
    <3>2. NetTypes'
      <4>1. CASE req.action = "close_connection"
        BY <1>0, <2>4, <4>1, CloseTypes
      <4>2. CASE req.action # "close_connection"
        BY <1>0, <2>2, <2>4, <4>2 DEF NetTypes, ClientTypeOK
      <4> QED
        BY <4>1, <4>2
    <3>3. answers' \in Nat
      BY <1>0, <2>4
    <3> QED
      BY <1>0, <1>10, <2>4, <3>1, <3>2, <3>3 DEF on_wrote, End, NetTypes, ClientTypeOK
  <2> QED
    BY <1>10, <2>3, <2>4 DEF on_wrote, sent
<1>11. CASE on_write_error
  <2> DEFINE f == req.faults \union (IF eof THEN {"broken"} ELSE {})
                             \union (IF socket = "raw" THEN {"no_tls"} ELSE {})
  <2>1. f \in SUBSET Faults
    BY <1>0 DEF Faults
  <2>2. last' = [n |-> req.n, ok |-> FALSE, err |-> TRUE, faults |-> f, resp |-> resp]
    BY <1>11 DEF on_write_error
  <2> HIDE DEF f
  <2>3. last' \in Reports
    BY <1>0, <2>1, <2>2, ReportTypes
  <2>4. NetTypes'
    <3>1. CASE req.mode = "sync"
      BY <1>0, <1>11, <3>1, CloseTypes DEF on_write_error
    <3>2. CASE req.mode # "sync"
      BY <1>0, <1>11, <3>2 DEF on_write_error, NetTypes, ClientTypeOK
    <3> QED
      BY <3>1, <3>2
  <2>5. answers' \in Nat
    BY <1>0, <1>11 DEF on_write_error
  <2> QED
    BY <1>0, <1>11, <2>3, <2>4, <2>5 DEF on_write_error, End, NetTypes, ClientTypeOK, Errors
<1>12. ASSUME NEW k \in 1..Len(wire), on_read(k)
       PROVE  ClientTypeOK'
  <2> DEFINE segs == SubSeq(wire, 1, k)
             p == llhttp_execute(segs)
             left == SubSeq(wire, k + 1, Len(wire))
  <2>1. segs \in Seq(Segments) /\ segs # <<>> /\ left \in Seq(Segments)
    <3>1. k \in 0..Len(wire) /\ k # 0
      BY <1>0
    <3>2. Len(segs) = k
      BY <1>0, <3>1, Taken
    <3> QED
      BY <1>0, <3>1, <3>2, Taken, EmptySeq
  <2> HIDE DEF segs
  <2>2. p \in Parser
    BY <1>0, <2>1, Outcome
  <2> HIDE DEF p, left
  <2>3. p.parser \in ParserStates /\ p.resp \in Responses
    BY <2>2 DEF Parser
  <2>4. /\ parser' = p.parser
        /\ UNCHANGED <<with_ssl, endpoint, breaks, calls>>
        /\ \/ ReadOver(req.mode = "async", "on_read", p.resp, left)
           \/ ReadOver(TRUE, error, p.resp, left)
           \/ /\ resp' = p.resp /\ wire' = left
              /\ UNCHANGED <<is_connected, error, phase, req, socket, eof, todo,
                             last, answers, fresh, issued>>
    BY <1>12 DEF on_read, p, left, segs
  <2>5. CASE ReadOver(req.mode = "async", "on_read", p.resp, left)
    <3>1. (req.mode = "async") \in BOOLEAN /\ "on_read" \in Errors
      BY DEF Errors
    <3> QED
      BY <2>1, <2>3, <2>4, <2>5, <3>1, ReadOverTypes
  <2>6. CASE ReadOver(TRUE, error, p.resp, left)
    BY <1>0, <2>1, <2>3, <2>4, <2>6, ReadOverTypes
  <2>7. CASE resp' = p.resp /\ wire' = left
             /\ UNCHANGED <<is_connected, error, phase, req, socket, eof, todo,
                            last, answers, fresh, issued>>
    BY <2>1, <2>3, <2>4, <2>7 DEF ClientTypeOK
  <2> QED
    BY <2>4, <2>5, <2>6, <2>7
<1>13. CASE on_read_error
  <2>1. "on_read" \in Errors /\ ReadOver(FALSE, "on_read", resp, wire)
        /\ with_ssl' = with_ssl /\ endpoint' = endpoint /\ parser' \in ParserStates
    BY <1>0, <1>13 DEF on_read_error, Errors
  <2> QED
    BY <1>0, <2>1, ReadOverTypes
<1>14. CASE Reset
  <2>1. req' \in Requests
    BY <1>0, <1>14 DEF Reset, Requests, Faults
  <2> QED
    BY <1>00, <1>14, <2>1 DEF Reset, netVars, ClientTypeOK, Errors
<1>15. CASE Close
  <2>1. req' \in Requests
    BY <1>0, <1>15 DEF Close, Requests, Faults
  <2>2. NetTypes'
    BY <1>0, <1>15, CloseTypes DEF Close
  <2> QED
    BY <1>15, <2>1, <2>2 DEF Close, NetTypes, ClientTypeOK
<1>16. CASE ServerSends
  <2>1. Append(wire, Head(todo)) \in Seq(Segments) /\ Tail(todo) \in Seq(Segments)
    BY <1>0, <1>16, Moved DEF ServerSends
  <2> QED
    BY <1>0, <1>16, <2>1 DEF ServerSends, ClientTypeOK
<1>17. CASE Break
  <2>1. wire' \in Seq(Segments)
    BY <1>0, <1>17, Taken DEF Break
  <2>2. req' \in Requests
    BY <1>0, <1>17 DEF Break, Requests, Faults
  <2> QED
    BY <1>17, <2>1, <2>2, EmptySegments DEF Break, ClientTypeOK
<1>18. CASE UNCHANGED clientVars
  BY <1>18 DEF clientVars, ClientTypeOK
<1> QED
  BY <1>1, <1>2, <1>3, <1>4, <1>6, <1>7, <1>8, <1>9, <1>10, <1>11, <1>12, <1>13, <1>14,
     <1>15, <1>16, <1>17, <1>18 DEF ClientNext, Completion

-------------------------------------------------------------------------------
(* Client: the connection *)

\* What a step presupposes of the connection, of _is_connected and of _error, is left
\* to the next one.
LEMMA ConnectionStep ==
    ClientTypeOK /\ Connection /\ [ClientNext]_clientVars => Connection'
<1> SUFFICES ASSUME ClientTypeOK, Connection, [ClientNext]_clientVars PROVE Connection'
  OBVIOUS
<1>0. /\ is_connected \in BOOLEAN /\ eof \in BOOLEAN
      /\ req \in Requests /\ req.faults \in SUBSET Faults
      /\ wire \in Seq(Segments) /\ todo \in Seq(Segments) /\ socket \in {"closed", "raw", "up"}
  BY DEF ClientTypeOK, Requests
<1>a. ASSUME Gone, phase' \in {"idle", "writing"}, phase' = "writing" => "closed" \in req'.faults
      PROVE  Connection'
  BY <1>a DEF Gone, Connection, HasError
<1>b. ASSUME NEW e, NEW faults, FailEarly(e, faults), ~is_connected, UNCHANGED netVars
      PROVE  Connection'
  BY <1>b DEF FailEarly, End, netVars, Connection, HasError
<1>1. ASSUME NEW mode \in {"sync", "async"}, NEW action \in {"keep_connection", "close_connection"},
             Request(mode, action)
      PROVE  Connection'
  BY <1>0, <1>1 DEF Request, do_connect, netVars, Connection, HasError
<1>2. CASE on_resolve_error
  BY <1>2, <1>b DEF on_resolve_error, Connection
<1>3. CASE on_resolve_empty
  BY <1>3, <1>b DEF on_resolve_empty, netVars, Connection, HasError
<1>4. CASE on_resolved
  <2>1. ~is_connected /\ phase = "resolving" /\ UNCHANGED netVars
    BY <1>4 DEF on_resolved, Connection
  <2>2. CASE FailEarly(error, {"stale_error"})
    BY <1>b, <2>1, <2>2
  <2>3. CASE /\ do_connect(is_connected) /\ UNCHANGED <<is_connected, error, parser>>
    BY <2>1, <2>3 DEF do_connect, netVars, Connection, HasError
  <2> QED
    BY <1>4, <2>2, <2>3 DEF on_resolved
<1>5. ASSUME Connected, socket' \in {"raw", "up"}, wire' = <<>>, todo' = <<>>, eof' = FALSE
      PROVE  Connection'
  BY <1>5 DEF Connected, do_connect, Connection, HasError
<1>6. CASE on_connected
  <2>1. CASE with_ssl /\ req.mode = "async"
    BY <1>6, <2>1 DEF on_connected, Connection, HasError
  <2>2. CASE ~(with_ssl /\ req.mode = "async")
    BY <1>5, <1>6, <2>2 DEF on_connected
  <2> QED
    BY <2>1, <2>2
<1>7. CASE on_connect_error
  BY <1>7, <1>b DEF on_connect_error, Connection
<1>8. CASE on_handshake
  <2>1. wire = <<>> /\ todo = <<>> /\ eof = FALSE
    BY <1>0, <1>8 DEF on_handshake, Connection
  <2> QED
    BY <1>5, <1>8, <2>1 DEF on_handshake
<1>9. CASE on_handshake_error
  BY <1>9, <1>b DEF on_handshake_error, Connection
<1>10. ASSUME NEW kind \in {"length", "until_close", "malformed"}, NEW intact \in BOOLEAN,
              on_wrote(kind, intact)
       PROVE  Connection'
  <2> DEFINE r == [req EXCEPT !.faults = @ \union FaultsFound(kind, intact)]
             n == IF intact THEN req.n ELSE 0
             sent == IF socket = "up" /\ ~eof THEN todo \o Response(n, kind) ELSE todo
  <2>0. /\ phase = "writing" /\ (socket = "up" \/ socket = "closed") /\ parser' = parser
        /\ socket # "up" => sent = todo
    BY <1>10 DEF on_wrote
  <2>1. CASE req' = r /\ todo' = sent /\ phase' = "reading"
             /\ UNCHANGED <<is_connected, error, resp, socket, wire, eof, last, answers, fresh, issued>>
    <3>1. /\ req'.faults = req.faults \union FaultsFound(kind, intact)
          /\ HasError => "stale_error" \in FaultsFound(kind, intact)
      BY <1>0, <2>1 DEF Requests, FaultsFound
    <3> HIDE DEF sent, r
    <3> QED
      BY <1>0, <2>0, <2>1, <3>1 DEF Connection, HasError
  <2>2. CASE /\ phase' = "idle"
             /\ IF req.action = "close_connection"
                THEN do_close(wire)
                ELSE todo' = sent /\ UNCHANGED <<is_connected, socket, wire, eof>>
             /\ UNCHANGED <<error, resp>>
    <3> HIDE DEF sent
    <3>1. CASE req.action = "close_connection"
      <4>1. Gone \/ Stays(wire)
        BY <2>2, <3>1, CloseOutcome
      <4> QED
        BY <1>a, <2>0, <2>2, <4>1 DEF Stays, Connection, HasError
    <3>2. CASE req.action # "close_connection"
      BY <2>0, <2>2, <3>2 DEF Connection, HasError
    <3> QED
      BY <3>1, <3>2
  <2> QED
    BY <1>10, <2>1, <2>2 DEF on_wrote, End
<1>11. CASE on_write_error
  <2>1. Gone \/ Stays(wire)
    BY <1>11, CloseOutcome DEF on_write_error, Stays
  <2>2. phase' = "idle" /\ parser' = parser /\ (eof \/ socket # "up") /\ error' = "on_write"
    BY <1>11 DEF on_write_error, End
  <2> QED
    BY <1>a, <2>1, <2>2 DEF Stays, Connection, HasError
<1>12. ASSUME NEW ok, NEW e, NEW r, NEW left, ReadOver(ok, e, r, left),
              socket # "up" => left = <<>>,
              (socket = "up" /\ e # "on_none") => (eof \/ parser' = "failed")
       PROVE  Connection'
  <2>1. (req.action = "close_connection" /\ is_connected /\ Gone) \/ Stays(left)
    BY <1>12, CloseOutcome DEF ReadOver
  <2>2. error' = e
    BY <1>12 DEF ReadOver, Tell
  <2>3. CASE End
    BY <1>12, <1>a, <2>1, <2>2, <2>3 DEF End, Stays, Connection, HasError
  <2>4. ASSUME NEW action \in {"keep_connection", "close_connection"}, Chain(action)
        PROVE  Connection'
    <3>1. phase' = IF is_connected THEN "writing" ELSE "connecting"
      BY <2>4 DEF Chain, do_connect
    <3>2. is_connected => "closed" \in req'.faults
      BY <2>4 DEF Chain, NewRequest
    <3>3. req.action = "close_connection" /\ do_close(left)
      BY <1>12, <2>4 DEF Chain, ReadOver, CloseIfAsked
    <3>4. (is_connected /\ Gone) \/ (~is_connected /\ Stays(left))
      BY <3>3, CloseOutcome
    <3> QED
      BY <1>12, <1>a, <2>2, <3>1, <3>2, <3>4 DEF Stays, Connection, HasError
  <2> QED
    BY <1>12, <2>3, <2>4 DEF ReadOver
<1>13. ASSUME NEW k \in 1..Len(wire), on_read(k)
       PROVE  Connection'
  <2> DEFINE p == llhttp_execute(SubSeq(wire, 1, k))
             left == SubSeq(wire, k + 1, Len(wire))
  <2>1. /\ parser' = p.parser /\ socket = "up" /\ phase = "reading"
        /\ \/ p.parser = "failed" /\ ReadOver(req.mode = "async", "on_read", p.resp, left)
           \/ ReadOver(TRUE, error, p.resp, left)
           \/ /\ wire' = left /\ UNCHANGED <<is_connected, error, phase, req, socket, eof, todo>>
    BY <1>13 DEF on_read
  <2>2. parser = "failed" => parser' = "failed"
    <3> DEFINE segs == SubSeq(wire, 1, k)
    <3>1. segs \in Seq(Segments) /\ segs # <<>>
      <4>1. k \in 0..Len(wire) /\ k # 0 /\ Len(wire) \in Nat
        BY <1>0, LenProperties
      <4>2. Len(segs) = k /\ segs \in Seq(Segments)
        BY <1>0, <4>1, Taken
      <4> QED
        BY <4>1, <4>2, EmptySeq
    <3>2. parser \in ParserStates /\ resp \in Responses
      BY DEF ClientTypeOK
    <3> HIDE DEF segs
    <3>3. parser = "failed" => llhttp_execute(segs).parser = "failed"
      BY <3>1, <3>2, Outcome
    <3> QED
      BY <2>1, <3>3 DEF segs
  <2> HIDE DEF p, left
  <2>3. CASE p.parser = "failed" /\ ReadOver(req.mode = "async", "on_read", p.resp, left)
    BY <1>12, <2>1, <2>3
  <2>4. CASE ReadOver(TRUE, error, p.resp, left)
    BY <1>12, <2>1, <2>2, <2>4 DEF Connection, HasError
  <2>5. CASE wire' = left /\ UNCHANGED <<is_connected, error, phase, req, socket, eof, todo>>
    BY <2>1, <2>2, <2>5 DEF Connection, HasError
  <2> QED
    BY <2>1, <2>3, <2>4, <2>5
<1>14. CASE on_read_error
  BY <1>12, <1>14 DEF on_read_error, Connection
<1>15. CASE Reset
  <2>1. Busy => req'.faults = req.faults \union {"reset"}
    BY <1>0, <1>15 DEF Reset, Requests
  <2>2. ~Busy => req' = req
    BY <1>15 DEF Reset
  <2> QED
    BY <1>15, <2>1, <2>2 DEF Reset, netVars, Connection, HasError
<1>16. CASE Close
  <2>1. Busy => req'.faults = req.faults \union {"closed"}
    BY <1>0, <1>16 DEF Close, Requests
  <2>2. ~Busy => req' = req
    BY <1>16 DEF Close
  <2>3. phase \in {"writing", "reading"} => Busy
    BY DEF Busy
  <2>4. (is_connected /\ Gone) \/ (~is_connected /\ Stays(wire))
    BY <1>16, CloseOutcome DEF Close
  <2>5. UNCHANGED <<phase, error, parser>>
    BY <1>16 DEF Close
  <2> QED
    BY <2>1, <2>2, <2>3, <2>4, <2>5 DEF Gone, Stays, Connection, HasError
<1>17. CASE ServerSends
  BY <1>17 DEF ServerSends, Connection, HasError
<1>18. CASE Break
  <2>1. Busy => req'.faults = req.faults \union {"broken"}
    BY <1>0, <1>18 DEF Break, Requests
  <2>2. ~Busy => req' = req
    BY <1>18 DEF Break
  <2> QED
    BY <1>18, <2>1, <2>2 DEF Break, Connection, HasError
<1>19. CASE UNCHANGED clientVars
  BY <1>19 DEF clientVars, Connection, HasError
<1> QED
  BY <1>1, <1>2, <1>3, <1>4, <1>6, <1>7, <1>8, <1>9, <1>10, <1>11, <1>13, <1>14,
     <1>15, <1>16, <1>17, <1>18, <1>19 DEF ClientNext, Completion

-------------------------------------------------------------------------------
(* Client: what is still to be read *)

\* What is still to be read is a sequence of segments.
LEMMA StreamTypes ==
    ASSUME ClientTypeOK
    PROVE  /\ Stream \in Seq(Segments) /\ Len(Stream) \in Nat
           /\ wire \in Seq(Segments) /\ todo \in Seq(Segments)
           /\ Len(wire) \in Nat /\ Len(todo) \in Nat /\ Len(Stream) = Len(wire) + Len(todo)
           /\ Stream = <<>> <=> Len(Stream) = 0
           /\ Stream # <<>> <=> Len(Stream) >= 1
           /\ \A i \in 1..Len(Stream) : Stream[i] \in Segments
           /\ Stream = <<>> => wire = <<>> /\ todo = <<>>
<1>1. wire \in Seq(Segments) /\ todo \in Seq(Segments)
  BY DEF ClientTypeOK
<1>2. /\ Stream \in Seq(Segments) /\ Len(Stream) = Len(wire) + Len(todo)
      /\ Len(wire) \in Nat /\ Len(todo) \in Nat
      /\ Stream = <<>> <=> Len(wire) + Len(todo) = 0
      /\ Stream # <<>> <=> Len(wire) + Len(todo) >= 1
  BY <1>1, Joined DEF Stream
<1>3. (Len(wire) = 0 => wire = <<>>) /\ (Len(todo) = 0 => todo = <<>>)
  BY <1>1, EmptySeq
<1>4. \A i \in 1..Len(Stream) : Stream[i] \in Segments
  BY <1>2, ElementOfSeq
<1>5. Stream = <<>> => wire = <<>> /\ todo = <<>>
  BY <1>2, <1>3
<1> QED
  BY <1>1, <1>2, <1>4, <1>5

\* Nothing has arrived and nothing will.
LEMMA EmptyStream ==
    wire = <<>> /\ todo = <<>> => Stream = <<>> /\ Len(Stream) = 0
<1>1. <<>> \in Seq(Segments) /\ Len(<<>>) = 0
  BY EmptySeq
<1>2. <<>> \o <<>> = <<>>
  BY <1>1, ConcatEmptySeq
<1> QED
  BY <1>1, <1>2 DEF Stream

\* Nothing has arrived and nothing will, after a step.
LEMMA EmptyStreamNext ==
    wire' = <<>> /\ todo' = <<>> => Stream' = <<>> /\ Len(Stream') = 0
<1>1. <<>> \in Seq(Segments) /\ Len(<<>>) = 0
  BY EmptySeq
<1>2. <<>> \o <<>> = <<>>
  BY <1>1, ConcatEmptySeq
<1> QED
  BY <1>1, <1>2 DEF Stream

\* What the server sends arrives in its order; a fin is taken out.
LEMMA SendStream ==
    ASSUME ClientTypeOK, ServerSends
    PROVE  \/ Stream' = Stream /\ eof' = eof /\ eof' = eof /\ todo # <<>>
           \/ /\ eof' = TRUE
              /\ \E m \in 1..Len(Stream) :
                     /\ Stream[m].part = "fin"
                     /\ Len(Stream') = Len(Stream) - 1
                     /\ \A i \in 1..(m - 1) : Stream'[i] = Stream[i]
                     /\ m = Len(Stream) => todo' = <<>>
<1>1. /\ wire \in Seq(Segments) /\ todo \in Seq(Segments) /\ todo # <<>>
      /\ Len(wire) \in Nat /\ Len(todo) \in Nat /\ Len(Stream) = Len(wire) + Len(todo)
      /\ todo' = Tail(todo)
  BY StreamTypes DEF ServerSends
<1>2. /\ Append(wire, Head(todo)) \o Tail(todo) = Stream
      /\ Head(todo) = Stream[Len(wire) + 1] /\ Tail(todo) \in Seq(Segments)
  BY <1>1, Moved DEF Stream
<1>3. CASE Head(todo).part # "fin"
  BY <1>1, <1>2, <1>3 DEF ServerSends, Stream
<1>4. CASE Head(todo).part = "fin"
  <2>1. eof' = TRUE /\ wire' = wire
    BY <1>4 DEF ServerSends
  <2> DEFINE m == Len(wire) + 1
             t == Tail(todo)
  <2>2. t \in Seq(Segments) /\ Len(t) = Len(todo) - 1 /\ Len(todo) >= 1 /\ Len(t) \in Nat
    BY <1>1, HeadTailProperties, EmptySeq, LenProperties
  <2>3. Stream' = wire \o t
    BY <1>1, <2>1 DEF Stream
  <2> HIDE DEF t
  <2>4. /\ Len(wire \o t) = Len(wire) + Len(t)
        /\ \A i \in 1..Len(wire) : (wire \o t)[i] = wire[i]
    BY <1>1, <2>2, Joined
  <2>5. \A i \in 1..Len(wire) : Stream[i] = wire[i]
    BY <1>1, Joined DEF Stream
  <2>6. m \in 1..Len(Stream) /\ m - 1 = Len(wire) /\ Stream[m].part = "fin"
    BY <1>1, <1>2, <1>4, <2>2
  <2>7. Len(Stream') = Len(Stream) - 1
    BY <1>1, <2>2, <2>3, <2>4
  <2>8. m = Len(Stream) => todo' = <<>>
    <3>1. m = Len(Stream) => Len(t) = 0
      BY <1>1, <2>2
    <3>2. Len(t) = 0 => t = <<>>
      BY <2>2, EmptySeq
    <3> QED
      BY <1>1, <3>1, <3>2 DEF t
  <2>9. \A i \in 1..(m - 1) : Stream'[i] = Stream[i]
    BY <2>3, <2>4, <2>5, <2>6
  <2> HIDE DEF m
  <2> QED
    BY <2>1, <2>6, <2>7, <2>8, <2>9
<1> QED
  BY <1>3, <1>4

\* A connection that breaks leaves a first part of what was to arrive.
LEMMA BreakStream ==
    ASSUME ClientTypeOK, Break
    PROVE  /\ Len(Stream') \in 0..Len(Stream) /\ todo' = <<>> /\ eof' = TRUE
           /\ \A i \in 1..Len(Stream') : Stream'[i] = Stream[i]
           /\ Stream' # <<>> => Len(Stream') >= 1
<1>1. /\ wire \in Seq(Segments) /\ todo \in Seq(Segments)
      /\ Len(wire) \in Nat /\ Len(todo) \in Nat /\ Len(Stream) = Len(wire) + Len(todo)
  BY StreamTypes
<1>2. PICK n \in 0..Len(wire) : wire' = SubSeq(wire, 1, n)
  BY DEF Break
<1>3. todo' = <<>> /\ eof' = TRUE
  BY DEF Break
<1> DEFINE w == SubSeq(wire, 1, n)
<1>4. w \in Seq(Segments) /\ Len(w) = n /\ \A i \in 1..n : w[i] = Stream[i]
  BY <1>1, Taken DEF Stream
<1>5. Stream' = w \o <<>>
  BY <1>2, <1>3 DEF Stream
<1> HIDE DEF w
<1>6. w \o <<>> = w
  BY <1>4, ConcatEmptySeq
<1>7. w # <<>> => Len(w) >= 1
  BY <1>4, EmptySeq
<1>8. n \in 0..Len(Stream)
  BY <1>1
<1> QED
  BY <1>3, <1>4, <1>5, <1>6, <1>7, <1>8

\* What is written is answered after what the server had still to send.
LEMMA WriteStream ==
    ASSUME ClientTypeOK, NEW r \in Seq(Segments), wire' = wire, todo' = todo \o r
    PROVE  /\ Stream = <<>> => Stream' = r
           /\ Stream # <<>> => Stream' # <<>> /\ Stream'[1] = Stream[1]
<1>1. /\ wire \in Seq(Segments) /\ todo \in Seq(Segments) /\ Stream \in Seq(Segments)
      /\ Len(Stream) \in Nat /\ (Stream # <<>> <=> Len(Stream) >= 1)
  BY StreamTypes
<1>2. Stream' = Stream \o r
  BY <1>1, ConcatAssociative DEF Stream
<1>3. <<>> \o r = r
  BY ConcatEmptySeq
<1>4. /\ Len(r) \in Nat /\ \A i \in 1..Len(Stream) : (Stream \o r)[i] = Stream[i]
      /\ Stream \o r # <<>> <=> Len(Stream) + Len(r) >= 1
  BY <1>1, Joined
<1>5. Stream # <<>> => 1 \in 1..Len(Stream) /\ Len(Stream) + Len(r) >= 1
  BY <1>1, <1>4
<1> QED
  BY <1>2, <1>3, <1>4, <1>5

\* What one read makes of a response.
LEMMA ReadOutcome ==
    ASSUME ClientTypeOK, InStep, phase = "reading", NEW k \in 1..Len(wire),
           NEW p, p = llhttp_execute(SubSeq(wire, 1, k)),
           NEW rest, rest = SubSeq(wire, k + 1, Len(wire)) \o todo
    PROVE  /\ parser = "failed" => p.parser = "failed"
           /\ parser = "body_until_close" =>
                  p.parser = "body_until_close" /\ p.resp.complete = resp.complete
           /\ parser = "start" =>
                  \/ p.parser = "failed" /\ Stream[1].part # "head_length"
                  \/ /\ p.parser = "body_until_close" /\ p.resp.complete = "header"
                     /\ Stream[1].part # "head_length"
                  \/ /\ p.parser = "body" /\ p.resp.complete = "header" /\ p.resp.body = <<>>
                     /\ p.resp.heads = Append(resp.heads, Asked)
                     /\ Len(rest) = Len(Stream) - 1 /\ Len(rest) <= 1
                     /\ Len(rest) = 1 => rest[1] = Seg(Asked, "body")
                     /\ eof => todo = <<>>
                  \/ /\ p.parser = "start" /\ p.resp.complete = "message"
                     /\ p.resp.body = Append(<<>>, Seg(Asked, "body"))
                     /\ p.resp.heads = Append(resp.heads, Asked)
                     /\ rest = <<>>
           /\ parser = "body" =>
                  \/ p.parser = "failed" /\ Len(Stream) >= 2
                  \/ /\ p.parser = "start" /\ p.resp.complete = "message"
                     /\ p.resp.heads = resp.heads
                     /\ rest # <<>> => rest[1].part = "body"
                     /\ "parser" \notin req.faults =>
                            p.resp.body = Append(resp.body, Seg(Asked, "body"))
<1> DEFINE segs == SubSeq(wire, 1, k)
           left == SubSeq(wire, k + 1, Len(wire))
<1>1. /\ wire \in Seq(Segments) /\ todo \in Seq(Segments) /\ Stream \in Seq(Segments)
      /\ Len(wire) \in Nat /\ Len(todo) \in Nat /\ Len(Stream) = Len(wire) + Len(todo)
      /\ \A i \in 1..Len(Stream) : Stream[i] \in Segments
      /\ parser \in ParserStates /\ resp \in Responses
  BY StreamTypes DEF ClientTypeOK
<1>2. k \in 0..Len(wire) /\ k >= 1 /\ k \in Nat /\ k <= Len(Stream)
  BY <1>1
<1>3. /\ segs \in Seq(Segments) /\ Len(segs) = k
      /\ \A i \in 1..k : segs[i] = Stream[i]
      /\ Len(rest) = Len(Stream) - k
      /\ \A i \in 1..(Len(Stream) - k) : rest[i] = Stream[k + i]
      /\ left \in Seq(Segments)
  <2>1. /\ segs \in Seq(Segments) /\ Len(segs) = k
        /\ \A i \in 1..k : segs[i] = (wire \o todo)[i]
        /\ left \in Seq(Segments)
        /\ Len(left \o todo) = Len(wire \o todo) - k
        /\ \A i \in 1..(Len(wire \o todo) - k) : (left \o todo)[i] = (wire \o todo)[k + i]
    <3>1. wire \in Seq(Segments) /\ todo \in Seq(Segments) /\ k \in 0..Len(wire)
      BY <1>1, <1>2
    <3> QED
      BY <3>1, Taken
  <2>2. rest = left \o todo
    OBVIOUS
  <2> HIDE DEF segs, left
  <2> QED
    BY <2>1, <2>2 DEF Stream
<1>4. rest \in Seq(Segments) /\ (rest = <<>> <=> Len(rest) = 0) /\ (rest # <<>> <=> Len(rest) >= 1)
  <2>1. rest = left \o todo
    OBVIOUS
  <2> HIDE DEF left
  <2>2. rest \in Seq(Segments)
    BY <1>1, <1>3, <2>1, ConcatProperties
  <2>3. (rest = <<>> => Len(rest) = 0) /\ (rest # <<>> => Len(rest) \in Nat \ {0})
    BY <2>2, EmptySeq
  <2> QED
    BY <2>2, <2>3
<1> HIDE DEF segs, left
<1>5. segs # <<>> /\ segs[1] = Stream[1] /\ (k >= 2 => segs[2] = Stream[2])
  BY <1>2, <1>3, EmptySeq
<1>6. p = llhttp_execute(segs)
  BY DEF segs
<1>7. /\ parser = "failed" => p.parser = "failed"
      /\ parser = "body_until_close" =>
             p.parser = "body_until_close" /\ p.resp.complete = resp.complete
      /\ parser = "start" /\ Stream[1].part = "head_length" /\ k = 1 =>
             /\ p.parser = "body" /\ p.resp.complete = "header"
             /\ p.resp.body = <<>> /\ p.resp.heads = Append(resp.heads, Stream[1].of)
      /\ parser = "start" /\ Stream[1].part = "head_length" /\ k = 2 =>
             /\ p.parser = "start" /\ p.resp.complete = "message"
             /\ p.resp.body = Append(<<>>, Stream[2])
             /\ p.resp.heads = Append(resp.heads, Stream[1].of)
      /\ parser = "start" /\ Stream[1].part = "head_close" =>
             p.parser = "body_until_close" /\ p.resp.complete = "header"
      /\ parser = "start" /\ Stream[1].part \notin {"head_length", "head_close"} =>
             p.parser = "failed"
      /\ parser = "body" /\ k = 1 =>
             /\ p.parser = "start" /\ p.resp.complete = "message"
             /\ p.resp.body = Append(resp.body, Stream[1]) /\ p.resp.heads = resp.heads
      /\ parser = "body" /\ k >= 2 /\ Stream[2].part = "body" => p.parser = "failed"
  <2>1. /\ parser = "failed" => p.parser = "failed"
        /\ parser = "body_until_close" =>
               p.parser = "body_until_close" /\ p.resp.complete = resp.complete
        /\ parser = "start" /\ segs[1].part = "head_length" /\ Len(segs) = 1 =>
               /\ p.parser = "body" /\ p.resp.complete = "header"
               /\ p.resp.body = <<>> /\ p.resp.heads = Append(resp.heads, segs[1].of)
        /\ parser = "start" /\ segs[1].part = "head_length" /\ Len(segs) = 2 =>
               /\ p.parser = "start" /\ p.resp.complete = "message"
               /\ p.resp.body = Append(<<>>, segs[2])
               /\ p.resp.heads = Append(resp.heads, segs[1].of)
        /\ parser = "start" /\ segs[1].part = "head_close" =>
               p.parser = "body_until_close" /\ p.resp.complete = "header"
        /\ parser = "start" /\ segs[1].part \notin {"head_length", "head_close"} =>
               p.parser = "failed"
        /\ parser = "body" /\ Len(segs) = 1 =>
               /\ p.parser = "start" /\ p.resp.complete = "message"
               /\ p.resp.body = Append(resp.body, segs[1]) /\ p.resp.heads = resp.heads
        /\ parser = "body" /\ Len(segs) >= 2 /\ segs[2].part = "body" => p.parser = "failed"
    BY <1>1, <1>3, <1>5, <1>6, Outcome
  <2>2. Len(segs) = k /\ segs[1] = Stream[1] /\ (k >= 2 => segs[2] = Stream[2]) /\ (k = 2 => k >= 2)
    BY <1>3, <1>5
  <2> QED
    BY <2>1, <2>2
<1>8. CASE parser = "start"
  <2>1. HeadNext
    BY <1>8 DEF InStep
  <2>2. CASE Stream[1].part # "head_length"
    BY <1>7, <1>8, <2>2
  <2>3. CASE Stream[1].part = "head_length"
    <3>1. /\ eof => todo = <<>>
          /\ Stream[1].of = Asked
          /\ Len(Stream) <= 2
          /\ Len(Stream) = 2 => Stream[2] = Seg(Asked, "body")
      <4>1. Stream # <<>> /\ Stream[1].part # "body"
        BY <1>1, <1>2, <2>3, EmptySeq
      <4> QED
        BY <2>1, <2>3, <4>1 DEF HeadNext, OneResponse
    <3>2. CASE k = 1
      <4>1. Len(rest) = Len(Stream) - 1 /\ Len(rest) <= 1
        BY <1>1, <1>3, <3>1, <3>2
      <4>2. Len(rest) = 1 => rest[1] = Seg(Asked, "body")
        <5>1. Len(rest) = 1 => Len(Stream) = 2 /\ 1 \in 1..(Len(Stream) - k) /\ k + 1 = 2
          BY <1>1, <3>2, <4>1
        <5> QED
          BY <1>3, <3>1, <5>1
      <4> QED
        BY <1>7, <1>8, <2>3, <3>1, <3>2, <4>1, <4>2
    <3>3. CASE k # 1
      <4>1. k = 2 /\ Len(Stream) = 2 /\ Len(rest) = 0
        BY <1>1, <1>2, <1>3, <3>1, <3>3
      <4> QED
        BY <1>4, <1>7, <1>8, <2>3, <3>1, <4>1
    <3> QED
      BY <3>2, <3>3
  <2> QED
    BY <2>2, <2>3
<1>9. CASE parser = "body"
  <2>1. /\ Len(Stream) >= 2 => Stream[2].part = "body"
        /\ "parser" \notin req.faults => /\ Len(Stream) <= 1
                                         /\ Len(Stream) = 1 => Stream[1] = Seg(Asked, "body")
    BY <1>9 DEF InStep, BodyNext
  <2>2. CASE k = 1
    <3>1. rest # <<>> => rest[1].part = "body"
      <4>1. rest # <<>> => Len(Stream) >= 2 /\ 1 \in 1..(Len(Stream) - k) /\ k + 1 = 2
        BY <1>1, <1>3, <1>4, <2>2
      <4> QED
        BY <1>3, <2>1, <4>1
    <3>2. "parser" \notin req.faults => Stream[1] = Seg(Asked, "body")
      BY <1>1, <1>2, <2>1
    <3> QED
      BY <1>7, <1>9, <2>2, <3>1, <3>2
  <2>3. CASE k # 1
    <3>1. k >= 2 /\ Len(Stream) >= 2
      BY <1>1, <1>2, <2>3
    <3> QED
      BY <1>7, <1>9, <2>1, <3>1
  <2> QED
    BY <2>2, <2>3
<1> QED
  BY <1>7, <1>8, <1>9

-------------------------------------------------------------------------------
(* Client: the parser and what is still to be read *)

\* Nothing is to be read.
LEMMA InStepEmpty ==
    ASSUME wire' = <<>>, todo' = <<>>,
           phase' \notin {"idle", "reading"} => "buffer" \notin req'.faults
    PROVE  InStep'
<1>1. Stream' = <<>> /\ Len(Stream') = 0
  BY EmptyStreamNext
<1>2. HeadNext' /\ BodyNext'
  BY <1>1 DEF HeadNext, BodyNext, OneResponse
<1> QED
  BY <1>1, <1>2 DEF InStep

\* The step is not about what is read.
LEMMA InStepKept ==
    ASSUME InStep, UNCHANGED <<wire, todo, parser>>, phase # "reading", phase' # "reading",
           phase' \notin {"idle", "reading"} => "buffer" \notin req'.faults
    PROVE  InStep'
<1>1. Stream' = Stream
  BY DEF Stream
<1> QED
  BY <1>1 DEF InStep

\* Only the history of the request changes.
LEMMA InStepFaults ==
    ASSUME InStep, UNCHANGED <<wire, todo, eof, parser, phase>>, req'.n = req.n,
           req.faults \subseteq req'.faults, "buffer" \in req'.faults => "buffer" \in req.faults
    PROVE  InStep'
<1>1. Stream' = Stream /\ Asked' = Asked
  BY DEF Stream, Asked
<1>2. OneResponse => OneResponse'
  BY <1>1 DEF OneResponse
<1>3. HeadNext => HeadNext'
  BY <1>1, <1>2 DEF HeadNext
<1>4. BodyNext => BodyNext'
  BY <1>1, <1>2 DEF BodyNext
<1> QED
  BY <1>1, <1>3, <1>4 DEF InStep

\* A read that ends a request leaves the rest of the response in step, or nothing at all.
LEMMA ReadOverInStep ==
    ASSUME ClientTypeOK, NEW ok, NEW e, NEW r, NEW left, ReadOver(ok, e, r, left),
           NEW rest, rest = left \o todo,
           parser' = "start" => rest = <<>> \/ rest[1].part = "body",
           parser' = "body" => rest = <<>>
    PROVE  InStep'
<1>1. phase' \in {"idle", "writing", "connecting"}
  BY DEF ReadOver, End, Chain, do_connect
<1>2. phase' # "idle" => "buffer" \notin req'.faults
  <2>1. CASE End
    BY <2>1 DEF End
  <2>2. ASSUME NEW action \in {"keep_connection", "close_connection"}, Chain(action)
        PROVE  "buffer" \notin req'.faults
    BY <2>2 DEF Chain, NewRequest
  <2> QED
    BY <2>1, <2>2 DEF ReadOver
<1>3. Gone \/ Stays(left)
  BY CloseOutcome DEF ReadOver
<1>4. CASE Gone
  BY <1>1, <1>2, <1>4, InStepEmpty DEF Gone
<1>5. CASE Stays(left)
  <2>1. Stream' = rest
    BY <1>5 DEF Stays, Stream
  <2> QED
    BY <1>1, <1>2, <2>1 DEF InStep
<1> QED
  BY <1>3, <1>4, <1>5

\* No step separates the parser from what is still to be read, unless it is out of
\* step for good.
LEMMA InStepStep ==
    ClientTypeOK /\ Connection /\ InStep /\ [ClientNext]_clientVars => InStep'
<1> SUFFICES ASSUME ClientTypeOK, Connection, InStep, [ClientNext]_clientVars PROVE InStep'
  OBVIOUS
<1>0. /\ is_connected \in BOOLEAN /\ eof \in BOOLEAN
      /\ req \in Requests /\ req.faults \in SUBSET Faults /\ req.n \in 0..MaxRequests
      /\ wire \in Seq(Segments) /\ todo \in Seq(Segments) /\ socket \in {"closed", "raw", "up"}
      /\ parser \in ParserStates
  BY DEF ClientTypeOK, Requests
<1>b. ASSUME NEW e, NEW faults, FailEarly(e, faults), UNCHANGED netVars, phase # "reading"
      PROVE  InStep'
  BY <1>b, InStepKept DEF FailEarly, End, netVars
<1>1. ASSUME NEW mode \in {"sync", "async"}, NEW action \in {"keep_connection", "close_connection"},
             Request(mode, action)
      PROVE  InStep'
  BY <1>1, InStepKept DEF Request, NewRequest, do_connect, netVars
<1>2. CASE on_resolve_error
  BY <1>2, <1>b DEF on_resolve_error
<1>3. CASE on_resolve_empty
  <2>1. CASE req.mode = "sync"
    BY <1>3, <1>b, <2>1 DEF on_resolve_empty
  <2>2. CASE req.mode # "sync"
    <3>1. phase = "resolving" /\ phase' = "aborted" /\ req' = req /\ UNCHANGED <<wire, todo, parser>>
      BY <1>3, <2>2 DEF on_resolve_empty, netVars
    <3>2. "buffer" \notin req.faults
      BY <3>1 DEF InStep
    <3> QED
      BY <3>1, <3>2, InStepKept
  <2> QED
    BY <2>1, <2>2
<1>4. CASE on_resolved
  <2>1. phase = "resolving" /\ UNCHANGED netVars
    BY <1>4 DEF on_resolved
  <2>2. CASE FailEarly(error, {"stale_error"})
    BY <1>b, <2>1, <2>2
  <2>3. CASE /\ do_connect(is_connected) /\ parser' = parser
             /\ req' = [req EXCEPT !.again = (req.mode = "async")]
    <3>1. phase' \in {"connecting", "writing"} /\ req'.faults = req.faults
      BY <1>0, <2>3 DEF do_connect, Requests
    <3>2. "buffer" \notin req.faults
      BY <2>1 DEF InStep
    <3> QED
      BY <2>1, <2>3, <3>1, <3>2, InStepKept DEF netVars
  <2> QED
    BY <1>4, <2>2, <2>3 DEF on_resolved
<1>5. ASSUME Connected, phase \in {"connecting", "handshake"}, wire' = <<>>, todo' = <<>>
      PROVE  InStep'
  <2>1. req'.faults = req.faults
    BY <1>0, <1>5 DEF Connected, Requests
  <2>2. "buffer" \notin req.faults
    BY <1>5 DEF InStep
  <2> QED
    BY <1>5, <2>1, <2>2, InStepEmpty
<1>6. CASE on_connected
  <2>1. "buffer" \notin req.faults /\ phase = "connecting" /\ wire' = <<>> /\ todo' = <<>>
    BY <1>6 DEF on_connected, InStep
  <2>2. CASE with_ssl /\ req.mode = "async"
    BY <1>6, <2>1, <2>2, InStepEmpty DEF on_connected
  <2>3. CASE ~(with_ssl /\ req.mode = "async")
    BY <1>5, <1>6, <2>1, <2>3 DEF on_connected
  <2> QED
    BY <2>2, <2>3
<1>7. CASE on_connect_error
  BY <1>7, <1>b DEF on_connect_error
<1>8. CASE on_handshake
  <2>1. wire = <<>> /\ todo = <<>>
    BY <1>0, <1>8 DEF on_handshake, Connection
  <2> QED
    BY <1>5, <1>8, <2>1 DEF on_handshake
<1>9. CASE on_handshake_error
  BY <1>9, <1>b DEF on_handshake_error
<1>10. ASSUME NEW kind \in {"length", "until_close", "malformed"}, NEW intact \in BOOLEAN,
              on_wrote(kind, intact)
       PROVE  InStep'
  <2> DEFINE f == FaultsFound(kind, intact)
             r == [req EXCEPT !.faults = @ \union f]
             n == IF intact THEN req.n ELSE 0
             R == Response(n, kind)
             sent == IF socket = "up" /\ ~eof THEN todo \o R ELSE todo
  <2>0. phase = "writing" /\ parser' = parser /\ "buffer" \notin req.faults
    BY <1>10 DEF on_wrote, InStep
  <2>1. CASE req' = r /\ todo' = sent /\ phase' = "reading"
             /\ UNCHANGED <<is_connected, error, resp, socket, wire, eof, last, answers, fresh, issued>>
    <3>1. /\ req'.faults = req.faults \union f /\ req'.n = req.n
          /\ "buffer" \in f <=> ~intact
          /\ parser # "start" => "parser" \in f
      BY <1>0, <2>1 DEF Requests, FaultsFound
    <3>2. n \in 0..MaxRequests /\ Asked' = n
      BY <1>0, <2>0, <3>1, ClientAssumption DEF Asked
    <3> HIDE DEF f, r, n
    <3>3. /\ R \in Seq(Segments) /\ Len(R) \in 1..3
          /\ \A i \in 1..Len(R) : R[i].part = "fin" => i = 3
          /\ R[1].part # "body"
          /\ R[1].part = "head_length" => R[1].of = n /\ Len(R) = 2 /\ R[2] = Seg(n, "body")
          /\ Len(R) >= 2 => R[2].part = "body"
      <4>1. CASE kind = "length"
        <5>1. R \in Seq(Segments) /\ Len(R) = 2 /\ R[1] = Seg(n, "head_length") /\ R[2] = Seg(n, "body")
          BY <3>2, <4>1, ResponseTypes
        <5> HIDE DEF R
        <5>2. R[1].part = "head_length" /\ R[1].of = n /\ R[2].part = "body"
          BY <5>1 DEF Seg
        <5>3. Len(R) \in 1..3 /\ \A i \in 1..Len(R) : R[i].part # "fin"
          BY <5>1, <5>2
        <5> QED
          BY <5>1, <5>2, <5>3
      <4>2. CASE kind = "until_close"
        <5>1. /\ R \in Seq(Segments) /\ Len(R) = 3
              /\ R[1] = Seg(n, "head_close") /\ R[2] = Seg(n, "body") /\ R[3] = Seg(n, "fin")
          BY <3>2, <4>2, ResponseTypes
        <5> HIDE DEF R
        <5>2. R[1].part = "head_close" /\ R[2].part = "body"
          BY <5>1 DEF Seg
        <5>3. Len(R) \in 1..3 /\ \A i \in 1..Len(R) : R[i].part = "fin" => i = 3
          BY <5>1, <5>2
        <5> QED
          BY <5>1, <5>2, <5>3
      <4>3. CASE kind = "malformed"
        <5>1. R \in Seq(Segments) /\ Len(R) = 1 /\ R[1] = Seg(n, "bad")
          BY <3>2, <4>3, ResponseTypes
        <5> HIDE DEF R
        <5>2. R[1].part = "bad"
          BY <5>1 DEF Seg
        <5>3. Len(R) \in 1..3 /\ \A i \in 1..Len(R) : R[i].part # "fin"
          BY <5>1, <5>2
        <5> QED
          BY <5>1, <5>2, <5>3
      <4> QED
        BY <4>1, <4>2, <4>3
    <3> HIDE DEF R
    <3>4. CASE socket = "up" /\ ~eof
      <4>1. wire' = wire /\ todo' = todo \o R /\ eof' = FALSE
        BY <1>0, <2>1, <3>4
      <4>2. /\ Stream = <<>> => Stream' = R
            /\ Stream # <<>> => Stream' # <<>> /\ Stream'[1] = Stream[1]
        BY <3>3, <4>1, WriteStream
      <4>3. CASE Stream = <<>>
        <5>1. OneResponse'
          <6>1. Stream' = R /\ eof' = FALSE
            BY <4>1, <4>2, <4>3
          <6>2. Len(R) <= 3 /\ \A i \in 1..Len(R) : R[i].part = "fin" => i = 3
            BY <3>3
          <6> QED
            BY <6>1, <6>2 DEF OneResponse
        <5>2. HeadNext'
          BY <3>2, <3>3, <4>2, <4>3, <5>1 DEF HeadNext
        <5>3. parser # "start" => BodyNext'
          BY <3>1, <3>3, <4>2, <4>3, <5>1 DEF BodyNext
        <5> QED
          BY <2>0, <2>1, <5>2, <5>3 DEF InStep
      <4>4. CASE Stream # <<>>
        <5>1. parser = "start" => HeadNext'
          BY <2>0, <4>2, <4>4 DEF InStep, HeadNext
        <5>2. parser # "body"
          BY <2>0, <4>4 DEF InStep
        <5> QED
          BY <2>0, <2>1, <5>1, <5>2 DEF InStep
      <4> QED
        BY <4>3, <4>4
    <3>5. CASE ~(socket = "up" /\ ~eof)
      <4>1. wire' = wire /\ todo' = todo /\ eof' = eof
        BY <2>1, <3>5
      <4>2. Stream' = Stream
        BY <4>1 DEF Stream
      <4>3. Stream = <<>> => HeadNext' /\ BodyNext'
        <5>1. ASSUME Stream = <<>> PROVE HeadNext' /\ BodyNext'
          <6>1. wire' = <<>> /\ todo' = <<>>
            BY <4>1, <5>1, StreamTypes
          <6>2. Stream' = <<>> /\ Len(Stream') = 0
            BY <6>1, EmptyStreamNext
          <6> QED
            BY <6>1, <6>2 DEF HeadNext, BodyNext, OneResponse
        <5> QED
          BY <5>1
      <4>4. CASE Stream # <<>>
        <5>1. parser = "start" => HeadNext'
          BY <2>0, <4>2, <4>4 DEF InStep, HeadNext
        <5>2. parser # "body"
          BY <2>0, <4>4 DEF InStep
        <5> QED
          BY <2>0, <2>1, <5>1, <5>2 DEF InStep
      <4> QED
        BY <2>0, <2>1, <4>3, <4>4 DEF InStep
    <3> QED
      BY <3>4, <3>5
  <2>2. CASE /\ req.mode = "sync" /\ HasError /\ phase' = "idle" /\ req' = req
             /\ IF req.action = "close_connection"
                THEN do_close(wire)
                ELSE todo' = sent /\ UNCHANGED <<is_connected, socket, wire, eof>>
    <3>1. CASE Gone
      BY <2>2, <3>1, InStepEmpty DEF Gone
    <3>2. CASE Stays(wire)
      BY <2>0, <2>2, <3>2, InStepKept DEF Stays
    <3>3. CASE todo' = sent /\ wire' = wire
      <4>1. socket = "up"
        BY <1>10, <2>2 DEF on_wrote
      <4>2. CASE eof
        BY <2>0, <2>2, <3>3, <4>2, InStepKept
      <4>3. CASE ~eof
        <5>1. parser = "failed"
          BY <2>2, <4>1, <4>3 DEF Connection
        <5> QED
          BY <2>0, <2>2, <5>1 DEF InStep
      <4> QED
        BY <4>2, <4>3
    <3> QED
      BY <2>2, <3>1, <3>2, <3>3, CloseOutcome
  <2> QED
    BY <1>10, <2>1, <2>2 DEF on_wrote, End
<1>11. CASE on_write_error
  <2>1. Gone \/ Stays(wire)
    BY <1>11, CloseOutcome DEF on_write_error, Stays
  <2>2. phase = "writing" /\ phase' = "idle" /\ parser' = parser
    BY <1>11 DEF on_write_error, End
  <2>3. CASE Gone
    BY <2>2, <2>3, InStepEmpty DEF Gone
  <2>4. CASE Stays(wire)
    BY <2>2, <2>4, InStepKept DEF Stays
  <2> QED
    BY <2>1, <2>3, <2>4
<1>12. ASSUME NEW k \in 1..Len(wire), on_read(k)
       PROVE  InStep'
  <2> DEFINE p == llhttp_execute(SubSeq(wire, 1, k))
             left == SubSeq(wire, k + 1, Len(wire))
             rest == left \o todo
  <2>1. /\ parser' = p.parser /\ socket = "up" /\ phase = "reading"
        /\ \/ p.parser = "failed" /\ ReadOver(req.mode = "async", "on_read", p.resp, left)
           \/ /\ p.parser # "failed" /\ p.resp.complete = "message"
              /\ ReadOver(TRUE, error, p.resp, left)
           \/ /\ p.parser # "failed" /\ p.resp.complete # "message"
              /\ resp' = p.resp /\ wire' = left
              /\ UNCHANGED <<is_connected, error, phase, req, socket, eof, todo,
                             last, answers, fresh, issued>>
    BY <1>12 DEF on_read
  <2>2. /\ parser = "failed" => p.parser = "failed"
        /\ parser = "body_until_close" => p.parser = "body_until_close"
        /\ parser = "start" =>
                  \/ p.parser = "failed"
                  \/ p.parser = "body_until_close"
                  \/ /\ p.parser = "body" /\ p.resp.complete = "header"
                     /\ Len(rest) = Len(Stream) - 1 /\ Len(rest) <= 1
                     /\ Len(rest) = 1 => rest[1] = Seg(Asked, "body")
                     /\ eof => todo = <<>>
                  \/ /\ p.parser = "start" /\ p.resp.complete = "message"
                     /\ rest = <<>>
        /\ parser = "body" =>
                  \/ p.parser = "failed"
                  \/ /\ p.parser = "start" /\ p.resp.complete = "message"
                     /\ rest # <<>> => rest[1].part = "body"
    <3> HIDE DEF p, rest
    <3>1. p = llhttp_execute(SubSeq(wire, 1, k)) /\ rest = SubSeq(wire, k + 1, Len(wire)) \o todo
      BY DEF p, rest
    <3> QED
      BY <2>1, <3>1, ReadOutcome
  <2>o. rest = left \o todo
    OBVIOUS
  <2> HIDE DEF p, left, rest
  <2>3. ASSUME NEW ok, NEW e, ReadOver(ok, e, p.resp, left),
               p.parser = "failed" \/ p.resp.complete = "message"
        PROVE  InStep'
    <3>1. p.parser = "start" => rest = <<>> \/ rest[1].part = "body"
      BY <1>0, <2>2 DEF ParserStates
    <3>2. p.parser # "body"
      BY <1>0, <2>2, <2>3 DEF ParserStates
    <3> QED
      BY <2>1, <2>3, <2>o, <3>1, <3>2, ReadOverInStep
  <2>4. CASE /\ p.parser # "failed" /\ p.resp.complete # "message" /\ wire' = left
             /\ UNCHANGED <<phase, req, eof, todo>>
    <3>1. Stream' = rest /\ Asked' = Asked
      BY <2>4, <2>o DEF Stream, Asked
    <3>2. p.parser \in {"body_until_close", "body"}
      BY <1>0, <2>2, <2>4 DEF ParserStates
    <3>3. p.parser = "body" => BodyNext'
      <4>1. SUFFICES ASSUME p.parser = "body" PROVE BodyNext'
        OBVIOUS
      <4>2. /\ Len(rest) = Len(Stream) - 1 /\ Len(rest) <= 1
            /\ Len(rest) = 1 => rest[1] = Seg(Asked, "body")
            /\ eof => todo = <<>>
        BY <1>0, <2>2, <4>1 DEF ParserStates
      <4>3. Len(rest) \in Int
        BY <4>2, StreamTypes
      <4>4. \A i \in 1..Len(rest) : rest[i].part # "fin"
        BY <4>2, <4>3 DEF Seg
      <4>5. OneResponse'
        BY <2>4, <3>1, <4>2, <4>3, <4>4 DEF OneResponse
      <4> QED
        BY <2>4, <3>1, <4>2, <4>3, <4>5 DEF BodyNext
    <3> QED
      BY <2>1, <2>4, <3>2, <3>3 DEF InStep
  <2> QED
    BY <2>1, <2>3, <2>4
<1>13. CASE on_read_error
  <2>1. ReadOver(FALSE, "on_read", resp, wire) /\ parser' = parser /\ phase = "reading"
        /\ (socket # "up" \/ (wire = <<>> /\ eof))
    BY <1>13 DEF on_read_error
  <2>2. parser = "start" => Stream = <<>> \/ Stream[1].part = "body"
    <3>1. SUFFICES ASSUME parser = "start", Stream # <<>>, Stream[1].part # "body" PROVE FALSE
      OBVIOUS
    <3>2. eof => todo = <<>>
      BY <2>1, <3>1 DEF InStep, HeadNext, OneResponse
    <3> QED
      BY <2>1, <3>1, <3>2, EmptyStream DEF Connection
  <2>3. parser = "body" => Stream = <<>>
    <3>1. parser = "body" => (eof => todo = <<>>)
      BY <2>1 DEF InStep, BodyNext, OneResponse
    <3> QED
      BY <2>1, <3>1, EmptyStream DEF Connection
  <2> QED
    BY <2>1, <2>2, <2>3, ReadOverInStep DEF Stream
<1>14. CASE Reset
  <2>1. req'.n = req.n /\ (req'.faults = req.faults \/ req'.faults = req.faults \union {"reset"})
    BY <1>0, <1>14 DEF Reset, Requests
  <2> QED
    BY <1>14, <2>1, InStepFaults DEF Reset, netVars
<1>15. CASE Close
  <2>1. /\ req'.n = req.n /\ (req'.faults = req.faults \/ req'.faults = req.faults \union {"closed"})
        /\ phase' = phase /\ parser' = parser
    BY <1>0, <1>15 DEF Close, Requests
  <2>2. Gone \/ Stays(wire)
    BY <1>15, CloseOutcome DEF Close
  <2>3. CASE Gone
    BY <2>1, <2>3, InStepEmpty DEF Gone, InStep
  <2>4. CASE Stays(wire)
    BY <2>1, <2>4, InStepFaults DEF Stays
  <2> QED
    BY <2>2, <2>3, <2>4
<1>16. CASE ServerSends
  <2>1. phase' = phase /\ parser' = parser /\ req' = req /\ Asked' = Asked
    BY <1>16 DEF ServerSends, Asked
  <2>2. CASE Stream' = Stream /\ eof' = eof /\ todo # <<>>
    <3>1. OneResponse => OneResponse'
      BY <2>2 DEF OneResponse
    <3>2. (HeadNext => HeadNext') /\ (BodyNext => BodyNext')
      BY <2>1, <2>2, <3>1 DEF HeadNext, BodyNext
    <3> QED
      BY <2>1, <2>2, <3>2 DEF InStep
  <2>3. ASSUME eof' = TRUE, NEW m \in 1..Len(Stream),
               Stream[m].part = "fin", Len(Stream') = Len(Stream) - 1,
               \A i \in 1..(m - 1) : Stream'[i] = Stream[i],
               m = Len(Stream) => todo' = <<>>
        PROVE  InStep'
    <3>1. Len(Stream) \in Nat /\ Stream # <<>> /\ m \in Nat /\ m >= 1
      BY <2>3, StreamTypes
    <3>2. OneResponse => /\ m = 3 /\ Len(Stream) = 3 /\ Len(Stream') = 2 /\ todo' = <<>>
                         /\ Stream'[1] = Stream[1] /\ Stream'[2] = Stream[2]
      <4>1. SUFFICES ASSUME OneResponse
                     PROVE  /\ m = 3 /\ Len(Stream) = 3 /\ Len(Stream') = 2 /\ todo' = <<>>
                            /\ Stream'[1] = Stream[1] /\ Stream'[2] = Stream[2]
        OBVIOUS
      <4>2. m = 3 /\ Len(Stream) = 3
        BY <2>3, <3>1, <4>1 DEF OneResponse
      <4>3. Len(Stream') = 2 /\ 1 \in 1..(m - 1) /\ 2 \in 1..(m - 1)
        BY <2>3, <4>2
      <4> QED
        BY <2>3, <4>2, <4>3
    <3>3. Stream[1].part = "body" => Stream' # <<>> /\ Stream'[1].part = "body"
      <4>1. SUFFICES ASSUME Stream[1].part = "body" PROVE Stream' # <<>> /\ Stream'[1].part = "body"
        OBVIOUS
      <4>2. m # 1
        BY <2>3, <4>1
      <4>3. 1 \in 1..(m - 1) /\ Len(Stream') >= 1
        BY <2>3, <3>1, <4>2
      <4>4. Stream' # <<>>
        <5>1. Len(<<>>) = 0
          BY EmptySeq
        <5> QED
          BY <4>3, <5>1
      <4> QED
        BY <2>3, <4>1, <4>3, <4>4
    <3>4. OneResponse => (OneResponse' /\ Stream[2].part # "fin")
      <4>1. SUFFICES ASSUME OneResponse PROVE OneResponse' /\ Stream[2].part # "fin"
        OBVIOUS
      <4>2. Stream[1].part # "fin" /\ Stream[2].part # "fin"
        <5>1. 1 \in 1..Len(Stream) /\ 2 \in 1..Len(Stream)
          BY <3>2, <4>1
        <5> QED
          BY <4>1, <5>1 DEF OneResponse
      <4>3. \A i \in 1..Len(Stream') : Stream'[i].part # "fin"
        <5>1. \A i \in 1..Len(Stream') : i = 1 \/ i = 2
          BY <3>2, <4>1
        <5> QED
          BY <3>2, <4>1, <4>2, <5>1
      <4>4. Len(Stream') <= 3 /\ todo' = <<>>
        BY <3>2, <4>1
      <4> QED
        BY <4>2, <4>3, <4>4 DEF OneResponse
    <3>5. HeadNext => HeadNext'
      <4>1. SUFFICES ASSUME HeadNext PROVE HeadNext'
        OBVIOUS
      <4>2. CASE Stream[1].part = "body"
        BY <3>3, <4>2 DEF HeadNext
      <4>3. CASE Stream[1].part # "body"
        <5>1. OneResponse
          BY <3>1, <4>1, <4>3 DEF HeadNext
        <5>2. Stream[1].part # "head_length"
          BY <3>1, <3>2, <4>1, <4>3, <5>1 DEF HeadNext
        <5> QED
          BY <3>2, <3>4, <5>1, <5>2 DEF HeadNext
      <4> QED
        BY <4>2, <4>3
    <3>6. BodyNext => BodyNext'
      <4>1. SUFFICES ASSUME BodyNext PROVE BodyNext'
        OBVIOUS
      <4>2. OneResponse /\ OneResponse'
        BY <3>4, <4>1 DEF BodyNext
      <4>3. "parser" \in req.faults /\ Stream[2].part = "body"
        BY <3>2, <4>1, <4>2 DEF BodyNext
      <4> QED
        BY <2>1, <3>2, <4>2, <4>3 DEF BodyNext
    <3> QED
      BY <2>1, <3>1, <3>3, <3>5, <3>6 DEF InStep
  <2> QED
    BY <1>16, <2>2, <2>3, SendStream
<1>17. CASE Break
  <2>1. /\ req'.n = req.n /\ (req'.faults = req.faults \/ req'.faults = req.faults \union {"broken"})
        /\ phase' = phase /\ parser' = parser
    BY <1>0, <1>17 DEF Break, Requests
  <2>2. /\ Len(Stream') \in 0..Len(Stream) /\ todo' = <<>> /\ eof' = TRUE
        /\ \A i \in 1..Len(Stream') : Stream'[i] = Stream[i]
        /\ Stream' # <<>> => Len(Stream') >= 1
    BY <1>17, BreakStream
  <2>3. Len(Stream) \in Nat /\ (Stream = <<>> => Len(Stream) = 0) /\ Asked' = Asked
    BY <2>1, StreamTypes DEF Asked
  <2>4. Stream' # <<>> => Stream # <<>> /\ Stream'[1] = Stream[1]
    <3>1. Stream' # <<>> => 1 \in 1..Len(Stream') /\ Len(Stream) # 0
      BY <2>2, <2>3
    <3> QED
      BY <2>2, <2>3, <3>1
  <2>5. OneResponse => OneResponse'
    BY <2>2, <2>3 DEF OneResponse
  <2>6. Len(Stream') >= 2 => Len(Stream) >= 2 /\ Stream'[2] = Stream[2]
    BY <2>2, <2>3
  <2>7. HeadNext => HeadNext'
    <3>1. SUFFICES ASSUME HeadNext, Stream' # <<>>, Stream'[1].part # "body"
                   PROVE  /\ OneResponse'
                          /\ Stream'[1].part = "head_length" =>
                                 /\ Stream'[1].of = Asked'
                                 /\ Len(Stream') <= 2
                                 /\ Len(Stream') = 2 => Stream'[2] = Seg(Asked', "body")
      BY DEF HeadNext
    <3>2. /\ OneResponse
          /\ Stream[1].part = "head_length" =>
                 /\ Stream[1].of = Asked
                 /\ Len(Stream) <= 2
                 /\ Len(Stream) = 2 => Stream[2] = Seg(Asked, "body")
      BY <2>4, <3>1 DEF HeadNext
    <3>3. OneResponse'
      BY <2>5, <3>2
    <3>4. ASSUME Stream'[1].part = "head_length"
          PROVE  /\ Stream'[1].of = Asked'
                 /\ Len(Stream') <= 2
                 /\ Len(Stream') = 2 => Stream'[2] = Seg(Asked', "body")
      <4>1. /\ Stream[1].of = Asked
            /\ Len(Stream) <= 2
            /\ Len(Stream) = 2 => Stream[2] = Seg(Asked, "body")
        BY <2>4, <3>1, <3>2, <3>4
      <4>2. Len(Stream') <= 2
        BY <2>2, <2>3, <4>1
      <4>3. Len(Stream') = 2 => Len(Stream) = 2 /\ Stream'[2] = Stream[2]
        <5> DEFINE a == Len(Stream')
                   b == Len(Stream)
        <5>1. b \in Nat /\ a \in 0..b /\ b <= 2
          BY <2>2, <2>3, <4>1
        <5> HIDE DEF a, b
        <5>2. a = 2 => b = 2 /\ a >= 2
          BY <5>1
        <5> QED
          BY <2>6, <5>2 DEF a, b
      <4> QED
        BY <2>3, <2>4, <3>1, <4>1, <4>2, <4>3
    <3> QED
      BY <3>3, <3>4
  <2>8. BodyNext => BodyNext'
    <3>1. SUFFICES ASSUME BodyNext PROVE BodyNext'
      OBVIOUS
    <3>2. OneResponse'
      BY <2>5, <3>1 DEF BodyNext
    <3>3. Len(Stream') >= 2 => Stream'[2].part = "body"
      BY <2>6, <3>1 DEF BodyNext
    <3>4. "parser" \notin req'.faults =>
              Len(Stream') <= 1 /\ (Len(Stream') = 1 => Stream'[1] = Seg(Asked', "body"))
      <4>1. SUFFICES ASSUME "parser" \notin req'.faults
                     PROVE  Len(Stream') <= 1 /\ (Len(Stream') = 1 => Stream'[1] = Seg(Asked', "body"))
        OBVIOUS
      <4>2. Len(Stream) <= 1 /\ (Len(Stream) = 1 => Stream[1] = Seg(Asked, "body"))
        BY <2>1, <3>1, <4>1 DEF BodyNext
      <4>3. Len(Stream') <= 1
        BY <2>2, <2>3, <4>2
      <4>4. Len(Stream') = 1 => Len(Stream) = 1 /\ 1 \in 1..Len(Stream')
        <5> DEFINE a == Len(Stream')
                   b == Len(Stream)
        <5>1. b \in Nat /\ a \in 0..b /\ b <= 1
          BY <2>2, <2>3, <4>2
        <5> HIDE DEF a, b
        <5>2. a = 1 => b = 1 /\ 1 \in 1..a
          BY <5>1
        <5> QED
          BY <5>2 DEF a, b
      <4> QED
        BY <2>2, <2>3, <4>2, <4>3, <4>4
    <3> QED
      BY <3>2, <3>3, <3>4 DEF BodyNext
  <2>9. Stream = <<>> => Stream' = <<>>
    BY <2>4
  <2>10. "buffer" \in req'.faults => "buffer" \in req.faults
    BY <2>1
  <2> QED
    BY <2>1, <2>4, <2>7, <2>8, <2>9, <2>10 DEF InStep
<1>18. CASE UNCHANGED clientVars
  BY <1>18, InStepFaults DEF clientVars
<1> QED
  BY <1>1, <1>2, <1>3, <1>4, <1>6, <1>7, <1>8, <1>9, <1>10, <1>11, <1>12, <1>13, <1>14,
     <1>15, <1>16, <1>17, <1>18 DEF ClientNext, Completion

-------------------------------------------------------------------------------
(* Client: the response so far *)

\* What is not in the middle of a response is not fresh after a report.
LEMMA SoFarKept ==
    ASSUME SoFar, phase # "reading", phase' # "reading", fresh' => fresh, resp' = resp
    PROVE  SoFar'
  BY DEF SoFar

\* The response that is being read is made from nothing but the answer to its request.
LEMMA SoFarStep ==
    ClientTypeOK /\ InStep /\ SoFar /\ [ClientNext]_clientVars => SoFar'
<1> SUFFICES ASSUME ClientTypeOK, InStep, SoFar, [ClientNext]_clientVars PROVE SoFar'
  OBVIOUS
<1>0. /\ fresh \in BOOLEAN /\ req \in Requests /\ req.faults \in SUBSET Faults
      /\ parser \in ParserStates
  BY DEF ClientTypeOK, Requests
<1>b. ASSUME NEW e, NEW faults, FailEarly(e, faults), phase # "reading"
      PROVE  SoFar'
  BY <1>b, SoFarKept DEF FailEarly, End
<1>c. ASSUME NEW ok, NEW e, NEW r, NEW left, ReadOver(ok, e, r, left)
      PROVE  SoFar'
  <2>1. fresh' = FALSE /\ phase' # "reading"
    BY <1>c DEF ReadOver, End, Chain, do_connect
  <2> QED
    BY <2>1 DEF SoFar
<1>1. ASSUME NEW mode \in {"sync", "async"}, NEW action \in {"keep_connection", "close_connection"},
             Request(mode, action)
      PROVE  SoFar'
  BY <1>1, SoFarKept DEF Request, do_connect
<1>2. CASE on_resolve_error
  BY <1>2, <1>b DEF on_resolve_error
<1>3. CASE on_resolve_empty
  BY <1>3, <1>b, SoFarKept DEF on_resolve_empty
<1>4. CASE on_resolved
  <2>1. phase = "resolving"
    BY <1>4 DEF on_resolved
  <2>2. CASE do_connect(is_connected) /\ fresh' = fresh /\ resp' = resp
    BY <2>1, <2>2, SoFarKept DEF do_connect
  <2> QED
    BY <1>4, <1>b, <2>1, <2>2 DEF on_resolved
<1>5. CASE Connected
  BY <1>5 DEF Connected, do_connect, SoFar
<1>6. CASE on_connected
  BY <1>5, <1>6, SoFarKept DEF on_connected
<1>7. CASE on_connect_error
  BY <1>7, <1>b DEF on_connect_error
<1>8. CASE on_handshake
  BY <1>5, <1>8 DEF on_handshake
<1>9. CASE on_handshake_error
  BY <1>9, <1>b DEF on_handshake_error
<1>10. ASSUME NEW kind \in {"length", "until_close", "malformed"}, NEW intact \in BOOLEAN,
              on_wrote(kind, intact)
       PROVE  SoFar'
  <2> DEFINE f == FaultsFound(kind, intact)
  <2>0. phase = "writing" /\ parser' = parser
    BY <1>10 DEF on_wrote
  <2>1. CASE /\ req' = [req EXCEPT !.faults = @ \union f] /\ phase' = "reading"
             /\ UNCHANGED <<resp, fresh>>
    <3>1. /\ req'.faults = req.faults \union f
          /\ parser # "start" => "parser" \in f
          /\ "mixed" \notin f => fresh
      BY <1>0, <2>1 DEF Requests, FaultsFound
    <3>2. fresh => resp.heads = <<>>
      BY <2>0 DEF SoFar, NoResponse
    <3> HIDE DEF f
    <3>3. req'.faults \intersect {"parser", "buffer", "reset"} = {} => parser = "start"
      BY <3>1
    <3>4. "mixed" \notin req'.faults => resp.heads = <<>>
      BY <3>1, <3>2
    <3> QED
      BY <2>0, <2>1, <3>3, <3>4 DEF SoFar
  <2>2. CASE End
    BY <2>0, <2>2 DEF End, SoFar
  <2> QED
    BY <1>10, <2>1, <2>2 DEF on_wrote
<1>11. CASE on_write_error
  BY <1>11 DEF on_write_error, End, SoFar
<1>12. ASSUME NEW k \in 1..Len(wire), on_read(k)
       PROVE  SoFar'
  <2> DEFINE p == llhttp_execute(SubSeq(wire, 1, k))
             left == SubSeq(wire, k + 1, Len(wire))
             rest == left \o todo
  <2>1. /\ parser' = p.parser /\ phase = "reading"
        /\ \/ ReadOver(req.mode = "async", "on_read", p.resp, left)
           \/ ReadOver(TRUE, error, p.resp, left)
           \/ /\ p.parser # "failed" /\ p.resp.complete # "message"
              /\ resp' = p.resp
              /\ UNCHANGED <<phase, req>>
    BY <1>12 DEF on_read
  <2>2. /\ parser = "body_until_close" => p.parser = "body_until_close"
        /\ parser = "start" =>
                  \/ p.parser = "failed"
                  \/ p.parser = "body_until_close"
                  \/ /\ p.parser = "body" /\ p.resp.body = <<>>
                     /\ p.resp.heads = Append(resp.heads, Asked)
                  \/ p.resp.complete = "message"
        /\ parser = "body" => p.parser = "failed" \/ p.resp.complete = "message"
    <3> HIDE DEF p, rest
    <3>1. p = llhttp_execute(SubSeq(wire, 1, k)) /\ rest = SubSeq(wire, k + 1, Len(wire)) \o todo
      BY DEF p, rest
    <3> QED
      BY <2>1, <3>1, ReadOutcome
  <2> HIDE DEF p, left, rest
  <2>3. CASE /\ p.parser # "failed" /\ p.resp.complete # "message"
             /\ resp' = p.resp
             /\ UNCHANGED <<phase, req>>
    <3> SUFFICES ASSUME req.faults \intersect {"parser", "buffer", "reset"} = {}
                 PROVE  /\ p.parser # "start"
                        /\ p.parser = "body" =>
                               /\ p.resp.body = <<>>
                               /\ "mixed" \notin req.faults => p.resp.heads = <<req.n>>
      BY <2>1, <2>3 DEF SoFar
    <3>1. parser # "failed" /\ (parser = "start" /\ "mixed" \notin req.faults => resp.heads = <<>>)
      BY <2>1 DEF SoFar
    <3>2. CASE parser = "start"
      <4>1. Asked = req.n
        BY DEF Asked
      <4>2. Append(<<>>, req.n) = <<req.n>>
        OBVIOUS
      <4> QED
        BY <2>2, <2>3, <3>1, <3>2, <4>1, <4>2
    <3> QED
      BY <1>0, <2>2, <2>3, <3>1, <3>2 DEF ParserStates
  <2> QED
    BY <1>c, <2>1, <2>3
<1>13. CASE on_read_error
  BY <1>13, <1>c DEF on_read_error
<1>14. CASE Reset
  <2>1. phase = "reading" => "reset" \in req'.faults
    BY <1>0, <1>14 DEF Reset, Busy, Requests
  <2>2. resp' = NoResponse /\ phase' = phase
    BY <1>14 DEF Reset
  <2> QED
    BY <2>1, <2>2 DEF SoFar
<1>15. ASSUME UNCHANGED <<phase, parser, resp, fresh>>, req.faults \subseteq req'.faults, req'.n = req.n
       PROVE  SoFar'
  BY <1>15 DEF SoFar
<1>16. CASE Close
  BY <1>0, <1>15, <1>16 DEF Close, Requests
<1>17. CASE ServerSends
  BY <1>15, <1>17 DEF ServerSends
<1>18. CASE Break
  BY <1>0, <1>15, <1>18 DEF Break, Requests
<1>19. CASE UNCHANGED clientVars
  BY <1>15, <1>19 DEF clientVars
<1> QED
  BY <1>1, <1>2, <1>3, <1>4, <1>6, <1>7, <1>8, <1>9, <1>10, <1>11, <1>12, <1>13, <1>14,
     <1>16, <1>17, <1>18, <1>19 DEF ClientNext, Completion

\* Only a write begins to read.
LEMMA CleanStep ==
    ClientTypeOK /\ Connection /\ InStep /\ Clean /\ [ClientNext]_clientVars => Clean'
<1> SUFFICES ASSUME ClientTypeOK, Connection, InStep, Clean, [ClientNext]_clientVars,
                    phase' = "reading", req'.faults \subseteq {"mixed"}
             PROVE  /\ socket' = "up" /\ ~eof' /\ ~HasError'
                    /\ \/ parser' = "start" /\ Len(Stream') = 2 /\ Stream'[1].part = "head_length"
                       \/ parser' = "body" /\ Len(Stream') = 1
  BY DEF Clean
<1>0. /\ eof \in BOOLEAN /\ fresh \in BOOLEAN /\ req \in Requests /\ req.faults \in SUBSET Faults
      /\ req.n \in 0..MaxRequests
      /\ parser \in ParserStates /\ socket \in {"closed", "raw", "up"}
      /\ wire \in Seq(Segments) /\ todo \in Seq(Segments) /\ is_connected \in BOOLEAN
  BY DEF ClientTypeOK, Requests
<1>1. CASE phase = "reading"
  <2>0. req.faults \subseteq {"mixed"} =>
            /\ socket = "up" /\ ~eof /\ ~HasError
            /\ \/ parser = "start" /\ Len(Stream) = 2 /\ Stream[1].part = "head_length"
               \/ parser = "body" /\ Len(Stream) = 1
    BY <1>1 DEF Clean
  <2>1. ASSUME NEW k \in 1..Len(wire), on_read(k)
        PROVE  /\ socket' = "up" /\ ~eof' /\ ~HasError'
               /\ parser' = "body" /\ Len(Stream') = 1
    <3> DEFINE p == llhttp_execute(SubSeq(wire, 1, k))
               left == SubSeq(wire, k + 1, Len(wire))
               rest == left \o todo
    <3>1. /\ parser' = p.parser
          /\ p.parser # "failed" /\ p.resp.complete # "message" /\ wire' = left
          /\ UNCHANGED <<error, req, socket, eof, todo>>
      <4>1. ASSUME NEW ok, NEW e, NEW r, ReadOver(ok, e, r, left) PROVE FALSE
        BY <4>1 DEF ReadOver, End, Chain, do_connect
      <4> QED
        BY <2>1, <4>1 DEF on_read
    <3>2. /\ parser = "start" =>
                  \/ p.parser = "failed"
                  \/ Stream[1].part # "head_length"
                  \/ p.parser = "body" /\ Len(rest) = Len(Stream) - 1
                  \/ p.resp.complete = "message"
          /\ parser = "body" => p.parser = "failed" \/ p.resp.complete = "message"
      <4> HIDE DEF p, rest
      <4>1. p = llhttp_execute(SubSeq(wire, 1, k)) /\ rest = SubSeq(wire, k + 1, Len(wire)) \o todo
        BY DEF p, rest
      <4> QED
        BY <1>1, <2>1, <4>1, ReadOutcome
    <3>3. Stream' = rest
      BY <3>1 DEF Stream
    <3> HIDE DEF p, left, rest
    <3>4. /\ socket = "up" /\ ~eof /\ ~HasError
          /\ \/ parser = "start" /\ Len(Stream) = 2 /\ Stream[1].part = "head_length"
             \/ parser = "body" /\ Len(Stream) = 1
      <4>1. req.faults \subseteq {"mixed"}
        BY <3>1
      <4> QED
        BY <2>0, <4>1
    <3>5. socket' = "up" /\ ~eof' /\ ~HasError'
      BY <3>1, <3>4 DEF HasError
    <3>6. parser = "start"
      BY <3>1, <3>2, <3>4
    <3>7. p.parser = "body" /\ Len(rest) = Len(Stream) - 1 /\ Len(Stream) = 2
      BY <3>1, <3>2, <3>4, <3>6
    <3>8. Len(Stream') = 1
      <4> DEFINE a == Len(rest)
                 b == Len(Stream)
      <4>1. a = b - 1 /\ b = 2
        BY <3>7
      <4> HIDE DEF a, b
      <4>2. a = 1
        BY <4>1
      <4> QED
        BY <3>3, <4>2 DEF a
    <3> QED
      BY <3>1, <3>5, <3>7, <3>8
  <2>2. ASSUME NEW ok, NEW e, NEW r, NEW left, ReadOver(ok, e, r, left) PROVE FALSE
    BY <2>2 DEF ReadOver, End, Chain, do_connect
  <2>3. CASE Reset
    <3>1. "reset" \in req'.faults
      BY <1>0, <1>1, <2>3 DEF Reset, Busy, Requests
    <3> QED
      BY <3>1
  <2>4. CASE Close
    <3>1. "closed" \in req'.faults
      BY <1>0, <1>1, <2>4 DEF Close, Busy, Requests
    <3> QED
      BY <3>1
  <2>5. CASE Break
    <3>1. "broken" \in req'.faults
      BY <1>0, <1>1, <2>5 DEF Break, Busy, Requests
    <3> QED
      BY <3>1
  <2>6. CASE ServerSends
    <3>0. UNCHANGED <<socket, parser, error, req>>
      BY <2>6 DEF ServerSends
    <3>1. CASE Stream' = Stream /\ eof' = eof
      BY <2>0, <3>0, <3>1 DEF HasError
    <3>2. ASSUME NEW m \in 1..Len(Stream), Stream[m].part = "fin" PROVE FALSE
      <4>1. OneResponse
        BY <1>1, <2>0, <3>0, StreamTypes DEF InStep, HeadNext, BodyNext
      <4>2. m = 3 /\ Len(Stream) <= 2
        BY <2>0, <3>0, <3>2, <4>1 DEF OneResponse
      <4> QED
        BY <3>2, <4>2
    <3> QED
      BY <2>6, <3>1, <3>2, SendStream
  <2>7. CASE UNCHANGED clientVars
    BY <2>0, <2>7 DEF clientVars, Stream, HasError
  <2>8. CASE on_read_error
    BY <2>2, <2>8 DEF on_read_error
  <2>9. ASSUME NEW mode \in {"sync", "async"}, NEW action \in {"keep_connection", "close_connection"},
               Request(mode, action)
        PROVE  FALSE
    BY <1>1, <2>9 DEF Request
  <2>10. \/ on_resolve_error \/ on_resolve_empty \/ on_resolved
         \/ on_connected \/ on_connect_error
         \/ on_handshake \/ on_handshake_error
         \/ \E kind \in {"length", "until_close", "malformed"}, intact \in BOOLEAN : on_wrote(kind, intact)
         \/ on_write_error
         => FALSE
    BY <1>1 DEF on_resolve_error, on_resolve_empty, on_resolved, on_connected, on_connect_error,
                on_handshake, on_handshake_error, on_wrote, on_write_error
  <2> QED
    BY <2>1, <2>3, <2>4, <2>5, <2>6, <2>7, <2>8, <2>9, <2>10 DEF ClientNext, Completion
<1>2. CASE phase # "reading"
  <2>1. PICK kind \in {"length", "until_close", "malformed"}, intact \in BOOLEAN : on_wrote(kind, intact)
    <3>1. Reset \/ Close \/ ServerSends \/ Break \/ UNCHANGED clientVars => phase' = phase
      BY DEF Reset, Close, ServerSends, Break, clientVars
    <3>2. ASSUME NEW mode \in {"sync", "async"}, NEW action \in {"keep_connection", "close_connection"},
                 Request(mode, action)
          PROVE  phase' # "reading"
      BY <3>2 DEF Request, do_connect
    <3>3. on_resolve_error \/ on_connect_error \/ on_handshake_error \/ on_write_error => phase' = "idle"
      BY DEF on_resolve_error, on_connect_error, on_handshake_error, on_write_error, FailEarly, End
    <3>4. on_resolve_empty => phase' # "reading"
      BY DEF on_resolve_empty, FailEarly, End
    <3>5. on_resolved => phase' # "reading"
      BY DEF on_resolved, do_connect, FailEarly, End
    <3>6. on_connected \/ on_handshake => phase' # "reading"
      BY DEF on_connected, on_handshake, Connected, do_connect
    <3>7. ASSUME NEW k \in 1..Len(wire), on_read(k) PROVE FALSE
      BY <1>2, <3>7 DEF on_read
    <3>8. on_read_error => FALSE
      BY <1>2 DEF on_read_error
    <3> QED
      BY <1>2, <3>1, <3>2, <3>3, <3>4, <3>5, <3>6, <3>7, <3>8 DEF ClientNext, Completion
  <2> DEFINE f == FaultsFound(kind, intact)
             n == IF intact THEN req.n ELSE 0
             R == Response(n, kind)
  <2>2. /\ phase = "writing" /\ (socket = "up" \/ socket = "closed")
        /\ req' = [req EXCEPT !.faults = @ \union f]
        /\ todo' = IF socket = "up" /\ ~eof THEN todo \o R ELSE todo
        /\ UNCHANGED <<parser, error, socket, wire, eof>>
    BY <2>1 DEF on_wrote, End
  <2>3. req'.faults = req.faults \union f
    BY <1>0, <2>2 DEF Requests
  <2>4. /\ req.faults \subseteq {"mixed"}
        /\ parser = "start" /\ wire = <<>> /\ todo = <<>> /\ ~HasError /\ ~eof /\ kind = "length"
    <3>1. \A x : x \in f => x = "mixed"
      BY <2>3
    <3>2. "parser" \notin f /\ "leftover" \notin f /\ "stale_error" \notin f /\ "broken" \notin f
      BY <3>1
    <3>3. kind # "length" => kind \in f
      BY DEF FaultsFound
    <3>4. /\ parser # "start" => "parser" \in f
          /\ (wire # <<>> \/ todo # <<>>) => "leftover" \in f
          /\ HasError => "stale_error" \in f
          /\ eof => "broken" \in f
      BY DEF FaultsFound
    <3> HIDE DEF f
    <3> QED
      BY <2>3, <3>1, <3>2, <3>3, <3>4
  <2>5. socket = "up"
    BY <2>2, <2>4 DEF Connection
  <2>6. Stream = <<>>
    BY <2>4, EmptyStream
  <2>7. n \in 0..MaxRequests
    BY <1>0, ClientAssumption
  <2> HIDE DEF n, f
  <2>8. R \in Seq(Segments) /\ Len(R) = 2 /\ R[1] = Seg(n, "head_length")
    BY <2>4, <2>7, ResponseTypes
  <2> HIDE DEF R
  <2>9. Stream' = R
    BY <2>2, <2>4, <2>5, <2>6, <2>8, WriteStream
  <2> QED
    BY <1>0, <2>2, <2>4, <2>5, <2>8, <2>9 DEF HasError, Seg
<1> QED
  BY <1>1, <1>2

-------------------------------------------------------------------------------
(* Client: what is reported *)

\* A report is counted, and a request that is issued at once is counted with it.
LEMMA CountedStep ==
    ClientTypeOK /\ Counted /\ [ClientNext]_clientVars => Counted'
<1> SUFFICES ASSUME ClientTypeOK, Counted, [ClientNext]_clientVars PROVE Counted'
  OBVIOUS
<1>0. answers \in Nat /\ issued \in Nat
  BY ClientAssumption DEF ClientTypeOK
<1>a. ASSUME phase = "idle" <=> phase' = "idle", answers' = answers, issued' = issued
      PROVE  Counted'
  BY <1>a DEF Counted
<1>b. ASSUME phase # "idle", phase' = "idle", answers' = answers + 1, issued' = issued
      PROVE  Counted'
  BY <1>0, <1>b DEF Counted
<1>c. ASSUME phase # "idle", phase' # "idle", answers' = answers + 1, issued' = issued + 1
      PROVE  Counted'
  BY <1>0, <1>c DEF Counted
<1>d. ASSUME NEW ok, NEW e, NEW r, NEW left, ReadOver(ok, e, r, left), phase = "reading"
      PROVE  Counted'
  <2>1. CASE End
    BY <1>b, <1>d, <2>1 DEF End, ReadOver, Tell
  <2>2. ASSUME NEW action, Chain(action) PROVE Counted'
    BY <1>c, <1>d, <2>2 DEF Chain, ReadOver, Tell, do_connect
  <2> QED
    BY <1>d, <2>1, <2>2 DEF ReadOver
<1>e. ASSUME NEW e, NEW faults, FailEarly(e, faults), phase # "idle" PROVE Counted'
  BY <1>b, <1>e DEF FailEarly, End
<1>1. ASSUME NEW mode \in {"sync", "async"}, NEW action \in {"keep_connection", "close_connection"},
             Request(mode, action)
      PROVE  Counted'
  <2>1. phase = "idle" /\ phase' # "idle" /\ answers' = answers /\ issued' = issued + 1
    BY <1>1 DEF Request, do_connect
  <2> QED
    BY <1>0, <2>1 DEF Counted
<1>2. CASE on_resolve_error
  BY <1>2, <1>e DEF on_resolve_error
<1>3. CASE on_resolve_empty
  BY <1>3, <1>a, <1>e DEF on_resolve_empty
<1>4. CASE on_resolved
  BY <1>4, <1>a, <1>e DEF on_resolved, do_connect
<1>5. CASE on_connected
  BY <1>5, <1>a DEF on_connected, Connected, do_connect
<1>6. CASE on_connect_error
  BY <1>6, <1>e DEF on_connect_error
<1>7. CASE on_handshake
  BY <1>7, <1>a DEF on_handshake, Connected, do_connect
<1>8. CASE on_handshake_error
  BY <1>8, <1>e DEF on_handshake_error
<1>9. ASSUME NEW kind \in {"length", "until_close", "malformed"}, NEW intact \in BOOLEAN,
             on_wrote(kind, intact)
      PROVE  Counted'
  BY <1>9, <1>a, <1>b DEF on_wrote, End
<1>10. CASE on_write_error
  BY <1>10, <1>b DEF on_write_error, End
<1>11. ASSUME NEW k \in 1..Len(wire), on_read(k) PROVE Counted'
  <2> DEFINE p == llhttp_execute(SubSeq(wire, 1, k))
             left == SubSeq(wire, k + 1, Len(wire))
  <2>1. /\ phase = "reading"
        /\ \/ ReadOver(req.mode = "async", "on_read", p.resp, left)
           \/ ReadOver(TRUE, error, p.resp, left)
           \/ UNCHANGED <<phase, answers, issued>>
    BY <1>11 DEF on_read
  <2> HIDE DEF p, left
  <2> QED
    BY <1>a, <1>d, <2>1
<1>12. CASE on_read_error
  BY <1>12, <1>d DEF on_read_error
<1>13. CASE Reset \/ Close \/ ServerSends \/ Break \/ UNCHANGED clientVars
  BY <1>13, <1>a DEF Reset, Close, ServerSends, Break, clientVars
<1> QED
  BY <1>1, <1>2, <1>3, <1>4, <1>5, <1>6, <1>7, <1>8, <1>9, <1>10, <1>11, <1>12, <1>13
     DEF ClientNext, Completion

\* What a report that claims success must show.
Right(report) ==
    (report.ok /\ ~report.err /\ report.n > 0
      /\ report.faults \intersect {"parser", "buffer", "reset"} = {})
    => /\ report.resp.complete = "message"
       /\ report.resp.body = <<Seg(report.n, "body")>>
       /\ "mixed" \notin report.faults => report.resp.heads = <<report.n>>

\* Only a read reports success, and only when the message is complete.
LEMMA RightStep ==
    ClientTypeOK /\ InStep /\ SoFar /\ Right(last) /\ [ClientNext]_clientVars => Right(last')
<1> SUFFICES ASSUME ClientTypeOK, InStep, SoFar, Right(last), [ClientNext]_clientVars
             PROVE  Right(last')
  OBVIOUS
<1>0. /\ parser \in ParserStates /\ resp \in Responses
      /\ wire \in Seq(Segments) /\ Len(wire) \in Nat
  BY LenProperties DEF ClientTypeOK
<1>a. ASSUME last' = last PROVE Right(last')
  BY <1>a
<1>b. ASSUME last'.ok = FALSE \/ last'.err = TRUE PROVE Right(last')
  BY <1>b DEF Right
<1>c. ASSUME NEW e, NEW faults, FailEarly(e, faults) PROVE Right(last')
  BY <1>b, <1>c DEF FailEarly
<1>1. ASSUME NEW mode \in {"sync", "async"}, NEW action \in {"keep_connection", "close_connection"},
             Request(mode, action)
      PROVE  Right(last')
  <2>1. last'.n = 0
    BY <1>1 DEF Request, NoReport
  <2> QED
    BY <2>1 DEF Right
<1>2. CASE on_resolve_error \/ on_connect_error \/ on_handshake_error
  BY <1>2, <1>c DEF on_resolve_error, on_connect_error, on_handshake_error
<1>3. CASE on_resolve_empty
  BY <1>3, <1>a, <1>c DEF on_resolve_empty
<1>4. CASE on_resolved
  BY <1>4, <1>a, <1>c DEF on_resolved
<1>5. CASE on_connected \/ on_handshake
  BY <1>5, <1>a DEF on_connected, on_handshake, Connected
<1>6. ASSUME NEW kind \in {"length", "until_close", "malformed"}, NEW intact \in BOOLEAN,
             on_wrote(kind, intact)
      PROVE  Right(last')
  <2>1. last' = last \/ last'.ok = FALSE
    BY <1>6 DEF on_wrote
  <2> QED
    BY <1>a, <1>b, <2>1
<1>7. CASE on_write_error
  BY <1>7, <1>b DEF on_write_error
<1>8. ASSUME NEW k \in 1..Len(wire), on_read(k) PROVE Right(last')
  <2> DEFINE p == llhttp_execute(SubSeq(wire, 1, k))
             left == SubSeq(wire, k + 1, Len(wire))
             rest == left \o todo
  <2>1. /\ phase = "reading"
        /\ \/ ReadOver(req.mode = "async", "on_read", p.resp, left)
           \/ /\ p.parser # "failed" /\ p.resp.complete = "message"
              /\ ReadOver(TRUE, error, p.resp, left)
           \/ last' = last
    BY <1>8 DEF on_read
  <2>2. /\ parser = "failed" => p.parser = "failed"
        /\ parser = "body_until_close" => p.resp.complete = resp.complete
        /\ parser = "start" =>
                  \/ p.parser = "failed"
                  \/ p.resp.complete = "header"
                  \/ /\ p.resp.complete = "message"
                     /\ p.resp.body = Append(<<>>, Seg(Asked, "body"))
                     /\ p.resp.heads = Append(resp.heads, Asked)
        /\ parser = "body" =>
                  \/ p.parser = "failed"
                  \/ /\ p.resp.complete = "message"
                     /\ p.resp.heads = resp.heads
                     /\ "parser" \notin req.faults =>
                            p.resp.body = Append(resp.body, Seg(Asked, "body"))
    <3> HIDE DEF p, rest
    <3>1. p = llhttp_execute(SubSeq(wire, 1, k)) /\ rest = SubSeq(wire, k + 1, Len(wire)) \o todo
      BY DEF p, rest
    <3> QED
      BY <2>1, <3>1, ReadOutcome
  <2> HIDE DEF p, left
  <2>3. CASE ReadOver(req.mode = "async", "on_read", p.resp, left)
    BY <1>b, <2>3 DEF ReadOver, Tell
  <2>4. CASE /\ p.parser # "failed" /\ p.resp.complete = "message"
             /\ ReadOver(TRUE, error, p.resp, left)
    <3>1. last'.n = req.n /\ last'.faults = req.faults /\ last'.resp = p.resp
      BY <2>4 DEF ReadOver, Tell
    <3> SUFFICES ASSUME req.faults \intersect {"parser", "buffer", "reset"} = {}
                 PROVE  /\ p.resp.body = <<Seg(req.n, "body")>>
                        /\ "mixed" \notin req.faults => p.resp.heads = <<req.n>>
      BY <2>4, <3>1 DEF Right
    <3>2. /\ parser # "failed"
          /\ parser = "body_until_close" => resp.complete # "message"
          /\ parser = "start" /\ "mixed" \notin req.faults => resp.heads = <<>>
          /\ parser = "body" => /\ resp.body = <<>>
                                /\ "mixed" \notin req.faults => resp.heads = <<req.n>>
      BY <2>1 DEF SoFar
    <3>3. Asked = req.n /\ "parser" \notin req.faults
      BY DEF Asked
    <3>4. Append(<<>>, req.n) = <<req.n>> /\ Append(<<>>, Seg(req.n, "body")) = <<Seg(req.n, "body")>>
      OBVIOUS
    <3>5. parser = "start" \/ parser = "body"
      BY <1>0, <2>2, <2>4, <3>2 DEF ParserStates
    <3>6. CASE parser = "start"
      BY <2>2, <2>4, <3>2, <3>3, <3>4, <3>6
    <3>7. CASE parser = "body"
      BY <2>2, <2>4, <3>2, <3>3, <3>4, <3>7
    <3> QED
      BY <3>5, <3>6, <3>7
  <2> QED
    BY <1>a, <2>1, <2>3, <2>4
<1>9. CASE on_read_error
  BY <1>9, <1>b DEF on_read_error, ReadOver, Tell
<1>10. CASE Reset \/ Close \/ ServerSends \/ Break \/ UNCHANGED clientVars
  BY <1>10, <1>a DEF Reset, Close, ServerSends, Break, clientVars
<1> QED
  BY <1>1, <1>2, <1>3, <1>4, <1>5, <1>6, <1>7, <1>8, <1>9, <1>10 DEF ClientNext, Completion

\* Reports are counted and true.
LEMMA TruthfulStep ==
    ClientTypeOK /\ InStep /\ SoFar /\ Truthful /\ [ClientNext]_clientVars => Truthful'
<1>1. Truthful <=> Counted /\ Right(last)
  BY DEF Truthful, Counted, Right
<1>2. Truthful' <=> Counted' /\ Right(last')
  BY DEF Truthful, Counted, Right
<1> QED
  BY <1>1, <1>2, CountedStep, RightStep

\* A report of failure, of the request or by its error, names a reason.
LEMMA NoFalseFailureStep ==
    /\ ClientTypeOK /\ Connection /\ InStep /\ Clean /\ NoFalseFailure
    /\ [ClientNext]_clientVars
    => NoFalseFailure'
<1> SUFFICES ASSUME ClientTypeOK, Connection, InStep, Clean, NoFalseFailure,
                    [ClientNext]_clientVars
             PROVE  NoFalseFailure'
  OBVIOUS
<1>0. /\ req \in Requests /\ is_connected \in BOOLEAN /\ socket \in {"closed", "raw", "up"}
      /\ parser \in ParserStates /\ error \in Errors
  BY DEF ClientTypeOK
<1>a. ASSUME last' = last PROVE NoFalseFailure'
  BY <1>a DEF NoFalseFailure
<1>b. ASSUME NEW x, x # "mixed", x \in last'.faults PROVE NoFalseFailure'
  BY <1>b DEF NoFalseFailure
<1>c. ASSUME NEW e, NEW faults, FailEarly(e, faults), NEW x \in faults, x # "mixed" PROVE NoFalseFailure'
  <2>1. x \in last'.faults
    BY <1>c DEF FailEarly
  <2> QED
    BY <1>b, <1>c, <2>1
<1>1. ASSUME NEW mode \in {"sync", "async"}, NEW action \in {"keep_connection", "close_connection"},
             Request(mode, action)
      PROVE  NoFalseFailure'
  BY <1>1 DEF Request, NoReport, NoFalseFailure
<1>2. CASE on_resolve_error \/ on_handshake_error
  BY <1>2, <1>c DEF on_resolve_error, on_handshake_error
<1>3. CASE on_resolve_empty
  BY <1>3, <1>a, <1>c DEF on_resolve_empty
<1>4. CASE on_resolved
  BY <1>4, <1>a, <1>c DEF on_resolved
<1>5. CASE on_connected \/ on_handshake
  BY <1>5, <1>a DEF on_connected, on_handshake, Connected
<1>6. CASE on_connect_error
  <2>1. socket = "closed" \/ socket = "raw"
    BY <1>0, <1>6 DEF on_connect_error, Connection
  <2>2. CASE socket = "closed"
    <3>1. FailEarly("on_connect", {"connect"})
      BY <1>6, <2>2 DEF on_connect_error
    <3> QED
      BY <1>c, <3>1
  <2>3. CASE socket = "raw"
    <3>1. FailEarly("on_connect", {"open_socket"})
      BY <1>6, <2>3 DEF on_connect_error
    <3> QED
      BY <1>c, <3>1
  <2> QED
    BY <2>1, <2>2, <2>3
<1>7. ASSUME NEW kind \in {"length", "until_close", "malformed"}, NEW intact \in BOOLEAN,
             on_wrote(kind, intact)
      PROVE  NoFalseFailure'
  <2> DEFINE f == FaultsFound(kind, intact)
  <2>1. \/ last' = last
        \/ HasError /\ last'.faults = [req EXCEPT !.faults = @ \union f].faults
    BY <1>7 DEF on_wrote
  <2>2. HasError => "stale_error" \in f
    BY DEF FaultsFound
  <2> HIDE DEF f
  <2>3. [req EXCEPT !.faults = @ \union f].faults = req.faults \union f
    BY <1>0 DEF Requests
  <2> QED
    BY <1>a, <1>b, <2>1, <2>2, <2>3
<1>8. CASE on_write_error
  <2>1. phase = "writing" /\ (eof \/ socket # "up")
    BY <1>8 DEF on_write_error
  <2>2. /\ eof => "broken" \in last'.faults
        /\ socket = "raw" => "no_tls" \in last'.faults
        /\ req.faults \subseteq last'.faults
    BY <1>8 DEF on_write_error
  <2>3. socket = "closed" => "closed" \in req.faults
    BY <2>1 DEF Connection
  <2> QED
    BY <1>0, <1>b, <2>1, <2>2, <2>3
<1>9. ASSUME NEW k \in 1..Len(wire), on_read(k) PROVE NoFalseFailure'
  <2> DEFINE p == llhttp_execute(SubSeq(wire, 1, k))
             left == SubSeq(wire, k + 1, Len(wire))
             rest == left \o todo
  <2>1. /\ phase = "reading"
        /\ \/ p.parser = "failed" /\ ReadOver(req.mode = "async", "on_read", p.resp, left)
           \/ ReadOver(TRUE, error, p.resp, left)
           \/ last' = last
    BY <1>9 DEF on_read
  <2>2. /\ parser = "start" => p.parser # "failed" \/ Stream[1].part # "head_length"
        /\ parser = "body" => p.parser # "failed" \/ Len(Stream) >= 2
    <3> HIDE DEF p, rest
    <3>1. p = llhttp_execute(SubSeq(wire, 1, k)) /\ rest = SubSeq(wire, k + 1, Len(wire)) \o todo
      BY DEF p, rest
    <3> QED
      BY <2>1, <3>1, ReadOutcome
  <2> HIDE DEF p, left, rest
  <2>3. req.faults \subseteq {"mixed"} => ~HasError /\ p.parser # "failed"
    <3> SUFFICES ASSUME req.faults \subseteq {"mixed"} PROVE ~HasError /\ p.parser # "failed"
      OBVIOUS
    <3>1. /\ ~HasError
          /\ \/ parser = "start" /\ Stream[1].part = "head_length"
             \/ parser = "body" /\ Len(Stream) = 1
      BY <2>1 DEF Clean
    <3>2. CASE parser = "start" /\ Stream[1].part = "head_length"
      BY <2>2, <3>1, <3>2
    <3>3. CASE parser = "body" /\ Len(Stream) = 1
      <4>1. ~(Len(Stream) >= 2)
        BY <3>3
      <4> QED
        BY <2>2, <3>1, <3>3, <4>1
    <3> QED
      BY <3>1, <3>2, <3>3
  <2>4. CASE p.parser = "failed" /\ ReadOver(req.mode = "async", "on_read", p.resp, left)
    <3>1. last'.faults = req.faults
      BY <2>4 DEF ReadOver, Tell
    <3> QED
      BY <2>3, <2>4, <3>1 DEF NoFalseFailure
  <2>5. CASE ReadOver(TRUE, error, p.resp, left)
    <3>1. last'.faults = req.faults /\ last'.ok = TRUE /\ last'.err = (error # "on_none")
      BY <2>5 DEF ReadOver, Tell
    <3> QED
      BY <2>3, <3>1 DEF NoFalseFailure, HasError
  <2> QED
    BY <1>a, <2>1, <2>4, <2>5
<1>10. CASE on_read_error
  <2>1. phase = "reading" /\ (socket # "up" \/ eof) /\ last'.faults = req.faults
    BY <1>10 DEF on_read_error, ReadOver, Tell
  <2> QED
    BY <2>1 DEF Clean, NoFalseFailure
<1>11. CASE Reset \/ Close \/ ServerSends \/ Break \/ UNCHANGED clientVars
  BY <1>11, <1>a DEF Reset, Close, ServerSends, Break, clientVars
<1> QED
  BY <1>1, <1>2, <1>3, <1>4, <1>5, <1>6, <1>7, <1>8, <1>9, <1>10, <1>11 DEF ClientNext, Completion

\* A new client has read nothing and reported nothing.
LEMMA ClientInvInit == ClientInit => ClientInv
<1> SUFFICES ASSUME ClientInit PROVE ClientInv
  OBVIOUS
<1>1. ClientTypeOK
  BY ClientInitTypes
<1>2. Stream = <<>>
  BY EmptyStream DEF ClientInit
<1>3. Connection
  BY DEF ClientInit, Connection
<1>4. InStep /\ SoFar /\ Clean
  BY <1>2 DEF ClientInit, InStep, SoFar, Clean
<1>5. Truthful /\ NoFalseFailure
  BY DEF ClientInit, NoReport, Truthful, NoFalseFailure
<1> QED
  BY <1>1, <1>3, <1>4, <1>5 DEF ClientInv

\* The invariant holds from the start and every step of the client keeps it.
THEOREM ClientInvariance == ClientSpec => []ClientInv
<1>1. ClientInit => ClientInv
  BY ClientInvInit
<1>2. ClientInv /\ [ClientNext]_clientVars => ClientInv'
  <2> SUFFICES ASSUME ClientInv, [ClientNext]_clientVars PROVE ClientInv'
    OBVIOUS
  <2>1. ClientTypeOK /\ Connection /\ InStep /\ SoFar /\ Clean /\ Truthful /\ NoFalseFailure
    BY DEF ClientInv
  <2>2. ClientTypeOK' /\ Connection'
    BY <2>1, ClientTypeStep, ConnectionStep
  <2>3. InStep' /\ SoFar' /\ Clean'
    BY <2>1, InStepStep, SoFarStep, CleanStep
  <2>4. Truthful' /\ NoFalseFailure'
    BY <2>1, TruthfulStep, NoFalseFailureStep
  <2> QED
    BY <2>2, <2>3, <2>4 DEF ClientInv
<1> QED
  BY <1>1, <1>2, PTL DEF ClientSpec

\* The state of the client keeps its types, over any number of requests.
THEOREM ClientTypeCorrect == ClientSpec => []ClientTypeOK
<1>1. ClientInv => ClientTypeOK
  BY DEF ClientInv
<1> QED
  BY <1>1, ClientInvariance, PTL

\* Request calls notify, and RequestSync returns, once for each request; and a
\* request that is reported as a success has got its own response and all of it,
\* in whatever parts on_read gets it and whatever came before, unless it began
\* with a parser in the middle of a response, Reset was called under it, or its
\* buffer was gone before it was written.
THEOREM ReportsTrue == ClientSpec => []Truthful
<1>1. ClientInv => Truthful
  BY DEF ClientInv
<1> QED
  BY <1>1, ClientInvariance, PTL

\* No request is reported as failed without a reason: when nothing in its way
\* failed, and nothing was left over in _error, in the parser or on the
\* connection, notify and RequestSync tell of a success without an error.
THEOREM NoFalseReports == ClientSpec => []NoFalseFailure
<1>1. ClientInv => NoFalseFailure
  BY DEF ClientInv
<1> QED
  BY <1>1, ClientInvariance, PTL
================================================================================

------------------------ MODULE IntercepterChain_proofs ------------------------
(***************************************************************************)
(* Proofs about IntercepterChain, for chains of any length.                *)
(*                                                                         *)
(* At any time at most one invocation owes a call of Pass or Stop: it is   *)
(* on the stack or waits for its callback.  Where it is in the chain, the  *)
(* iterator, and how far the request and the response have got determine   *)
(* one another.  That is the inductive invariant.  It lasts until the      *)
(* session intercepter calls both Stop and Pass, that is while OneCall is  *)
(* true.                                                                   *)
(***************************************************************************)
EXTENDS IntercepterChain, TLAPS

\* f is the invocation that the iterator and the direction point at.
Current(f) == \/ on = "Request"  /\ f.on = "Request"  /\ f.who = iter + 1 /\ f.who <= N
              \/ on = "Handle"   /\ f.on = "Handle"   /\ f.who = N + 1
              \/ on = "Response" /\ f.on = "Response" /\ f.who = iter

\* It is on the stack, alone, or waits for a callback.
Owes(f) == \/ stack = <<f>> /\ waiting = {}
           \/ stack = <<>> /\ waiting = {f}

Owing == \/ stack = <<>> /\ waiting = {}
         \/ ended = 0 /\ \E f \in Invocation : f.step # "pass" /\ Current(f) /\ Owes(f)

\* How far the request and the response have got.
Asked == /\ \A k \in 1..Len(asked) : asked[k] = k
         /\ CASE on = "none"     -> Len(asked) = 0
              [] on = "Request"  -> Len(asked) = iter + 1 /\ iter < N
              [] on = "Handle"   -> Len(asked) = N /\ iter = N
              [] on = "Response" -> Len(asked) >= iter /\ Len(asked) <= N

Answered == /\ \A k \in 1..Len(answered) : answered[k] = Len(asked) + 1 - k
            /\ on # "Response" => Len(answered) = 0
            /\ on = "Response" => Len(answered) <= Len(asked)
            /\ on = "Response" /\ ended = 0 => Len(answered) = Len(asked) + 1 - iter
            /\ on = "Response" /\ ended = 0 => iter > 0

Ended == /\ ended \in {0, 1}
         /\ ended = 1 => stack = <<>> /\ waiting = {} /\ on = "Response"
         /\ on = "none" => stack = <<>> /\ waiting = {} /\ iter = 0

ChainInv == TypeOK /\ Owing /\ Asked /\ Answered /\ Ended

-------------------------------------------------------------------------------
\* A step of one of the operators of the chain by the invocation that owes a
\* call leads to the invariant again.
Calling(f) == /\ ChainInv
              /\ f \in Invocation
              /\ f.step # "pass"
              /\ Current(f)
              /\ ended = 0
              /\ on # "none"
              /\ Owes(f)

Frame == /\ chain' = chain
         /\ met' \subseteq Faults
         /\ waiting' = {}
         /\ session' \in BOOLEAN
         /\ matched' \in BOOLEAN

\* The length of a chain is a natural number.
LEMMA LengthType == ASSUME TypeOK PROVE N \in Nat
  BY ChainAssumption DEF N, TypeOK

\* What the stack holds after a call, when nothing is below the caller.
LEMMA RunIsInvocation ==
    ASSUME TypeOK, NEW w \in 1..(N + 1), NEW d \in {"Request", "Handle", "Response"}
    PROVE  /\ Run(w, d) \in Invocation
           /\ Run(w, d).step = "decide"
           /\ Run(w, d).who = w
           /\ Run(w, d).on = d
           /\ <<Run(w, d)>> \o <<>> = <<Run(w, d)>>
  BY LengthType DEF Run, Invocation

\* Calling intercepter i + 1 with the request, or the handler, when the first i
\* intercepters have been called.
LEMMA ReqDirInv ==
    ASSUME ChainInv, NEW i \in 0..N, Frame,
           do_intercepter_on_req_dir(i, <<>>),
           ended = 0, Len(asked) = i, Len(answered) = 0
    PROVE  ChainInv'
<1>t. TypeOK /\ N \in Nat
  BY LengthType DEF ChainInv
<1>n. N' = N /\ Invocation' = Invocation /\ chain' \in Chains
  BY DEF Frame, N, Invocation, ChainInv, TypeOK
<1>1. CASE i = N
  <2> DEFINE f == Run(N + 1, "Handle")
  <2>1. /\ f \in Invocation /\ f.step # "pass" /\ f.who = N + 1 /\ f.on = "Handle"
        /\ <<f>> \o <<>> = <<f>>
    BY <1>t, RunIsInvocation
  <2> HIDE DEF f
  <2>2. /\ iter' = i /\ on' = "Handle" /\ stack' = <<f>> /\ handled' = handled + 1
        /\ asked' = asked /\ answered' = answered /\ ended' = 0 /\ waiting' = {}
    BY <1>1, <2>1 DEF do_intercepter_on_req_dir, Frame, f
  <2>3. TypeOK'
    BY <1>n, <1>t, <2>1, <2>2 DEF TypeOK, Frame
  <2>4. Owing'
    BY <1>n, <2>1, <2>2 DEF Owing, Owes, Current
  <2>5. Asked' /\ Answered' /\ Ended'
    BY <1>1, <1>t, <1>n, <2>2 DEF Asked, Answered, Ended, ChainInv
  <2> QED  BY <2>3, <2>4, <2>5 DEF ChainInv
<1>2. CASE i # N
  <2> DEFINE f == Run(i + 1, "Request")
  <2>1. /\ f \in Invocation /\ f.step # "pass" /\ f.who = i + 1 /\ f.on = "Request"
        /\ <<f>> \o <<>> = <<f>>
    BY <1>t, RunIsInvocation
  <2> HIDE DEF f
  <2>2. /\ iter' = i /\ on' = "Request" /\ stack' = <<f>> /\ handled' = handled
        /\ asked' = Append(asked, i + 1) /\ answered' = answered /\ ended' = 0
        /\ waiting' = {}
    BY <1>2, <2>1 DEF do_intercepter_on_req_dir, Frame, f
  <2>3. TypeOK'
    BY <1>2, <1>n, <1>t, <2>1, <2>2 DEF TypeOK, Frame
  <2>4. Owing'
    BY <1>2, <1>t, <1>n, <2>1, <2>2 DEF Owing, Owes, Current
  <2>5. Len(asked') = i + 1 /\ \A k \in 1..(i + 1) : asked'[k] = k
    BY <1>t, <2>2 DEF TypeOK, Asked, ChainInv
  <2>6. Asked' /\ Answered' /\ Ended'
    BY <1>2, <1>t, <1>n, <2>2, <2>5 DEF Asked, Answered, Ended, ChainInv
  <2> QED  BY <2>3, <2>4, <2>6 DEF ChainInv
<1> QED  BY <1>1, <1>2

\* Starting the reply.
LEMMA EndInv ==
    ASSUME ChainInv, NEW i \in 0..N, Frame, end(i, <<>>),
           ended = 0, i <= Len(asked), Len(asked) <= N, Len(answered) <= Len(asked)
    PROVE  ChainInv'
<1>t. TypeOK /\ N \in Nat
  BY LengthType DEF ChainInv
<1>n. N' = N /\ Invocation' = Invocation /\ chain' \in Chains
  BY DEF Frame, N, Invocation, ChainInv, TypeOK
<1>1. /\ iter' = i /\ on' = "Response" /\ stack' = <<>> /\ ended' = 1 /\ waiting' = {}
      /\ asked' = asked /\ handled' = handled /\ answered' = answered
  BY DEF end, Frame
<1>2. TypeOK'
  BY <1>1, <1>n, <1>t DEF TypeOK, Frame
<1>3. Owing' /\ Asked' /\ Answered' /\ Ended'
  BY <1>1, <1>t, <1>n DEF Owing, Asked, Answered, Ended, ChainInv
<1> QED  BY <1>2, <1>3 DEF ChainInv

\* Calling intercepter i with the response, or starting the reply, when all
\* between i and the last that saw the request have been called.
LEMMA ResDirInv ==
    ASSUME ChainInv, NEW i \in 0..N, Frame,
           do_intercepter_on_res_dir(i, <<>>),
           ended = 0, i <= Len(asked), Len(asked) <= N,
           Len(answered) = Len(asked) - i
    PROVE  ChainInv'
<1>t. TypeOK /\ N \in Nat
  BY LengthType DEF ChainInv
<1>n. N' = N /\ Invocation' = Invocation /\ chain' \in Chains
  BY DEF Frame, N, Invocation, ChainInv, TypeOK
<1>1. CASE i = 0
  <2>1. end(i, <<>>)
    BY <1>1 DEF do_intercepter_on_res_dir
  <2>2. Len(answered) <= Len(asked)
    BY <1>t DEF TypeOK
  <2> QED  BY <2>1, <2>2, EndInv
<1>2. CASE i # 0
  <2> DEFINE f == Run(i, "Response")
  <2>1. /\ f \in Invocation /\ f.step # "pass" /\ f.who = i /\ f.on = "Response"
        /\ <<f>> \o <<>> = <<f>>
    BY <1>2, <1>t, RunIsInvocation
  <2> HIDE DEF f
  <2>2. /\ iter' = i /\ on' = "Response" /\ stack' = <<f>> /\ handled' = handled
        /\ asked' = asked /\ answered' = Append(answered, i) /\ ended' = 0
        /\ waiting' = {}
    BY <1>2, <2>1 DEF do_intercepter_on_res_dir, Frame, f
  <2>3. TypeOK'
    BY <1>2, <1>n, <1>t, <2>1, <2>2 DEF TypeOK, Frame
  <2>4. Owing'
    BY <1>2, <1>t, <1>n, <2>1, <2>2 DEF Owing, Owes, Current
  <2>5. /\ Len(asked) \in Nat
        /\ Len(answered') = Len(asked) + 1 - i
        /\ \A k \in 1..Len(answered') : answered'[k] = Len(asked) + 1 - k
    <3>1. answered \in Seq(1..N) /\ asked \in Seq(1..N)
      BY <1>t DEF TypeOK
    <3>2. \A k \in 1..Len(answered) : answered[k] = Len(asked) + 1 - k
      BY DEF Answered, ChainInv
    <3>3. Len(asked) \in Nat /\ Len(answered) \in Nat /\ Len(answered') = Len(answered) + 1
      <4>1. i \in 1..N
        BY <1>2, <1>t
      <4>2. Append(answered, i) \in Seq(1..N) /\ Len(Append(answered, i)) = Len(answered) + 1
        BY <3>1, <4>1
      <4> QED  BY <2>2, <3>1, <4>2
    <3>4. ASSUME NEW k \in 1..Len(answered') PROVE answered'[k] = Len(asked) + 1 - k
      <4>1. CASE k <= Len(answered)
        <5>1. answered'[k] = answered[k]
          BY <2>2, <3>1, <3>3, <4>1
        <5> QED  BY <3>2, <3>3, <4>1, <5>1
      <4>2. CASE k = Len(answered) + 1
        <5>1. answered'[k] = i
          BY <2>2, <3>1, <4>2
        <5> QED  BY <1>t, <3>3, <4>2, <5>1
      <4> QED  BY <3>3, <4>1, <4>2
    <3>5. Len(answered') = Len(asked) + 1 - i
      BY <1>t, <3>3
    <3> QED  BY <3>3, <3>4, <3>5
  <2>6. Asked' /\ Answered' /\ Ended'
    BY <1>2, <1>t, <1>n, <2>2, <2>5 DEF Asked, Answered, Ended, ChainInv
  <2> QED  BY <2>3, <2>4, <2>6 DEF ChainInv
<1> QED  BY <1>1, <1>2

\* A call of Pass or Stop by the invocation that owes it.
LEMMA NextCallInv ==
    ASSUME NEW f, Calling(f), NEW r \in Results, next(r, <<>>), Frame
    PROVE  ChainInv'
<1>t. ChainInv /\ TypeOK /\ ended = 0 /\ Len(asked) \in Nat /\ iter \in 0..N /\ N \in Nat
  BY LengthType DEF Calling, ChainInv, TypeOK
<1>f. on \in {"Request", "Handle", "Response"}
  BY DEF Calling, ChainInv, TypeOK
<1>1. CASE on = "Request" /\ r = "Pass"
  <2>1. /\ do_intercepter_on_req_dir(iter + 1, <<>>) /\ iter + 1 \in 0..N
        /\ Len(asked) = iter + 1 /\ Len(answered) = 0
    BY <1>1, <1>t DEF next, Asked, Answered, ChainInv
  <2> QED  BY <1>t, <2>1, ReqDirInv
<1>2. CASE on = "Request" /\ r = "Stop"
  <2>1. /\ do_intercepter_on_res_dir(iter + 1, <<>>) /\ iter + 1 \in 0..N
        /\ Len(asked) = iter + 1 /\ Len(answered) = Len(asked) - (iter + 1)
        /\ iter + 1 <= Len(asked) /\ Len(asked) <= N
    BY <1>2, <1>t DEF next, Asked, Answered, ChainInv
  <2> QED  BY <1>t, <2>1, ResDirInv
<1>3. CASE on = "Handle"
  <2>1. /\ start_intercepter_on_res_dir(r, iter, <<>>)
        /\ Len(asked) = N /\ iter = N /\ Len(answered) = 0
    BY <1>3, <1>t DEF next, Asked, Answered, ChainInv
  <2>2. /\ iter <= Len(asked) /\ Len(asked) <= N
        /\ Len(answered) = Len(asked) - iter /\ Len(answered) <= Len(asked)
    BY <1>t, <2>1
  <2>3. CASE r = "Pass"
    BY <1>t, <2>1, <2>2, <2>3, ResDirInv DEF start_intercepter_on_res_dir
  <2>4. CASE r = "Stop"
    BY <1>t, <2>1, <2>2, <2>4, EndInv DEF start_intercepter_on_res_dir
  <2> QED  BY <2>3, <2>4 DEF Results
<1>4. CASE on = "Response"
  <2>1. /\ iter > 0 /\ Before(iter) = iter - 1
        /\ start_intercepter_on_res_dir(r, Before(iter), <<>>)
    BY <1>4, <1>t DEF next, Answered, Before, ChainInv
  <2>2. /\ iter - 1 \in 0..N /\ iter - 1 <= Len(asked) /\ Len(asked) <= N
        /\ Len(answered) = Len(asked) - (iter - 1) /\ Len(answered) <= Len(asked)
    BY <1>4, <1>t, <2>1 DEF Asked, Answered, ChainInv
  <2>3. CASE r = "Pass"
    BY <1>t, <2>1, <2>2, <2>3, ResDirInv DEF start_intercepter_on_res_dir
  <2>4. CASE r = "Stop"
    BY <1>t, <2>1, <2>2, <2>4, EndInv DEF start_intercepter_on_res_dir
  <2> QED  BY <2>3, <2>4 DEF Results
<1> QED  BY <1>f, <1>1, <1>2, <1>3, <1>4 DEF Results

-------------------------------------------------------------------------------
LEMMA InitInv == ASSUME Init PROVE ChainInv
<1>1. N \in Nat
  BY ChainAssumption DEF Init, N
<1>2. TypeOK
  <2>1. <<>> \in Seq(Invocation) /\ <<>> \in Seq(1..N) /\ {} \subseteq Invocation
    OBVIOUS
  <2>2. 0 \in 0..N /\ 0 \in Nat /\ FALSE \in BOOLEAN
    BY <1>1
  <2> QED  BY <2>1, <2>2 DEF Init, TypeOK
<1>3. Owing /\ Ended
  BY DEF Init, Owing, Ended
<1>4. Len(asked) = 0 /\ Len(answered) = 0 /\ on = "none"
  BY DEF Init
<1>5. Asked /\ Answered
  BY <1>4 DEF Asked, Answered
<1> QED  BY <1>2, <1>3, <1>5 DEF ChainInv

\* An invocation that goes on from a callback stays the one that owes a call.
LEMMA SuspendInv ==
    ASSUME ChainInv, stack # <<>>, NEW st \in {"GET", "SETEX", "later"},
           Suspend([Head(stack) EXCEPT !.step = st]),
           chain' = chain, met' = met, session' = session, matched' = matched
    PROVE  ChainInv'
<1>1. PICK f \in Invocation : /\ f.step # "pass" /\ Current(f) /\ ended = 0
                              /\ stack = <<f>> /\ waiting = {}
  BY DEF ChainInv, Owing, Owes
<1> DEFINE g == [f EXCEPT !.step = st]
<1>2. /\ g \in Invocation /\ g.step # "pass" /\ g.who = f.who /\ g.on = f.on
  BY DEF Invocation
<1>3. Head(stack) = f /\ Tail(stack) = <<>>
  BY <1>1
<1> HIDE DEF g
<1>4. /\ waiting' = {g} /\ stack' = <<>>
      /\ UNCHANGED <<chain, met, on, iter, asked, handled, answered, ended, session, matched>>
  BY <1>1, <1>3 DEF Suspend, g
<1>5. N' = N /\ Invocation' = Invocation
  BY <1>4 DEF N, Invocation
<1>6. TypeOK'
  BY <1>2, <1>4, <1>5 DEF ChainInv, TypeOK
<1>7. Current(g)'
  BY <1>1, <1>2, <1>4, <1>5 DEF Current
<1>8. Owing'
  BY <1>1, <1>2, <1>4, <1>5, <1>7 DEF Owing, Owes
<1>9. Asked' /\ Answered' /\ Ended'
  BY <1>1, <1>4, <1>5 DEF ChainInv, Asked, Answered, Ended, Current
<1> QED  BY <1>6, <1>8, <1>9 DEF ChainInv

\* The innermost invocation on the stack owes the call, and nothing is below it.
LEMMA OnStack ==
    ASSUME ChainInv, stack # <<>>
    PROVE  Calling(Head(stack)) /\ Tail(stack) = <<>> /\ waiting = {}
<1>1. PICK f \in Invocation : /\ f.step # "pass" /\ Current(f) /\ ended = 0
                              /\ stack = <<f>> /\ waiting = {}
  BY DEF ChainInv, Owing, Owes
<1>2. Head(stack) = f /\ Tail(stack) = <<>>
  BY <1>1
<1>3. on # "none"
  BY <1>1 DEF Current
<1>4. Owes(f)
  BY <1>1 DEF Owes
<1>5. Calling(f)
  BY <1>1, <1>3, <1>4 DEF Calling
<1> QED  BY <1>1, <1>2, <1>5

\* So does one that waits.
LEMMA InWaiting ==
    ASSUME ChainInv, NEW f \in waiting
    PROVE  Calling(f) /\ stack = <<>> /\ waiting \ {f} = {}
<1>1. PICK g \in Invocation : /\ g.step # "pass" /\ Current(g) /\ ended = 0
                              /\ stack = <<>> /\ waiting = {g}
  BY DEF ChainInv, Owing, Owes
<1>2. g = f
  BY <1>1
<1>3. on # "none"
  BY <1>1 DEF Current
<1>4. Owes(g)
  BY <1>1 DEF Owes
<1> QED  BY <1>1, <1>2, <1>3, <1>4 DEF Calling

\* An invocation that returns without a call ends the request without a reply.
LEMMA DropInv ==
    ASSUME ChainInv, stack # <<>>, stack' = Tail(stack), met' \subseteq Faults,
           UNCHANGED <<chain, on, iter, waiting, session, matched, asked, handled,
                       answered, ended>>
    PROVE  ChainInv'
<1>1. stack' = <<>> /\ waiting' = {}
  BY OnStack
<1>2. N' = N /\ Invocation' = Invocation
  BY DEF N, Invocation
<1>3. TypeOK'
  BY <1>1, <1>2 DEF ChainInv, TypeOK
<1>4. Owing' /\ Ended'
  BY <1>1 DEF ChainInv, Owing, Ended
<1>5. Asked' /\ Answered'
  BY <1>2 DEF ChainInv, Asked, Answered
<1> QED  BY <1>3, <1>4, <1>5 DEF ChainInv

\* A call by the innermost invocation on the stack, and one from a callback.
LEMMA CallFromStack ==
    ASSUME ChainInv, stack # <<>>, NEW r \in Results, next(r, Tail(stack)),
           chain' = chain, met' = met, waiting' = waiting, session' \in BOOLEAN, matched' \in BOOLEAN
    PROVE  ChainInv'
<1>1. Calling(Head(stack)) /\ next(r, <<>>) /\ Frame
  BY OnStack DEF Frame, ChainInv, TypeOK
<1> QED  BY <1>1, NextCallInv

LEMMA CallFromCallback ==
    ASSUME ChainInv, NEW f \in waiting, NEW r \in Results, Resume(f, r),
           chain' = chain, met' = met, session' \in BOOLEAN, matched' \in BOOLEAN
    PROVE  ChainInv'
<1>1. Calling(f) /\ next(r, <<>>) /\ Frame
  BY InWaiting DEF Frame, Resume, ChainInv, TypeOK
<1> QED  BY <1>1, NextCallInv

\* While OneCall stays true, every step of an invocation keeps the invariant.
LEMMA StepInv == ASSUME OneCall', ChainInv, Step PROVE ChainInv'
<1> USE DEF Results
<1>t. session \in BOOLEAN /\ matched \in BOOLEAN /\ met \subseteq Faults
  BY DEF ChainInv, TypeOK
<1>1. CASE \E dir \in {"Request", "Response"}, r \in Results : UserIntercepter(dir, r)
  <2>1. PICK dir \in {"Request", "Response"}, r \in Results : UserIntercepter(dir, r)
    BY <1>1
  <2>2. stack # <<>>
    BY <2>1 DEF UserIntercepter, Running
  <2>3. CASE next(r, Tail(stack)) /\ UNCHANGED waiting
    BY <1>t, <2>1, <2>2, <2>3, CallFromStack DEF UserIntercepter
  <2>4. CASE Suspend([Head(stack) EXCEPT !.step = "later"])
    BY <2>1, <2>2, <2>4, SuspendInv DEF UserIntercepter
  <2> QED  BY <2>1, <2>3, <2>4 DEF UserIntercepter
<1>2. CASE \E r \in Results : do_handle(r)
  <2>1. PICK r \in Results : do_handle(r)
    BY <1>2
  <2>2. stack # <<>>
    BY <2>1 DEF do_handle
  <2>3. CASE next(r, Tail(stack)) /\ UNCHANGED waiting
    BY <1>t, <2>1, <2>2, <2>3, CallFromStack DEF do_handle
  <2>4. CASE Suspend([Head(stack) EXCEPT !.step = "later"])
    BY <2>1, <2>2, <2>4, SuspendInv DEF do_handle
  <2> QED  BY <2>1, <2>3, <2>4 DEF do_handle
<1>3. CASE HandlerThrows
  BY <1>t, <1>3, DropInv DEF HandlerThrows
<1>4. CASE \E r \in Results : LaterCall(r)
  BY <1>t, <1>4, CallFromCallback DEF LaterCall
<1>5. CASE \E fresh \in BOOLEAN : SessionPasses(fresh)
  BY <1>t, <1>5, CallFromStack DEF SessionPasses, Running
<1>6. CASE SessionGet
  BY <1>6, SuspendInv DEF SessionGet, Running
<1>7. CASE \E error \in BOOLEAN : SessionGot(error)
  <2>1. PICK error \in BOOLEAN : SessionGot(error)
    BY <1>7
  <2>2. PICK f \in waiting : Resume(f, IF error THEN "Stop" ELSE "Pass")
    BY <2>1 DEF SessionGot
  <2>3. /\ (IF error THEN "Stop" ELSE "Pass") \in Results
        /\ chain' = chain /\ met' = met /\ session' \in BOOLEAN /\ matched' \in BOOLEAN
    BY <1>t, <2>1 DEF SessionGot
  <2> QED  BY <2>2, <2>3, CallFromCallback
<1>8. CASE BadSession \/ SetexError
  BY <1>8 DEF BadSession, SetexError, OneCall
<1>9. CASE SessionDone
  BY <1>t, <1>9, CallFromStack DEF SessionDone, Running
<1>10. CASE SessionSetex
  BY <1>10, SuspendInv DEF SessionSetex, Running
<1>11. CASE SessionSet
  BY <1>t, <1>11, CallFromCallback DEF SessionSet
<1>12. CASE \E dir \in {"Request", "Response"} : PassAfterStop(dir)
  <2>1. stack # <<>> /\ Head(stack).step = "pass"
    BY <1>12 DEF PassAfterStop, Running
  <2> QED  BY <2>1, OnStack DEF Calling
<1>13. CASE \E found \in BOOLEAN : StaticRequest(found)
  <2>1. PICK found \in BOOLEAN : StaticRequest(found)
    BY <1>13
  <2>2. /\ (IF found THEN "Stop" ELSE "Pass") \in Results /\ stack # <<>>
        /\ chain' = chain /\ met' = met /\ session' \in BOOLEAN /\ matched' \in BOOLEAN
        /\ waiting' = waiting
        /\ next(IF found THEN "Stop" ELSE "Pass", Tail(stack))
    BY <1>t, <2>1 DEF StaticRequest, Running
  <2> QED  BY <2>2, CallFromStack
<1>14. CASE \E sent \in BOOLEAN : StaticResponse(sent)
  BY <1>t, <1>14, CallFromStack DEF StaticResponse, Running
<1>15. CASE StaticNoName
  BY <1>t, <1>15, DropInv DEF StaticNoName, Running
<1> QED  BY <1>1, <1>2, <1>3, <1>4, <1>5, <1>6, <1>7, <1>8, <1>9, <1>10, <1>11,
            <1>12, <1>13, <1>14, <1>15 DEF Step

LEMMA StartInv == ASSUME ChainInv, Start PROVE ChainInv'
<1>1. /\ on = "none" /\ do_intercepter_on_req_dir(0, <<>>)
      /\ UNCHANGED <<chain, met, waiting, session, matched>>
  BY DEF Start
<1>2. Frame /\ ended = 0 /\ Len(asked) = 0 /\ Len(answered) = 0 /\ 0 \in 0..N
  BY <1>1, LengthType DEF Frame, ChainInv, TypeOK, Asked, Answered, Ended
<1> QED  BY <1>1, <1>2, ReqDirInv

LEMMA StutterInv == ASSUME ChainInv, UNCHANGED vars PROVE ChainInv'
<1>1. N' = N /\ Invocation' = Invocation
  BY DEF vars, N, Invocation
<1>2. TypeOK'
  BY <1>1 DEF vars, ChainInv, TypeOK
<1>3. Owing' /\ Asked' /\ Answered' /\ Ended'
  BY <1>1 DEF vars, ChainInv, Owing, Owes, Current, Asked, Answered, Ended
<1> QED  BY <1>2, <1>3 DEF ChainInv

\* Faults that have been met stay met.
LEMMA OneCallBefore == ASSUME OneCall', [Next]_vars PROVE OneCall
<1>1. met \subseteq met'
  BY DEF Next, Start, Step, UserIntercepter, do_handle, HandlerThrows, LaterCall,
         SessionPasses, SessionGet, SessionGot, BadSession, SessionDone, SessionSetex,
         SessionSet, SetexError, PassAfterStop, StaticRequest, StaticResponse,
         StaticNoName, vars
<1> QED  BY <1>1 DEF OneCall

\* The invariant, for chains of any length, as long as the session intercepter
\* has not called both Stop and Pass.
THEOREM ChainInvariance == Spec => [](OneCall => ChainInv)
<1>1. (OneCall => ChainInv) /\ [Next]_vars => (OneCall => ChainInv)'
  BY OneCallBefore, StepInv, StartInv, StutterInv DEF Next
<1>2. Init => (OneCall => ChainInv)
  BY InitInv
<1> QED  BY <1>1, <1>2, PTL DEF Spec

\* One reply for each request, however many intercepters wait for callbacks.
THEOREM RepliesOnce == Spec => []RepliedOnce
<1>1. (OneCall => ChainInv) => RepliedOnce
  BY DEF ChainInv, Ended, RepliedOnce
<1> QED  BY <1>1, ChainInvariance, PTL

\* The response takes the way of the request back.
THEOREM WayBack == Spec => []Onion
<1>1. (OneCall => ChainInv) => Onion
  <2> SUFFICES ASSUME OneCall, ChainInv PROVE Onion
    BY DEF Onion
  <2>1. asked \in Seq(1..N) /\ answered \in Seq(1..N)
    BY DEF ChainInv, TypeOK
  <2>2. Len(answered) <= Len(asked)
    BY <2>1 DEF ChainInv, Answered, TypeOK
  <2>3. DOMAIN asked = 1..Len(asked) /\ DOMAIN answered = 1..Len(answered)
    BY <2>1
  <2>4. /\ \A k \in 1..Len(asked) : asked[k] = k
        /\ \A k \in 1..Len(answered) : answered[k] = Len(asked) + 1 - k
    BY DEF ChainInv, Asked, Answered
  <2> QED  BY <2>2, <2>3, <2>4 DEF Onion
<1> QED  BY <1>1, ChainInvariance, PTL

-------------------------------------------------------------------------------
(* The handler.  That it runs at most once does not depend on OneCall: the     *)
(* direction never turns back, so that the request passes the end of the chain *)
(* once, and by then every intercepter has been asked, whoever calls what.     *)

HandledInv ==
    /\ N \in Nat /\ iter \in Nat /\ asked \in Seq(Nat)
    /\ CASE on = "none"     -> stack = <<>> /\ waiting = {} /\ handled = 0 /\ Len(asked) = 0
         [] on = "Request"  -> handled = 0 /\ Len(asked) = iter + 1 /\ iter < N
         [] on = "Handle"   -> handled = 1 /\ Len(asked) = N /\ iter = N
         [] on = "Response" -> handled \in {0, 1} /\ (handled = 1 => Len(asked) = N) /\ iter <= N
         [] OTHER           -> FALSE

\* One more intercepter is called with the request, or the handler.
LEMMA ReqDirHandled ==
    ASSUME HandledInv, NEW i \in Nat, i <= N, NEW below, chain' = chain,
           do_intercepter_on_req_dir(i, below), handled = 0, Len(asked) = i
    PROVE  HandledInv'
<1>1. N' = N /\ N \in Nat /\ iter' = i /\ asked \in Seq(Nat)
  BY DEF N, HandledInv, do_intercepter_on_req_dir
<1>2. CASE i = N
  <2>1. on' = "Handle" /\ handled' = 1 /\ asked' = asked
    BY <1>2 DEF do_intercepter_on_req_dir
  <2> QED  BY <1>1, <1>2, <2>1 DEF HandledInv
<1>3. CASE i # N
  <2>1. on' = "Request" /\ handled' = 0 /\ asked' = Append(asked, i + 1)
    BY <1>3 DEF do_intercepter_on_req_dir
  <2>2. asked' \in Seq(Nat) /\ Len(asked') = i + 1
    BY <1>1, <2>1
  <2> QED  BY <1>1, <1>3, <2>1, <2>2 DEF HandledInv
<1> QED  BY <1>2, <1>3

\* The response goes to an intercepter, or is sent.
LEMMA ResDirHandled ==
    ASSUME HandledInv, NEW i \in Nat, i <= N, NEW below, chain' = chain,
           do_intercepter_on_res_dir(i, below) \/ end(i, below),
           handled \in {0, 1}, handled = 1 => Len(asked) = N
    PROVE  HandledInv'
<1>1. N' = N /\ N \in Nat /\ asked \in Seq(Nat)
  BY DEF N, HandledInv
<1>2. iter' = i /\ on' = "Response" /\ handled' = handled /\ asked' = asked
  BY DEF do_intercepter_on_res_dir, end
<1> QED  BY <1>1, <1>2 DEF HandledInv

\* Any call of Pass or Stop, also a second one of the same intercepter.
LEMMA NextHandled ==
    ASSUME HandledInv, on # "none", NEW r \in Results, NEW below, next(r, below), chain' = chain
    PROVE  HandledInv'
<1>t. N \in Nat /\ iter \in Nat /\ Len(asked) \in Nat
  BY DEF HandledInv
<1>1. CASE on = "Request"
  <2>1. handled = 0 /\ Len(asked) = iter + 1 /\ iter + 1 <= N /\ iter + 1 \in Nat
    BY <1>t, <1>1 DEF HandledInv
  <2>2. CASE r = "Pass"
    BY <1>1, <2>1, <2>2, ReqDirHandled DEF next
  <2>3. CASE r = "Stop"
    BY <1>1, <2>1, <2>3, ResDirHandled DEF next
  <2> QED  BY <2>2, <2>3 DEF Results
<1>2. CASE on = "Handle"
  <2>1. handled = 1 /\ Len(asked) = N /\ iter <= N
    BY <1>t, <1>2 DEF HandledInv
  <2> QED  BY <1>t, <1>2, <2>1, ResDirHandled DEF next, start_intercepter_on_res_dir
<1>3. CASE on = "Response"
  <2>1. handled \in {0, 1} /\ (handled = 1 => Len(asked) = N) /\ iter <= N
    BY <1>3 DEF HandledInv
  <2>2. Before(iter) \in Nat /\ Before(iter) <= N
    BY <1>t, <2>1 DEF Before
  <2> QED  BY <1>3, <2>1, <2>2, ResDirHandled DEF next, start_intercepter_on_res_dir
<1> QED  BY <1>1, <1>2, <1>3 DEF HandledInv

\* A step that calls neither.
LEMMA KeepsHandled ==
    ASSUME HandledInv, on # "none", UNCHANGED <<chain, on, iter, asked, handled>>
    PROVE  HandledInv'
<1>1. N' = N
  BY DEF N
<1> QED  BY <1>1 DEF HandledInv

\* Every step of an invocation, with and without OneCall.
LEMMA StepHandled == ASSUME HandledInv, Step PROVE HandledInv'
<1> USE DEF Results
<1>n. ASSUME stack # <<>> \/ waiting # {} PROVE on # "none"
  BY <1>n DEF HandledInv
<1>1. CASE \E dir \in {"Request", "Response"}, r \in Results : UserIntercepter(dir, r)
  BY <1>1, <1>n, NextHandled, KeepsHandled DEF UserIntercepter, Running, Suspend
<1>2. CASE \E r \in Results : do_handle(r)
  BY <1>2, <1>n, NextHandled, KeepsHandled DEF do_handle, Suspend
<1>3. CASE HandlerThrows
  BY <1>3, <1>n, KeepsHandled DEF HandlerThrows
<1>4. CASE \E r \in Results : LaterCall(r)
  BY <1>4, <1>n, NextHandled DEF LaterCall, Resume
<1>5. CASE \E fresh \in BOOLEAN : SessionPasses(fresh)
  BY <1>5, <1>n, NextHandled DEF SessionPasses, Running
<1>6. CASE SessionGet
  BY <1>6, <1>n, KeepsHandled DEF SessionGet, Running, Suspend
<1>7. CASE \E error \in BOOLEAN : SessionGot(error)
  <2>1. PICK error \in BOOLEAN, f \in waiting : Resume(f, IF error THEN "Stop" ELSE "Pass") /\ chain' = chain
    BY <1>7 DEF SessionGot
  <2>2. (IF error THEN "Stop" ELSE "Pass") \in Results
    OBVIOUS
  <2> QED  BY <1>n, <2>1, <2>2, NextHandled DEF Resume
<1>8. CASE BadSession
  BY <1>8, <1>n, NextHandled DEF BadSession
<1>9. CASE SetexError
  BY <1>9, <1>n, NextHandled DEF SetexError
<1>10. CASE SessionDone
  BY <1>10, <1>n, NextHandled DEF SessionDone, Running
<1>11. CASE SessionSetex
  BY <1>11, <1>n, KeepsHandled DEF SessionSetex, Running, Suspend
<1>12. CASE SessionSet
  BY <1>12, <1>n, NextHandled DEF SessionSet, Resume
<1>13. CASE \E dir \in {"Request", "Response"} : PassAfterStop(dir)
  BY <1>13, <1>n, NextHandled DEF PassAfterStop, Running
<1>14. CASE \E found \in BOOLEAN : StaticRequest(found)
  <2>1. PICK found \in BOOLEAN : StaticRequest(found)
    BY <1>14
  <2>2. (IF found THEN "Stop" ELSE "Pass") \in Results
    OBVIOUS
  <2> QED  BY <1>n, <2>1, <2>2, NextHandled DEF StaticRequest, Running
<1>15. CASE \E sent \in BOOLEAN : StaticResponse(sent)
  BY <1>15, <1>n, NextHandled DEF StaticResponse, Running
<1>16. CASE StaticNoName
  BY <1>16, <1>n, KeepsHandled DEF StaticNoName, Running
<1> QED  BY <1>1, <1>2, <1>3, <1>4, <1>5, <1>6, <1>7, <1>8, <1>9, <1>10, <1>11,
            <1>12, <1>13, <1>14, <1>15, <1>16 DEF Step

\* The handler runs at most once, and after every intercepter, for chains of any
\* length and although the session intercepter may call both Stop and Pass.
THEOREM HandlerRunsOnce == Spec => []HandledOnce
<1>1. Init => HandledInv
  <2> SUFFICES ASSUME Init PROVE HandledInv
    OBVIOUS
  <2>1. N \in Nat
    BY ChainAssumption DEF Init, N
  <2>2. asked = <<>> /\ on = "none"
    BY DEF Init
  <2> QED  BY <2>1, <2>2 DEF Init, HandledInv
<1>2. HandledInv /\ [Next]_vars => HandledInv'
  <2> SUFFICES ASSUME HandledInv, [Next]_vars PROVE HandledInv'
    OBVIOUS
  <2>1. CASE Start
    <3>1. on = "none" /\ chain' = chain /\ do_intercepter_on_req_dir(0, <<>>)
      BY <2>1 DEF Start
    <3>2. handled = 0 /\ Len(asked) = 0 /\ 0 <= N
      BY <3>1 DEF HandledInv
    <3> QED  BY <3>1, <3>2, ReqDirHandled
  <2>2. CASE Step
    BY <2>2, StepHandled
  <2>3. CASE UNCHANGED vars
    <3>1. N' = N
      BY <2>3 DEF vars, N
    <3> QED  BY <2>3, <3>1 DEF vars, HandledInv
  <2> QED  BY <2>1, <2>2, <2>3 DEF Next
<1>3. HandledInv => HandledOnce
  BY DEF HandledInv, HandledOnce
<1> QED  BY <1>1, <1>2, <1>3, PTL DEF Spec
===============================================================================

-------------------------------- MODULE Server --------------------------------
(***************************************************************************)
(* A Server and its IOContextPool: Run starts to accept, starts one thread *)
(* for each io_context and joins them.  The acceptor and the signal set    *)
(* each live on one of the contexts, whose thread runs their handlers, and *)
(* those of connections and timers, one after the other.  A signal, or a   *)
(* call of Stop by any thread and at any time, ends the threads.           *)
(***************************************************************************)
EXTENDS Naturals

CONSTANTS
    Users,          \* threads of the program that call Stop
    Main,           \* the thread that calls Run
    PoolSize,       \* io_contexts, and threads, of the pool
    MaxClients      \* bound: clients in the backlog

ASSUME ServerAssumption == /\ PoolSize \in Nat \ {0}
                           /\ MaxClients \in Nat
                           /\ Main \notin Users
                           /\ (Users \cup {Main}) \cap Nat = {}

VARIABLES
    pc,             \* where every thread is
    stopping,       \* _stopping of the server
    pool_stopping,  \* _stopping of the pool
    stopped,        \* the io_contexts that have been stopped
    at,             \* the context that each thread in IOContextPool::Stop has come to
    next_index,     \* _next_index of the pool
    accept,         \* the async_accept: "none", "pending", or ready: "ok", "error"
    clients,        \* clients in the backlog
    signal          \* the signal set: "waiting", "due", "handled"

stopVars   == <<stopping, pool_stopping, stopped, at>>
acceptVars == <<next_index, accept, clients>>
vars == <<pc, stopping, pool_stopping, stopped, at, next_index, accept, clients, signal>>

Contexts == 0..(PoolSize - 1)
Actors == Users \cup {Main} \cup Contexts

\* The constructor takes a context for the acceptor, the signal set and the idle
\* timer, in this order.
AcceptorContext == 0
SignalContext   == 1 % PoolSize

Init == /\ pc = [p \in Actors |-> IF p \in Users THEN "none" ELSE "new"]
        /\ stopping = FALSE
        /\ pool_stopping = FALSE
        /\ stopped = {}
        /\ at = [p \in Actors |-> 0]
        /\ next_index = 3 % PoolSize
        /\ accept = "none"
        /\ clients = 0
        /\ signal = "waiting"

Goto(p, label) == pc' = [pc EXCEPT ![p] = label]

-------------------------------------------------------------------------------
(* Run, in the thread Main *)

GetIOContextAndIndex ==
    next_index' = IF next_index + 1 >= PoolSize THEN 0 ELSE next_index + 1

\* A connection on the next context, and async_accept.
do_accept == /\ GetIOContextAndIndex
             /\ accept' = "pending"

\* The applications are mounted, the idle timer is armed and start_accept is
\* called.
Run == /\ pc[Main] = "new"
       /\ do_accept
       /\ Goto(Main, "threads")
       /\ UNCHANGED <<clients, signal, stopVars>>

\* IOContextPool::Run creates one thread after the other.
create_thread == /\ pc[Main] = "threads"
                 /\ \E i \in Contexts :
                        /\ pc[i] = "new"
                        /\ \A j \in 0..(i - 1) : pc[j] # "new"
                        /\ Goto(i, "loop")
                 /\ UNCHANGED <<signal, stopVars, acceptVars>>

\* The threads are joined, and Run returns.
join == /\ pc[Main] = "threads"
        /\ \A i \in Contexts : pc[i] = "done"
        /\ Goto(Main, "returned")
        /\ UNCHANGED <<signal, stopVars, acceptVars>>

-------------------------------------------------------------------------------
(* The thread of context i *)

\* while (!_stopping)
loop(i) == /\ pc[i] = "loop"
           /\ Goto(i, IF pool_stopping THEN "done" ELSE "run")
           /\ UNCHANGED <<signal, stopVars, acceptVars>>

\* run returns if its context has been stopped, before this call or during it.
run_returns(i) == /\ pc[i] = "run"
                  /\ i \in stopped
                  /\ Goto(i, "loop")
                  /\ UNCHANGED <<signal, stopVars, acceptVars>>

\* A thread in run calls the next handler that is ready, unless it is stopped.
Ready(i) == pc[i] = "run" /\ i \notin stopped

\* Mutant: the exception ends the thread.
handler_throws_ends(i) == /\ Ready(i)
                          /\ Goto(i, "done")
                          /\ UNCHANGED <<signal, stopVars, acceptVars>>

\* The handler of a connection or of a timer throws: so does run, and the loop
\* goes on.
handler_throws(i) == /\ Ready(i)
                     /\ Goto(i, "loop")
                     /\ UNCHANGED <<signal, stopVars, acceptVars>>

\* Such a handler calls Stop.
handler_stops(i) == /\ Ready(i)
                    /\ Goto(i, "stop")
                    /\ UNCHANGED <<signal, stopVars, acceptVars>>

\* Mutant: an error ends the accepting.
on_accept_gives_up ==
    /\ Ready(AcceptorContext)
    /\ accept \in {"ok", "error"}
    /\ IF accept = "error"
       THEN accept' = "none" /\ UNCHANGED next_index
       ELSE do_accept
    /\ UNCHANGED <<pc, clients, signal, stopVars>>

\* The handler of async_accept starts the connection, if there is one, and
\* accepts the next one.
on_accept ==
    /\ Ready(AcceptorContext)
    /\ accept \in {"ok", "error"}
    /\ IF accept = "error" /\ stopping
       THEN accept' = "none" /\ UNCHANGED next_index
       ELSE do_accept
    /\ UNCHANGED <<pc, clients, signal, stopVars>>

\* The handler of the signal set calls do_stop.
on_signal == /\ Ready(SignalContext)
             /\ signal = "due"
             /\ signal' = "handled"
             /\ Goto(SignalContext, "stop")
             /\ UNCHANGED <<stopVars, acceptVars>>

-------------------------------------------------------------------------------
(* do_stop, in any thread *)

Stop(u) == /\ pc[u] = "none"
           /\ Goto(u, "stop")
           /\ UNCHANGED <<signal, stopVars, acceptVars>>

\* The flag is set and the idle timer is cancelled.
do_stop(p) == /\ pc[p] = "stop"
              /\ stopping' = TRUE
              /\ Goto(p, "pool")
              /\ UNCHANGED <<pool_stopping, stopped, at, signal, acceptVars>>

\* Where a thread goes on after do_stop.
After(p) == IF p \in Contexts THEN "run" ELSE "none"

\* IOContextPool::Stop tests its flag, ...
pool_stop(p) == /\ pc[p] = "pool"
                /\ Goto(p, IF pool_stopping THEN After(p) ELSE "flag")
                /\ UNCHANGED <<signal, stopVars, acceptVars>>

\* ... sets it, ...
pool_set_flag(p) == /\ pc[p] = "flag"
                    /\ pool_stopping' = TRUE
                    /\ at' = [at EXCEPT ![p] = 0]
                    /\ Goto(p, "contexts")
                    /\ UNCHANGED <<stopping, stopped, signal, acceptVars>>

\* Mutant: the loop ends with the context of the thread that stops.
stop_context_own(p) ==
    /\ pc[p] = "contexts"
    /\ stopped' = stopped \cup {at[p]}
    /\ at' = [at EXCEPT ![p] = @ + 1]
    /\ Goto(p, IF at[p] + 1 < PoolSize /\ at[p] # p THEN "contexts" ELSE After(p))
    /\ UNCHANGED <<stopping, pool_stopping, signal, acceptVars>>

\* ... and stops one context after the other.
stop_context(p) ==
    /\ pc[p] = "contexts"
    /\ stopped' = stopped \cup {at[p]}
    /\ at' = [at EXCEPT ![p] = @ + 1]
    /\ Goto(p, IF at[p] + 1 < PoolSize THEN "contexts" ELSE After(p))
    /\ UNCHANGED <<stopping, pool_stopping, signal, acceptVars>>

stop_steps(p) == do_stop(p) \/ pool_stop(p) \/ pool_set_flag(p) \/ stop_context(p)

-------------------------------------------------------------------------------
(* Clients and signals *)

ClientConnects == /\ clients < MaxClients
                  /\ clients' = clients + 1
                  /\ UNCHANGED <<pc, next_index, accept, signal, stopVars>>

accept_completes == /\ accept = "pending"
                    /\ clients > 0
                    /\ accept' = "ok"
                    /\ clients' = clients - 1
                    /\ UNCHANGED <<pc, next_index, signal, stopVars>>

accept_fails == /\ accept = "pending"
                /\ accept' = "error"
                /\ UNCHANGED <<pc, next_index, clients, signal, stopVars>>

SignalArrives == /\ signal = "waiting"
                 /\ signal' = "due"
                 /\ UNCHANGED <<pc, stopVars, acceptVars>>

-------------------------------------------------------------------------------
Next == \/ Run \/ create_thread \/ join
        \/ \E i \in Contexts : \/ loop(i)
                               \/ run_returns(i)
                               \/ handler_throws(i)
                               \/ handler_stops(i)
        \/ on_accept
        \/ on_signal
        \/ \E u \in Users : Stop(u)
        \/ \E p \in Actors : stop_steps(p)
        \/ ClientConnects
        \/ accept_completes
        \/ accept_fails
        \/ SignalArrives

Spec == Init /\ [][Next]_vars

\* Threads go on with what they have begun, handlers return, a handler that is
\* ready is called sooner or later although others are ready as well, and
\* accepting does not fail forever.
FairSpec == /\ Spec
            /\ WF_vars(create_thread)
            /\ WF_vars(join)
            /\ \A i \in Contexts : WF_vars(loop(i)) /\ WF_vars(run_returns(i))
            /\ SF_vars(on_accept)
            /\ SF_vars(on_signal)
            /\ \A p \in Actors : WF_vars(stop_steps(p))
            /\ SF_vars(accept_completes)

-------------------------------------------------------------------------------
(* Properties *)

\* Types: in particular the index of the next context is one of the pool's.
TypeOK == /\ pc \in [Actors -> {"none", "new", "threads", "returned", "loop", "run", "done",
                                "stop", "pool", "flag", "contexts"}]
          /\ stopping \in BOOLEAN
          /\ pool_stopping \in BOOLEAN
          /\ stopped \subseteq Contexts
          /\ at \in [Actors -> 0..PoolSize]
          /\ next_index \in Contexts
          /\ accept \in {"none", "pending", "ok", "error"}
          /\ clients \in 0..MaxClients
          /\ signal \in {"waiting", "due", "handled"}

\* No thread of the pool ends while the server is not being stopped, although
\* handlers throw; and none is in run for good once one has ended, because every
\* context is stopped or some thread is about to stop it.
NoneLeftBehind ==
    (\E i \in Contexts : pc[i] = "done") =>
        /\ stopping
        /\ \A j \in Contexts : \/ j \in stopped
                              \/ \E p \in Actors : pc[p] = "contexts" /\ at[p] <= j

\* Run returns once a signal has arrived or the server is being stopped, whoever
\* stops it and when, also if that is before Run is called.
StopEndsRun == ((stopping \/ signal = "due") /\ pc[Main] # "new") ~> (pc[Main] = "returned")

\* A client that connects is accepted sooner or later, although accepts fail and
\* handlers on the same thread throw, unless the server stops.
Accepts == (clients = MaxClients /\ pc[Main] # "new") ~> (clients < MaxClients \/ stopping)
================================================================================

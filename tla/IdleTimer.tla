------------------------------- MODULE IdleTimer -------------------------------
(***************************************************************************)
(* The idle timer of a Server: one deadline_timer whose handler calls the  *)
(* functions that are due, the detection of changed templates among them,  *)
(* and arms the timer for the earliest of the next ones.  Programs pause   *)
(* and resume it, switch the detection on and off, append functions and    *)
(* stop the server, from any thread, while the handler runs on a thread of *)
(* the pool; each access to an atomic flag or to the timer is a step.      *)
(*                                                                         *)
(* Times are relative: left is the time until the timer expires, dist[f]   *)
(* the time until function f is due.  Function 0 is the detection.         *)
(***************************************************************************)
EXTENDS Integers, Sequences, FiniteSets

CONSTANTS
    Users,          \* threads of the program, outside of the pool
    Main,           \* the thread that calls Run
    Pool,           \* the thread of the pool that runs the timer's handlers
    FirstInterval,  \* _first_idle_interval_seconds_
    DetectInterval, \* the interval that programs give to EnableDetectTemplates
    Intervals,      \* the intervals of the idle functions, as they are appended
    MaxSpent,       \* bound: the time that one run of the handler takes
    MaxLate,        \* bound: lateness beyond it is not told apart
    MaxCalls        \* bound: calls by Users

ASSUME IdleAssumption == /\ IsFiniteSet(Users)
                         /\ Main # Pool /\ Main \notin Users /\ Pool \notin Users
                         /\ FirstInterval \in Nat \ {0}
                         /\ DetectInterval \in Nat \ {0}
                         /\ Intervals \in Seq(Nat \ {0})
                         /\ MaxSpent \in Nat
                         /\ MaxLate \in Nat /\ MaxLate >= MaxSpent
                         /\ MaxCalls \in Nat

VARIABLES
    running,        \* _running of the server
    idle_running,   \* _idle_running
    detect,         \* _detect_templates
    count,          \* idle functions appended so far
    dist,           \* next_timepoint of each function, from now
    interval,       \* _idle_interval_seconds
    left,           \* time until the timer expires
    waits,          \* async_waits outstanding on the timer
    due,            \* handlers of the timer that are ready: "ok" or "aborted"
    round,          \* the run of the handler that is in progress
    pc,             \* where every thread is
    planned,        \* the functions that the wait was computed for...
    slack,          \* ...and the time that this took
    disturbed,      \* something has happened that may end the timer
    stopped,        \* the io_context of the timer has been stopped
    calls           \* calls by Users so far

flagVars  == <<running, idle_running, detect, stopped>>
listVars  == <<count, dist>>
timerVars == <<left, waits, due>>
planVars  == <<planned, slack>>
vars == <<running, idle_running, detect, count, dist, interval, left, waits, due,
          round, pc, planned, slack, disturbed, stopped, calls>>

Functions == 0..Len(Intervals)

IntervalOf(f) == IF f = 0 THEN DetectInterval ELSE Intervals[f]

\* The functions that a round looks at.
Listed == (IF detect THEN {0} ELSE {}) \cup 1..count

\* A run of the handler: the function it has come to, the minimum so far, the
\* time it has taken and the functions it has looked at.
NoRound == [at |-> -1, min |-> -1, spent |-> 0, seen |-> {}]
InRound == round.at >= 0

Actors == Users \cup {Main, Pool}

Init == /\ running = FALSE
        /\ idle_running = FALSE
        /\ detect = FALSE
        /\ count = 0
        /\ dist = [f \in Functions |-> 0]
        /\ interval = FirstInterval
        /\ left = 0
        /\ waits = 0
        /\ due = <<>>
        /\ round = NoRound
        /\ pc = [p \in Actors |-> IF p \in Users THEN "none" ELSE "new"]
        /\ planned = {}
        /\ slack = 0
        /\ disturbed = FALSE
        /\ stopped = FALSE
        /\ calls = 0

-------------------------------------------------------------------------------
(* The timer *)

\* Where thread p goes on after start_idle_timer.
After(p) == IF p \in Users THEN "none" ELSE IF p = Main THEN "started" ELSE "run"

Repeat(x, n) == [i \in 1..n |-> x]

\* deadline_timer::cancel: the handlers of the waits are called with an error.
cancel == /\ due' = due \o Repeat("aborted", waits)
          /\ waits' = 0

\* start_idle_timer in thread p, in three steps: the test of the flag, ...
start_idle_timer(p) ==
    /\ pc[p] = "check"
    /\ pc' = [pc EXCEPT ![p] = IF idle_running THEN "expires" ELSE After(p)]
    /\ round' = IF idle_running \/ p # Pool THEN round ELSE NoRound
    /\ UNCHANGED <<interval, disturbed, flagVars, listVars, timerVars, planVars, calls>>

\* ... setting the expiry, which cancels the waits that are pending, ...
expires_from_now(p) ==
    /\ pc[p] = "expires"
    /\ cancel
    /\ left' = interval
    /\ planned' = IF p = Pool THEN round.seen ELSE {}
    /\ pc' = [pc EXCEPT ![p] = "wait"]
    /\ UNCHANGED <<interval, round, slack, disturbed, flagVars, listVars, calls>>

\* ... and async_wait.
async_wait(p) ==
    /\ pc[p] = "wait"
    /\ waits' = waits + 1
    /\ pc' = [pc EXCEPT ![p] = After(p)]
    /\ IF p = Pool
       THEN /\ round' = NoRound
            /\ slack' = round.spent
       ELSE UNCHANGED <<round, slack>>
    /\ UNCHANGED <<interval, left, due, planned, disturbed, flagVars, listVars, calls>>

\* A second passes; while a round is in progress it counts as its time.
Tick ==
    /\ InRound => round.spent < MaxSpent
    /\ left' = IF left > 0 THEN left - 1 ELSE 0
    /\ dist' = [f \in Functions |-> IF dist[f] > -MaxLate THEN dist[f] - 1 ELSE dist[f]]
    /\ round' = IF InRound THEN [round EXCEPT !.spent = @ + 1] ELSE round
    /\ UNCHANGED <<count, interval, waits, due, pc, disturbed, flagVars, planVars, calls>>

\* The timer expires: the handlers of its waits are ready.
Expire ==
    /\ left = 0
    /\ waits > 0
    /\ due' = due \o Repeat("ok", waits)
    /\ waits' = 0
    /\ UNCHANGED <<interval, left, round, pc, disturbed, flagVars, listVars, planVars, calls>>

-------------------------------------------------------------------------------
(* The handler, on the thread of the pool *)

\* on_idle_timer is called; after an error it only clears the flag.
on_idle_timer ==
    /\ pc[Pool] = "run"
    /\ ~stopped
    /\ due # <<>>
    /\ due' = Tail(due)
    /\ IF Head(due) = "aborted"
       THEN /\ idle_running' = FALSE
            /\ UNCHANGED <<round, pc>>
       ELSE /\ round' = [NoRound EXCEPT !.at = 0]
            /\ pc' = [pc EXCEPT ![Pool] = "round"]
            /\ UNCHANGED idle_running
    /\ UNCHANGED <<stopped, running, detect, interval, left, waits, disturbed, listVars, planVars, calls>>

\* Mutant: the latest of the next times.
update_min_distance_seconds_max(min, a) == IF min <= 0 \/ min < a THEN a ELSE min

\* Mutant: without the initial case.
update_min_distance_seconds_plain(min, a) == IF min > a THEN a ELSE min

update_min_distance_seconds(min, a) == IF min <= 0 \/ min > a THEN a ELSE min

\* The distance that call_idle_function_if_timeout computes, with the time at
\* which the round began.
Distance(f) == dist[f] + round.spent

\* The loop comes to function f, which is off, or is not due yet.
skip_idle_function ==
    LET f == round.at
    IN  /\ pc[Pool] = "round"
        /\ f \in 0..count
        /\ f \in Listed => Distance(f) > 0
        /\ round' = [round EXCEPT
                        !.at = f + 1,
                        !.min = IF f \in Listed
                                THEN update_min_distance_seconds(@, Distance(f))
                                ELSE @,
                        !.seen = @ \cup (Listed \cap {f})]
        /\ UNCHANGED <<interval, pc, disturbed, flagVars, listVars, timerVars, planVars, calls>>

\* Function f is due and is called, ...
call_idle_function ==
    /\ pc[Pool] = "round"
    /\ round.at \in Listed
    /\ Distance(round.at) <= 0
    /\ pc' = [pc EXCEPT ![Pool] = "calling"]
    /\ UNCHANGED <<interval, round, disturbed, flagVars, listVars, timerVars, planVars, calls>>

\* ... returns, ...
idle_function_returns ==
    LET f == round.at
    IN  /\ pc[Pool] = "calling"
        /\ dist' = [dist EXCEPT ![f] = IntervalOf(f)]
        /\ round' = [round EXCEPT !.at = f + 1,
                                  !.min = update_min_distance_seconds(@, IntervalOf(f)),
                                  !.seen = @ \cup {f}]
        /\ pc' = [pc EXCEPT ![Pool] = "round"]
        /\ UNCHANGED <<count, interval, disturbed, flagVars, timerVars, planVars, calls>>

\* ... or throws: the exception leaves the handler, and the thread of
\* the pool catches it and calls io_context::run again.
idle_function_throws ==
    /\ pc[Pool] = "calling"
    /\ disturbed' = TRUE
    /\ round' = NoRound
    /\ pc' = [pc EXCEPT ![Pool] = "run"]
    /\ UNCHANGED <<interval, calls, flagVars, listVars, timerVars, planVars>>

\* Mutant: the flag stays set when the timer ends.
end_of_round_keeps_flag ==
    /\ pc[Pool] = "round"
    /\ round.at > count
    /\ IF round.min <= 0
       THEN /\ round' = NoRound
            /\ pc' = [pc EXCEPT ![Pool] = "run"]
            /\ UNCHANGED <<interval, idle_running>>
       ELSE /\ interval' = round.min
            /\ pc' = [pc EXCEPT ![Pool] = "check"]
            /\ UNCHANGED <<idle_running, round>>
    /\ UNCHANGED <<stopped, running, detect, disturbed, listVars, timerVars, planVars, calls>>

\* The end of the loop: without a function the timer ends.
end_of_round ==
    /\ pc[Pool] = "round"
    /\ round.at > count
    /\ IF round.min <= 0
       THEN /\ idle_running' = FALSE
            /\ round' = NoRound
            /\ pc' = [pc EXCEPT ![Pool] = "run"]
            /\ UNCHANGED interval
       ELSE /\ interval' = round.min
            /\ pc' = [pc EXCEPT ![Pool] = "check"]
            /\ UNCHANGED <<idle_running, round>>
    /\ UNCHANGED <<stopped, running, detect, disturbed, listVars, timerVars, planVars, calls>>

-------------------------------------------------------------------------------
(* Calls by the program *)

Calling(u) == /\ pc[u] = "none"
              /\ calls < MaxCalls
              /\ calls' = calls + 1

PauseIdleTimer(u) ==
    /\ Calling(u)
    /\ idle_running' = FALSE
    /\ disturbed' = (disturbed \/ running)
    /\ UNCHANGED <<stopped, running, detect, interval, round, pc, listVars, timerVars, planVars>>

\* ResumeIdleTimer returns if the flag is set; else it sets it, in a step of
\* its own, and starts the timer.
ResumeIdleTimer(u) ==
    /\ Calling(u)
    /\ ~idle_running
    /\ pc' = [pc EXCEPT ![u] = "set"]
    /\ UNCHANGED <<interval, round, disturbed, flagVars, listVars, timerVars, planVars>>

\* The timer is being started, waits, or its handler is ready or running.
Active(p) == \/ waits > 0
             \/ due # <<>>
             \/ InRound
             \/ \E q \in Actors \ {p} : pc[q] \in {"set", "check", "expires", "wait"}

set_idle_running(p) ==
    /\ pc[p] = "set"
    /\ idle_running' = TRUE
    /\ disturbed' = (disturbed \/ Active(p))
    /\ pc' = [pc EXCEPT ![p] = "check"]
    /\ UNCHANGED <<stopped, running, detect, interval, round, listVars, timerVars, planVars,
                   calls>>

\* A call while the server runs leaves the timer as it is if the flag is set: it
\* may be about to end if there is no other function.
EnableDetectTemplates(u) ==
    /\ Calling(u)
    /\ dist' = [dist EXCEPT ![0] = DetectInterval]
    /\ detect' = TRUE
    /\ pc' = IF running /\ ~idle_running THEN [pc EXCEPT ![u] = "set"] ELSE pc
    /\ disturbed' = (disturbed \/ (running /\ idle_running /\ count = 0))
    /\ planned' = planned \ {0}
    /\ round' = [round EXCEPT !.seen = @ \ {0}]
    /\ UNCHANGED <<stopped, running, idle_running, count, interval, slack, timerVars>>

DisableDetectTemplates(u) ==
    /\ Calling(u)
    /\ detect' = FALSE
    /\ UNCHANGED <<stopped, running, idle_running, interval, round, pc, disturbed, listVars, timerVars, planVars>>

\* The assertion of AppendIdleFunction is its guard.
AppendIdleFunction(u) ==
    /\ Calling(u)
    /\ ~idle_running
    /\ count < Len(Intervals)
    /\ count' = count + 1
    /\ dist' = [dist EXCEPT ![count + 1] = Intervals[count + 1]]
    /\ UNCHANGED <<interval, round, pc, disturbed, flagVars, timerVars, planVars>>

\* Stop cancels the timer, and then stops the context, which lets the handler
\* that is running return and calls no other.
stop_idle_timer(u) ==
    /\ Calling(u)
    /\ cancel
    /\ disturbed' = TRUE
    /\ pc' = [pc EXCEPT ![u] = "stop"]
    /\ UNCHANGED <<interval, left, round, flagVars, listVars, planVars>>

stop_context(u) ==
    /\ pc[u] = "stop"
    /\ stopped' = TRUE
    /\ pc' = [pc EXCEPT ![u] = "none"]
    /\ UNCHANGED <<running, idle_running, detect, interval, round, disturbed, listVars,
                   timerVars, planVars, calls>>

-------------------------------------------------------------------------------
(* Run *)

Run == /\ pc[Main] = "new"
       /\ running' = TRUE
       /\ pc' = [pc EXCEPT ![Main] = "set"]
       /\ UNCHANGED <<idle_running, detect, stopped, interval, round, disturbed, listVars,
                      timerVars, planVars, calls>>

\* When the timer is started, the threads of the pool are.
start_threads == /\ pc[Main] = "started"
                 /\ pc[Pool] = "new"
                 /\ pc' = [pc EXCEPT ![Pool] = "run"]
                 /\ UNCHANGED <<interval, round, disturbed, flagVars, listVars, timerVars,
                                planVars, calls>>

-------------------------------------------------------------------------------
handler_steps == \/ on_idle_timer
                 \/ skip_idle_function
                 \/ call_idle_function
                 \/ idle_function_returns
                 \/ end_of_round

start_steps(p) == \/ set_idle_running(p)
                  \/ start_idle_timer(p)
                  \/ expires_from_now(p)
                  \/ async_wait(p)

Next == \/ Run
        \/ start_threads
        \/ handler_steps
        \/ idle_function_throws
        \/ \E p \in Actors : start_steps(p)
        \/ \E u \in Users : \/ PauseIdleTimer(u)
                            \/ ResumeIdleTimer(u)
                            \/ EnableDetectTemplates(u)
                            \/ DisableDetectTemplates(u)
                            \/ AppendIdleFunction(u)
                            \/ stop_idle_timer(u)
                            \/ stop_context(u)
        \/ Tick
        \/ Expire

Spec == Init /\ [][Next]_vars

\* Threads go on with what they have begun, functions return, time passes and
\* the timer expires.
FairSpec == /\ Spec
            /\ WF_vars(start_threads)
            /\ WF_vars(handler_steps)
            /\ \A p \in Actors : WF_vars(start_steps(p))
            /\ \A u \in Users : WF_vars(stop_context(u))
            /\ WF_vars(Tick)
            /\ WF_vars(Expire)

-------------------------------------------------------------------------------
(* Properties *)

\* Types: the flags, the timer, the round and the threads.
TypeOK ==
    /\ running \in BOOLEAN /\ idle_running \in BOOLEAN /\ detect \in BOOLEAN
    /\ stopped \in BOOLEAN /\ disturbed \in BOOLEAN
    /\ count \in 0..Len(Intervals)
    /\ dist \in [Functions -> Int]
    /\ interval \in Nat \ {0}
    /\ left \in Nat
    /\ waits \in Nat
    /\ due \in Seq({"ok", "aborted"})
    /\ round \in [at : Int, min : Int, spent : 0..MaxSpent, seen : SUBSET Functions]
    /\ pc \in [Actors -> {"none", "new", "set", "check", "expires", "wait", "started",
                          "run", "round", "calling", "stop"}]
    /\ planned \in SUBSET Functions
    /\ slack \in 0..MaxSpent
    /\ calls \in 0..MaxCalls

\* A wait that a run of the handler has armed expires before, or when, each of
\* the functions it looked at is due, up to the time that the run took: the
\* minimum is right although functions take time and are switched on and off.
OnTime == waits > 0 /\ left > 0 /\ ~InRound => \A f \in planned : left <= dist[f] + slack

\* A detection that is due is carried out sooner or later, unless it is switched
\* off or something has ended the timer: Stop, PauseIdleTimer, an exception, a
\* second start of the timer, or switching the detection on late when there is
\* no other function.
Detects == (detect /\ pc[Pool] # "new" /\ dist[0] <= 0)
               ~> (dist[0] > 0 \/ ~detect \/ disturbed)

\* While nothing has ended it, the timer is not forgotten: until its flag is
\* cleared it has a wait, a handler that is ready, or a thread that runs its
\* handler or starts it.
TimerKept ==
    running /\ idle_running /\ ~disturbed =>
        waits + Len(due) + (IF InRound THEN 1 ELSE 0)
          + Cardinality({p \in Users \cup {Main} : pc[p] \in {"check", "expires", "wait"}}) = 1
================================================================================

--------------------------- MODULE IdleTimer_proofs ----------------------------
(***************************************************************************)
(* Theorems about IdleTimer, for any functions, intervals and threads, and *)
(* about Templates, whose changes the timer's first function detects.      *)
(*                                                                         *)
(* OnTime speaks of an armed timer only.  The inductive invariant follows  *)
(* the minimum through a round: it is not later than any function the      *)
(* round has seen, it becomes the interval and then the expiry, and other  *)
(* threads may set another expiry at any of these steps.  TimerKept is     *)
(* inductive once it says that the timer is carried by one wait, handler   *)
(* or thread at most also before Run and when the flag is clear.           *)
(***************************************************************************)
EXTENDS IdleTimer, Templates, SequenceTheorems, FiniteSetTheorems, TLAPS

\* The thread of the pool: it is in a round from on_idle_timer to async_wait, and it
\* has come to a function that is there.
PoolState ==
    /\ pc[Pool] \in {"new", "run", "round", "calling", "check", "expires", "wait"}
    /\ InRound <=> pc[Pool] \notin {"new", "run"}
    /\ pc[Pool] = "calling" => round.at \in 0..count
    /\ round.seen \subseteq 0..count
    /\ planned \subseteq 0..count

\* No function is further away than its interval.
Near == \A f \in Functions : dist[f] <= IntervalOf(f)

\* In a round: the minimum is not later than any of the functions seen, and is the
\* interval when the timer is about to be set.
Minimum ==
    /\ InRound => \A f \in round.seen : round.min > 0 /\ round.min <= Distance(f)
    /\ pc[Pool] \in {"check", "expires"} => interval = round.min

\* The expiry is not later than any of the functions planned, up to the time that the
\* round took: the round in progress, when it has set the expiry, and else the last one.
Armed ==
    /\ pc[Pool] # "wait" /\ left > 0 => \A f \in planned : left <= dist[f] + slack
    /\ pc[Pool] = "wait" => \A f \in planned : left <= Distance(f)

PlanInv == PoolState /\ Near /\ Minimum /\ Armed

\* The threads of the program that start the timer.
Starting == {p \in Users \cup {Main} : pc[p] \in {"check", "expires", "wait"}}

\* Waits, handlers that are ready, the round and the threads that start the timer.
Carriers == waits + Len(due) + (IF InRound THEN 1 ELSE 0) + Cardinality(Starting)

\* Until it is disturbed, the timer is carried by one of them at most, and by one
\* while the flag is set, before Run as after it.
CarriedOnce == ~disturbed => Carriers <= 1 /\ (idle_running => Carriers = 1)

IdleInv == TypeOK /\ PlanInv /\ CarriedOnce

-------------------------------------------------------------------------------
(* Lemmas *)

LEMMA Threads == /\ Main \in Actors /\ Pool \in Actors /\ Users \subseteq Actors
                 /\ Main # Pool /\ Main \notin Users /\ Pool \notin Users
  BY IdleAssumption DEF Actors

\* The functions and their intervals.
LEMMA Periods ==
    /\ Len(Intervals) \in Nat
    /\ 0 \in Functions
    /\ \A f \in Functions : f \in Nat /\ IntervalOf(f) \in Nat /\ IntervalOf(f) > 0
<1>1. Len(Intervals) \in Nat
  BY IdleAssumption, LenProperties
<1>2. ASSUME NEW f \in Functions PROVE f \in Nat /\ IntervalOf(f) \in Nat /\ IntervalOf(f) > 0
  <2>1. CASE f = 0
    BY <2>1, IdleAssumption DEF IntervalOf
  <2>2. CASE f # 0
    <3>1. f \in 1..Len(Intervals)
      BY <1>1, <2>2 DEF Functions
    <3>2. Intervals[f] \in Nat \ {0}
      BY <3>1, IdleAssumption, ElementOfSeq
    <3> QED
      BY <2>2, <3>1, <3>2 DEF IntervalOf
  <2> QED
    BY <2>1, <2>2
<1> QED
  BY <1>1, <1>2 DEF Functions

\* cancel and Expire move the waits to the handlers that are ready.
LEMMA Moved ==
    ASSUME due \in Seq({"ok", "aborted"}), waits \in Nat, NEW x \in {"ok", "aborted"},
           due' = due \o Repeat(x, waits)
    PROVE  due' \in Seq({"ok", "aborted"}) /\ Len(due') = Len(due) + waits
<1>1. Repeat(x, waits) \in Seq({"ok", "aborted"}) /\ Len(Repeat(x, waits)) = waits
  BY DEF Repeat
<1> QED
  BY <1>1, ConcatProperties

\* A run of the handler: the fields of its record.
LEMMA Fields ==
    ASSUME TypeOK
    PROVE  /\ round.at \in Int /\ round.min \in Int /\ round.spent \in Nat
           /\ round.seen \subseteq Functions
           /\ \A f \in Functions : f \in Nat /\ dist[f] \in Int /\ Distance(f) \in Int
           /\ left \in Nat /\ slack \in Nat /\ interval \in Nat /\ count \in Nat
<1>1. /\ round.at \in Int /\ round.min \in Int /\ round.spent \in 0..MaxSpent
      /\ round.seen \subseteq Functions
  BY DEF TypeOK
<1>2. round.spent \in Nat /\ slack \in Nat
  BY <1>1, IdleAssumption DEF TypeOK
<1>3. \A f \in Functions : f \in Nat /\ dist[f] \in Int
  BY Periods DEF TypeOK
<1>4. count \in Nat
  BY Periods DEF TypeOK
<1> QED
  BY <1>1, <1>2, <1>3, <1>4 DEF TypeOK, Distance

\* A step of thread p leaves the others where they are.
LEMMA OneThread ==
    ASSUME TypeOK, NEW p \in Actors, NEW x, pc' = [pc EXCEPT ![p] = x]
    PROVE  pc'[p] = x /\ \A q \in Actors : q # p => pc'[q] = pc[q]
  BY DEF TypeOK

-------------------------------------------------------------------------------
(* Types *)

\* After(p) is a place of a thread.
Places == {"none", "new", "set", "check", "expires", "wait", "started", "run", "round",
           "calling", "stop"}

LEMMA InitType == Init => TypeOK
<1> SUFFICES ASSUME Init PROVE TypeOK
  OBVIOUS
<1>1. running \in BOOLEAN /\ idle_running \in BOOLEAN /\ detect \in BOOLEAN
      /\ stopped \in BOOLEAN /\ disturbed \in BOOLEAN
  BY Zenon DEF Init
<1>2. count \in 0..Len(Intervals) /\ calls \in 0..MaxCalls /\ slack \in 0..MaxSpent
  BY Periods, IdleAssumption DEF Init
<1>3. dist \in [Functions -> Int] /\ planned \in SUBSET Functions
  BY DEF Init
<1>4. interval \in Nat \ {0} /\ left \in Nat /\ waits \in Nat /\ due \in Seq({"ok", "aborted"})
  BY IdleAssumption DEF Init
<1>5. round \in [at : Int, min : Int, spent : 0..MaxSpent, seen : SUBSET Functions]
  BY IdleAssumption DEF Init, NoRound
<1>6. pc \in [Actors -> Places]
  BY DEF Init, Places
<1> QED
  BY <1>1, <1>2, <1>3, <1>4, <1>5, <1>6 DEF TypeOK, Places

\* The round that has not begun, and the one that begins.
LEMMA NewRounds ==
    LET R == [at : Int, min : Int, spent : 0..MaxSpent, seen : SUBSET Functions]
    IN  /\ NoRound \in R
        /\ [NoRound EXCEPT !.at = 0] \in R
        /\ NoRound.at = -1 /\ NoRound.seen = {}
        /\ [NoRound EXCEPT !.at = 0].at = 0
        /\ [NoRound EXCEPT !.at = 0].seen = {}
  BY IdleAssumption DEF NoRound

LEMMA TypeStep == TypeOK /\ PoolState /\ [Next]_vars => TypeOK'
<1> SUFFICES ASSUME TypeOK, PoolState, [Next]_vars PROVE TypeOK'
  OBVIOUS
<1> USE DEF flagVars, listVars, timerVars, planVars
<1>a. \A p \in Actors : After(p) \in Places
  BY DEF After, Places
<1>b. ASSUME NEW p \in Actors, NEW x \in Places, pc' = [pc EXCEPT ![p] = x]
      PROVE  pc' \in [Actors -> Places]
  BY <1>b DEF TypeOK, Places
<1>c. /\ calls \in Nat /\ MaxCalls \in Nat /\ (calls < MaxCalls => calls + 1 \in 0..MaxCalls)
      /\ MaxSpent \in Nat /\ MaxLate \in Nat
  BY IdleAssumption DEF TypeOK
<1>d. /\ round.at \in Int /\ round.min \in Int /\ round.spent \in 0..MaxSpent
      /\ round.seen \subseteq Functions
  BY DEF TypeOK
<1>p. Main \in Actors /\ Pool \in Actors /\ Users \subseteq Actors
  BY Threads
<1>1. CASE Run
  <2>1. pc' \in [Actors -> Places]
    BY <1>1, <1>b, <1>p DEF Run, Places
  <2> QED
    BY <1>1, <2>1 DEF Run, TypeOK, Places
<1>2. CASE start_threads
  <2>1. pc' \in [Actors -> Places]
    BY <1>2, <1>b, <1>p DEF start_threads, Places
  <2> QED
    BY <1>2, <2>1 DEF start_threads, TypeOK, Places
<1>3. CASE on_idle_timer
  <2>1. due' \in Seq({"ok", "aborted"})
    BY <1>3, HeadTailProperties DEF on_idle_timer, TypeOK
  <2>2. CASE Head(due) = "aborted"
    BY <1>3, <2>1, <2>2 DEF on_idle_timer, TypeOK
  <2>3. CASE Head(due) # "aborted"
    <3>1. pc' \in [Actors -> Places]
      BY <1>3, <2>3, <1>b, <1>p DEF on_idle_timer, Places
    <3> QED
      BY <1>3, <2>1, <2>3, <3>1, NewRounds DEF on_idle_timer, TypeOK, Places
  <2> QED
    BY <2>2, <2>3
<1>4. CASE skip_idle_function
  <2>1. round.at \in Functions
    BY <1>4, Periods DEF skip_idle_function, TypeOK, Functions
  <2>2. Distance(round.at) \in Int
    BY <2>1, Fields
  <2> DEFINE m == IF round.at \in Listed
                  THEN update_min_distance_seconds(round.min, Distance(round.at))
                  ELSE round.min
             s == round.seen \cup (Listed \cap {round.at})
  <2>3. m \in Int
    BY <1>d, <2>2 DEF update_min_distance_seconds
  <2>4. s \subseteq Functions
    BY <1>d, <2>1
  <2>5. round.at + 1 \in Int
    BY <1>d
  <2>6. round' = [round EXCEPT !.at = round.at + 1, !.min = m, !.seen = s]
    BY <1>4 DEF skip_idle_function
  <2> HIDE DEF m, s
  <2>7. round' \in [at : Int, min : Int, spent : 0..MaxSpent, seen : SUBSET Functions]
    BY <2>3, <2>4, <2>5, <2>6 DEF TypeOK
  <2> QED
    BY <1>4, <2>7 DEF skip_idle_function, TypeOK
<1>5. CASE call_idle_function
  <2>1. pc' \in [Actors -> Places]
    BY <1>5, <1>b, <1>p DEF call_idle_function, Places
  <2> QED
    BY <1>5, <2>1 DEF call_idle_function, TypeOK, Places
<1>6. CASE idle_function_returns
  <2>1. round.at \in Functions
    BY <1>6, Periods DEF idle_function_returns, PoolState, TypeOK, Functions
  <2>2. IntervalOf(round.at) \in Int
    BY <2>1, Periods
  <2> DEFINE m == update_min_distance_seconds(round.min, IntervalOf(round.at))
             s == round.seen \cup {round.at}
  <2>3. m \in Int
    BY <1>d, <2>2 DEF update_min_distance_seconds
  <2>4. s \subseteq Functions
    BY <1>d, <2>1
  <2>5. round.at + 1 \in Int
    BY <1>d
  <2>6. round' = [round EXCEPT !.at = round.at + 1, !.min = m, !.seen = s]
    BY <1>6 DEF idle_function_returns
  <2> HIDE DEF m, s
  <2>7. round' \in [at : Int, min : Int, spent : 0..MaxSpent, seen : SUBSET Functions]
    BY <2>3, <2>4, <2>5, <2>6 DEF TypeOK
  <2>8. dist' \in [Functions -> Int]
    BY <1>6, <2>1, <2>2 DEF idle_function_returns, TypeOK
  <2>9. pc' \in [Actors -> Places]
    BY <1>6, <1>b, <1>p DEF idle_function_returns, Places
  <2> QED
    BY <1>6, <2>7, <2>8, <2>9 DEF idle_function_returns, TypeOK, Places
<1>7. CASE end_of_round
  <2>1. pc' \in [Actors -> Places]
    BY <1>7, <1>b, <1>p DEF end_of_round, Places
  <2>2. interval' \in Nat \ {0}
    BY <1>7, <1>d DEF end_of_round, TypeOK
  <2>3. idle_running' \in BOOLEAN
    BY <1>7 DEF end_of_round, TypeOK
  <2>4. round' \in [at : Int, min : Int, spent : 0..MaxSpent, seen : SUBSET Functions]
    BY <1>7, NewRounds DEF end_of_round, TypeOK
  <2> QED
    BY <1>7, <2>1, <2>2, <2>3, <2>4 DEF end_of_round, TypeOK, Places
<1>8. CASE idle_function_throws
  <2>1. pc' \in [Actors -> Places]
    BY <1>8, <1>b, <1>p DEF idle_function_throws, Places
  <2> QED
    BY <1>8, <2>1, NewRounds DEF idle_function_throws, TypeOK, Places
<1>9. ASSUME NEW p \in Actors, set_idle_running(p) PROVE TypeOK'
  <2>1. pc' \in [Actors -> Places]
    BY <1>9, <1>b DEF set_idle_running, Places
  <2>2. disturbed' \in BOOLEAN /\ idle_running' \in BOOLEAN
    BY <1>9, Zenon DEF set_idle_running
  <2> QED
    BY <1>9, <2>1, <2>2 DEF set_idle_running, TypeOK, Places
<1>10. ASSUME NEW p \in Actors, start_idle_timer(p) PROVE TypeOK'
  <2>1. pc' \in [Actors -> Places]
    BY <1>10, <1>a, <1>b DEF start_idle_timer, Places
  <2>2. round' \in [at : Int, min : Int, spent : 0..MaxSpent, seen : SUBSET Functions]
    BY <1>10, NewRounds DEF start_idle_timer, TypeOK
  <2> QED
    BY <1>10, <2>1, <2>2 DEF start_idle_timer, TypeOK, Places
<1>11. ASSUME NEW p \in Actors, expires_from_now(p) PROVE TypeOK'
  <2>1. pc' \in [Actors -> Places]
    BY <1>11, <1>b DEF expires_from_now, Places
  <2>2. due' \in Seq({"ok", "aborted"}) /\ waits' \in Nat
    BY <1>11, Moved DEF expires_from_now, cancel, TypeOK
  <2>3. planned' \in SUBSET Functions
    BY <1>11, <1>d DEF expires_from_now
  <2> QED
    BY <1>11, <2>1, <2>2, <2>3 DEF expires_from_now, TypeOK, Places
<1>12. ASSUME NEW p \in Actors, async_wait(p) PROVE TypeOK'
  <2>1. pc' \in [Actors -> Places]
    BY <1>12, <1>a, <1>b DEF async_wait
  <2>2. waits' \in Nat
    BY <1>12 DEF async_wait, TypeOK
  <2>3. round' \in [at : Int, min : Int, spent : 0..MaxSpent, seen : SUBSET Functions]
    BY <1>12, NewRounds DEF async_wait, TypeOK
  <2>4. slack' \in 0..MaxSpent
    BY <1>12, <1>d DEF async_wait, TypeOK
  <2> QED
    BY <1>12, <2>1, <2>2, <2>3, <2>4 DEF async_wait, TypeOK, Places
<1>13. ASSUME NEW u \in Users, PauseIdleTimer(u) PROVE TypeOK'
  <2>1. disturbed' \in BOOLEAN /\ idle_running' \in BOOLEAN
    BY <1>13, Zenon DEF PauseIdleTimer
  <2>2. calls' \in 0..MaxCalls
    BY <1>13, <1>c DEF PauseIdleTimer, Calling
  <2> QED
    BY <1>13, <2>1, <2>2 DEF PauseIdleTimer, TypeOK
<1>14. ASSUME NEW u \in Users, ResumeIdleTimer(u) PROVE TypeOK'
  <2>1. pc' \in [Actors -> Places]
    BY <1>14, <1>b, <1>p DEF ResumeIdleTimer, Places
  <2>2. calls' \in 0..MaxCalls
    BY <1>14, <1>c DEF ResumeIdleTimer, Calling
  <2> QED
    BY <1>14, <2>1, <2>2 DEF ResumeIdleTimer, TypeOK, Places
<1>15. ASSUME NEW u \in Users, EnableDetectTemplates(u) PROVE TypeOK'
  <2>1. pc' \in [Actors -> Places]
    <3>1. CASE running /\ ~idle_running
      BY <1>15, <3>1, <1>b, <1>p DEF EnableDetectTemplates, Places
    <3>2. CASE ~(running /\ ~idle_running)
      BY <1>15, <3>2 DEF EnableDetectTemplates, TypeOK, Places
    <3> QED
      BY <3>1, <3>2
  <2>2. calls' \in 0..MaxCalls
    BY <1>15, <1>c DEF EnableDetectTemplates, Calling
  <2>3. dist' \in [Functions -> Int]
    <3>1. dist' = [dist EXCEPT ![0] = DetectInterval]
      BY <1>15 DEF EnableDetectTemplates
    <3>2. DetectInterval \in Int
      BY IdleAssumption
    <3> QED
      BY <3>1, <3>2 DEF TypeOK
  <2>4. disturbed' \in BOOLEAN /\ detect' \in BOOLEAN
    BY <1>15, Zenon DEF EnableDetectTemplates
  <2>5. planned' \in SUBSET Functions
    BY <1>15 DEF EnableDetectTemplates, TypeOK
  <2>6. round' \in [at : Int, min : Int, spent : 0..MaxSpent, seen : SUBSET Functions]
    BY <1>15 DEF EnableDetectTemplates, TypeOK
  <2> QED
    BY <1>15, <2>1, <2>2, <2>3, <2>4, <2>5, <2>6 DEF EnableDetectTemplates, TypeOK, Places
<1>16. ASSUME NEW u \in Users, DisableDetectTemplates(u) PROVE TypeOK'
  <2>1. calls' \in 0..MaxCalls
    BY <1>16, <1>c DEF DisableDetectTemplates, Calling
  <2> QED
    BY <1>16, <2>1 DEF DisableDetectTemplates, TypeOK
<1>17. ASSUME NEW u \in Users, AppendIdleFunction(u) PROVE TypeOK'
  <2>1. calls' \in 0..MaxCalls
    BY <1>17, <1>c DEF AppendIdleFunction, Calling
  <2>2. count' \in 0..Len(Intervals) /\ count + 1 \in 1..Len(Intervals)
    BY <1>17, Periods DEF AppendIdleFunction, TypeOK
  <2>3. Intervals[count + 1] \in Int
    BY <2>2, IdleAssumption, ElementOfSeq
  <2>4. dist' \in [Functions -> Int]
    BY <1>17, <2>3 DEF AppendIdleFunction, TypeOK
  <2> QED
    BY <1>17, <2>1, <2>2, <2>4 DEF AppendIdleFunction, TypeOK
<1>18. ASSUME NEW u \in Users, stop_idle_timer(u) PROVE TypeOK'
  <2>1. pc' \in [Actors -> Places]
    BY <1>18, <1>b, <1>p DEF stop_idle_timer, Places
  <2>2. calls' \in 0..MaxCalls
    BY <1>18, <1>c DEF stop_idle_timer, Calling
  <2>3. due' \in Seq({"ok", "aborted"}) /\ waits' \in Nat
    BY <1>18, Moved DEF stop_idle_timer, cancel, TypeOK
  <2> QED
    BY <1>18, <2>1, <2>2, <2>3 DEF stop_idle_timer, TypeOK, Places
<1>19. ASSUME NEW u \in Users, stop_context(u) PROVE TypeOK'
  <2>1. pc' \in [Actors -> Places]
    BY <1>19, <1>b, <1>p DEF stop_context, Places
  <2> QED
    BY <1>19, <2>1 DEF stop_context, TypeOK, Places
<1>20. CASE Tick
  <2>1. left' \in Nat
    BY <1>20 DEF Tick, TypeOK
  <2>2. dist' \in [Functions -> Int]
    BY <1>20, <1>c DEF Tick, TypeOK
  <2>3. InRound => round.spent + 1 \in 0..MaxSpent
    BY <1>20, <1>c, <1>d DEF Tick
  <2>4. round' \in [at : Int, min : Int, spent : 0..MaxSpent, seen : SUBSET Functions]
    BY <1>20, <2>3 DEF Tick, TypeOK
  <2> QED
    BY <1>20, <2>1, <2>2, <2>4 DEF Tick, TypeOK
<1>21. CASE Expire
  <2>1. due' \in Seq({"ok", "aborted"}) /\ waits' \in Nat
    BY <1>21, Moved DEF Expire, TypeOK
  <2> QED
    BY <1>21, <2>1 DEF Expire, TypeOK
<1>22. CASE UNCHANGED vars
  BY <1>22 DEF vars, TypeOK
<1> QED
  BY <1>1, <1>2, <1>3, <1>4, <1>5, <1>6, <1>7, <1>8, <1>9, <1>10, <1>11, <1>12, <1>13, <1>14,
     <1>15, <1>16, <1>17, <1>18, <1>19, <1>20, <1>21, <1>22
     DEF Next, handler_steps, start_steps

-------------------------------------------------------------------------------
(* The expiry *)

\* A step that leaves the round, the functions and the expiry alone.
Aside == /\ pc'[Pool] = pc[Pool]
         /\ UNCHANGED <<count, dist, interval, left, round, planned, slack>>

LEMMA AsideStep == ASSUME PlanInv, Aside PROVE PlanInv'
  BY DEF PlanInv, Aside, PoolState, Near, Minimum, Armed, InRound, Distance

LEMMA InitPlan == Init => PlanInv
<1> SUFFICES ASSUME Init PROVE PlanInv
  OBVIOUS
<1>1. pc[Pool] = "new"
  BY Threads DEF Init
<1>2. round.at = -1 /\ round.seen = {}
  BY NewRounds DEF Init
<1>3. ~InRound
  BY <1>2 DEF InRound
<1>4. PoolState
  BY <1>1, <1>2, <1>3 DEF PoolState, Init
<1>5. Near
  BY Periods DEF Near, Init
<1>6. Minimum /\ Armed
  BY <1>1, <1>3 DEF Minimum, Armed, Init
<1> QED
  BY <1>4, <1>5, <1>6 DEF PlanInv

\* Steps of the threads of the program, and the ones of the pool that are not part of
\* a round.
LEMMA AsideSteps ==
    ASSUME TypeOK, PlanInv,
           \/ Run
           \/ Expire
           \/ on_idle_timer /\ Head(due) = "aborted"
           \/ \E p \in Actors : set_idle_running(p)
           \/ \E p \in Actors \ {Pool} : start_idle_timer(p) \/ async_wait(p)
           \/ \E u \in Users : \/ PauseIdleTimer(u) \/ ResumeIdleTimer(u)
                               \/ DisableDetectTemplates(u)
                               \/ stop_idle_timer(u) \/ stop_context(u)
           \/ UNCHANGED vars
    PROVE  PlanInv'
<1> USE DEF Aside, flagVars, listVars, timerVars, planVars
<1>a. ASSUME NEW p \in Actors, p # Pool, NEW x, pc' = [pc EXCEPT ![p] = x]
      PROVE  pc'[Pool] = pc[Pool]
  BY <1>a, OneThread, Threads
<1>1. CASE Run
  BY <1>1, <1>a, Threads, AsideStep DEF Run
<1>2. CASE Expire
  BY <1>2, AsideStep DEF Expire
<1>3. CASE on_idle_timer /\ Head(due) = "aborted"
  BY <1>3, AsideStep DEF on_idle_timer
<1>4. ASSUME NEW p \in Actors, set_idle_running(p) PROVE PlanInv'
  <2>1. p # Pool
    BY <1>4 DEF set_idle_running, PlanInv, PoolState
  <2> QED
    BY <1>4, <2>1, <1>a, AsideStep DEF set_idle_running
<1>5. ASSUME NEW p \in Actors \ {Pool}, start_idle_timer(p) PROVE PlanInv'
  BY <1>5, <1>a, AsideStep DEF start_idle_timer
<1>6. ASSUME NEW p \in Actors \ {Pool}, async_wait(p) PROVE PlanInv'
  BY <1>6, <1>a, AsideStep DEF async_wait
<1>7. ASSUME NEW u \in Users, PauseIdleTimer(u) PROVE PlanInv'
  BY <1>7, AsideStep DEF PauseIdleTimer
<1>8. ASSUME NEW u \in Users, ResumeIdleTimer(u) PROVE PlanInv'
  BY <1>8, <1>a, Threads, AsideStep DEF ResumeIdleTimer
<1>9. ASSUME NEW u \in Users, DisableDetectTemplates(u) PROVE PlanInv'
  BY <1>9, AsideStep DEF DisableDetectTemplates
<1>10. ASSUME NEW u \in Users, stop_idle_timer(u) PROVE PlanInv'
  BY <1>10, <1>a, Threads, AsideStep DEF stop_idle_timer
<1>11. ASSUME NEW u \in Users, stop_context(u) PROVE PlanInv'
  BY <1>11, <1>a, Threads, AsideStep DEF stop_context
<1>12. CASE UNCHANGED vars
  BY <1>12, AsideStep DEF vars
<1> QED
  BY <1>1, <1>2, <1>3, <1>4, <1>5, <1>6, <1>7, <1>8, <1>9, <1>10, <1>11, <1>12

\* The thread of the pool moves on without touching the functions or the expiry, and
\* the round is the same or over.
LEMMA PoolMoves ==
    ASSUME TypeOK, PlanInv, NEW x \in {"run", "round", "calling", "check", "expires"},
           pc' = [pc EXCEPT ![Pool] = x], pc[Pool] # "wait",
           UNCHANGED <<count, dist, left, planned, slack>>,
           \/ x \in {"run"} /\ round'.at = -1 /\ round'.seen = {}
           \/ x = "round" /\ round'.at = 0 /\ round'.seen = {}
           \/ x = "run" /\ pc[Pool] \in {"new", "run"} /\ round' = round
           \/ /\ x \in {"calling", "check", "expires"}
              /\ round' = round /\ InRound
              /\ x = "calling" => round.at \in 0..count
              /\ x \in {"check", "expires"} => interval' = round.min
    PROVE  PlanInv'
<1>1. pc'[Pool] = x
  BY OneThread, Threads
<1>2. InRound' <=> x \notin {"new", "run"}
  BY DEF InRound, PlanInv, PoolState
<1>3. PoolState'
  BY <1>1, <1>2 DEF PlanInv, PoolState
<1>4. Near'
  BY DEF PlanInv, Near
<1>5. Minimum'
  BY <1>1, <1>2 DEF PlanInv, Minimum, Distance, InRound
<1>6. Armed'
  BY <1>1 DEF PlanInv, Armed
<1> QED
  BY <1>3, <1>4, <1>5, <1>6 DEF PlanInv

LEMMA PoolSteps ==
    ASSUME TypeOK, PlanInv,
           \/ start_threads
           \/ on_idle_timer /\ Head(due) # "aborted"
           \/ call_idle_function \/ idle_function_throws \/ end_of_round
           \/ start_idle_timer(Pool)
    PROVE  PlanInv'
<1> USE DEF flagVars, listVars, timerVars, planVars
<1>p. PoolState
  BY DEF PlanInv
<1>1. CASE start_threads
  BY <1>1, PoolMoves DEF start_threads
<1>2. CASE on_idle_timer /\ Head(due) # "aborted"
  BY <1>2, NewRounds, PoolMoves DEF on_idle_timer
<1>3. CASE call_idle_function
  <2>1. round.at \in 0..count /\ InRound
    BY <1>3, <1>p, Fields DEF call_idle_function, Listed, PoolState
  <2> QED
    BY <1>3, <2>1, PoolMoves DEF call_idle_function
<1>4. CASE idle_function_throws
  BY <1>4, NewRounds, PoolMoves DEF idle_function_throws
<1>5. CASE end_of_round
  <2>1. CASE round.min <= 0
    BY <1>5, <2>1, NewRounds, PoolMoves DEF end_of_round
  <2>2. CASE ~(round.min <= 0)
    BY <1>5, <1>p, <2>2, PoolMoves DEF end_of_round, PoolState
  <2> QED
    BY <2>1, <2>2
<1>6. CASE start_idle_timer(Pool)
  <2>1. CASE idle_running
    <3>1. interval = round.min
      BY <1>6 DEF start_idle_timer, PlanInv, Minimum
    <3> QED
      BY <1>6, <1>p, <2>1, <3>1, PoolMoves DEF start_idle_timer, PoolState
  <2>2. CASE ~idle_running
    <3>1. After(Pool) = "run"
      BY Threads DEF After
    <3> QED
      BY <1>6, <2>2, <3>1, NewRounds, PoolMoves DEF start_idle_timer
  <2> QED
    BY <2>1, <2>2
<1> QED
  BY <1>1, <1>2, <1>3, <1>4, <1>5, <1>6

\* The minimum with one more distance that is not 0.
LEMMA MinProperties ==
    ASSUME NEW m \in Int, NEW a \in Int, a > 0, NEW n, n = update_min_distance_seconds(m, a)
    PROVE  n \in Int /\ n > 0 /\ n <= a /\ (m > 0 => n <= m)
  BY DEF update_min_distance_seconds

\* The round looks at one more function, which is not due.
LEMMA SkipStep == ASSUME TypeOK, PlanInv, skip_idle_function PROVE PlanInv'
<1> DEFINE f == round.at
<1>0. /\ pc' = pc /\ pc[Pool] = "round" /\ f \in 0..count
      /\ (f \in Listed => Distance(f) > 0)
      /\ UNCHANGED <<count, dist, interval, left, planned, slack>>
  BY DEF skip_idle_function, listVars, timerVars, planVars
<1>1. /\ round'.at = f + 1 /\ round'.spent = round.spent
      /\ round'.seen = round.seen \cup (Listed \cap {f})
      /\ round'.min = IF f \in Listed THEN update_min_distance_seconds(round.min, Distance(f))
                      ELSE round.min
  BY DEF skip_idle_function, TypeOK
<1>f. f \in Functions
  BY <1>0, Periods DEF TypeOK, Functions
<1>t. round.min \in Int /\ Distance(f) \in Int /\ f \in Int /\ f >= 0
  BY <1>f, Fields
<1>2. InRound /\ InRound'
  BY <1>0, <1>1, <1>t DEF InRound, PlanInv, PoolState
<1> HIDE DEF f
<1>3. PoolState'
  BY <1>0, <1>1, <1>2 DEF PlanInv, PoolState
<1>4. Near' /\ Armed'
  BY <1>0 DEF PlanInv, Near, Armed
<1>5. ASSUME NEW g \in round'.seen PROVE round'.min > 0 /\ round'.min <= Distance(g)'
  <2>1. Distance(g)' = Distance(g)
    BY <1>0, <1>1 DEF Distance
  <2>2. CASE f \notin Listed
    BY <1>1, <1>2, <2>1, <2>2 DEF PlanInv, Minimum
  <2>3. CASE f \in Listed
    <3>1. /\ round'.min \in Int /\ round'.min > 0 /\ round'.min <= Distance(f)
          /\ (round.min > 0 => round'.min <= round.min)
      <4>1. round'.min = update_min_distance_seconds(round.min, Distance(f)) /\ Distance(f) > 0
        BY <1>0, <1>1, <2>3
      <4> QED
        BY <1>t, <4>1, MinProperties
    <3>2. CASE g = f
      BY <2>1, <3>1, <3>2
    <3>3. CASE g # f
      <4>1. g \in round.seen
        BY <1>1, <3>3
      <4>2. round.min > 0 /\ round.min <= Distance(g)
        BY <1>2, <4>1 DEF PlanInv, Minimum
      <4>3. Distance(g) \in Int
        BY <4>1, Fields
      <4> QED
        BY <1>t, <2>1, <3>1, <4>2, <4>3
    <3> QED
      BY <3>2, <3>3
  <2> QED
    BY <2>2, <2>3
<1>6. Minimum'
  BY <1>0, <1>5 DEF Minimum
<1> QED
  BY <1>3, <1>4, <1>6 DEF PlanInv

\* A function that was called is not due before its interval is over.
LEMMA ReturnsStep == ASSUME TypeOK, PlanInv, idle_function_returns PROVE PlanInv'
<1> DEFINE f == round.at
           a == IntervalOf(f)
<1>0. /\ pc' = [pc EXCEPT ![Pool] = "round"] /\ pc[Pool] = "calling"
      /\ dist' = [dist EXCEPT ![f] = a]
      /\ UNCHANGED <<count, interval, left, planned, slack>>
  BY DEF idle_function_returns, timerVars, planVars
<1>1. /\ round'.at = f + 1 /\ round'.spent = round.spent
      /\ round'.seen = round.seen \cup {f}
      /\ round'.min = update_min_distance_seconds(round.min, a)
  BY DEF idle_function_returns, TypeOK
<1>f. f \in 0..count /\ f \in Functions
  BY <1>0, Periods DEF PlanInv, PoolState, TypeOK, Functions
<1>t. /\ round.min \in Int /\ round.spent \in Nat /\ f \in Int /\ f >= 0
      /\ a \in Int /\ a > 0
  BY <1>f, Fields, Periods
<1>s. round.seen \subseteq Functions /\ planned \subseteq Functions
  BY Fields DEF TypeOK
<1>q. pc'[Pool] = "round"
  BY <1>0, OneThread, Threads
<1>2. InRound /\ InRound'
  BY <1>0, <1>1, <1>t DEF InRound, PlanInv, PoolState
<1>n. dist[f] <= a
  BY <1>f DEF PlanInv, Near
<1> HIDE DEF f, a
<1>d. /\ dist'[f] = a
      /\ \A g \in Functions : g # f => dist'[g] = dist[g]
  BY <1>0, <1>f DEF TypeOK
<1>i. \A g \in Functions : dist[g] \in Int /\ Distance(g) \in Int /\ IntervalOf(g) \in Int
  BY Fields, Periods
<1>e. \A g \in Functions : dist'[g] \in Int /\ dist[g] <= dist'[g]
  BY <1>d, <1>i, <1>n, <1>t
<1>3. PoolState'
  BY <1>0, <1>1, <1>2, <1>f, <1>q DEF PlanInv, PoolState
<1>4. Near'
  <2>1. ASSUME NEW g \in Functions PROVE dist'[g] <= IntervalOf(g)
    <3>1. CASE g = f
      <4>1. dist'[g] = IntervalOf(g)
        BY <1>d, <3>1 DEF a
      <4> QED
        BY <1>i, <4>1
    <3>2. CASE g # f
      BY <1>d, <3>2 DEF PlanInv, Near
    <3> QED
      BY <3>1, <3>2
  <2> QED
    BY <2>1 DEF Near
<1>5. ASSUME NEW g \in round'.seen PROVE round'.min > 0 /\ round'.min <= Distance(g)'
  <2>1. /\ round'.min \in Int /\ round'.min > 0 /\ round'.min <= a
        /\ (round.min > 0 => round'.min <= round.min)
    BY <1>1, <1>t, MinProperties
  <2>2. CASE g = f
    <3>1. Distance(g)' = a + round.spent
      BY <1>1, <1>d, <2>2 DEF Distance
    <3> QED
      BY <1>t, <2>1, <3>1
  <2>3. CASE g # f
    <3>1. g \in round.seen
      BY <1>1, <2>3
    <3>2. round.min > 0 /\ round.min <= Distance(g)
      BY <1>2, <3>1 DEF PlanInv, Minimum
    <3>3. Distance(g)' = Distance(g)
      BY <1>1, <1>d, <1>s, <2>3, <3>1 DEF Distance
    <3>4. Distance(g) \in Int
      BY <1>i, <1>s, <3>1
    <3> QED
      BY <1>t, <2>1, <3>2, <3>3, <3>4
  <2> QED
    BY <2>2, <2>3
<1>6. Minimum'
  BY <1>5, <1>q DEF Minimum
<1>7. Armed'
  <2>1. ASSUME left > 0, NEW g \in planned PROVE left <= dist'[g] + slack
    <3>1. left <= dist[g] + slack
      BY <1>0, <2>1 DEF PlanInv, Armed
    <3>2. g \in Functions /\ dist[g] \in Int /\ dist'[g] \in Int /\ dist[g] <= dist'[g]
      BY <1>e, <1>i, <1>s
    <3>3. left \in Int /\ slack \in Int
      BY Fields
    <3> QED
      BY <3>1, <3>2, <3>3
  <2> QED
    BY <1>0, <1>q, <2>1 DEF Armed
<1> QED
  BY <1>3, <1>4, <1>6, <1>7 DEF PlanInv

\* The expiry is set: by the pool to the minimum, and by others for no function.
LEMMA ExpiryStep == ASSUME TypeOK, PlanInv, NEW p \in Actors, expires_from_now(p) PROVE PlanInv'
<1>0. /\ pc' = [pc EXCEPT ![p] = "wait"] /\ pc[p] = "expires" /\ left' = interval
      /\ planned' = IF p = Pool THEN round.seen ELSE {}
      /\ UNCHANGED <<count, dist, interval, round, slack>>
  BY DEF expires_from_now, listVars
<1>1. Near'
  BY <1>0 DEF PlanInv, Near
<1>d. \A f : Distance(f)' = Distance(f)
  BY <1>0 DEF Distance
<1>2. CASE p = Pool
  <2>1. pc'[Pool] = "wait"
    BY <1>0, <1>2, OneThread, Threads
  <2>2. PoolState'
    BY <1>0, <1>2, <2>1 DEF PlanInv, PoolState, InRound
  <2>3. Minimum'
    BY <1>0, <1>d, <2>1 DEF PlanInv, Minimum, InRound
  <2>4. interval = round.min /\ InRound
    BY <1>0, <1>2 DEF PlanInv, Minimum, PoolState
  <2>5. Armed'
    BY <1>0, <1>2, <1>d, <2>1, <2>4 DEF PlanInv, Minimum, Armed
  <2> QED
    BY <1>1, <2>2, <2>3, <2>5 DEF PlanInv
<1>3. CASE p # Pool
  <2>1. pc'[Pool] = pc[Pool] /\ planned' = {}
    BY <1>0, <1>3, OneThread, Threads
  <2>2. PoolState'
    BY <1>0, <2>1 DEF PlanInv, PoolState, InRound
  <2>3. Minimum'
    BY <1>0, <1>d, <2>1 DEF PlanInv, Minimum, InRound
  <2>4. Armed'
    BY <2>1 DEF Armed
  <2> QED
    BY <1>1, <2>2, <2>3, <2>4 DEF PlanInv
<1> QED
  BY <1>2, <1>3

\* The pool waits, and the round is over.
LEMMA WaitStep == ASSUME TypeOK, PlanInv, async_wait(Pool) PROVE PlanInv'
<1>0. /\ pc' = [pc EXCEPT ![Pool] = After(Pool)] /\ pc[Pool] = "wait" /\ After(Pool) = "run"
      /\ round' = NoRound /\ slack' = round.spent
      /\ UNCHANGED <<count, dist, interval, left, planned>>
  BY Threads DEF async_wait, After, listVars
<1>1. pc'[Pool] = "run"
  BY <1>0, OneThread, Threads
<1>2. round'.seen = {} /\ ~InRound'
  BY <1>0, NewRounds DEF InRound
<1>3. PoolState'
  BY <1>0, <1>1, <1>2 DEF PlanInv, PoolState
<1>4. Near'
  BY <1>0 DEF PlanInv, Near
<1>5. Minimum'
  BY <1>1, <1>2 DEF Minimum
<1>6. Armed'
  BY <1>0, <1>1 DEF PlanInv, Armed, Distance
<1> QED
  BY <1>3, <1>4, <1>5, <1>6 DEF PlanInv

\* The detection starts anew, and no longer counts as planned.
LEMMA EnableStep ==
    ASSUME TypeOK, PlanInv, NEW u \in Users, EnableDetectTemplates(u) PROVE PlanInv'
<1>0. /\ dist' = [dist EXCEPT ![0] = DetectInterval]
      /\ pc' = IF running /\ ~idle_running THEN [pc EXCEPT ![u] = "set"] ELSE pc
      /\ planned' = planned \ {0}
      /\ UNCHANGED <<count, interval, left, slack>>
  BY DEF EnableDetectTemplates, timerVars
<1>1. /\ round'.at = round.at /\ round'.min = round.min /\ round'.spent = round.spent
      /\ round'.seen = round.seen \ {0}
  BY DEF EnableDetectTemplates, TypeOK
<1>2. pc'[Pool] = pc[Pool]
  BY <1>0, OneThread, Threads
<1>3. /\ dist'[0] = DetectInterval
      /\ \A f \in Functions : f # 0 => dist'[f] = dist[f]
  BY <1>0, Periods DEF TypeOK
<1>s. round.seen \subseteq Functions /\ planned \subseteq Functions
  BY Fields DEF TypeOK
<1>d. \A f \in Functions : f # 0 => Distance(f)' = Distance(f)
  BY <1>1, <1>3 DEF Distance
<1>4. PoolState'
  BY <1>0, <1>1, <1>2 DEF PlanInv, PoolState, InRound
<1>5. Near'
  <2>1. IntervalOf(0) = DetectInterval /\ DetectInterval \in Int
    BY IdleAssumption DEF IntervalOf
  <2> QED
    BY <1>3, <2>1 DEF PlanInv, Near
<1>6. Minimum'
  BY <1>0, <1>1, <1>2, <1>d, <1>s DEF PlanInv, Minimum, InRound
<1>7. Armed'
  BY <1>0, <1>2, <1>3, <1>d, <1>s DEF PlanInv, Armed
<1> QED
  BY <1>4, <1>5, <1>6, <1>7 DEF PlanInv

\* A function that is appended is one that no round has seen.
LEMMA AppendStep ==
    ASSUME TypeOK, PlanInv, NEW u \in Users, AppendIdleFunction(u) PROVE PlanInv'
<1> DEFINE c == count + 1
<1>0. /\ dist' = [dist EXCEPT ![c] = Intervals[c]]
      /\ count' = c /\ count < Len(Intervals)
      /\ UNCHANGED <<pc, round, planned, interval, left, slack>>
  BY DEF AppendIdleFunction, timerVars, planVars
<1>1. count \in Nat /\ c \in Functions /\ c # 0
  BY <1>0, Periods, Fields DEF Functions
<1>2. /\ dist'[c] = Intervals[c]
      /\ \A f \in Functions : f # c => dist'[f] = dist[f]
  BY <1>0, <1>1 DEF TypeOK
<1>s. round.seen \subseteq 0..count /\ planned \subseteq 0..count
  BY DEF PlanInv, PoolState
<1>3. \A f \in 0..count : f \in Functions /\ f # c /\ f \in 0..c
  BY <1>0, <1>1, Periods DEF Functions
<1>i. \A f \in Functions : dist[f] \in Int /\ IntervalOf(f) \in Int
  BY Fields, Periods
<1>h. 0..count \subseteq 0..c
  BY <1>3
<1> HIDE DEF c
<1>d. \A f \in 0..count : dist'[f] = dist[f] /\ Distance(f)' = Distance(f)
  BY <1>0, <1>2, <1>3 DEF Distance
<1>4. PoolState'
  BY <1>0, <1>h DEF PlanInv, PoolState, InRound
<1>5. Near'
  <2>1. IntervalOf(c) = Intervals[c]
    BY <1>1 DEF IntervalOf
  <2>2. dist'[c] <= IntervalOf(c)
    BY <1>1, <1>2, <1>i, <2>1
  <2> QED
    BY <1>2, <2>2 DEF PlanInv, Near
<1>6. Minimum'
  BY <1>0, <1>d, <1>s DEF PlanInv, Minimum, InRound
<1>7. Armed'
  BY <1>0, <1>d, <1>s DEF PlanInv, Armed
<1> QED
  BY <1>4, <1>5, <1>6, <1>7 DEF PlanInv

\* Time passes: for the functions as for the timer and the round.
LEMMA TickStep == ASSUME TypeOK, PlanInv, Tick PROVE PlanInv'
<1>0. /\ left' = IF left > 0 THEN left - 1 ELSE 0
      /\ dist' = [f \in Functions |-> IF dist[f] > -MaxLate THEN dist[f] - 1 ELSE dist[f]]
      /\ UNCHANGED <<count, interval, pc, planned, slack>>
  BY DEF Tick, planVars
<1>1. /\ round'.at = round.at /\ round'.min = round.min /\ round'.seen = round.seen
      /\ round'.spent = IF InRound THEN round.spent + 1 ELSE round.spent
  BY DEF Tick, TypeOK
<1>r. InRound' <=> InRound
  BY <1>1 DEF InRound
<1>i. \A f \in Functions : dist[f] \in Int /\ Distance(f) \in Int /\ IntervalOf(f) \in Int
  BY Fields, Periods
<1>t. left \in Nat /\ slack \in Nat /\ round.spent \in Nat /\ round.min \in Int
  BY Fields
<1>m. MaxLate \in Int
  BY IdleAssumption
<1>s. round.seen \subseteq Functions /\ planned \subseteq Functions
  BY Fields DEF TypeOK
<1>2. ASSUME NEW f \in Functions
      PROVE  dist'[f] \in Int /\ dist[f] - 1 <= dist'[f] /\ dist'[f] <= dist[f]
  BY <1>0, <1>i, <1>m
<1>3. ASSUME NEW f \in Functions, InRound PROVE Distance(f)' \in Int /\ Distance(f) <= Distance(f)'
  <2>1. Distance(f)' = dist'[f] + (round.spent + 1)
    BY <1>1, <1>3 DEF Distance
  <2>2. Distance(f) = dist[f] + round.spent
    BY DEF Distance
  <2> QED
    BY <1>2, <1>i, <1>t, <2>1, <2>2
<1>4. PoolState'
  BY <1>0, <1>1, <1>r DEF PlanInv, PoolState
<1>5. Near'
  <2>1. ASSUME NEW f \in Functions PROVE dist'[f] <= IntervalOf(f)
    <3>1. dist[f] <= IntervalOf(f)
      BY DEF PlanInv, Near
    <3> QED
      BY <1>2, <1>i, <3>1
  <2> QED
    BY <2>1 DEF Near
<1>6. Minimum'
  <2>1. ASSUME InRound, NEW f \in round.seen PROVE round.min > 0 /\ round.min <= Distance(f)'
    <3>1. round.min > 0 /\ round.min <= Distance(f)
      BY <2>1 DEF PlanInv, Minimum
    <3>2. f \in Functions
      BY <1>s
    <3>3. Distance(f)' \in Int /\ Distance(f) <= Distance(f)' /\ Distance(f) \in Int
      BY <1>3, <1>i, <2>1, <3>2
    <3> QED
      BY <1>t, <3>1, <3>3
  <2>2. pc'[Pool] \in {"check", "expires"} => interval' = round'.min
    BY <1>0, <1>1 DEF PlanInv, Minimum
  <2> QED
    BY <1>1, <1>r, <2>1, <2>2 DEF Minimum
<1>7. Armed'
  <2>1. left' \in Int /\ (left' > 0 => left > 0 /\ left' = left - 1) /\ left' <= left
    BY <1>0, <1>t
  <2>2. ASSUME pc[Pool] # "wait", left' > 0, NEW f \in planned PROVE left' <= dist'[f] + slack
    <3>1. left <= dist[f] + slack /\ left' = left - 1
      BY <2>1, <2>2 DEF PlanInv, Armed
    <3>2. dist[f] \in Int /\ dist'[f] \in Int /\ dist[f] - 1 <= dist'[f]
      BY <1>2, <1>i, <1>s
    <3> QED
      BY <1>t, <3>1, <3>2
  <2>3. ASSUME pc[Pool] = "wait", NEW f \in planned PROVE left' <= Distance(f)'
    <3>1. left <= Distance(f) /\ InRound
      BY <2>3 DEF PlanInv, Armed, PoolState
    <3>2. f \in Functions
      BY <1>s
    <3>3. Distance(f)' \in Int /\ Distance(f) <= Distance(f)' /\ Distance(f) \in Int
      BY <1>3, <1>i, <3>1, <3>2
    <3> QED
      BY <1>t, <2>1, <3>1, <3>3
  <2> QED
    BY <1>0, <2>2, <2>3 DEF Armed
<1> QED
  BY <1>4, <1>5, <1>6, <1>7 DEF PlanInv

LEMMA PlanStep == TypeOK /\ PlanInv /\ [Next]_vars => PlanInv'
<1> SUFFICES ASSUME TypeOK, PlanInv, [Next]_vars PROVE PlanInv'
  OBVIOUS
<1>1. CASE Run \/ Expire \/ UNCHANGED vars
  BY <1>1, AsideSteps
<1>2. CASE start_threads \/ idle_function_throws
  <2>1. CASE start_threads
    BY <2>1, PoolSteps
  <2>2. CASE idle_function_throws
    BY <2>2, PoolSteps
  <2> QED
    BY <1>2, <2>1, <2>2
<1>3. CASE handler_steps
  BY <1>3, AsideSteps, PoolSteps, SkipStep, ReturnsStep DEF handler_steps
<1>4. ASSUME NEW p \in Actors, start_steps(p) PROVE PlanInv'
  <2>1. CASE set_idle_running(p)
    BY <2>1, AsideSteps
  <2>2. CASE start_idle_timer(p)
    BY <2>2, AsideSteps, PoolSteps
  <2>3. CASE expires_from_now(p)
    BY <2>3, ExpiryStep
  <2>4. CASE async_wait(p)
    BY <2>4, AsideSteps, WaitStep
  <2> QED
    BY <1>4, <2>1, <2>2, <2>3, <2>4 DEF start_steps
<1>5. ASSUME NEW u \in Users,
             \/ PauseIdleTimer(u) \/ ResumeIdleTimer(u) \/ DisableDetectTemplates(u)
             \/ stop_idle_timer(u) \/ stop_context(u)
      PROVE  PlanInv'
  BY <1>5, AsideSteps
<1>6. ASSUME NEW u \in Users, EnableDetectTemplates(u) \/ AppendIdleFunction(u) PROVE PlanInv'
  BY <1>6, EnableStep, AppendStep
<1>7. CASE Tick
  BY <1>7, TickStep
<1> QED
  BY <1>1, <1>2, <1>3, <1>4, <1>5, <1>6, <1>7 DEF Next

-------------------------------------------------------------------------------
(* What carries the timer *)

InStart == {"check", "expires", "wait"}
RoundCount == IF InRound THEN 1 ELSE 0

LEMMA Counts ==
    ASSUME TypeOK
    PROVE  /\ waits \in Nat /\ Len(due) \in Nat /\ RoundCount \in {0, 1}
           /\ IsFiniteSet(Starting) /\ Cardinality(Starting) \in Nat
           /\ Carriers = waits + Len(due) + RoundCount + Cardinality(Starting)
           /\ Carriers \in Nat
<1>1. IsFiniteSet(Users \cup {Main})
  BY IdleAssumption, FS_AddElement
<1>2. Starting \subseteq Users \cup {Main}
  BY DEF Starting
<1>3. IsFiniteSet(Starting)
  BY <1>1, <1>2, FS_Subset
<1>4. Cardinality(Starting) \in Nat
  BY <1>3, FS_CardinalityType
<1>5. waits \in Nat /\ Len(due) \in Nat
  BY LenProperties DEF TypeOK
<1>6. RoundCount \in {0, 1}
  BY DEF RoundCount
<1>7. Carriers = waits + Len(due) + RoundCount + Cardinality(Starting)
  BY DEF Carriers, RoundCount
<1> QED
  BY <1>3, <1>4, <1>5, <1>6, <1>7

\* A step of the pool, or of a thread that is starting the timer before and after it or
\* neither before nor after it, leaves the threads that start the timer the same.
LEMMA SameStarting ==
    ASSUME TypeOK, NEW p \in Actors, NEW x, pc' = [pc EXCEPT ![p] = x],
           p = Pool \/ (pc[p] \in InStart <=> x \in InStart)
    PROVE  Starting' = Starting
<1>1. pc'[p] = x /\ \A q \in Actors : q # p => pc'[q] = pc[q]
  BY OneThread
<1>2. \A q \in Users \cup {Main} : q \in Actors /\ q # Pool
  BY Threads
<1>3. \A q \in Users \cup {Main} : pc'[q] \in InStart <=> pc[q] \in InStart
  BY <1>1, <1>2
<1> QED
  BY <1>3 DEF Starting, InStart

\* A thread that is done with starting the timer.
LEMMA OneFewer ==
    ASSUME TypeOK, NEW p \in Actors, p # Pool, NEW x, pc' = [pc EXCEPT ![p] = x],
           pc[p] \in InStart, x \notin InStart
    PROVE  Cardinality(Starting') = Cardinality(Starting) - 1
<1>1. pc'[p] = x /\ \A q \in Actors : q # p => pc'[q] = pc[q]
  BY OneThread
<1>2. p \in Users \cup {Main} /\ Users \cup {Main} \subseteq Actors
  BY Threads DEF Actors
<1>3. p \in Starting /\ Starting' = Starting \ {p}
  BY <1>1, <1>2 DEF Starting, InStart
<1> QED
  BY <1>3, Counts, FS_RemoveElement

\* Steps that leave the number of carriers, and steps that take one away and clear
\* the flag.
LEMMA Even ==
    ASSUME TypeOK, CarriedOnce, Carriers' = Carriers,
           disturbed => disturbed', idle_running' => idle_running
    PROVE  CarriedOnce'
  BY DEF CarriedOnce

LEMMA Fewer ==
    ASSUME TypeOK, CarriedOnce, Carriers' = Carriers - 1, ~idle_running', disturbed => disturbed'
    PROVE  CarriedOnce'
<1>1. Carriers \in Nat
  BY Counts
<1>2. ASSUME ~disturbed' PROVE Carriers' <= 1
  <2>1. Carriers <= 1
    BY <1>2 DEF CarriedOnce
  <2> QED
    BY <1>1, <2>1
<1> QED
  BY <1>2 DEF CarriedOnce

\* The same threads start the timer, and the waits, the handlers and the round are the same.
LEMMA Unmoved ==
    ASSUME Starting' = Starting, waits' = waits, due' = due, InRound' <=> InRound
    PROVE  Carriers' = Carriers
  BY DEF Carriers

LEMMA InitCarried == Init => CarriedOnce
<1> SUFFICES ASSUME Init PROVE CarriedOnce
  OBVIOUS
<1>1. Starting = {}
  BY Threads DEF Init, Starting
<1>2. Cardinality(Starting) = 0
  BY <1>1, FS_EmptySet
<1>3. waits = 0 /\ Len(due) = 0 /\ ~idle_running
  BY DEF Init
<1>4. ~InRound
  BY NewRounds DEF Init, InRound
<1>5. Carriers = 0
  BY <1>2, <1>3, <1>4 DEF Carriers
<1> QED
  BY <1>3, <1>5 DEF CarriedOnce

\* Steps of the timer's handler.
LEMMA HandlerCarries ==
    ASSUME TypeOK, TypeOK', PoolState, PoolState', CarriedOnce, handler_steps
    PROVE  CarriedOnce'
<1> USE DEF flagVars, listVars, timerVars, planVars
<1>p. Pool \in Actors
  BY Threads
<1>n. waits \in Nat /\ Len(due) \in Nat /\ Cardinality(Starting) \in Nat
  BY Counts
<1>1. CASE on_idle_timer
  <2>1. ~InRound /\ due \in Seq({"ok", "aborted"}) /\ due # <<>>
    BY <1>1 DEF on_idle_timer, PoolState, TypeOK
  <2>2. Len(due') = Len(due) - 1 /\ waits' = waits
    BY <1>1, <2>1, HeadTailProperties DEF on_idle_timer
  <2>3. CASE Head(due) = "aborted"
    <3>1. pc' = pc /\ round' = round /\ idle_running' = FALSE /\ disturbed' = disturbed
      BY <1>1, <2>3 DEF on_idle_timer
    <3>2. Starting' = Starting /\ ~InRound'
      BY <2>1, <3>1 DEF Starting, InRound
    <3>3. Carriers' = Carriers - 1
      BY <1>n, <2>1, <2>2, <3>2 DEF Carriers
    <3> QED
      BY <3>1, <3>3, Fewer
  <2>4. CASE Head(due) # "aborted"
    <3>1. /\ pc' = [pc EXCEPT ![Pool] = "round"] /\ round'.at = 0
          /\ idle_running' = idle_running /\ disturbed' = disturbed
      BY <1>1, <2>4, NewRounds DEF on_idle_timer
    <3>2. Starting' = Starting
      BY <1>p, <3>1, SameStarting
    <3>3. InRound'
      BY <3>1 DEF InRound
    <3>4. Carriers' = Carriers
      BY <1>n, <2>1, <2>2, <3>2, <3>3 DEF Carriers
    <3> QED
      BY <3>1, <3>4, Even
  <2> QED
    BY <2>3, <2>4
<1>2. CASE skip_idle_function
  <2>1. pc' = pc /\ waits' = waits /\ due' = due
    BY <1>2 DEF skip_idle_function
  <2>2. InRound' <=> InRound
    BY <2>1 DEF PoolState
  <2>3. Starting' = Starting
    BY <2>1 DEF Starting
  <2> QED
    BY <1>2, <2>1, <2>2, <2>3, Unmoved, Even DEF skip_idle_function
<1>3. CASE call_idle_function
  <2>1. pc' = [pc EXCEPT ![Pool] = "calling"] /\ waits' = waits /\ due' = due
    BY <1>3 DEF call_idle_function
  <2>2. InRound' <=> InRound
    BY <1>3 DEF call_idle_function, InRound
  <2>3. Starting' = Starting
    BY <1>p, <2>1, SameStarting
  <2> QED
    BY <1>3, <2>1, <2>2, <2>3, Unmoved, Even DEF call_idle_function
<1>4. CASE idle_function_returns
  <2>1. pc' = [pc EXCEPT ![Pool] = "round"] /\ waits' = waits /\ due' = due
    BY <1>4 DEF idle_function_returns
  <2>2. pc'[Pool] = "round" /\ pc[Pool] = "calling"
    BY <1>4, <1>p, <2>1, OneThread DEF idle_function_returns
  <2>3. InRound' <=> InRound
    BY <2>2 DEF PoolState
  <2>4. Starting' = Starting
    BY <1>p, <2>1, SameStarting
  <2> QED
    BY <1>4, <2>1, <2>3, <2>4, Unmoved, Even DEF idle_function_returns
<1>5. CASE end_of_round
  <2>1. waits' = waits /\ due' = due /\ disturbed' = disturbed
    BY <1>5 DEF end_of_round
  <2>2. CASE round.min <= 0
    <3>1. pc' = [pc EXCEPT ![Pool] = "run"] /\ ~idle_running' /\ round'.at = -1
      BY <1>5, <2>2, NewRounds DEF end_of_round
    <3>2. Starting' = Starting
      BY <1>p, <3>1, SameStarting
    <3>3. InRound /\ ~InRound'
      BY <1>5, <3>1 DEF end_of_round, PoolState, InRound
    <3>4. Carriers' = Carriers - 1
      BY <1>n, <2>1, <3>2, <3>3 DEF Carriers
    <3> QED
      BY <2>1, <3>1, <3>4, Fewer
  <2>3. CASE ~(round.min <= 0)
    <3>1. pc' = [pc EXCEPT ![Pool] = "check"] /\ idle_running' = idle_running /\ round' = round
      BY <1>5, <2>3 DEF end_of_round
    <3>2. Starting' = Starting
      BY <1>p, <3>1, SameStarting
    <3>3. InRound' <=> InRound
      BY <3>1 DEF InRound
    <3> QED
      BY <2>1, <3>1, <3>2, <3>3, Unmoved, Even
  <2> QED
    BY <2>2, <2>3
<1> QED
  BY <1>1, <1>2, <1>3, <1>4, <1>5 DEF handler_steps

\* Steps of a thread that starts the timer.
LEMMA StartCarries ==
    ASSUME TypeOK, TypeOK', PoolState, CarriedOnce, NEW p \in Actors, start_steps(p)
    PROVE  CarriedOnce'
<1> USE DEF flagVars, listVars, timerVars, planVars
<1>n. waits \in Nat /\ Len(due) \in Nat /\ Cardinality(Starting) \in Nat
  BY Counts
<1>a. After(p) \notin InStart /\ (p = Pool => After(p) = "run")
  BY Threads DEF After, InStart
<1>1. CASE set_idle_running(p)
  <2>1. pc' = [pc EXCEPT ![p] = "check"] /\ pc[p] = "set" /\ idle_running' = TRUE
        /\ disturbed' = (disturbed \/ Active(p)) /\ waits' = waits /\ due' = due /\ round' = round
    BY <1>1 DEF set_idle_running
  <2>2. p \in Users \cup {Main}
    BY <2>1, Threads DEF PoolState, Actors
  <2>3. ASSUME ~disturbed' PROVE Carriers' = 1
    <3>1. ~Active(p)
      BY <2>1, <2>3
    <3>2. waits = 0 /\ due = <<>> /\ ~InRound
      BY <1>n, <3>1 DEF Active
    <3>3. \A q \in Actors : q # p => pc[q] \notin InStart
      BY <3>1 DEF Active, InStart
    <3>4. pc'[p] = "check" /\ \A q \in Actors : q # p => pc'[q] = pc[q]
      BY <2>1, OneThread
    <3>5. Starting' = {p}
      BY <2>2, <3>3, <3>4, Threads DEF Starting, InStart
    <3>6. Cardinality(Starting') = 1
      BY <3>5, FS_Singleton
    <3>7. ~InRound' /\ waits' = 0 /\ Len(due') = 0
      BY <2>1, <3>2 DEF InRound
    <3> QED
      BY <3>6, <3>7 DEF Carriers
  <2> QED
    BY <2>3 DEF CarriedOnce
<1>2. CASE start_idle_timer(p)
  <2>1. pc[p] = "check" /\ waits' = waits /\ due' = due /\ disturbed' = disturbed
        /\ idle_running' = idle_running
    BY <1>2 DEF start_idle_timer
  <2>2. CASE idle_running
    <3>1. pc' = [pc EXCEPT ![p] = "expires"] /\ round' = round
      BY <1>2, <2>2 DEF start_idle_timer
    <3>2. Starting' = Starting
      BY <2>1, <3>1, SameStarting DEF InStart
    <3>3. InRound' <=> InRound
      BY <3>1 DEF InRound
    <3> QED
      BY <2>1, <3>2, <3>3, Unmoved, Even
  <2>3. CASE ~idle_running
    <3>1. pc' = [pc EXCEPT ![p] = After(p)]
      BY <1>2, <2>3 DEF start_idle_timer
    <3>2. Carriers' = Carriers - 1
      <4>1. CASE p = Pool
        <5>1. InRound
          BY <2>1, <4>1 DEF PoolState
        <5>2. round' = NoRound
          BY <1>2, <2>3, <4>1 DEF start_idle_timer
        <5>3. ~InRound'
          BY <5>2, NewRounds DEF InRound
        <5>4. Starting' = Starting
          BY <3>1, <4>1, SameStarting
        <5> QED
          BY <1>n, <2>1, <5>1, <5>3, <5>4 DEF Carriers
      <4>2. CASE p # Pool
        <5>1. round' = round
          BY <1>2, <4>2 DEF start_idle_timer
        <5>2. InRound' <=> InRound
          BY <5>1 DEF InRound
        <5>3. Cardinality(Starting') = Cardinality(Starting) - 1
          BY <1>a, <2>1, <3>1, <4>2, OneFewer DEF InStart
        <5> QED
          BY <1>n, <2>1, <5>2, <5>3 DEF Carriers
      <4> QED
        BY <4>1, <4>2
    <3> QED
      BY <2>1, <2>3, <3>2, Fewer
  <2> QED
    BY <2>2, <2>3
<1>3. CASE expires_from_now(p)
  <2>1. /\ pc[p] = "expires" /\ pc' = [pc EXCEPT ![p] = "wait"] /\ round' = round
        /\ due' = due \o Repeat("aborted", waits) /\ waits' = 0
        /\ disturbed' = disturbed /\ idle_running' = idle_running
    BY <1>3 DEF expires_from_now, cancel
  <2>2. Starting' = Starting
    BY <2>1, SameStarting DEF InStart
  <2>3. Len(due') = Len(due) + waits
    BY <2>1, Moved DEF TypeOK
  <2>4. InRound' <=> InRound
    BY <2>1 DEF InRound
  <2>5. Carriers' = Carriers
    <3>1. waits' = 0 /\ waits' + Len(due') = waits + Len(due)
      BY <1>n, <2>1, <2>3
    <3> QED
      BY <2>2, <2>4, <3>1 DEF Carriers
  <2> QED
    BY <2>1, <2>5, Even
<1>4. CASE async_wait(p)
  <2>1. /\ pc[p] = "wait" /\ pc' = [pc EXCEPT ![p] = After(p)] /\ waits' = waits + 1
        /\ due' = due /\ disturbed' = disturbed /\ idle_running' = idle_running
    BY <1>4 DEF async_wait
  <2>2. Carriers' = Carriers
    <3>1. CASE p = Pool
      <4>1. InRound
        BY <2>1, <3>1 DEF PoolState
      <4>2. round' = NoRound
        BY <1>4, <3>1 DEF async_wait
      <4>3. ~InRound'
        BY <4>2, NewRounds DEF InRound
      <4>4. Starting' = Starting
        BY <2>1, <3>1, SameStarting
      <4> QED
        BY <1>n, <2>1, <4>1, <4>3, <4>4 DEF Carriers
    <3>2. CASE p # Pool
      <4>1. round' = round
        BY <1>4, <3>2 DEF async_wait
      <4>2. InRound' <=> InRound
        BY <4>1 DEF InRound
      <4>3. Cardinality(Starting') = Cardinality(Starting) - 1
        BY <1>a, <2>1, <3>2, OneFewer DEF InStart
      <4> QED
        BY <1>n, <2>1, <4>2, <4>3 DEF Carriers
    <3> QED
      BY <3>1, <3>2
  <2> QED
    BY <2>1, <2>2, Even
<1> QED
  BY <1>1, <1>2, <1>3, <1>4 DEF start_steps

\* Calls of the program.
LEMMA CallCarries ==
    ASSUME TypeOK, PoolState, CarriedOnce, NEW u \in Users,
           \/ PauseIdleTimer(u) \/ ResumeIdleTimer(u) \/ EnableDetectTemplates(u)
           \/ DisableDetectTemplates(u) \/ AppendIdleFunction(u) \/ stop_idle_timer(u)
           \/ stop_context(u)
    PROVE  CarriedOnce'
<1> USE DEF flagVars, listVars, timerVars, planVars
<1>u. u \in Actors /\ u # Pool
  BY Threads
<1>1. CASE PauseIdleTimer(u)
  <2>1. Starting' = Starting /\ waits' = waits /\ due' = due /\ (InRound' <=> InRound)
    BY <1>1 DEF PauseIdleTimer, Starting, InRound
  <2> QED
    BY <1>1, <2>1, Unmoved, Even DEF PauseIdleTimer
<1>2. CASE ResumeIdleTimer(u)
  <2>1. Starting' = Starting
    BY <1>2, <1>u, SameStarting DEF ResumeIdleTimer, Calling, InStart
  <2>2. waits' = waits /\ due' = due /\ (InRound' <=> InRound)
    BY <1>2 DEF ResumeIdleTimer, InRound
  <2> QED
    BY <1>2, <2>1, <2>2, Unmoved, Even DEF ResumeIdleTimer
<1>3. CASE EnableDetectTemplates(u)
  <2>1. Starting' = Starting
    <3>1. CASE pc' = pc
      BY <3>1 DEF Starting
    <3>2. CASE pc' = [pc EXCEPT ![u] = "set"]
      BY <1>3, <1>u, <3>2, SameStarting DEF EnableDetectTemplates, Calling, InStart
    <3> QED
      BY <1>3, <3>1, <3>2 DEF EnableDetectTemplates
  <2>2. round'.at = round.at
    BY <1>3 DEF EnableDetectTemplates, TypeOK
  <2>3. waits' = waits /\ due' = due /\ (InRound' <=> InRound)
    BY <1>3, <2>2 DEF EnableDetectTemplates, InRound
  <2> QED
    BY <1>3, <2>1, <2>3, Unmoved, Even DEF EnableDetectTemplates
<1>4. CASE DisableDetectTemplates(u)
  <2>1. Starting' = Starting /\ waits' = waits /\ due' = due /\ (InRound' <=> InRound)
    BY <1>4 DEF DisableDetectTemplates, Starting, InRound
  <2> QED
    BY <1>4, <2>1, Unmoved, Even DEF DisableDetectTemplates
<1>5. CASE AppendIdleFunction(u)
  <2>1. Starting' = Starting /\ waits' = waits /\ due' = due /\ (InRound' <=> InRound)
    BY <1>5 DEF AppendIdleFunction, Starting, InRound
  <2> QED
    BY <1>5, <2>1, Unmoved, Even DEF AppendIdleFunction
<1>6. CASE stop_idle_timer(u)
  BY <1>6 DEF stop_idle_timer, CarriedOnce
<1>7. CASE stop_context(u)
  <2>1. Starting' = Starting
    BY <1>7, <1>u, SameStarting DEF stop_context, InStart
  <2>2. waits' = waits /\ due' = due /\ (InRound' <=> InRound)
    BY <1>7 DEF stop_context, InRound
  <2> QED
    BY <1>7, <2>1, <2>2, Unmoved, Even DEF stop_context
<1> QED
  BY <1>1, <1>2, <1>3, <1>4, <1>5, <1>6, <1>7

LEMMA CarriedStep ==
    ASSUME TypeOK, TypeOK', PoolState, PoolState', CarriedOnce, [Next]_vars
    PROVE  CarriedOnce'
<1> USE DEF flagVars, listVars, timerVars, planVars
<1>n. waits \in Nat /\ Len(due) \in Nat /\ Cardinality(Starting) \in Nat
  BY Counts
<1>p. Main \in Actors /\ Pool \in Actors
  BY Threads
<1>1. CASE Run
  <2>1. Starting' = Starting
    BY <1>1, <1>p, SameStarting DEF Run, InStart
  <2>2. waits' = waits /\ due' = due /\ (InRound' <=> InRound)
    BY <1>1 DEF Run, InRound
  <2> QED
    BY <1>1, <2>1, <2>2, Unmoved, Even DEF Run
<1>2. CASE start_threads
  <2>1. Starting' = Starting
    BY <1>2, <1>p, SameStarting DEF start_threads
  <2>2. waits' = waits /\ due' = due /\ (InRound' <=> InRound)
    BY <1>2 DEF start_threads, InRound
  <2> QED
    BY <1>2, <2>1, <2>2, Unmoved, Even DEF start_threads
<1>3. CASE idle_function_throws
  BY <1>3 DEF idle_function_throws, CarriedOnce
<1>4. CASE Tick
  <2>1. round'.at = round.at
    BY <1>4 DEF Tick, TypeOK
  <2>2. Starting' = Starting /\ waits' = waits /\ due' = due /\ (InRound' <=> InRound)
    BY <1>4, <2>1 DEF Tick, Starting, InRound
  <2> QED
    BY <1>4, <2>2, Unmoved, Even DEF Tick
<1>5. CASE Expire
  <2>1. /\ due' = due \o Repeat("ok", waits) /\ waits' = 0
        /\ disturbed' = disturbed /\ idle_running' = idle_running
    BY <1>5 DEF Expire
  <2>2. Starting' = Starting /\ (InRound' <=> InRound)
    BY <1>5 DEF Expire, Starting, InRound
  <2>3. Len(due') = Len(due) + waits
    BY <2>1, Moved DEF TypeOK
  <2>4. Carriers' = Carriers
    <3>1. waits' = 0 /\ waits' + Len(due') = waits + Len(due)
      BY <1>n, <2>1, <2>3
    <3> QED
      BY <2>2, <3>1 DEF Carriers
  <2> QED
    BY <2>1, <2>4, Even
<1>6. CASE UNCHANGED vars
  <2>1. Starting' = Starting /\ waits' = waits /\ due' = due /\ (InRound' <=> InRound)
    BY <1>6 DEF vars, Starting, InRound
  <2> QED
    BY <1>6, <2>1, Unmoved, Even DEF vars
<1>7. CASE handler_steps
  BY <1>7, HandlerCarries
<1>8. ASSUME NEW p \in Actors, start_steps(p) PROVE CarriedOnce'
  BY <1>8, StartCarries
<1> QED
  BY <1>1, <1>2, <1>3, <1>4, <1>5, <1>6, <1>7, <1>8, CallCarries DEF Next

-------------------------------------------------------------------------------
(* Theorems *)

LEMMA IdleInvariance == Spec => []IdleInv
<1>1. Init => IdleInv
  BY InitType, InitPlan, InitCarried DEF IdleInv
<1>2. IdleInv /\ [Next]_vars => IdleInv'
  <2> SUFFICES ASSUME IdleInv, [Next]_vars PROVE IdleInv'
    OBVIOUS
  <2>1. TypeOK /\ PlanInv /\ PoolState /\ CarriedOnce
    BY DEF IdleInv, PlanInv
  <2>2. TypeOK'
    BY <2>1, TypeStep
  <2>3. PlanInv'
    BY <2>1, PlanStep
  <2>4. PoolState'
    BY <2>3 DEF PlanInv
  <2>5. CarriedOnce'
    BY <2>1, <2>2, <2>4, CarriedStep
  <2> QED
    BY <2>2, <2>3, <2>5 DEF IdleInv
<1> QED
  BY <1>1, <1>2, PTL DEF Spec

\* The types of the idle timer, for any functions, threads and intervals.
THEOREM TypeCorrect == Spec => []TypeOK
<1>1. IdleInv => TypeOK
  BY DEF IdleInv
<1> QED
  BY IdleInvariance, <1>1, PTL

\* A wait that the handler has armed is not later than any of the functions that it
\* looked at, up to the time that it took: for any number of functions and any
\* intervals, however long the functions run, and whatever the threads of the program
\* switch, append or start while the handler runs.
THEOREM TimerOnTime == Spec => []OnTime
<1>1. IdleInv => OnTime
  <2> SUFFICES ASSUME IdleInv, waits > 0, left > 0, ~InRound
               PROVE  \A f \in planned : left <= dist[f] + slack
    BY DEF OnTime
  <2>1. pc[Pool] # "wait"
    BY DEF IdleInv, PlanInv, PoolState
  <2> QED
    BY <2>1 DEF IdleInv, PlanInv, Armed
<1> QED
  BY IdleInvariance, <1>1, PTL

\* The timer is neither forgotten nor armed twice, for any number of threads that
\* pause, resume and switch it, until something is done that may end it.
THEOREM TimerIsKept == Spec => []TimerKept
<1>1. IdleInv => TimerKept
  <2> SUFFICES ASSUME IdleInv, running, idle_running, ~disturbed PROVE Carriers = 1
    BY DEF TimerKept, Carriers, Starting
  <2> QED
    BY DEF IdleInv, CarriedOnce
<1> QED
  BY IdleInvariance, <1>1, PTL

-------------------------------------------------------------------------------
(* Templates *)

\* NoGap says nothing of a load that is under way.  It is inductive with what a
\* load has done so far: of the templates that are settled, and of what they
\* include, those that exist are still to come or have been loaded as they are,
\* the includes first.

\* The iterator comes to f, if it is there, and what it has come to is loaded.
Loads(f) == /\ Exists(f) => f \in todo \cup read
            /\ loaded[f] = IF f \in read THEN Wanted(f) ELSE None

\* The includes that are settled, or included by a template that is.
Kept == {i \in Includes : \E f \in settled : i \in {f} \cup dir[f].uses}

IncludesLoad == /\ \A i \in Kept : Loads(i)
                /\ \A f \in Files \ Includes : f \notin read /\ loaded[f] = None

NormalsLoad == /\ \A i \in Kept : loaded[i] = Wanted(i)
               /\ \A f \in settled \ Includes : Loads(f)

SettledFlat == \A f \in settled : Flat(f)

Versions == \A f \in Files : dir[f].text = "good" => dir[f].ver # None

TemplatesInv == /\ TemplatesTypeOK
                /\ NoGap
                /\ SettledFlat
                /\ Versions
                /\ phase \in IncludePhases => IncludesLoad
                /\ phase \in NormalPhases => NormalsLoad

LEMMA TemplatesInitInv == TemplatesInit => TemplatesInv
<1>. SUFFICES ASSUME TemplatesInit PROVE TemplatesInv
  OBVIOUS
<1>1. TemplatesTypeOK
  BY TemplatesAssumption DEF TemplatesInit, TemplatesTypeOK, Absent, None, IncludePhases, NormalPhases
<1>. QED
  BY <1>1 DEF TemplatesInv, NoGap, TemplatesInit, SettledFlat, Versions, Absent, IncludePhases,
              NormalPhases

\* A bounded counter that is below its bound can be incremented.
LEMMA Increment == ASSUME NEW M \in Nat, NEW n \in 0..M, n < M
                   PROVE  n + 1 \in 0..M /\ n + 1 \in Nat
  OBVIOUS

\* What becomes of a file that is written, and of the others.
LEMMA EditedDir ==
    ASSUME TemplatesTypeOK, NEW f \in Files, Write(f) \/ Remove(f)
    PROVE  /\ dir' \in [Files -> [ver : Nat, mtime : Nat, text : {"good", "bad"},
                                  uses : SUBSET Includes]]
           /\ dir'[f].text = "good" => dir'[f].ver # None
           /\ \A g \in Files : g # f => dir'[g] = dir[g]
           /\ edits' \in 0..MaxEdits
           /\ settled' = {g \in settled : f \notin {g} \cup dir[g].uses}
<1>0. edits \in 0..MaxEdits /\ MaxEdits \in Nat /\ clock \in Nat
  <2>1. edits \in 0..MaxEdits /\ clock \in 1..MaxTime
    BY DEF TemplatesTypeOK
  <2>2. MaxEdits \in Nat /\ MaxTime \in Nat
    BY TemplatesAssumption
  <2>. QED  BY <2>1, <2>2
<1>1. /\ edits' \in 0..MaxEdits /\ edits + 1 \in Nat /\ edits + 1 # 0
      /\ settled' = {g \in settled : f \notin {g} \cup dir[g].uses}
  <2>1. edits < MaxEdits /\ edits' = edits + 1
        /\ settled' = {g \in settled : f \notin {g} \cup dir[g].uses}
    BY DEF Write, Remove, Edited
  <2>. QED  BY <1>0, <2>1, Increment
<1>2. CASE Write(f)
  <2>1. PICK text \in {"good", "bad"}, uses \in SUBSET Includes :
            dir' = [dir EXCEPT ![f] = [ver |-> edits + 1, mtime |-> clock, text |-> text,
                                       uses |-> uses]]
    BY <1>2 DEF Write
  <2>. QED  BY <1>0, <1>1, <2>1 DEF TemplatesTypeOK, None
<1>3. CASE Remove(f)
  <2>1. dir' = [dir EXCEPT ![f] = Absent]
    BY <1>3 DEF Remove
  <2>. QED  BY <1>1, <2>1 DEF TemplatesTypeOK, Absent, None
<1>. QED  BY <1>2, <1>3

LEMMA TemplatesTypeStep == TemplatesTypeOK /\ [TemplatesNext]_templatesVars => TemplatesTypeOK'
<1>. SUFFICES ASSUME TemplatesTypeOK, [TemplatesNext]_templatesVars PROVE TemplatesTypeOK'
  OBVIOUS
<1>0. /\ fails \in 0..MaxFails /\ MaxFails \in Nat
      /\ clock \in 1..MaxTime /\ MaxTime \in Nat
  BY TemplatesAssumption DEF TemplatesTypeOK
<1>a. clock \in Nat
  BY <1>0
<1>. USE DEF dirVars, loadVars
<1>1. CASE Preload
  BY <1>1, TemplatesAssumption DEF Preload, None, TemplatesTypeOK, IncludePhases, NormalPhases
<1>2. ASSUME NEW f \in Files, try_load_template(f) PROVE TemplatesTypeOK'
  <2>1. (IF Parses(f) THEN dir[f].ver ELSE None) \in Nat
    BY DEF TemplatesTypeOK, None
  <2>2. loaded' \in [Files -> Nat]
    BY <1>2, <2>1 DEF try_load_template, TemplatesTypeOK
  <2>3. todo' \subseteq Files /\ read' \subseteq Files /\ racy' \subseteq Files
    BY <1>2 DEF try_load_template, TemplatesTypeOK
  <2>. QED  BY <1>2, <2>2, <2>3 DEF try_load_template, TemplatesTypeOK
<1>3. CASE load_normal_templates
  BY <1>3 DEF load_normal_templates, TemplatesTypeOK, IncludePhases, NormalPhases
<1>4. CASE Preloaded
  <2>1. /\ loaded_time' \in Nat
        /\ settled' \subseteq Files
        /\ phase' = "idle" /\ lock' = "free"
    BY <1>4, <1>a DEF Preloaded, TemplatesTypeOK
  <2>. QED  BY <1>4, <2>1 DEF Preloaded, TemplatesTypeOK, IncludePhases, NormalPhases
<1>5. CASE ReloadIfFindUpdate
  BY <1>5 DEF ReloadIfFindUpdate, TemplatesTypeOK, IncludePhases, NormalPhases
<1>6. CASE ReloadIfFindNew
  BY <1>6 DEF ReloadIfFindNew, TemplatesTypeOK, IncludePhases, NormalPhases
<1>7. CASE Preload_fails
  <2>1. fails' \in 0..MaxFails
    BY <1>0, <1>7, Increment DEF Preload_fails
  <2>2. phase' \in {"check new", "idle"} /\ lock' = "free" /\ settled' = {}
    BY <1>7 DEF Preload_fails
  <2>. QED  BY <1>7, <2>1, <2>2 DEF Preload_fails, TemplatesTypeOK, IncludePhases, NormalPhases
<1>8. ASSUME NEW f \in Files, Write(f) \/ Remove(f) PROVE TemplatesTypeOK'
  <2>1. edits' \in 0..MaxEdits /\ settled' \subseteq Files
    BY <1>8, EditedDir DEF TemplatesTypeOK
  <2>2. dir' \in [Files -> [ver : Nat, mtime : Nat, text : {"good", "bad"}, uses : SUBSET Includes]]
    BY <1>8, EditedDir
  <2>3. racy' \subseteq Files /\ todo' \subseteq Files
    BY <1>8 DEF Write, Remove, TemplatesTypeOK
  <2>. QED  BY <1>8, <2>1, <2>2, <2>3 DEF Write, Remove, TemplatesTypeOK
<1>10. CASE ClockTick
  <2>1. clock' \in 1..MaxTime
    BY <1>0, <1>10 DEF ClockTick
  <2>. QED  BY <1>10, <2>1 DEF ClockTick, TemplatesTypeOK
<1>11. CASE UNCHANGED templatesVars
  BY <1>11 DEF templatesVars, TemplatesTypeOK
<1>. QED  BY <1>1, <1>2, <1>3, <1>4, <1>5, <1>6, <1>7, <1>8, <1>10, <1>11
          DEF TemplatesNext, detection

\* A file that does not exist cannot be loaded.
LEMMA NotWanted == ASSUME NEW f, ~Exists(f) PROVE Wanted(f) = None
  BY DEF Exists, Wanted, Absent

\* What a settled template includes is kept, and includes nothing itself.
LEMMA SettledUses ==
    ASSUME TemplatesInv, NEW f \in settled
    PROVE  /\ dir[f].uses \subseteq Kept
           /\ f \in Includes => f \in Kept
           /\ \A i \in {f} \cup dir[f].uses : i \in Includes => dir[i].uses = {}
<1>1. f \in Files /\ dir[f].uses \subseteq Includes
  BY DEF TemplatesInv, TemplatesTypeOK
<1>. QED  BY <1>1 DEF TemplatesInv, SettledFlat, Flat, Kept

\* What is kept includes nothing, so it is loaded whenever its own text is right.
LEMMA KeptWanted ==
    ASSUME TemplatesInv, NEW i \in Kept
    PROVE  /\ i \in Files /\ i \in Includes /\ dir[i].uses = {}
           /\ Wanted(i) = IF dir[i].text = "good" THEN dir[i].ver ELSE None
           /\ Wanted(i) # None <=> dir[i].text = "good"
<1>1. PICK f \in settled : i \in {f} \cup dir[f].uses
  BY DEF Kept
<1>2. i \in Includes /\ i \in Files /\ dir[i].uses = {}
  BY <1>1, SettledUses, TemplatesAssumption DEF Kept
<1>3. Wanted(i) = IF dir[i].text = "good" THEN dir[i].ver ELSE None
  BY <1>2 DEF Wanted
<1>. QED  BY <1>2, <1>3 DEF TemplatesInv, Versions

-------------------------------------------------------------------------------
\* The iterator comes to a file: if that is one that is kept or settled, it is
\* loaded as it should be.
LEMMA LoadStep ==
    ASSUME TemplatesInv, NEW f \in Files, try_load_template(f)
    PROVE  TemplatesInv'
<1>1. /\ read' = read \cup {f} /\ todo' = todo \ {f} /\ f \notin read
      /\ dir' = dir /\ settled' = settled /\ phase' = phase /\ lock' = lock
      /\ loaded' = [loaded EXCEPT ![f] = IF Parses(f) THEN dir[f].ver ELSE None]
      /\ phase \in (IF f \in Includes THEN IncludePhases ELSE NormalPhases)
  BY DEF try_load_template, dirVars
<1>2. loaded \in [Files -> Nat]
  BY DEF TemplatesInv, TemplatesTypeOK
<1>3. /\ loaded'[f] = IF Parses(f) THEN dir[f].ver ELSE None
      /\ \A g \in Files : g # f => loaded'[g] = loaded[g]
  BY <1>1, <1>2
<1>4. lock' = "held"
  BY <1>1 DEF TemplatesInv, TemplatesTypeOK, IncludePhases, NormalPhases
<1>5. TemplatesTypeOK'
  BY TemplatesTypeStep DEF TemplatesInv, TemplatesNext, detection
<1>6. SettledFlat' /\ Versions' /\ Kept' = Kept
  BY <1>1 DEF TemplatesInv, SettledFlat, Flat, Versions, Kept
<1>7. \A g : Wanted(g)' = Wanted(g) /\ Exists(g)' = Exists(g)
  BY <1>1 DEF Wanted, Exists
<1>8. NoGap'
  BY <1>4 DEF NoGap
<1>9. CASE f \in Includes
  <2>1. phase \in IncludePhases /\ phase' \notin NormalPhases /\ IncludesLoad
    BY <1>1, <1>9 DEF TemplatesInv, IncludePhases, NormalPhases
  <2>2. ASSUME NEW i \in Kept PROVE Loads(i)'
    <3>1. Loads(i) /\ i \in Files
      BY <2>1, KeptWanted DEF IncludesLoad
    <3>2. CASE i = f
      <4>1. dir[f].uses = {} /\ Wanted(f) = IF dir[f].text = "good" THEN dir[f].ver ELSE None
        BY <3>2, KeptWanted
      <4>2. loaded'[f] = Wanted(f)
        BY <1>3, <4>1 DEF Parses
      <4>. QED  BY <1>1, <1>7, <3>2, <4>2 DEF Loads
    <3>3. CASE i # f
      BY <1>1, <1>3, <1>7, <3>1, <3>3 DEF Loads
    <3>. QED  BY <3>2, <3>3
  <2>3. \A g \in Files \ Includes : g \notin read' /\ loaded'[g] = None
    BY <1>1, <1>3, <1>9, <2>1 DEF IncludesLoad
  <2>4. IncludesLoad'
    BY <1>6, <2>2, <2>3 DEF IncludesLoad
  <2>. QED  BY <1>5, <1>6, <1>8, <2>1, <2>4 DEF TemplatesInv
<1>10. CASE f \notin Includes
  <2>1. phase \in NormalPhases /\ phase' \notin IncludePhases /\ NormalsLoad
    BY <1>1, <1>10 DEF TemplatesInv, IncludePhases, NormalPhases
  <2>2. ASSUME NEW i \in Kept PROVE loaded'[i] = Wanted(i)'
    <3>1. loaded[i] = Wanted(i) /\ i \in Files /\ i # f
      BY <1>10, <2>1, KeptWanted DEF NormalsLoad
    <3>. QED  BY <1>3, <1>7, <3>1
  <2>3. ASSUME NEW g \in settled \ Includes PROVE Loads(g)'
    <3>1. Loads(g) /\ g \in Files
      BY <2>1 DEF NormalsLoad, TemplatesInv, TemplatesTypeOK
    <3>2. CASE g = f
      <4>1. dir[f].uses \subseteq Kept
        BY <2>3, <3>2, SettledUses
      <4>2. \A i \in dir[f].uses : loaded[i] # None <=> dir[i].text = "good"
        BY <2>1, <4>1, KeptWanted DEF NormalsLoad
      <4>3. loaded'[f] = Wanted(f)
        BY <1>3, <4>2 DEF Parses, Wanted
      <4>. QED  BY <1>1, <1>7, <3>2, <4>3 DEF Loads
    <3>3. CASE g # f
      BY <1>1, <1>3, <1>7, <3>1, <3>3 DEF Loads
    <3>. QED  BY <3>2, <3>3
  <2>4. NormalsLoad'
    BY <1>1, <1>6, <2>2, <2>3 DEF NormalsLoad
  <2>. QED  BY <1>5, <1>6, <1>8, <2>1, <2>4 DEF TemplatesInv
<1>. QED  BY <1>9, <1>10

\* The load begins: whatever is there is still to come.
LEMMA PreloadStep ==
    ASSUME TemplatesInv, Preload
    PROVE  TemplatesInv'
<1>1. /\ dir' = dir /\ settled' = settled /\ lock' = "held"
      /\ loaded' = [f \in Files |-> None] /\ read' = {}
      /\ todo' = {f \in Includes : Exists(f)}
      /\ phase' \in IncludePhases /\ phase' \notin NormalPhases
  BY DEF Preload, dirVars, IncludePhases, NormalPhases
<1>2. TemplatesTypeOK'
  BY TemplatesTypeStep DEF TemplatesInv, TemplatesNext, detection
<1>3. SettledFlat' /\ Versions' /\ NoGap' /\ Kept' = Kept
  BY <1>1 DEF TemplatesInv, SettledFlat, Flat, Versions, NoGap, Kept
<1>4. ASSUME NEW i \in Kept PROVE Loads(i)'
  <2>1. i \in Includes /\ i \in Files
    BY KeptWanted
  <2>2. Exists(i)' = Exists(i)
    BY <1>1 DEF Exists
  <2>. QED  BY <1>1, <2>1, <2>2 DEF Loads
<1>5. IncludesLoad'
  BY <1>1, <1>3, <1>4 DEF IncludesLoad
<1>. QED  BY <1>1, <1>2, <1>3, <1>5 DEF TemplatesInv

\* The includes that are kept have been loaded, if they are there; the others follow.
LEMMA NormalsStep ==
    ASSUME TemplatesInv, load_normal_templates
    PROVE  TemplatesInv'
<1>1. /\ dir' = dir /\ settled' = settled /\ lock' = lock /\ loaded' = loaded /\ read' = read
      /\ todo = {} /\ todo' = {f \in Files \ Includes : Exists(f)}
      /\ phase \in IncludePhases
      /\ phase' \in NormalPhases /\ phase' \notin IncludePhases
  BY DEF load_normal_templates, dirVars, IncludePhases, NormalPhases
<1>2. TemplatesTypeOK'
  BY TemplatesTypeStep DEF TemplatesInv, TemplatesNext, detection
<1>3. SettledFlat' /\ Versions' /\ Kept' = Kept
  BY <1>1 DEF TemplatesInv, SettledFlat, Flat, Versions, Kept
<1>4. NoGap'
  BY <1>1 DEF TemplatesInv, TemplatesTypeOK, NoGap, IncludePhases, NormalPhases
<1>5. IncludesLoad
  BY <1>1 DEF TemplatesInv
<1>6. \A g : Wanted(g)' = Wanted(g) /\ Exists(g)' = Exists(g)
  BY <1>1 DEF Wanted, Exists
<1>7. ASSUME NEW i \in Kept PROVE loaded'[i] = Wanted(i)'
  <2>1. Loads(i)
    BY <1>5 DEF IncludesLoad
  <2>2. i \notin read => Wanted(i) = None
    BY <1>1, <2>1, NotWanted DEF Loads
  <2>. QED  BY <1>1, <1>6, <2>1, <2>2 DEF Loads
<1>8. ASSUME NEW f \in settled \ Includes PROVE Loads(f)'
  <2>1. f \in Files \ Includes
    BY DEF TemplatesInv, TemplatesTypeOK
  <2>2. f \notin read /\ loaded[f] = None
    BY <1>5, <2>1 DEF IncludesLoad
  <2>. QED  BY <1>1, <1>6, <2>1, <2>2 DEF Loads
<1>9. NormalsLoad'
  BY <1>1, <1>3, <1>7, <1>8 DEF NormalsLoad
<1>. QED  BY <1>1, <1>2, <1>3, <1>4, <1>9 DEF TemplatesInv

\* The load has come to its end: what was settled is loaded as it was.
LEMMA PreloadedStep ==
    ASSUME TemplatesInv, Preloaded
    PROVE  TemplatesInv'
<1>1. /\ dir' = dir /\ loaded' = loaded /\ todo = {} /\ phase \in NormalPhases
      /\ settled' = settled \cup {f \in Files : Flat(f) /\ loaded[f] = Wanted(f)}
      /\ phase' \notin IncludePhases /\ phase' \notin NormalPhases
  BY DEF Preloaded, dirVars, IncludePhases, NormalPhases
<1>2. TemplatesTypeOK'
  BY TemplatesTypeStep DEF TemplatesInv, TemplatesNext, detection
<1>3. SettledFlat' /\ Versions'
  BY <1>1 DEF TemplatesInv, SettledFlat, Flat, Versions
<1>4. \A g : Wanted(g)' = Wanted(g)
  BY <1>1 DEF Wanted
<1>5. NormalsLoad
  BY <1>1 DEF TemplatesInv
<1>6. ASSUME NEW f \in settled' PROVE loaded'[f] = Wanted(f)'
  <2>1. CASE f \in settled /\ f \in Includes
    <3>1. f \in Kept
      BY <2>1, SettledUses
    <3>. QED  BY <1>1, <1>4, <1>5, <3>1 DEF NormalsLoad
  <2>2. CASE f \in settled /\ f \notin Includes
    <3>1. Loads(f)
      BY <1>5, <2>2 DEF NormalsLoad
    <3>2. f \notin read => Wanted(f) = None
      BY <1>1, <3>1, NotWanted DEF Loads
    <3>. QED  BY <1>1, <1>4, <3>1, <3>2 DEF Loads
  <2>3. CASE f \notin settled
    BY <1>1, <1>4, <2>3
  <2>. QED  BY <2>1, <2>2, <2>3
<1>7. NoGap'
  BY <1>6 DEF NoGap, Get
<1>. QED  BY <1>1, <1>2, <1>3, <1>7 DEF TemplatesInv

\* A file is written or removed: it is not settled any more, nor is what includes
\* it, and nothing changes for the others.
LEMMA EditStep ==
    ASSUME TemplatesInv, NEW f \in Files, Write(f) \/ Remove(f)
    PROVE  TemplatesInv'
<1>0. TemplatesTypeOK
  BY DEF TemplatesInv
<1>1. /\ \A g \in Files : g # f => dir'[g] = dir[g]
      /\ dir'[f].text = "good" => dir'[f].ver # None
      /\ settled' = {g \in settled : f \notin {g} \cup dir[g].uses}
  BY <1>0, EditedDir
<1>2. /\ loaded' = loaded /\ read' = read /\ lock' = lock /\ phase' = phase
      /\ todo' \in {todo, todo \ {f}}
  BY DEF Write, Remove, loadVars
<1>3. TemplatesTypeOK'
  BY TemplatesTypeStep DEF TemplatesInv, TemplatesNext
<1>4. settled \subseteq Files /\ Includes \subseteq Files
      /\ \A g \in Files : dir[g].uses \subseteq Includes
  BY <1>0, TemplatesAssumption DEF TemplatesTypeOK
<1>5. ASSUME NEW g \in settled'
      PROVE  /\ g \in settled /\ g \in Files /\ g # f /\ f \notin dir[g].uses
             /\ dir'[g] = dir[g]
             /\ \A i \in dir[g].uses : dir'[i] = dir[i]
  BY <1>1, <1>4
<1>6. ASSUME NEW g \in Files, g # f, f \notin dir[g].uses
      PROVE  Wanted(g)' = Wanted(g) /\ (Exists(g)' <=> Exists(g)) /\ (Flat(g)' <=> Flat(g))
  <2>1. \A i \in {g} \cup dir[g].uses : dir'[i] = dir[i]
    BY <1>1, <1>4, <1>6
  <2>2. Wanted(g)' = Wanted(g)
    BY <2>1 DEF Wanted
  <2>3. Flat(g)' <=> Flat(g)
    BY <2>1 DEF Flat
  <2>4. Exists(g)' <=> Exists(g)
    BY <2>1 DEF Exists
  <2>. QED  BY <2>2, <2>3, <2>4
<1>7. SettledFlat' /\ Versions'
  <2>1. SettledFlat'
    BY <1>5, <1>6 DEF TemplatesInv, SettledFlat
  <2>2. Versions'
    BY <1>1 DEF TemplatesInv, Versions
  <2>. QED  BY <2>1, <2>2
<1>8. NoGap'
  BY <1>2, <1>5, <1>6 DEF TemplatesInv, NoGap, Get
<1>9. ASSUME NEW i \in Kept'
      PROVE  /\ i \in Kept /\ i \in Files /\ i # f
             /\ Wanted(i)' = Wanted(i) /\ (Exists(i)' <=> Exists(i))
  <2>1. PICK g \in settled' : i \in {g} \cup dir'[g].uses
    BY <1>9 DEF Kept
  <2>2. i \in Includes
    BY <1>9 DEF Kept
  <2>3. i \in Kept /\ i # f
    BY <1>5, <2>1, <2>2 DEF Kept
  <2>4. dir[i].uses = {} /\ i \in Files
    BY <2>3, KeptWanted
  <2>. QED  BY <1>6, <2>3, <2>4
<1>10. ASSUME phase' \in IncludePhases PROVE IncludesLoad'
  <2>1. IncludesLoad
    BY <1>2, <1>10 DEF TemplatesInv
  <2>2. ASSUME NEW i \in Kept' PROVE Loads(i)'
    <3>1. Loads(i)
      BY <1>9, <2>1 DEF IncludesLoad
    <3>. QED  BY <1>2, <1>9, <3>1 DEF Loads
  <2>. QED  BY <1>2, <2>1, <2>2 DEF IncludesLoad
<1>11. ASSUME phase' \in NormalPhases PROVE NormalsLoad'
  <2>1. NormalsLoad
    BY <1>2, <1>11 DEF TemplatesInv
  <2>2. \A i \in Kept' : loaded'[i] = Wanted(i)'
    BY <1>2, <1>9, <2>1 DEF NormalsLoad
  <2>3. ASSUME NEW g \in settled' \ Includes PROVE Loads(g)'
    <3>1. Loads(g)
      BY <1>5, <2>1 DEF NormalsLoad
    <3>. QED  BY <1>2, <1>5, <1>6, <3>1 DEF Loads
  <2>. QED  BY <2>2, <2>3 DEF NormalsLoad
<1>. QED  BY <1>3, <1>7, <1>8, <1>10, <1>11 DEF TemplatesInv

\* The other steps load and settle nothing.
LEMMA IdleSteps ==
    ASSUME TemplatesInv,
           ReloadIfFindUpdate \/ ReloadIfFindNew \/ ClockTick \/ UNCHANGED templatesVars
    PROVE  TemplatesInv'
<1>1. /\ dir' = dir /\ settled' = settled /\ lock' = lock /\ loaded' = loaded /\ read' = read
      /\ todo' = todo
  BY DEF ReloadIfFindUpdate, ReloadIfFindNew, ClockTick, templatesVars, dirVars, loadVars
<1>2. phase' = phase \/ (phase' \notin IncludePhases /\ phase' \notin NormalPhases)
  BY DEF ReloadIfFindUpdate, ReloadIfFindNew, ClockTick, templatesVars, IncludePhases, NormalPhases
<1>3. TemplatesTypeOK'
  BY TemplatesTypeStep DEF TemplatesInv, TemplatesNext, detection
<1>4. SettledFlat' /\ Versions' /\ NoGap'
  BY <1>1 DEF TemplatesInv, SettledFlat, Flat, Versions, NoGap, Get, Wanted
<1>5. Kept' = Kept /\ \A g : Loads(g)' = Loads(g) /\ Wanted(g)' = Wanted(g)
  BY <1>1 DEF Kept, Loads, Exists, Wanted
<1>6. (IncludesLoad => IncludesLoad') /\ (NormalsLoad => NormalsLoad')
  BY <1>1, <1>5 DEF IncludesLoad, NormalsLoad
<1>. QED  BY <1>2, <1>3, <1>4, <1>6 DEF TemplatesInv

LEMMA TemplatesInvariance == TemplatesSpec => []TemplatesInv
<1>1. TemplatesInit => TemplatesInv
  BY TemplatesInitInv
<1>2. ASSUME TemplatesInv, [TemplatesNext]_templatesVars PROVE TemplatesInv'
  <2>1. CASE Preload_fails
    <3>1. /\ settled' = {} /\ dir' = dir
          /\ phase' \notin IncludePhases /\ phase' \notin NormalPhases
      BY <2>1 DEF Preload_fails, dirVars, IncludePhases, NormalPhases
    <3>2. TemplatesTypeOK'
      BY <1>2, TemplatesTypeStep DEF TemplatesInv
    <3>. QED  BY <1>2, <3>1, <3>2 DEF TemplatesInv, NoGap, SettledFlat, Versions
  <2>2. CASE \E f \in Files : try_load_template(f)
    BY <1>2, <2>2, LoadStep
  <2>3. CASE \E f \in Files : Write(f) \/ Remove(f)
    BY <1>2, <2>3, EditStep
  <2>4. CASE Preload
    BY <1>2, <2>4, PreloadStep
  <2>5. CASE load_normal_templates
    BY <1>2, <2>5, NormalsStep
  <2>6. CASE Preloaded
    BY <1>2, <2>6, PreloadedStep
  <2>7. CASE ReloadIfFindUpdate \/ ReloadIfFindNew \/ ClockTick \/ UNCHANGED templatesVars
    BY <1>2, <2>7, IdleSteps
  <2>. QED  BY <1>2, <2>1, <2>2, <2>3, <2>4, <2>5, <2>6, <2>7 DEF TemplatesNext, detection
<1> QED
  BY <1>1, <1>2, PTL DEF TemplatesSpec

\* Templates keeps its types, and the lock is held exactly during a load, also
\* when a load ends with an exception.
THEOREM TemplatesTypeCorrect == TemplatesSpec => []TemplatesTypeOK
<1>1. TemplatesInv => TemplatesTypeOK
  BY DEF TemplatesInv
<1> QED
  BY TemplatesInvariance, <1>1, PTL

\* For any templates, includes and edits: what a request handler gets under the
\* lock, for a template that is not edited, nor what it includes, is what is in
\* the file, although all of them are cleared and loaded again whenever one of
\* them changes, until a load fails.
THEOREM NoGapForRequests == TemplatesSpec => []NoGap
<1>1. TemplatesInv => NoGap
  BY DEF TemplatesInv
<1> QED
  BY TemplatesInvariance, <1>1, PTL
===============================================================================

----------------------------- MODULE MCRedisClient ------------------------------
(***************************************************************************)
(* A redis client whose commands never come to an end.  The numbers of     *)
(* commands are history: when nothing is queued or outstanding, counting   *)
(* begins again, so that a bounded model has behaviours with any number of *)
(* commands.  Connects that have piled up are not multiplied in this way.  *)
(***************************************************************************)
EXTENDS RedisClient

Renumber == /\ issued > 0
            /\ queue = <<>> /\ ops = <<>> /\ replies = <<>> /\ buf = <<>>
            /\ connects + expired + (IF left > 0 THEN 1 ELSE 0) <= 1
            /\ issued' = 0
            /\ answered' = <<>>
            /\ UNCHANGED <<queue, ops, buf, calls>>
            /\ UNCHANGED netVars
            /\ UNCHANGED connVars

SteadySpec == /\ Init /\ [][Next \/ Renumber]_vars
              /\ WF_vars(Completion)
              /\ WF_vars(TimerRuns)
              /\ WF_vars(on_reconnect_timer)
              /\ WF_vars(\E ok \in BOOLEAN : on_connect_finished(ok))
              /\ SF_vars(on_connect_finished(TRUE))
================================================================================

------------------------------- MODULE MCIdleTimer ------------------------------
(***************************************************************************)
(* The idle timer, with one idle function, and the templates whose changes *)
(* its detection looks for, side by side: a behaviour is of one of the two *)
(* and the other stays as it is initially.  What joins them is that the    *)
(* detection is called again and again, which Detects shows and            *)
(* TemplatesFairSpec assumes.                                              *)
(***************************************************************************)
EXTENDS IdleTimer, Templates

VARIABLE which      \* the one of the two

MCIntervals == <<2>>

idleVars == <<which, vars, templatesVars>>

IdleInit == /\ which \in {"timer", "templates"}
            /\ Init
            /\ TemplatesInit
            /\ which = "timer" => loaded_time = 0

IdleNext == /\ UNCHANGED which
            /\ \/ which = "timer" /\ Next /\ UNCHANGED templatesVars
               \/ which = "templates" /\ TemplatesNext /\ UNCHANGED vars

\* The fairness of FairSpec and of TemplatesFairSpec.
IdleSpec == /\ IdleInit /\ [][IdleNext]_idleVars
            /\ WF_vars(which = "timer" /\ start_threads)
            /\ WF_vars(which = "timer" /\ handler_steps)
            /\ \A p \in Actors : WF_vars(which = "timer" /\ start_steps(p))
            /\ \A u \in Users : WF_vars(which = "timer" /\ stop_context(u))
            /\ WF_vars(which = "timer" /\ Tick)
            /\ WF_vars(which = "timer" /\ Expire)
            /\ WF_templatesVars(which = "templates" /\ detection)
================================================================================

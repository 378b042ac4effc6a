------------------------------ MODULE WsChannel ------------------------------
(***************************************************************************)
(* What one direction of a websocket connection promises to the code that *)
(* sends on it: a FIFO channel that may break.  A message that has been   *)
(* accepted is delivered after every message accepted before it, exactly  *)
(* once, until the channel breaks; a broken channel delivers nothing more *)
(* and says nothing of what is still pending, but it still accepts.       *)
(***************************************************************************)
EXTENDS Naturals, Sequences

CONSTANT Message

VARIABLES
    pending,    \* accepted and not delivered yet, oldest first
    delivered,  \* what the peer has been given, in that order
    broken      \* the channel has reported an error

vars == <<pending, delivered, broken>>

Init == /\ pending = <<>>
        /\ delivered = <<>>
        /\ broken = FALSE

\* Some message is accepted at the end.  (The form lets TLC read the message off
\* the step; Message may be infinite.)
Send == /\ Len(pending') = Len(pending) + 1
        /\ LET m == pending'[Len(pending')]
           IN  /\ m \in Message
               /\ pending' = Append(pending, m)
        /\ UNCHANGED <<delivered, broken>>

Deliver == /\ ~broken
           /\ pending # <<>>
           /\ delivered' = Append(delivered, Head(pending))
           /\ pending' = Tail(pending)
           /\ UNCHANGED broken

\* A channel breaks while it is delivering something.
Break == /\ ~broken
         /\ pending # <<>>
         /\ broken' = TRUE
         /\ UNCHANGED <<pending, delivered>>

Next == \/ Send
        \/ Deliver
        \/ Break

Spec == Init /\ [][Next]_vars

\* The channel does not sit on a message: it delivers it or it breaks.
FairSpec == Spec /\ WF_vars(Deliver \/ Break)
==============================================================================

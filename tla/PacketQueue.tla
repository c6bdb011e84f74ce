---------------------------- MODULE PacketQueue ----------------------------
(***************************************************************************)
(* What a transport promises for the packets it has accepted: until it is  *)
(* stopped each of them reaches the listeners, once and in the order of    *)
(* arrival; a packet whose turn comes before a listener is registered is   *)
(* dropped, and after the stop some more may or may not come through.      *)
(***************************************************************************)
EXTENDS Sequences

CONSTANT Packet         \* the packets that may arrive

VARIABLES queue,        \* accepted and not yet given to the listeners
          delivered,    \* given to the listeners, in this order
          listening,    \* a listener is registered
          stopped

vars == <<queue, delivered, listening, stopped>>

Init == queue = <<>> /\ delivered = <<>> /\ listening = FALSE /\ stopped = FALSE

Accept == /\ \E p \in Packet : queue' = Append(queue, p)
          /\ UNCHANGED <<delivered, listening, stopped>>

Deliver == /\ queue # <<>>
           /\ queue' = Tail(queue)
           /\ delivered' = IF listening THEN Append(delivered, Head(queue)) ELSE delivered
           /\ UNCHANGED <<listening, stopped>>

Register == /\ listening' = TRUE
            /\ UNCHANGED <<queue, delivered, stopped>>

Stop == /\ stopped' = TRUE
        /\ UNCHANGED <<queue, delivered, listening>>

Next == Accept \/ Deliver \/ Register \/ Stop

\* Nothing is reordered, repeated or lost ...
Safety == Init /\ [][Next]_vars

\* ... and as long as it is not stopped, what was accepted is delivered.
Spec == Safety /\ WF_vars(~stopped /\ Deliver)
=============================================================================

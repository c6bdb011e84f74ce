----------------------------- MODULE Transport -----------------------------
(***************************************************************************)
(* The transport of a simulated node (simul/lib/config.go): the name in    *)
(* the configuration selects one of the two networks, which then starts    *)
(* its goroutines; any other name makes the program panic.  The sending    *)
(* and the accepting side of a QUIC network share no state: a behaviour    *)
(* follows one of them.                                                    *)
(***************************************************************************)
EXTENDS UDPNetwork, QUICNetwork

VARIABLES net,          \* "none", a network's name, or "panic"
          side          \* the side of a QUIC network that is followed

tvars == <<net, side, uvars, qvars>>

TInit == net = "none" /\ side = "none" /\ UInit /\ QInit

\* The default is UDP.
defaultNetwork(name) == IF name = "" THEN "udp" ELSE name

selectNetwork(name) == IF name \in {"udp", "quic-test-insecure"} THEN name ELSE "panic"

NewNetwork(name) == /\ net = "none"
                    /\ net' = selectNetwork(defaultNetwork(name))
                    /\ side' \in IF net' = "quic-test-insecure" THEN {"send", "accept"}
                                ELSE {"none"}
                    /\ UNCHANGED <<uvars, qvars>>

UDP(A)  == net = "udp" /\ A /\ UNCHANGED <<net, side, qvars>>
QUIC(A) == net = "quic-test-insecure" /\ ~crashed /\ A /\ UNCHANGED <<net, side, uvars>>

TNext == \/ \E name \in {"", "udp", "quic-test-insecure", "quic", "tcp"} : NewNetwork(name)
         \/ UDP(UNext)
         \/ (side = "send" /\ QUIC(SendSide))
         \/ (side = "accept" /\ QUIC(AcceptSide))

\* The goroutines are scheduled, Handel releases its lock, a dial ends by its
\* handshake timeout, and neither sync.Mutex nor select neglects a waiter for ever.
TFairness == /\ WF_tvars(UDP(handlerStep)) /\ WF_tvars(UDP(loopStep)) /\ WF_tvars(UDP(dispatchStep))
             /\ SF_tvars(UDP(LoopReady)) /\ SF_tvars(UDP(LoopDone)) /\ SF_tvars(UDP(Dispatch))
             /\ WF_tvars(UDP(USend))
             /\ WF_tvars(QUIC(update)) /\ \A p \in Peer : WF_tvars(QUIC(startDial(p)))
             /\ \A c \in Call : WF_tvars(QUIC(Dial(c))) /\ WF_tvars(QUIC(send(c)))

TSpec == TInit /\ [][TNext]_tvars /\ TFairness
=============================================================================

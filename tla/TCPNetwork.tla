----------------------------- MODULE TCPNetwork -----------------------------
(***************************************************************************)
(* The TCP transport of one node (network/tcp/net.go): its table of        *)
(* connections, the goroutine that reads each connection, and the mutex    *)
(* that Send, dispatch and the changes of the table all hold for their     *)
(* whole duration.  The listener is a Handel instance: its NewPacket takes *)
(* Handel's lock, and Handel calls Send while it holds that lock.          *)
(***************************************************************************)
EXTENDS Naturals, FiniteSets

CONSTANTS Incoming,     \* the (ephemeral) addresses of connections made by others
          Address,      \* the addresses of the identities packets are sent to
          MaxPackets,   \* bound on the packets that arrive
          MaxSends,     \* bound on the sends of Handel
          None

Remote == Incoming \cup Address

VARIABLES
    conns,              \* the addresses in the table
    reader,             \* of each address, the goroutine handleConn: "none",
                        \* "reading", "locking", "calling", "ended"
    handel,             \* a thread of Handel: "idle", "locked", "sending"
    netLock, handelLock,\* the holders of the two locks, or None
    accepting,          \* the listening socket is open
    unregistering,      \* goroutines of unregisterConn that wait for the lock
    arrived, heard, sends,
    crashed             \* Send used a connection that is nil

vars == <<conns, reader, handel, netLock, handelLock, accepting, unregistering, arrived, heard,
          sends, crashed>>

Init == /\ conns = {} /\ reader = [a \in Remote |-> "none"] /\ handel = "idle"
        /\ netLock = None /\ handelLock = None /\ accepting = TRUE /\ unregistering = {}
        /\ arrived = 0 /\ heard = 0 /\ sends = 0 /\ crashed = FALSE

\* handleIncoming: Accept, registerConn, and a goroutine for the connection.
handleIncoming(a) ==
    /\ a \in Incoming /\ accepting /\ reader[a] = "none" /\ netLock = None
    /\ conns' = conns \cup {a} /\ reader' = [reader EXCEPT ![a] = "reading"]
    /\ UNCHANGED <<handel, netLock, handelLock, accepting, unregistering, arrived, heard, sends,
                   crashed>>

\* handleConn reads a packet, or ends on a closed or a silent connection.
ReadPacket(a) ==
    /\ reader[a] = "reading"
    /\ \/ /\ arrived < MaxPackets /\ arrived' = arrived + 1
          /\ reader' = [reader EXCEPT ![a] = "locking"]
       \/ reader' = [reader EXCEPT ![a] = "ended"] /\ UNCHANGED arrived
    /\ UNCHANGED <<conns, handel, netLock, handelLock, accepting, unregistering, heard, sends,
                   crashed>>

\* dispatch takes the network's lock ...
dispatch(a) ==
    /\ reader[a] = "locking" /\ netLock = None
    /\ netLock' = a /\ reader' = [reader EXCEPT ![a] = "calling"]
    /\ UNCHANGED <<conns, handel, handelLock, accepting, unregistering, arrived, heard, sends,
                   crashed>>

\* ... and holds it while the listener waits for Handel's.
NewPacket(a) ==
    /\ reader[a] = "calling" /\ handelLock = None
    /\ heard' = heard + 1
    /\ netLock' = None /\ reader' = [reader EXCEPT ![a] = "reading"]
    /\ UNCHANGED <<conns, handel, handelLock, accepting, unregistering, arrived, sends, crashed>>

\* A thread of Handel takes Handel's lock ...
HandelLocks ==
    /\ handel = "idle" /\ handelLock = None /\ sends < MaxSends
    /\ handelLock' = "handel" /\ handel' = "locked" /\ sends' = sends + 1
    /\ UNCHANGED <<conns, reader, netLock, accepting, unregistering, arrived, heard, crashed>>

\* ... and calls Send under it.
SendLocks ==
    /\ handel = "locked" /\ netLock = None
    /\ netLock' = "handel" /\ handel' = "sending"
    /\ UNCHANGED <<conns, reader, handelLock, accepting, unregistering, arrived, heard, sends,
                   crashed>>

\* Without a connection Send dials; when that fails it goes on with a nil one.
\* When writing fails, the connection is taken out of the table later on.
Send(a) ==
    /\ a \in Address /\ handel = "sending"
    /\ \/ /\ a \notin conns /\ crashed' = TRUE /\ UNCHANGED <<conns, reader, unregistering>>
       \/ /\ conns' = conns \cup {a}
          /\ reader' = [reader EXCEPT ![a] = IF @ \in {"none", "ended"} /\ a \notin conns
                                             THEN "reading" ELSE @]
          /\ unregistering' \in {unregistering, unregistering \cup {a}}
          /\ UNCHANGED crashed
    /\ netLock' = None /\ handelLock' = None /\ handel' = "idle"
    /\ UNCHANGED <<accepting, arrived, heard, sends>>

unregisterConn(a) ==
    /\ a \in unregistering /\ netLock = None
    /\ conns' = conns \ {a} /\ unregistering' = unregistering \ {a}
    /\ UNCHANGED <<reader, handel, netLock, handelLock, accepting, arrived, heard, sends, crashed>>

\* Stop closes the listening socket and the connections, whose readers end.
Stop ==
    /\ accepting /\ netLock = None
    /\ accepting' = FALSE
    /\ reader' = [a \in Remote |-> IF a \in conns /\ reader[a] = "reading" THEN "ended" ELSE reader[a]]
    /\ UNCHANGED <<conns, handel, netLock, handelLock, unregistering, arrived, heard, sends, crashed>>

Next == /\ ~crashed
        /\ \/ \E a \in Remote : handleIncoming(a) \/ ReadPacket(a) \/ dispatch(a) \/ NewPacket(a)
                                \/ Send(a) \/ unregisterConn(a)
           \/ HandelLocks \/ SendLocks \/ Stop

\* Goroutines are scheduled, and sync.Mutex starves no waiter.
Fairness == /\ SF_vars(SendLocks) /\ WF_vars(\E a \in Remote : Send(a))
            /\ \A a \in Remote : SF_vars(dispatch(a)) /\ SF_vars(NewPacket(a))

Spec == Init /\ [][Next]_vars /\ Fairness

\* "Each time a new packet arrives from the network, it is dispatched to the
\* registered Listeners" (src/net.go:15): what was read reaches the listener,
\* unless the program has crashed.
ArrivedIsDispatched ==
    \A a \in Remote : reader[a] = "locking" ~> (reader[a] \notin {"locking", "calling"} \/ crashed)
=============================================================================

-------------------------------- MODULE Sync --------------------------------
(***************************************************************************)
(* The synchronisation of a simulation (simul/lib/sync.go): the SyncMaster *)
(* and one SyncSlave per process, which exchange UDP packets that may be   *)
(* lost.  A slave repeats its signal, and the master its answer, at every  *)
(* tick of 500 ms.  Both sides keep what they know per state (START, END,  *)
(* P2P), created at its first use, and no two states share anything: the   *)
(* module follows one state.                                               *)
(*                                                                         *)
(* A packet under way is a member of toMaster or toSlave: repeating one    *)
(* that is still under way changes nothing.  Together with done, the       *)
(* channel finished gets its one value, and whoever waits for it goes on.  *)
(* The map of addresses is read without the lock that protects its         *)
(* writers; Go's runtime detects this, not always, and ends the program.   *)
(***************************************************************************)
EXTENDS Naturals, FiniteSets

CONSTANTS
    Slave,              \* the processes, each with one address
    Master,             \* the process that waits with them
    ID,                 \* the ids of the nodes
    Permille            \* the expected shares considered, 995 in the code

ASSUME SyncAssumption == /\ Master \notin Slave /\ IsFiniteSet(ID)
                         /\ Permille \subseteq 1 .. 1000 /\ Permille # {}

VARIABLES
    state,              \* the state that is followed
    ids,                \* the nodes each slave was given, possibly none
    exp, probExp,       \* how many nodes are expected, and suffice
    master,             \* the state of the master
    slaveDone,          \* the slaves that got an answer
    signals,            \* the goroutines that signal, with their packet
    toMaster, toSlave,  \* packets under way; one to a slave is its address
    raced,              \* the runtime ended the master's program
    signalled           \* history: the nodes that were signalled

params == <<state, ids, exp, probExp>>
vars == <<params, master, slaveDone, signals, toMaster, toSlave, raced, signalled>>

\* loop: the goroutine of sendLoop is "none", between two ticks ("idle"), in the
\* iteration over the addresses ("reads"), or has "ended".
newState == [readys |-> {}, addresses |-> {}, done |-> FALSE, fullDone |-> FALSE, loop |-> "none"]

\* Rounded up.
share(n, p) == (n * p + 999) \div 1000

NewSyncMaster(expected) == /\ exp = expected
                           /\ \E p \in Permille : probExp = share(expected, p)
                           /\ master = newState

\* Every node is given to one slave.
NewSyncSlave == /\ ids \in [Slave -> SUBSET ID] /\ UNION {ids[m] : m \in Slave} = ID
                /\ \A m, k \in Slave : m # k => ids[m] \cap ids[k] = {}
                /\ slaveDone = {}

Init == /\ state \in {"START", "END"} /\ NewSyncSlave /\ NewSyncMaster(Cardinality(ID))
        /\ signals = {} /\ toMaster = {} /\ toSlave = {} /\ raced = FALSE /\ signalled = {}

-----------------------------------------------------------------------------
(* The slaves *)

\* A signal is sent at once, by a goroutine that goes on repeating it.
signal(m, IDs) ==
    LET msg == [IDs |-> IDs, Address |-> m]
    IN  /\ msg \notin signals
        /\ signals' = signals \cup {msg} /\ toMaster' = toMaster \cup {msg}
        /\ signalled' = signalled \cup IDs
        /\ UNCHANGED <<params, master, slaveDone, toSlave, raced>>

\* A process signals START for all its nodes at once, ...
SignalAll(m) == state = "START" /\ m \notin slaveDone /\ signal(m, ids[m])

\* ... and END for each node that is done.
Signal(m, id) == state = "END" /\ id \in ids[m] \ signalled /\ signal(m, {id})

Repeat(m) == /\ \E msg \in signals : msg.Address = m /\ toMaster' = toMaster \cup {msg}
             /\ UNCHANGED <<params, master, slaveDone, signals, toSlave, raced, signalled>>

SignalEnds(m) == /\ m \in slaveDone
                 /\ \E msg \in signals : msg.Address = m /\ signals' = signals \ {msg}
                 /\ UNCHANGED <<params, master, slaveDone, toMaster, toSlave, raced, signalled>>

\* The first answer ends the wait and, by closing doneCh, the goroutines that signal.
SlaveNewPacket(m) ==
    /\ m \in toSlave /\ toSlave' = toSlave \ {m}
    /\ slaveDone' = slaveDone \cup {m}
    /\ UNCHANGED <<params, master, signals, toMaster, raced, signalled>>

-----------------------------------------------------------------------------
(* The master *)

\* Mutant: one node too few is enough.
enoughBut1(n) == n + 1 >= probExp

\* All of them, or the expected share.
enough(n) == n >= exp \/ n >= probExp

\* Mutant: the address is stored only while the loop does not run.
newMessageFirst(msg) ==
    LET readys == master.readys \cup msg.IDs
        n == Cardinality(readys)
        stored == [master EXCEPT !.readys = readys,
                                 !.addresses = IF master.done THEN @ ELSE @ \cup {msg.Address}]
    IN  IF ~enough(n) THEN stored
        ELSE [stored EXCEPT !.done = TRUE, !.loop = IF master.done THEN @ ELSE "idle",
                            !.fullDone = @ \/ n >= exp]

\* The state of the master after a message.
newMessage(msg) ==
    LET readys == master.readys \cup msg.IDs
        n == Cardinality(readys)
        stored == [master EXCEPT !.readys = readys, !.addresses = @ \cup {msg.Address}]
    IN  IF ~enough(n) THEN stored
        ELSE [stored EXCEPT !.done = TRUE, !.loop = IF master.done THEN @ ELSE "idle",
                            !.fullDone = @ \/ n >= exp]

\* A new address while sendLoop reads the map is what the runtime may detect.
NewPacket(m) ==
    /\ ~raced
    /\ \E msg \in toMaster : /\ msg.Address = m
                             /\ toMaster' = toMaster \ {msg} /\ master' = newMessage(msg)
    /\ raced' \in {FALSE, master.loop = "reads" /\ m \notin master.addresses}
    /\ UNCHANGED <<params, slaveDone, signals, toSlave, signalled>>

\* One tick; an address that the iteration misses is answered at the next one,
\* as if the packet had been lost.
sendLoop ==
    /\ ~raced
    /\ \/ /\ master.loop = "idle"
          /\ master' = [master EXCEPT !.loop = "reads"] /\ UNCHANGED toSlave
       \/ /\ master.loop = "reads"
          /\ master' = [master EXCEPT !.loop = "idle"]
          /\ toSlave' = toSlave \cup master.addresses
    /\ UNCHANGED <<params, slaveDone, signals, toMaster, raced, signalled>>

\* Five minutes after all nodes have signalled.
SendLoopEnds ==
    /\ master.loop = "idle" /\ master.fullDone /\ ~raced
    /\ master' = [master EXCEPT !.loop = "ended"]
    /\ UNCHANGED <<params, slaveDone, signals, toMaster, toSlave, raced, signalled>>

-----------------------------------------------------------------------------
Lose == /\ \/ \E msg \in toMaster : toMaster' = toMaster \ {msg} /\ UNCHANGED toSlave
           \/ \E m \in toSlave : toSlave' = toSlave \ {m} /\ UNCHANGED toMaster
        /\ UNCHANGED <<params, master, slaveDone, signals, raced, signalled>>

Next == \/ \E m \in Slave : \/ SignalAll(m)
                            \/ \E id \in ids[m] : Signal(m, id)
                            \/ Repeat(m) \/ SignalEnds(m) \/ SlaveNewPacket(m) \/ NewPacket(m)
        \/ sendLoop \/ SendLoopEnds \/ Lose

\* One packet of a slave, repeated and received.
repeats(m, msg) == msg \in signals /\ toMaster' = toMaster \cup {msg} /\ Repeat(m)
receives(m, msg) == msg \in toMaster /\ toMaster' = toMaster \ {msg} /\ NewPacket(m)

\* The tickers tick, and what is sent at every tick is not lost for ever.
Fairness == /\ WF_vars(sendLoop)
            /\ \A m \in Slave :
                /\ SF_vars(SlaveNewPacket(m))
                /\ \A IDs \in (SUBSET ID) \ {{}} :
                    LET msg == [IDs |-> IDs, Address |-> m]
                    IN  WF_vars(repeats(m, msg)) /\ SF_vars(receives(m, msg))

Spec == Init /\ [][Next]_vars /\ Fairness

-----------------------------------------------------------------------------
(* Properties *)

\* The packets, the repetitions and the losses implement a barrier: a process,
\* and the platform, go on only when probExp nodes have signalled
\* (sync.go:92-105, 271-282).
TheBarrier == INSTANCE Barrier
    WITH Node <- ID, Member <- Slave \cup {Master}, need <- probExp,
         released <- slaveDone \cup (IF master.done THEN {Master} ELSE {})

SyncIsBarrier == TheBarrier!BSpec

\* The loop that answers the slaves meets no new address (sync.go:133), and the
\* program does not end in "concurrent map iteration and map write", unless fewer
\* nodes than exist suffice, or a process runs no node and so is not waited for.
RaceNeedsStraggler == raced => probExp < exp \/ \E m \in Slave : ids[m] = {}

\* Once all nodes have signalled, every process that runs one of them is let
\* through, whatever was lost on the way, unless the master's program ended, or five
\* minutes of answers were not enough (sync.go:107-115).
AllAreReleased ==
    \A m \in Slave : (signalled = ID /\ ids[m] # {})
                         ~> (m \in slaveDone \/ raced \/ master.loop = "ended")
=============================================================================

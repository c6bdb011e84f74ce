----------------------------- MODULE UDPNetwork -----------------------------
(***************************************************************************)
(* The UDP transport of one node (network/udp/net.go): the goroutines      *)
(* handler, loop and dispatchLoop, the channels between them, and Send,    *)
(* RegisterListener and Stop.  dispatchLoop hands a packet to the listener,*)
(* a Handel instance, whose NewPacket takes Handel's lock; Handel calls    *)
(* Send while it holds that lock.                                          *)
(*                                                                         *)
(* A datagram decodes to a packet, to a packet without a multi-signature   *)
(* or not at all.  The sections under the network's own lock never block,  *)
(* so that each of them is one step.                                       *)
(***************************************************************************)
EXTENDS Naturals, Sequences

CONSTANTS
    UPacket,            \* the well-formed packets that may arrive
    NewCap, ProcessCap, \* capacities of newPacket and process
    MaxArrivals,        \* bound on the datagrams that arrive
    MaxSends            \* bound on the calls of Send

Empty   == "empty"      \* a packet whose MultiSig has length 0
Garbage == "garbage"    \* a datagram that does not decode

ASSUME UDPAssumption ==
    /\ NewCap \in Nat \ {0} /\ ProcessCap \in Nat \ {0}
    /\ MaxArrivals \in Nat /\ MaxSends \in Nat
    /\ Empty \notin UPacket /\ Garbage \notin UPacket

VARIABLES
    uquit,                       \* Stop was called: quit, done and the socket are closed
    sock, handler,               \* datagrams in the socket's buffer; the goroutine [pc, p]
    newPacket,                   \* the channel from handler to loop
    loop, pendings, loopReady,   \* the goroutine, its list and its flag
    process, ready,              \* the channels between loop and dispatchLoop
    dispatcher, heard,           \* the goroutine; history: what the listener was given
    registered, handelLock,      \* there is a listener; a thread of Handel holds its lock
    arrivals, sends              \* counters for the bounds

wire == <<sock, arrivals>>
hvars == <<wire, handler>>
lvars == <<loop, pendings, loopReady>>
dvars == <<dispatcher, heard>>
avars == <<registered, handelLock, sends>>
uvars == <<uquit, hvars, newPacket, lvars, process, ready, dvars, avars>>

at(pc) == [pc |-> pc, p |-> Empty]
with(pc, p) == [pc |-> pc, p |-> p]

UInit == /\ uquit = FALSE /\ sock = <<>> /\ newPacket = <<>> /\ process = <<>> /\ ready = <<>>
         /\ handler = at("check") /\ loop = at("select") /\ dispatcher = at("ready")
         /\ pendings = <<>> /\ loopReady = FALSE /\ heard = <<>>
         /\ registered = FALSE /\ handelLock = FALSE /\ arrivals = 0 /\ sends = 0

-----------------------------------------------------------------------------
(* The application and the wire *)

URegisterListener == /\ ~registered /\ registered' = TRUE
                     /\ UNCHANGED <<uquit, hvars, newPacket, lvars, process, ready, dvars,
                                    handelLock, sends>>

\* A second Stop returns at once.
UStop == /\ ~uquit /\ uquit' = TRUE
         /\ UNCHANGED <<hvars, newPacket, lvars, process, ready, dvars, avars>>

Arrive == /\ arrivals < MaxArrivals /\ ~uquit
          /\ arrivals' = arrivals + 1
          /\ \E d \in UPacket \cup {Empty, Garbage} : sock' = Append(sock, d)
          /\ UNCHANGED <<uquit, handler, newPacket, lvars, process, ready, dvars, avars>>

\* A thread of Handel takes Handel's lock and, some steps later, sends and
\* releases it.  Send uses a socket of its own for each destination.
HandelLocks == /\ registered /\ ~handelLock /\ sends < MaxSends
               /\ handelLock' = TRUE
               /\ UNCHANGED <<uquit, hvars, newPacket, lvars, process, ready, dvars,
                              registered, sends>>

USend == /\ handelLock
         /\ handelLock' = FALSE /\ sends' = sends + 1
         /\ UNCHANGED <<uquit, hvars, newPacket, lvars, process, ready, dvars, registered>>

-----------------------------------------------------------------------------
(* handler *)

CheckQuit == /\ handler.pc = "check"
             /\ handler' = at(IF uquit THEN "ended" ELSE "decode")
             /\ UNCHANGED <<uquit, wire, newPacket, lvars, process, ready, dvars, avars>>

\* Reading blocks until a datagram is there, fails on a closed socket and on a
\* datagram that does not decode.
Decode == /\ handler.pc = "decode"
          /\ \/ uquit /\ handler' = at("check") /\ UNCHANGED sock
             \/ /\ ~uquit /\ sock # <<>>
                /\ sock' = Tail(sock)
                /\ handler' = IF Head(sock) = Garbage THEN at("check")
                              ELSE with("put", Head(sock))
          /\ UNCHANGED <<uquit, arrivals, newPacket, lvars, process, ready, dvars, avars>>

PutPacket == /\ handler.pc = "put" /\ Len(newPacket) < NewCap
             /\ newPacket' = Append(newPacket, handler.p)
             /\ handler' = at("check")
             /\ UNCHANGED <<uquit, wire, lvars, process, ready, dvars, avars>>

-----------------------------------------------------------------------------
(* loop: select takes any of newPacket, ready and done that is ready *)

\* The closure send, for the list pend.
trySend(pend, isReady) ==
    /\ loopReady' = isReady
    /\ IF pend # <<>> /\ isReady
       THEN pendings' = Tail(pend) /\ loop' = with("send", Head(pend))
       ELSE pendings' = pend /\ UNCHANGED loop

\* Mutant: a packet that arrives is put in front of those that wait.
pushBackFront(pend, p) == <<p>> \o pend

\* pendings.PushBack
pushBack(pend, p) == Append(pend, p)

\* A packet without a multi-signature is dropped.
LoopNewPacket == /\ loop.pc = "select" /\ newPacket # <<>>
                 /\ newPacket' = Tail(newPacket)
                 /\ IF Head(newPacket) = Empty THEN UNCHANGED lvars
                    ELSE trySend(pushBack(pendings, Head(newPacket)), loopReady)
                 /\ UNCHANGED <<uquit, hvars, process, ready, dvars, avars>>

LoopReady == /\ loop.pc = "select" /\ ready # <<>>
             /\ ready' = Tail(ready)
             /\ trySend(pendings, TRUE)
             /\ UNCHANGED <<uquit, hvars, newPacket, process, dvars, avars>>

LoopDone == /\ loop.pc = "select" /\ uquit
            /\ loop' = at("ended")
            /\ UNCHANGED <<uquit, hvars, newPacket, pendings, loopReady, process, ready, dvars,
                           avars>>

\* Mutant: the flag is left on, so that the next packet is sent without asking.
LoopSendStaysReady == /\ loop.pc = "send" /\ Len(process) < ProcessCap
                      /\ process' = Append(process, loop.p)
                      /\ loop' = at("select")
                      /\ UNCHANGED <<uquit, hvars, newPacket, pendings, loopReady, ready, dvars,
                                     avars>>

\* process <- toProcess blocks on a full channel; then ready = false.
LoopSend == /\ loop.pc = "send" /\ Len(process) < ProcessCap
            /\ process' = Append(process, loop.p)
            /\ loop' = at("select") /\ loopReady' = FALSE
            /\ UNCHANGED <<uquit, hvars, newPacket, pendings, ready, dvars, avars>>

-----------------------------------------------------------------------------
(* dispatchLoop *)

\* ready <- true, on a channel of capacity 1.
DispatchReady == /\ dispatcher.pc = "ready" /\ ready = <<>>
                 /\ ready' = <<TRUE>> /\ dispatcher' = at("select")
                 /\ UNCHANGED <<uquit, hvars, newPacket, lvars, process, heard, avars>>

DispatchSelect ==
    /\ dispatcher.pc = "select"
    /\ \/ uquit /\ dispatcher' = at("ended") /\ UNCHANGED process
       \/ /\ process # <<>> /\ process' = Tail(process)
          /\ dispatcher' = with("listeners", Head(process))
    /\ UNCHANGED <<uquit, hvars, newPacket, lvars, ready, heard, avars>>

\* A snapshot of the listeners; without any the packet is gone.
getListeners == /\ dispatcher.pc = "listeners"
                /\ dispatcher' = IF registered THEN with("call", dispatcher.p) ELSE at("ready")
                /\ UNCHANGED <<uquit, hvars, newPacket, lvars, process, ready, heard, avars>>

\* listener.NewPacket waits for Handel's lock.
Dispatch == /\ dispatcher.pc = "call" /\ ~handelLock
            /\ heard' = Append(heard, dispatcher.p)
            /\ dispatcher' = at("ready")
            /\ UNCHANGED <<uquit, hvars, newPacket, lvars, process, ready, avars>>

-----------------------------------------------------------------------------
handlerStep  == CheckQuit \/ Decode \/ PutPacket
loopStep     == LoopNewPacket \/ LoopReady \/ LoopDone \/ LoopSend
dispatchStep == DispatchReady \/ DispatchSelect \/ getListeners \/ Dispatch

UNext == URegisterListener \/ UStop \/ Arrive \/ HandelLocks \/ USend
         \/ handlerStep \/ loopStep \/ dispatchStep

\* The goroutines are scheduled, Handel releases its lock, and neither
\* sync.Mutex nor select neglects a waiter for ever.
UFairness == /\ WF_uvars(handlerStep) /\ WF_uvars(loopStep) /\ WF_uvars(dispatchStep)
             /\ SF_uvars(LoopReady) /\ SF_uvars(LoopDone) /\ SF_uvars(Dispatch)
             /\ WF_uvars(USend)

USpec == UInit /\ [][UNext]_uvars /\ UFairness

-----------------------------------------------------------------------------
(* Properties *)

held(g, pcs) == IF g.pc \in pcs THEN <<g.p>> ELSE <<>>

\* Those of a sequence of packets that have a multi-signature.
nonEmpty(s) ==
    LET f[i \in 0 .. Len(s)] == IF i = 0 THEN <<>>
                                ELSE IF s[i] = Empty THEN f[i - 1] ELSE Append(f[i - 1], s[i])
    IN  f[Len(s)]

\* The packets on their way to the listener, the oldest first.
InFlight == held(dispatcher, {"listeners", "call"}) \o process \o held(loop, {"send"})
            \o pendings \o nonEmpty(newPacket) \o nonEmpty(held(handler, {"put"}))

one(b) == IF b THEN 1 ELSE 0

\* There is one permission to dispatch.  It goes round from dispatchLoop over
\* the channel ready, the flag of loop and the channel process: no send on these
\* channels ever blocks (net.go:159, 197, 206), which would keep a goroutine
\* from seeing done.
OneToken == /\ one(loopReady) + one(dispatcher.pc \in {"ready", "listeners", "call"})
                 + Len(process) + Len(ready) = 1
            /\ loop.pc = "send" => loopReady

\* The three goroutines, their two queues and their list are one queue: a
\* packet that was decoded reaches the listener once, in the order of arrival,
\* and as long as Stop is not called it does reach it (net.go:124-209).
Queue == INSTANCE PacketQueue WITH
            Packet <- UPacket, queue <- InFlight, delivered <- heard,
            listening <- registered, stopped <- uquit
UDPIsQueue == Queue!Spec

\* After Stop both loops end, and with them the dispatching; the handler, too,
\* unless newPacket is full with nobody left to empty it (net.go:144).
UStopEndsLoops == uquit ~> /\ loop.pc = "ended" /\ dispatcher.pc = "ended"
                           /\ handler.pc = "ended" \/ Len(newPacket) = NewCap
=============================================================================

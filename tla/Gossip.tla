------------------------------- MODULE Gossip -------------------------------
(***************************************************************************)
(* The gossip baseline, one node of it (simul/p2p/aggregator.go, Run of    *)
(* simul/p2p/main.go, simul/p2p/udp/node.go): the goroutines readNexts and *)
(* handleIncoming of its aggregator, the dispatching of the aggregate, and *)
(* the application that waits for the final signature.  The other nodes    *)
(* send their individual signature again and again, over UDP, until they   *)
(* are done themselves.                                                    *)
(*                                                                         *)
(* A packet is its origin; Nil is the zero packet that a closed channel    *)
(* gives.  A multi-signature given to the application is [sig, bits]; its  *)
(* bits are Shared when it holds the aggregator's own bitset, which        *)
(* may change later.  A panic in any goroutine ends the program.           *)
(***************************************************************************)
EXTENDS Naturals, Sequences, FiniteSets

CONSTANTS
    Origin,             \* the ids of the registry, this node's included
    Zero, Nil,          \* the id 0 of a zero packet, and that packet
    Threshold,          \* how many contributions make the final signature
    MaxPending          \* bound on the packets waiting in Next() and the list

ASSUME GossipAssumption ==
    /\ IsFiniteSet(Origin) /\ Nil \notin Origin
    /\ Threshold \in 1 .. Cardinality(Origin) /\ MaxPending \in Nat \ {0}

Shared == {Nil}

VARIABLES
    aggAndVerify,       \* aggregate first, or verify each signature
    bad, gossiping,     \* origins whose signature is invalid; that still send
    next,               \* the channel Next() of the node
    packets, isReady,   \* the list and the flag of readNexts
    reading,            \* readNexts runs
    newPacket,          \* its channel to handleIncoming: [buf, closed]
    procReady,          \* the channel back: permissions in it
    incoming,           \* handleIncoming: [pc, p], pc is "init", "select",
                        \* "take", "output", "close", "ready", "ended"
    accSig, accBs, rcvd,\* the aggregate [who, once] (see MultiSignature), its
                        \* bitset, and the count of contributions
    verifiers, locked,  \* goroutines of verifyAndDispatch that wait for the
                        \* lock; one holds it and waits for out
    out, outputs,       \* the channel out (capacity 1); history: how many
    done,               \* the channel done is closed
    app, final,         \* the application: "waiting", "got", "timedOut", "ended";
                        \* its signature
    crashed

env == <<aggAndVerify, bad, gossiping>>
reader == <<next, packets, isReady, reading>>
acc == <<accSig, accBs, rcvd>>
disp == <<verifiers, locked, out, outputs, done>>
appl == <<app, final>>
vars == <<env, reader, newPacket, procReady, incoming, acc, disp, appl, crashed>>

at(pc) == [pc |-> pc, p |-> Nil]
NoSig == [who |-> {}, once |-> TRUE]
None == [sig |-> NoSig, bits |-> {}]

Init == /\ aggAndVerify \in BOOLEAN /\ bad \in SUBSET Origin /\ gossiping = Origin
        /\ Cardinality(bad) <= 1
        /\ next = <<>> /\ packets = <<>> /\ isReady = FALSE /\ reading = TRUE
        /\ newPacket = [buf |-> <<>>, closed |-> FALSE] /\ procReady = 0
        /\ incoming = at("init") /\ accSig = NoSig /\ accBs = {} /\ rcvd = 0
        /\ verifiers = 0 /\ locked = FALSE /\ out = <<>> /\ outputs = 0 /\ done = FALSE
        /\ app = "waiting" /\ final = None /\ crashed = FALSE

-----------------------------------------------------------------------------
(* The other nodes *)

\* Start of another aggregator diffuses its packet at every tick; UDP may lose
\* it, and NewPacket puts it in the channel Next().
NewPacket(o) == /\ o \in gossiping /\ Len(next) + Len(packets) < MaxPending
                /\ next' = Append(next, o)
                /\ UNCHANGED <<env, packets, isReady, reading, newPacket, procReady, incoming,
                               acc, disp, appl, crashed>>

\* A node that is done stops diffusing.
OtherIsDone(o) == /\ o \in gossiping /\ ~aggAndVerify
                  /\ gossiping' = gossiping \ {o}
                  /\ UNCHANGED <<aggAndVerify, bad, reader, newPacket, procReady, incoming, acc,
                                 disp, appl, crashed>>

-----------------------------------------------------------------------------
(* readNexts: any of Next(), procReady and done that is ready *)

\* The closure send, for the list ps.
sendNext(ps) ==
    IF ps = <<>> THEN packets' = ps /\ isReady' = TRUE /\ UNCHANGED newPacket
    ELSE /\ packets' = Tail(ps) /\ isReady' = FALSE
         /\ newPacket' = [newPacket EXCEPT !.buf = Append(@, Head(ps))]

\* Mutant: a packet that arrives is sent whether or not it was asked for.
ReadNextEager ==
    /\ reading /\ next # <<>>
    /\ next' = Tail(next)
    /\ sendNext(Append(packets, Head(next)))
    /\ UNCHANGED <<env, reading, procReady, incoming, acc, disp, appl, crashed>>

ReadNext ==
    /\ reading /\ next # <<>>
    /\ next' = Tail(next)
    /\ IF isReady THEN sendNext(Append(packets, Head(next)))
       ELSE packets' = Append(packets, Head(next)) /\ UNCHANGED <<isReady, newPacket>>
    /\ UNCHANGED <<env, reading, procReady, incoming, acc, disp, appl, crashed>>

ReadProcReady ==
    /\ reading /\ procReady > 0
    /\ procReady' = procReady - 1
    /\ sendNext(packets)
    /\ UNCHANGED <<env, next, reading, incoming, acc, disp, appl, crashed>>

ReadDone ==
    /\ reading /\ done
    /\ reading' = FALSE /\ newPacket' = [newPacket EXCEPT !.closed = TRUE]
    /\ UNCHANGED <<env, next, packets, isReady, procReady, incoming, acc, disp, appl, crashed>>

-----------------------------------------------------------------------------
(* handleIncoming *)

Select ==
    /\ incoming.pc = "select"
    /\ \/ done /\ incoming' = at("ended") /\ UNCHANGED newPacket
       \/ /\ newPacket.buf # <<>>
          /\ newPacket' = [newPacket EXCEPT !.buf = Tail(@)]
          /\ incoming' = [pc |-> "take", p |-> Head(newPacket.buf)]
       \/ /\ newPacket.buf = <<>> /\ newPacket.closed
          /\ incoming' = [pc |-> "take", p |-> Nil] /\ UNCHANGED newPacket
    /\ UNCHANGED <<env, reader, procReady, acc, disp, appl, crashed>>

\* procReady <- true, on a channel of capacity 1: at the start and, deferred,
\* after each packet.
PutReady ==
    /\ incoming.pc \in {"init", "ready"} /\ procReady = 0
    /\ procReady' = 1 /\ incoming' = at("select")
    /\ UNCHANGED <<env, reader, newPacket, acc, disp, appl, crashed>>

\* Mutant: a signature that came before is added again.
KnownNever(p) == p = Nil /\ Zero \in accBs

Known(p) == IF p = Nil THEN Zero \in accBs ELSE p \in accBs

enough(n) == n >= Threshold

add(p) == /\ accSig' = [who |-> accSig.who \cup {p}, once |-> accSig.once /\ p \notin accSig.who]
          /\ accBs' = accBs \cup {p} /\ rcvd' = rcvd + 1

\* The zero packet has no multi-signature to unmarshal.
panics(p) == p = Nil

\* Mutant: after a signature that came before, the deferred send is missing.
afterSilent(p) == IF Known(p) THEN at("select") ELSE at("ready")

\* Deferred: whatever came of the packet, readNexts is told.
after(p) == at("ready")

verifyPacket ==
    /\ incoming.pc = "take" /\ ~aggAndVerify
    /\ LET p == incoming.p
       IN  IF Known(p) THEN incoming' = after(p) /\ UNCHANGED <<acc, crashed>>
           ELSE IF panics(p) THEN crashed' = TRUE /\ UNCHANGED <<incoming, acc>>
           ELSE IF p \in bad THEN incoming' = after(p) /\ UNCHANGED <<acc, crashed>>
           ELSE /\ add(p)
                /\ incoming' = IF enough(rcvd') THEN at("output") ELSE after(p)
                /\ UNCHANGED crashed
    /\ UNCHANGED <<env, reader, newPacket, procReady, disp, appl>>

\* Closing done twice panics.
verifyPacketOutput ==
    /\ \/ /\ incoming.pc = "output" /\ out = <<>>
          /\ out' = <<[sig |-> accSig, bits |-> Shared]>> /\ outputs' = outputs + 1
          /\ incoming' = at("close") /\ UNCHANGED <<done, crashed>>
       \/ /\ incoming.pc = "close" /\ crashed' = done /\ done' = TRUE
          /\ incoming' = at("ready") /\ UNCHANGED <<out, outputs>>
    /\ UNCHANGED <<env, reader, newPacket, procReady, acc, verifiers, locked, appl>>

\* The signature is added unverified, under the lock.
aggregate ==
    /\ incoming.pc = "take" /\ aggAndVerify
    /\ \/ Known(incoming.p) /\ UNCHANGED <<acc, verifiers>>
       \/ /\ ~Known(incoming.p) /\ ~locked
          /\ add(incoming.p)
          /\ verifiers' = IF enough(rcvd') THEN verifiers + 1 ELSE verifiers
    /\ incoming' = after(incoming.p)
    /\ UNCHANGED <<env, reader, newPacket, procReady, locked, out, outputs, done, appl, crashed>>

aggregateVerifies == accSig.once /\ accSig.who = accBs /\ accSig.who \cap bad = {}

\* The aggregate of the moment, if it verifies; the lock is kept while out is full.
verifyAndDispatch ==
    /\ \/ /\ verifiers > 0 /\ ~locked /\ verifiers' = verifiers - 1
          /\ IF ~aggregateVerifies THEN UNCHANGED <<locked, out, outputs>>
             ELSE IF out = <<>>
             THEN /\ out' = <<[sig |-> accSig, bits |-> accBs]>> /\ outputs' = outputs + 1
                  /\ UNCHANGED locked
             ELSE locked' = TRUE /\ UNCHANGED <<out, outputs>>
       \/ /\ locked /\ out = <<>> /\ locked' = FALSE
          /\ out' = <<[sig |-> accSig, bits |-> accBs]>> /\ outputs' = outputs + 1
          /\ UNCHANGED verifiers
    /\ UNCHANGED <<env, reader, newPacket, procReady, incoming, acc, done, appl, crashed>>

-----------------------------------------------------------------------------
(* Run: the application waits for a signature that is large enough, ... *)

bitsOf(ms) == IF ms.bits = Shared THEN accBs ELSE ms.bits

RunReceives ==
    /\ app = "waiting" /\ out # <<>>
    /\ out' = <<>> /\ final' = Head(out)
    /\ app' = IF enough(Cardinality(bitsOf(Head(out)))) THEN "got" ELSE "waiting"
    /\ UNCHANGED <<env, reader, newPacket, procReady, incoming, acc, verifiers, locked, outputs,
                   done, crashed>>

\* ... panics when it has waited for MaxTimeout, whatever the aggregator has by then, ...
RunTimeout ==
    /\ app = "waiting" /\ app' = "timedOut" /\ crashed' = TRUE
    /\ UNCHANGED <<env, reader, newPacket, procReady, incoming, acc, disp, final>>

\* ... and verifies the signature: a panic when it is invalid.
RunVerifies ==
    /\ app = "got" /\ app' = "ended"
    /\ crashed' = ~(final.sig.once /\ final.sig.who = bitsOf(final) /\ final.sig.who \cap bad = {})
    /\ UNCHANGED <<env, reader, newPacket, procReady, incoming, acc, disp, final>>

-----------------------------------------------------------------------------
readNexts == ReadNext \/ ReadProcReady \/ ReadDone
handleIncoming == Select \/ PutReady \/ verifyPacket \/ verifyPacketOutput \/ aggregate

Next == /\ ~crashed
        /\ \/ \E o \in Origin : NewPacket(o) \/ OtherIsDone(o)
           \/ readNexts \/ handleIncoming \/ verifyAndDispatch
           \/ RunReceives \/ RunTimeout \/ RunVerifies

\* The goroutines are scheduled, select neglects no case for ever, and what is
\* sent again and again is not lost for ever.  Nothing is fair about the timeout:
\* it may or may not come first.
Fairness == /\ WF_vars(~crashed /\ readNexts) /\ SF_vars(~crashed /\ ReadProcReady)
            /\ WF_vars(~crashed /\ handleIncoming) /\ WF_vars(~crashed /\ verifyAndDispatch)
            /\ WF_vars(~crashed /\ (RunReceives \/ RunVerifies))
            /\ \A o \in Origin : SF_vars(~crashed /\ NewPacket(o))

Spec == Init /\ [][Next]_vars /\ Fairness

-----------------------------------------------------------------------------
(* Properties *)

\* readNexts and handleIncoming pass one permission round, and one packet at a
\* time (aggregator.go:128, 152, 168): neither of them blocks on the other.
OnePacketAtATime == procReady + Len(newPacket.buf) + (IF isReady THEN 1 ELSE 0)
                       + (IF incoming.pc # "select" THEN 1 ELSE 0) = 1

\* Whatever goes wrong in the aggregator goes wrong because it has given out a
\* signature.  As long as done is open its two loops hand packets over one by one,
\* and the only panic is the application's, which waited for too long (p2p/main.go:
\* 124).  Once done is closed, and only verifyPacket closes it, after it gave out a
\* signature, the other three can happen: a second close (aggregator.go:264), the zero
\* packet of a closed channel (:233), a bitset that grew under the signature it was
\* given out with (:262).  When the aggregate is verified as a whole done stays open,
\* and it is a further aggregate that blocks under the lock (:216).
TroubleOnlyAfterOutput ==
    /\ ~done => OnePacketAtATime /\ (crashed => app = "timedOut")
    /\ done => outputs > 0 /\ ~aggAndVerify
    /\ locked => outputs > 0 /\ aggAndVerify

\* What is given out has Threshold contributions, all of them valid, each counted
\* once; and its bitset says which, unless it is the aggregator's own (aggregator.go:
\* 262), which goes on growing.
GivenOutIsValid ==
    \A ms \in {out[i] : i \in 1 .. Len(out)}
                 \cup (IF app \in {"got", "ended"} THEN {final} ELSE {}) :
        /\ ms.sig.once /\ ms.sig.who \cap bad = {} /\ Cardinality(ms.sig.who) >= Threshold
        /\ ms.bits \in {Shared, ms.sig.who}

\* Unlike Handel, gossip repeats itself, and lost packets are made up for: as long as
\* enough nodes go on sending the final signature is given out, unless the application
\* runs out of patience first (p2p/main.go:123). Verifying the aggregate only, one
\* invalid signature spoils it for ever (aggregator.go:204).
EventuallyOutput ==
    [](Cardinality(gossiping \ bad) >= Threshold /\ (aggAndVerify => bad = {}))
        => <>(outputs > 0 \/ app = "timedOut")
=============================================================================

------------------------------- MODULE Handel -------------------------------
(***************************************************************************)
(* The Handel protocol (handel.go): the nodes of a registry, each with its *)
(* store, its processing queue, its levels and its timeout, exchanging     *)
(* packets over an asynchronous network.  The threads of a node are        *)
(*   NewPacket       - the network's callback                              *)
(*   processStep     - the loop of evaluatorProcessing                     *)
(*   Store, OnVerifiedSignature - rangeOnVerified, which stores a verified *)
(*                     signature outside of Handel's lock and calls the    *)
(*                     actors under it                                     *)
(*   StartLevel      - the loop of linearTimeout                           *)
(*   periodicUpdate  - the loop on the ticker                              *)
(* and each of them but rangeOnVerified is one step, under Handel's lock   *)
(* (or the queue's, for processStep, whose own interleavings with Add and  *)
(* with the store are those of Processing).                                *)
(***************************************************************************)
EXTENDS SigProcessing, Level, Partitioner

CONSTANTS
    N,                  \* size of the registry
    Offline,            \* the nodes that never start
    Contributions,      \* Config.Contributions, the threshold
    UpdateCount,        \* Config.UpdateCount
    FastPath,           \* Config.FastPath
    LinearTimeout,      \* FALSE: levels are never started by a timeout
    Shuffles,           \* TRUE: any order of the peers of a level
    MaxQueued            \* bound on the signatures queued when a duplicate comes

Nodes  == 0 .. N - 1
Online == Nodes \ Offline

ASSUME HandelAssumption ==
    /\ N \in Nat \ {0} /\ Offline \subseteq Nodes
    /\ {Contributions, UpdateCount, FastPath, MaxQueued} \subseteq Nat \ {0}
    /\ {LinearTimeout, Shuffles} \subseteq BOOLEAN

VARIABLES
    store,              \* per node: the signature store
    levels,             \* per node and level: see Level
    seen, todos,        \* per node: the processing's filter and queue
    verified,           \* per node: the channel of verified signatures
    current,            \* per node: the signature stored, before the actors
    best,               \* per node: the last signature put on the out channel
    timeout,            \* per node: how many levels the timeout has started
    packets,            \* the packets in flight
    sentSize            \* history, per node, level and peer: the size of the
                        \* last signature sent

vars == <<store, levels, seen, todos, verified, current, best, timeout, packets, sentSize>>

-----------------------------------------------------------------------------
(* NewHandel *)

Part     == [n \in Nodes |-> Interface(NewBinPartitioner(n, N))]
LevelIds == [n \in Nodes |-> Part[n].levels \ {0}]
PeersAt(n, l) == Part[n].base[l] .. Part[n].base[l] + Part[n].size[l] - 1

ownSig(n) == [ origin |-> n, level |-> 0, isInd |-> TRUE, mappedIndex |-> 0,
               ms |-> MS(1, {0}, SignatureOf(n)) ]

\* The orders in which the peers of a level may be contacted: any (shuffle),
\* or that of the registry.
Orders(n, l) == IF Shuffles THEN SetToSeqs(PeersAt(n, l))
                ELSE {IdentitiesAt(NewBinPartitioner(n, N), l).ids}

\* createLevels: the first level is started; sendExpectedFullSize counts this
\* node and the peers of the levels below.
createLevels(n, order) ==
    [l \in LevelIds[n] |->
        LET below == {k \in LevelIds[n] : k < l}
            lvl   == newLevel(order[l], 1 + SumFunctionOnSet(Part[n].size, below))
        IN  IF below = {} THEN setStarted(lvl) ELSE lvl]

\* The levels createLevels may return, for all results of the shuffles.
NewLevels(n) ==
    {createLevels(n, order) :
        order \in {o \in [LevelIds[n] -> UNION {Orders(n, l) : l \in LevelIds[n]}] :
                     \A l \in LevelIds[n] : o[l] \in Orders(n, l)}}

Init ==
    /\ store = [n \in Online |-> Store(NewStore(Part[n]), ownSig(n))]
    /\ levels \in {f \in [Online -> UNION {NewLevels(n) : n \in Online}] :
                     \A n \in Online : f[n] \in NewLevels(n)}
    /\ seen = [n \in Online |-> {}]
    /\ todos = [n \in Online |-> <<>>]
    /\ verified = [n \in Online |-> <<>>]
    /\ current = [n \in Online |-> <<>>]
    /\ best = [n \in Online |-> Nil]
    /\ timeout = [n \in Online |-> 0]
    /\ packets = {}
    /\ sentSize = [n \in Online |-> [l \in LevelIds[n] |-> [p \in PeersAt(n, l) |-> 0]]]

-----------------------------------------------------------------------------
(* Sending *)

\* The packet sendUpdate makes for a level: the best combination of the levels
\* below it, and the node's own signature unless the level is complete.
packetFor(n, l, lvl) ==
    [ origin |-> n, level |-> l, ms |-> Combined(Part[n], store[n], l - 1),
      ind |-> IF lvl.rcvCompleted THEN <<>> ELSE <<SignatureOf(n)>> ]

\* sendUpdate for each of the levels in `count`'s domain, to count[l] of the
\* peers of lvls[l]; the node's other levels become lvls[l] as they are.
sendUpdates(n, lvls, count) ==
    LET to == [l \in DOMAIN count |-> nextPeers(lvls[l], count[l])]
        pk == [l \in DOMAIN count |-> packetFor(n, l, lvls[l])]
    IN  /\ levels' = [levels EXCEPT ![n] =
              [l \in LevelIds[n] |-> IF l \in DOMAIN count
                                     THEN selectNextPeers(lvls[l], count[l])
                                     ELSE lvls[l]]]
        /\ packets' = packets \cup
              UNION {{[to |-> p, msg |-> pk[l]] : p \in to[l] \cap Online} : l \in DOMAIN count}
        /\ sentSize' = [sentSize EXCEPT ![n] =
              [l \in LevelIds[n] |-> [p \in PeersAt(n, l) |->
                  IF l \in DOMAIN count /\ p \in to[l] THEN card(pk[l].ms) ELSE @[l][p]]]]

periodicUpdate(n) ==
    LET due == {l \in LevelIds[n] : active(levels[n][l])}
    IN  /\ due # {}
        /\ sendUpdates(n, levels[n], [l \in due |-> UpdateCount])
        /\ UNCHANGED <<store, seen, todos, verified, current, best, timeout>>

\* One turn of linearTimeout's loop over the levels, lowest first, StartLevel
\* included.
StartLevel(n) ==
    /\ LinearTimeout
    /\ timeout' = [timeout EXCEPT ![n] = @ + 1]
    /\ \E l \in LevelIds[n] :
          /\ Cardinality({k \in LevelIds[n] : k < l}) = timeout[n]
          /\ IF levels[n][l].sendStarted
             THEN UNCHANGED <<levels, packets, sentSize>>
             ELSE sendUpdates(n, [levels[n] EXCEPT ![l] = setStarted(@)],
                              [k \in {l} |-> UpdateCount])
    /\ UNCHANGED <<store, seen, todos, verified, current, best>>

-----------------------------------------------------------------------------
(* Receiving *)

\* The packets validatePacket and parseSignatures accept.
WellFormed(n, msg) ==
    /\ msg.origin \in Nodes
    /\ msg.level \in LevelIds[n]
    /\ msg.ms.len = Len(levels[n][msg.level].nodes)
    /\ msg.ms.bits # {}
    /\ msg.ind # <<>> =>
          IndexAtLevel(NewBinPartitioner(n, N), msg.origin, msg.level).err = "ok"

parseMultiSig(msg) == [ origin |-> msg.origin, level |-> msg.level, ms |-> msg.ms,
                        isInd |-> FALSE, mappedIndex |-> 0 ]

parseIndividualSig(n, msg) ==
    LET index == IndexAtLevel(NewBinPartitioner(n, N), msg.origin, msg.level).index
    IN  [ origin |-> msg.origin, level |-> msg.level, isInd |-> TRUE, mappedIndex |-> index,
          ms |-> MS(Len(levels[n][msg.level].nodes), {index}, msg.ind[1]) ]

\* The signatures of a packet go to the processing, unless the packet is
\* malformed or the level complete.
NewPacket(n, msg) ==
    IF WellFormed(n, msg) /\ ~levels[n][msg.level].rcvCompleted
    THEN LET multi == enqueue(seen[n], todos[n], parseMultiSig(msg))
             ind   == parseIndividualSig(n, msg)
         IN  IF msg.ind = <<>>
             THEN todos' = [todos EXCEPT ![n] = multi] /\ UNCHANGED seen
             ELSE /\ todos' = [todos EXCEPT ![n] = enqueue(seen[n], multi, ind)]
                  /\ seen' = [seen EXCEPT ![n] = seenAfter(seen[n], ind)]
    ELSE UNCHANGED <<todos, seen>>

Deliver(n) == \E p \in packets : /\ p.to = n
                                 /\ packets' = packets \ {p}
                                 /\ NewPacket(n, p.msg)
                                 /\ UNCHANGED <<store, levels, verified, current, best,
                                                timeout, sentSize>>

processStep(n) ==
    LET r == readTodos(Part[n], store[n], todos[n])
    IN  /\ todos[n] # <<>>
        /\ todos' = [todos EXCEPT ![n] = r.newTodos]
        /\ verified' = IF r.best # <<>> /\ verifySignature(Part[n], r.best[1])
                       THEN [verified EXCEPT ![n] = @ \o r.best]
                       ELSE verified
        /\ UNCHANGED <<store, levels, seen, current, best, timeout, packets, sentSize>>

-----------------------------------------------------------------------------
(* rangeOnVerified *)

\* The store is updated without Handel's lock ...
StoreVerified(n) ==
    /\ current[n] = <<>> /\ verified[n] # <<>>
    /\ current' = [current EXCEPT ![n] = <<Head(verified[n])>>]
    /\ verified' = [verified EXCEPT ![n] = Tail(@)]
    /\ store' = [store EXCEPT ![n] = Store(@, Head(verified[n]))]
    /\ UNCHANGED <<levels, seen, todos, best, timeout, packets, sentSize>>

\* ... and the actors run later, under it.
checkCompletedLevel(n, s) ==
    IF levels[n][s.level].rcvCompleted
    THEN UNCHANGED <<levels, packets, sentSize>>
    ELSE LET rcvd == IF complete(levels[n][s.level], card(store[n].m[s.level]))
                     THEN [levels[n] EXCEPT ![s.level].rcvCompleted = TRUE]
                     ELSE levels[n]
             size(l) == card(Combined(Part[n], store[n], l - 1))
             above == {l \in LevelIds[n] : l > s.level}
             fast  == {l \in above : sendsAtOnce(rcvd[l], size(l))}
         IN  sendUpdates(n, [l \in LevelIds[n] |-> IF l \in above
                                                   THEN updateSigToSend(rcvd[l], size(l))
                                                   ELSE rcvd[l]],
                         [l \in fast |-> FastPath])

\* Mutants: any signature is put out; more than the threshold is required.
checkFinalSignatureAny(n) ==
    LET sig == FullSignature(Part[n], store[n])
    IN  best' = IF card(sig) > card(best[n]) THEN [best EXCEPT ![n] = sig] ELSE best
checkFinalSignatureMore(n) ==
    LET sig == FullSignature(Part[n], store[n])
    IN  best' = IF card(sig) > Contributions /\ card(sig) > card(best[n])
                THEN [best EXCEPT ![n] = sig]
                ELSE best

checkFinalSignature(n) ==
    LET sig == FullSignature(Part[n], store[n])
    IN  best' = IF card(sig) >= Contributions /\ card(sig) > card(best[n])
                THEN [best EXCEPT ![n] = sig]
                ELSE best

OnVerifiedSignature(n) ==
    /\ current[n] # <<>>
    /\ checkCompletedLevel(n, current[n][1])
    /\ checkFinalSignature(n)
    /\ current' = [current EXCEPT ![n] = <<>>]
    /\ UNCHANGED <<store, seen, todos, verified, timeout>>

-----------------------------------------------------------------------------
Step(n) == \/ periodicUpdate(n)
           \/ StartLevel(n)
           \/ Deliver(n)
           \/ processStep(n)
           \/ StoreVerified(n)
           \/ OnVerifiedSignature(n)

Next == \E n \in Online : Step(n)

Spec == Init /\ [][Next]_vars

\* Every goroutine goes on being scheduled, the ticker and the timeout go on
\* firing, and this network loses nothing.
Fairness == \A n \in Online : /\ WF_vars(periodicUpdate(n))
                              /\ WF_vars(StartLevel(n))
                              /\ WF_vars(Deliver(n))
                              /\ WF_vars(processStep(n))
                              /\ WF_vars(StoreVerified(n))
                              /\ WF_vars(OnVerifiedSignature(n))

-----------------------------------------------------------------------------
(* A network that loses and duplicates packets. *)

Lose == \E p \in packets : /\ packets' = packets \ {p}
                           /\ UNCHANGED <<store, levels, seen, todos, verified, current, best,
                                          timeout, sentSize>>

\* A copy of a packet arrives, up to MaxQueued signatures in the queue and the channel.
Duplicate(n) == \E p \in packets : /\ p.to = n
                                   /\ Len(todos[n]) + Len(verified[n]) < MaxQueued
                                   /\ NewPacket(n, p.msg)
                                   /\ UNCHANGED <<store, levels, verified, current, best,
                                                  timeout, packets, sentSize>>

\* Fair loss: what is sent over and over again is delivered in the end.
LossySpec == Init /\ [][Next \/ Lose]_vars /\ Fairness /\ \A n \in Online : SF_vars(Deliver(n))

-----------------------------------------------------------------------------
(* Properties *)

\* A node's state as Aggregation sees it: a signature stands for its
\* contributions, and for none when it does not verify.
contributions(ms) == IF Verifies(ms, 0, N) THEN ms.bits ELSE {}

AGG == INSTANCE Aggregation WITH
          Node <- Online, Threshold <- Contributions,
          known <- [n \in Online |-> contributions(FullSignature(Part[n], store[n]))],
          given <- [n \in Online |-> contributions(best[n])]

\* Handel implements Aggregation: whatever levels, packets and queues they come
\* by, a node trades its contributions for more of them, and every signature it
\* puts out (handel.go:283) verifies, is large enough and is one it holds.
HandelIsAggregation == AGG!Spec

\* Outside of the window between Store and the actors (handel.go:241-246) the
\* application has the best signature the store can make: none that reached the
\* threshold is kept back, and none is given below it.
OutputUpToDate ==
    \A n \in Online :
        LET full == FullSignature(Part[n], store[n])
        IN  current[n] = <<>> /\ DOMAIN store[n].m # {0} =>
                best[n] = IF card(full) >= Contributions THEN full ELSE Nil

\* A level is marked complete exactly when the store has all of its
\* contributions, outside of the same window.
CompletedIsComplete ==
    \A n \in Online : \A l \in LevelIds[n] :
        LET full == HasBest(store[n], l) /\ card(store[n].m[l]) = Part[n].size[l]
        IN  /\ levels[n][l].rcvCompleted => full
            /\ current[n] = <<>> /\ full => levels[n][l].rcvCompleted

\* A started level goes quiet (handel.go:526) only after every one of its peers
\* was sent the best signature there is for it.
QuietAfterAllContacted ==
    \A n \in Online : \A l \in LevelIds[n] :
        current[n] = <<>> /\ levels[n][l].sendStarted /\ ~active(levels[n][l]) =>
            \A p \in PeersAt(n, l) :
                sentSize[n][l][p] = card(Combined(Part[n], store[n], l - 1))

\* Nothing is left to do for any thread.
Quiescent ==
    /\ packets = {}
    /\ \A n \in Online : /\ todos[n] = <<>> /\ verified[n] = <<>> /\ current[n] = <<>>
                         /\ \A l \in LevelIds[n] : ~active(levels[n][l])
                         /\ LinearTimeout => timeout[n] = Cardinality(LevelIds[n])

\* All online nodes have given the application the contributions of all online
\* nodes (when these reach the threshold).
AllAggregated == \A n \in Online : best[n].bits = Online

\* The protocol never comes to rest before that, over a network that loses
\* nothing: no contribution is lost between two nodes, whatever the order of
\* packets, verifications and timeouts.
RestsOnlyWhenAggregated == Quiescent => AllAggregated

\* Every online node outputs the aggregate of all online nodes, and for good.
EventuallyAggregated == <>[]AllAggregated

\* The protocol stops sending and comes to rest.
EventuallyQuiescent == <>[]Quiescent
=============================================================================

------------------------------- MODULE Level -------------------------------
(***************************************************************************)
(* The state Handel keeps for each level (type level of handel.go), as     *)
(* operators on a record with the fields of the struct.  `nodes` is the    *)
(* sequence of the level's peers in the order drawn by createLevels.       *)
(***************************************************************************)
EXTENDS Integers, Sequences, FiniteSets

newLevel(nodes, sendExpectedFullSize) ==
    [ nodes |-> nodes, sendStarted |-> FALSE, rcvCompleted |-> FALSE,
      sendPos |-> 0, sendPeersCt |-> 0,
      sendExpectedFullSize |-> sendExpectedFullSize, sendSigSize |-> 0 ]

active(l) == l.sendStarted /\ l.sendPeersCt < Len(l.nodes)

\* Mutant: what is received is compared with what is to be sent.
completeBySendSize(l, size) == size = l.sendExpectedFullSize

\* checkCompletedLevel's test on the size of the best signature received.
complete(l, size) == size = Len(l.nodes)

setStarted(l) == [l EXCEPT !.sendStarted = TRUE]

batch(l, count) == IF count < Len(l.nodes) THEN count ELSE Len(l.nodes)

\* selectNextPeers: the next peers, on a rolling basis, and the level after it.
nextPeers(l, count) ==
    {l.nodes[((l.sendPos + i) % Len(l.nodes)) + 1] : i \in 0 .. batch(l, count) - 1}

\* Mutant: the position does not move.
selectNextPeersStuck(l, count) == [l EXCEPT !.sendPeersCt = @ + batch(l, count)]

selectNextPeers(l, count) ==
    [l EXCEPT !.sendPos = (@ + batch(l, count)) % Len(l.nodes),
              !.sendPeersCt = @ + batch(l, count)]

\* Mutant: the peers are not contacted again.
updateSigToSendNoReset(l, size) ==
    IF l.sendSigSize >= size THEN l
    ELSE [l EXCEPT !.sendSigSize = size, !.sendStarted = @ \/ size = l.sendExpectedFullSize]

\* updateSigToSend: a larger signature is to be sent to every peer again; when
\* it is all there is to send, the level starts and is sent at once.
updateSigToSend(l, size) ==
    IF l.sendSigSize >= size THEN l
    ELSE [l EXCEPT !.sendSigSize = size, !.sendPeersCt = 0,
                   !.sendStarted = @ \/ size = l.sendExpectedFullSize]

sendsAtOnce(l, size) == l.sendSigSize < size /\ size = l.sendExpectedFullSize
=============================================================================

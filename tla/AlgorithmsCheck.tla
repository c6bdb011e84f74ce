-------------------------- MODULE AlgorithmsCheck --------------------------
(***************************************************************************)
(* The pure algorithms of the repository against what is expected of them. *)
(* A behaviour is a node that visits the levels of its partitioner         *)
(* (PartitionerCheck), or one input of one of the other algorithms: a      *)
(* multi-signature to encode, an overlay to connect, a generated run.      *)
(***************************************************************************)
EXTENDS PartitionerCheck, Encoding, Connector, Scenarios

CONSTANTS BitLengths,       \* lengths of the bitsets that are encoded
          LastBits,         \* the bits they may have beside bit 0
          OverlaySize,      \* bound on the size of an overlay
          OverlayCount,     \* bound on the connections asked for
          OverlayFailures,  \* bound on the connections that fail
          None              \* no input: the behaviour is a partitioner's

ASSUME AlgorithmsAssumption == /\ BitLengths \subseteq Nat \ {0} /\ LastBits \subseteq Nat
                               /\ OverlaySize \in Nat /\ OverlayCount \in Nat
                               /\ OverlayFailures \in Nat

VARIABLE input

A == INSTANCE Allocator

Signatures == {[alg |-> "encoding", bs |-> [l |-> l, bits |-> {0, last} \cap 0 .. l - 1], sig |-> "sig"] :
                  l \in BitLengths, last \in LastBits}

\* The turns, at most OverlayFailures of them, that fail in an overlay.
Failing(n, count) ==
    LET turns == (0 .. n - 1) \X (1 .. count)
    IN  {{}} \cup {{f[k] : k \in 1 .. OverlayFailures} : f \in [1 .. OverlayFailures -> turns]}
Overlays == UNION {[alg : {"overlay"}, n : {n}, count : {count}, failing : Failing(n, count)] :
                      n \in 1 .. OverlaySize, count \in 1 .. OverlayCount}
GeneratedRuns == [alg : {"run"}, run : Generated]

Inputs == Signatures \cup Overlays \cup GeneratedRuns

AInit == \/ Visit /\ input = None
         \/ /\ input \in Inputs
            /\ c = NewBinPartitioner(0, 1)
            /\ level = MaxLevel(c) + 1
            /\ covered = {0}

ANext == VisitLevel /\ UNCHANGED input

ASpec == AInit /\ [][ANext]_<<walkVars, input>>

Alg(name) == input # None /\ input.alg = name

-----------------------------------------------------------------------------
(* Properties *)

\* Bit lengths and byte lengths are written as uint16 (bitset.go:152,
\* crypto.go:71).  Where they wrap around nothing is misread: for a level of
\* fewer than 65536 ids the receiver gets what was sent, and for a longer one
\* it refuses everything (handel.go:399), although the bitset is not damaged.
EncodingNeverMisread ==
    Alg("encoding") =>
        LET ms == [bs |-> input.bs, sig |-> input.sig]
            b == MarshalBinary(ms)
        IN  /\ Accepted(b, ms.bs.l) <=> ms.bs.l < 65536
            /\ Accepted(b, ms.bs.l) => /\ Unmarshal(b).bs = ms.bs
                                       /\ Unmarshal(b).sig = ms.sig

\* The walk of neighbor.Connect (connector.go:26), when some connections fail.  A
\* node is connected to the ones that follow it, without a gap, to all others or to
\* no fewer than one less than the turns that did not fail; the overlay is connected, that is, a
\* group of nodes that connects to nobody outside it is everybody, as long as
\* each node has two turns that do not fail; and the walk panics (:35) when it
\* meets the end of the registry a second time, for which it needs a turn more than
\* there are ids on its way: failures put the panic off, and cause none.
NeighborsReachEverybody ==
    Alg("overlay") =>
        LET n == input.n
            count == input.count
            o == Overlay(n, count, input.failing)
            ids == 0 .. n - 1
            failed(i) == Cardinality(failingOf(i, count, input.failing))
        IN  /\ \A i \in ids :
                 /\ o[i].panic => count > (2 * n) - i
                 /\ count > ((2 * n) - i) + failed(i) => o[i].panic
                 /\ \E k \in 0 .. n - 1 :
                      /\ o[i].connected = {(i + j) % n : j \in 1 .. k}
                      /\ k = n - 1 \/ k + 1 + failed(i) >= count
            /\ (\A i \in ids : count > 1 + failed(i)) =>
                 \A group \in (SUBSET ids) \ {{}} :
                   (\A i \in group : o[i].connected \subseteq group) => group = ids

\* "MaxCount represents the number of outgoing connections a gossip node should make"
\* (p2p/main.go:23), in a registry that has as many others, when none fails.
MakesMaxCount ==
    Alg("overlay") /\ input.failing = {} /\ input.count < input.n =>
        \A i \in 0 .. input.n - 1 :
           Cardinality(Overlay(input.n, input.count, {})[i].connected) = input.count

\* A generated run can finish: as many nodes stay online as have to contribute,
\* RoundRandomOffline (allocator.go:126) always finds a node to take offline,
\* so that it does not search for ever, and what reaches Handel needs no
\* default.  Every process has a node to run, except in the practical scenario,
\* where there are as many processes as nodes and a quarter of them is offline.
GeneratedRunsCanFinish ==
    Alg("run") =>
        LET r == input.run
            conf == GetHandelConfig(r)
            procs == 0 .. r.Processes - 1
            left(k) == A!slots(k, r.Nodes, r.Processes) - A!asked(k, r.Processes, r.Failing)
        IN  /\ GetThreshold(r) \in 1 .. r.Nodes - r.Failing
            /\ r.Processes \in 1 .. r.Nodes
            /\ \A k \in procs : left(k) >= 0
            /\ mergeWithDefault(conf, r.Nodes)
                  = [conf EXCEPT !.Evaluator = IF @ = "none" THEN "store" ELSE @]
            /\ (\E k \in procs : left(k) = 0) <=> r \in practicalScenario /\ r.Nodes <= 2500
=============================================================================

---------------------------- MODULE MCSequential ----------------------------
(* The parts of a node that run one call at a time, for TLC: the inputs of   *)
(* the pure algorithms, the walk of each node over its levels and, when that *)
(* of node Id of N is over, the life of its store.                           *)
EXTENDS AlgorithmsCheck, StoreMachine

CONSTANTS Id, N         \* the node with a store, and the size of its registry

MCPart == Interface(NewBinPartitioner(Id, N))

hasStore == input = None /\ c = NewBinPartitioner(Id, N) /\ level > MaxLevel(c)

MCInit == AInit /\ Init
MCNext == \/ ANext /\ UNCHANGED st
          \/ hasStore /\ Next /\ UNCHANGED <<walkVars, input>>

MCSpec == MCInit /\ [][MCNext]_<<walkVars, input, st>>
=============================================================================

-------------------------- MODULE PartitionerCheck --------------------------
(***************************************************************************)
(* The partitioner against reference definitions, for every node of every  *)
(* registry up to MaxSize.  A behaviour takes one node and visits its      *)
(* levels from 0 upwards, collecting the ids seen so far, the way          *)
(* createLevels and newStore walk over Levels().                           *)
(***************************************************************************)
EXTENDS Partitioner, FiniteSets

CONSTANT MaxSize        \* bound on the registry's size

ASSUME MaxSizeAssumption == MaxSize \in Nat \ {0}

VARIABLES c,            \* the partitioner of one node
          level,        \* the level being visited
          covered       \* the ids of the levels visited before it

walkVars == <<c, level, covered>>

Visit == /\ \E size \in 1 .. MaxSize : \E id \in 0 .. size - 1 :
              c = NewBinPartitioner(id, size)
         /\ level = 0
         /\ covered = {}

VisitLevel == /\ level <= MaxLevel(c)
              /\ level' = level + 1
              /\ covered' = IF rangeLevel(c, level).err = "ok"
                            THEN covered \cup Ids(rangeLevel(c, level))
                            ELSE covered
              /\ UNCHANGED c

-----------------------------------------------------------------------------
(* Properties *)

\* The peers of level l by definition: the ids that differ from this node's
\* id first, from the highest bit down, at bit l-1; level 0 is the node itself.
CommonPrefixAbove(a, b, bit) == \A k \in bit .. c.bitsize : isSet(a, k) = isSet(b, k)
PeersByPrefix(l) ==
    {j \in 0 .. c.size - 1 :
        IF l = 0 THEN j = c.id
        ELSE /\ CommonPrefixAbove(c.id, j, l)
             /\ isSet(c.id, l - 1) # isSet(j, l - 1)}

\* The binary search of rangeLevel (partitioner.go:133) finds exactly the
\* peers whose common prefix ends at the level, and reports an empty level
\* exactly when there are none: also in registries that are not a power of two.
RangeIsPrefixSet ==
    level <= MaxLevel(c) =>
        /\ (rangeLevel(c, level).err = "ok") <=> (PeersByPrefix(level) # {})
        /\ rangeLevel(c, level).err = "ok" =>
              Ids(rangeLevel(c, level)) = PeersByPrefix(level)

\* The levels are a partition of the registry by common prefix, as above: no
\* id is met twice, the ids of the levels below l are those of
\* rangeLevelInverse(l), which is where Combine (partitioner.go:224) puts them,
\* and after the last level all are covered.
LevelsPartitionRegistry ==
    /\ RangeIsPrefixSet
    /\ level <= MaxLevel(c) => covered \cap PeersByPrefix(level) = {}
    /\ level \in 1 .. MaxLevel(c) => covered = Ids(rangeLevelInverse(c, level))
    /\ level > MaxLevel(c) => covered = 0 .. c.size - 1

\* What a node sends at a level is what every peer of that level expects: the
\* sender's inverse range is the range of the receiver, so that the bitset
\* length checked in parseSignatures (handel.go:399) and the keys aggregated in
\* verifySignature (processing.go:342) are the sender's, and the sender has
\* an index at that level (IndexAtLevel).
PeersAgreeOnRange ==
    level \in 1 .. MaxLevel(c) =>
        \A j \in PeersByPrefix(level) :
            LET peer == NewBinPartitioner(j, c.size)
            IN  /\ rangeLevel(peer, level) = rangeLevelInverse(c, level)
                /\ IndexAtLevel(peer, c.id, level).err = "ok"
                /\ IdentitiesAt(peer, level).ids[IndexAtLevel(peer, c.id, level).index + 1] = c.id

\* The tables the store and the processing are given (Interface) meet the
\* contract the theorems about the store assume.
InterfaceMeetsContract == Contract(Interface(c))
=============================================================================

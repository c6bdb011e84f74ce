---------------------------- MODULE Partitioner ----------------------------
(***************************************************************************)
(* The binomial partitioner (partitioner.go): how one node sees the ids of *)
(* the registry, 0 .. size-1, as a series of levels.  A partitioner is a   *)
(* record with the fields of binomialPartitioner that its methods read;    *)
(* the registry is the interval 0 .. size-1, because the id of an identity *)
(* is its position in the registry.                                        *)
(***************************************************************************)
EXTENDS Integers, Sequences

pow2[n \in Nat] == IF n = 0 THEN 1 ELSE 2 * pow2[n - 1]

log2(size) == CHOOSE k \in 0 .. size : pow2[k] >= size /\ (k > 0 => pow2[k - 1] < size)

isSet(nb, index) == (nb \div pow2[index]) % 2 = 1

NewBinPartitioner(id, size) == [id |-> id, size |-> size, bitsize |-> log2(size)]

MaxLevel(c) == log2(c.size)

-----------------------------------------------------------------------------
(* Ranges [min, max[ of global ids. *)

okRange(min, max) == [err |-> "ok", min |-> min, max |-> max]
errEmptyLevel     == [err |-> "empty", min |-> 0, max |-> 0]
errInvalidLevel   == [err |-> "invalid", min |-> 0, max |-> 0]

ValidLevel(c, level) == level >= 0 /\ level <= c.bitsize + 1

\* One half of a range.
halve(p, upper) ==
    LET middle == (p.max + p.min) \div 2
    IN  IF upper THEN [p EXCEPT !.min = middle] ELSE [p EXCEPT !.max = middle]

\* The descent over the bits of the id that rangeLevel and rangeLevelInverse
\* share, from the highest bit down to bit level-1 (bit 0 for level 0).
\* `flip` is the bit at which the search turns to the other half, -1 for none.
Descend(c, level, flip) ==
    LET pos[idx \in 0 .. c.bitsize] ==
          IF idx = c.bitsize
          THEN [min |-> 0, max |-> pow2[log2(c.size)]]
          ELSE IF pos[idx + 1].min < pos[idx + 1].max
               THEN halve(pos[idx + 1], isSet(c.id, idx) # (idx = flip))
               ELSE pos[idx + 1]
    IN  pos[IF level = 0 THEN 0 ELSE level - 1]

\* A range never goes past the end of the registry.
clamp(c, p) == okRange(p.min, IF p.max > c.size THEN c.size ELSE p.max)

\* The ids this node receives from, and sends to, at `level`.
rangeLevel(c, level) ==
    IF ~ValidLevel(c, level) THEN errInvalidLevel
    ELSE LET p == Descend(c, level, level - 1)
         IN  IF p.min >= c.size THEN errEmptyLevel ELSE clamp(c, p)

\* Mutant: the inverse range of a registry that is not a power of two is not cut.
rangeLevelInverseUncut(c, level) ==
    IF ~ValidLevel(c, level) THEN errInvalidLevel
    ELSE LET p == Descend(c, level, -1) IN okRange(p.min, p.max)

\* The ids on this node's own side of `level`: what its peers at that level
\* expect a signature of this node to cover.
rangeLevelInverse(c, level) ==
    IF ~ValidLevel(c, level) THEN errInvalidLevel
    ELSE clamp(c, Descend(c, level, -1))

\* Mutant: empty levels are kept.
LevelsWithEmpty(c) == 1 .. MaxLevel(c)

\* The non-empty levels, which the code lists in increasing order.
Levels(c) == {i \in 1 .. MaxLevel(c) : rangeLevel(c, i).err = "ok"}

\* Size panics on an invalid level; its callers only pass levels of Levels.
Size(c, level) == rangeLevel(c, level).max - rangeLevel(c, level).min

Ids(r) == r.min .. (r.max - 1)

\* Registry.Identities: the slice of the registry between two bounds.
Identities(size, from, to) ==
    IF {from, to} \subseteq 0 .. size /\ from <= to
    THEN [err |-> "ok", ids |-> [i \in 1 .. (to - from) |-> from + i - 1]]
    ELSE [err |-> "notfound", ids |-> <<>>]

IdentitiesAt(c, level) ==
    LET r == rangeLevel(c, level)
    IN  IF r.err = "ok" THEN Identities(c.size, r.min, r.max)
                        ELSE [err |-> r.err, ids |-> <<>>]

\* Mutant: the maximum is taken for inclusive.
IndexAtLevelShort(c, globalID, level) ==
    LET r == rangeLevel(c, level)
    IN  IF r.err = "ok" /\ globalID \in r.min .. r.max - 2
        THEN [err |-> "ok", index |-> globalID - r.min]
        ELSE [err |-> "outside", index |-> 0]

IndexAtLevel(c, globalID, level) ==
    LET r == rangeLevel(c, level)
    IN  IF r.err = "ok" /\ globalID \in Ids(r)
        THEN [err |-> "ok", index |-> globalID - r.min]
        ELSE [err |-> "outside", index |-> 0]

-----------------------------------------------------------------------------
\* What the store and the processing use of a partitioner through the
\* Partitioner interface, as tables: the non-empty levels (level 0 included),
\* the range of each, and the range a signature sent at each of 1 .. MaxLevel
\* must cover.
Interface(c) ==
    [ levels  |-> {0} \cup Levels(c),
      n       |-> c.size,
      max     |-> MaxLevel(c),
      base    |-> [l \in 0 .. MaxLevel(c) |-> rangeLevel(c, l).min],
      size    |-> [l \in 0 .. MaxLevel(c) |-> Size(c, l)],
      invBase |-> [l \in 0 .. MaxLevel(c) |-> rangeLevelInverse(c, l).min],
      invSize |-> [l \in 0 .. MaxLevel(c) |->
                     rangeLevelInverse(c, l).max - rangeLevelInverse(c, l).min] ]

\* What the users of a Partitioner rely on: the ranges of the levels are
\* non-empty, lie in the registry and share no id; and the range that a
\* signature sent at level l must cover contains those of the levels below l.
Contract(part) ==
    /\ part.n \in Nat \ {0} /\ part.max \in Nat
    /\ part.levels \subseteq 0 .. part.max /\ 0 \in part.levels
    /\ {part.base, part.size, part.invBase, part.invSize} \subseteq [0 .. part.max -> Nat]
    /\ part.size[0] = 1
    /\ \A l \in part.levels : part.size[l] > 0 /\ part.base[l] + part.size[l] <= part.n
    /\ \A j, k \in part.levels :
          j < k => \/ part.base[j] + part.size[j] <= part.base[k]
                   \/ part.base[k] + part.size[k] <= part.base[j]
    /\ \A l \in part.levels \ {0} : \A k \in part.levels :
          k < l => /\ part.invBase[l] <= part.base[k]
                   /\ part.base[k] + part.size[k] <= part.invBase[l] + part.invSize[l]
=============================================================================

-------------------------- MODULE SequentialProofs --------------------------
(***************************************************************************)
(* Proofs about the parts of a node that run one call at a time:           *)
(*  - AlgorithmsCheck: the binomial partitioner, for every node of every   *)
(*    registry, the encoding of bitsets of every length, the overlays of   *)
(*    every size, and the runs of the configuration generator;             *)
(*  - StoreMachine: the signature store, for every partitioner that meets  *)
(*    the contract and every sequence of verified signatures.              *)
(* They rest on the lemmas of NodeLemmas, which the proofs about the       *)
(* processing and about the whole protocol use too.                        *)
(***************************************************************************)
EXTENDS AlgorithmsCheck, StoreMachine, NodeLemmas

-----------------------------------------------------------------------------
(* Encoding *)

\* What a bitset of any length becomes on its way.
LEMMA EncodingOf ==
    ASSUME NEW l \in Nat \ {0}, NEW bits, 0 \in bits, NEW sig,
           NEW ms, ms = [bs |-> [l |-> l, bits |-> bits], sig |-> sig]
    PROVE  /\ Accepted(MarshalBinary(ms), l) <=> l < 65536
           /\ l < 65536 => Unmarshal(MarshalBinary(ms)).bs = ms.bs
           /\ Unmarshal(MarshalBinary(ms)).sig = ms.sig
  <1> DEFINE w     == libBytes(l)
             bytes == 2 + w
             bs    == bitsetMarshal(ms.bs)
             b     == MarshalBinary(ms)
             u     == bitsetUnmarshal(b.bitset, b.length)
  <1>1. w \in Nat /\ (l < 65536 => bytes < 65536)
    BY DEF libBytes, words
  <1>2. bs = [len |-> l % 65536, lib |-> [length |-> l, set |-> bits], bytes |-> bytes]
    BY DEF bitsetMarshal, uint16
  <1>3. b = [length |-> bytes % 65536, bitset |-> bs, sig |-> sig]
    BY <1>2 DEF MarshalBinary, uint16
  <1>4. b.length = bytes % 65536 /\ b.bitset = bs /\ b.sig = sig
    BY <1>3
  <1>5. Unmarshal(b) = [err |-> u.err, bs |-> [l |-> u.l, bits |-> u.bits], sig |-> sig]
    BY <1>4 DEF Unmarshal
  <1>6. Accepted(b, l) <=> ~u.err /\ u.l = l /\ u.bits # {}
    BY <1>5 DEF Accepted
  <1>7. u = IF b.length < 2 THEN [err |-> TRUE, l |-> 0, bits |-> {}]
            ELSE [err |-> b.length - 2 < w, l |-> l % 65536, bits |-> bits]
    BY <1>2, <1>4 DEF bitsetUnmarshal, libUnmarshal
  <1>8. CASE l < 65536
    <2>1. b.length = bytes /\ l % 65536 = l
      BY <1>1, <1>4, <1>8
    <2>2. u = [err |-> bytes - 2 < w, l |-> l, bits |-> bits]
      BY <1>1, <1>7, <2>1
    <2>3. ~u.err /\ u.l = l /\ u.bits = bits
      <3>1. (bytes - 2 < w) = FALSE
        BY <1>1
      <3> HIDE DEF u
      <3>2. u = [err |-> FALSE, l |-> l, bits |-> bits]
        BY <2>2, <3>1
      <3> QED
        BY <3>2
    <2> QED
      BY <1>5, <1>6, <1>8, <2>3
  <1>9. CASE ~(l < 65536)
    <2>1. l % 65536 # l /\ l # 0
      BY <1>9
    <2>2. u.l # l
      BY <1>7, <2>1
    <2> QED
      BY <1>5, <1>6, <1>9, <2>2
  <1> QED
    BY <1>8, <1>9

InputOK == input = None \/ input \in Inputs

\* What an overlay to connect is.
LEMMA OverlayInput ==
    \A x \in Overlays : x.alg = "overlay" /\ x.n \in Nat /\ x.n > 0 /\ x.count \in Nat
  <1> SUFFICES ASSUME NEW x \in Overlays
               PROVE  x.alg = "overlay" /\ x.n \in Nat /\ x.n > 0 /\ x.count \in Nat
    OBVIOUS
  <1>1. PICK n \in 1 .. OverlaySize, count \in 1 .. OverlayCount :
          x \in [alg : {"overlay"}, n : {n}, count : {count}, failing : Failing(n, count)]
    <2> DEFINE O(n, count) == [alg : {"overlay"}, n : {n}, count : {count}, failing : Failing(n, count)]
    <2>1. x \in UNION {O(n, count) : n \in 1 .. OverlaySize, count \in 1 .. OverlayCount}
      BY DEF Overlays
    <2> HIDE DEF O
    <2>2. \E n \in 1 .. OverlaySize, count \in 1 .. OverlayCount : x \in O(n, count)
      BY <2>1
    <2> QED
      BY <2>2 DEF O
  <1>2. x.alg = "overlay" /\ x.n = n /\ x.count = count
    BY <1>1
  <1> QED
    BY <1>2, AlgorithmsAssumption

\* Every signature is accepted exactly when its length fits a uint16, and is then
\* the one that was sent (bitset.go:152, crypto.go:71).
THEOREM AlgorithmsEncoding == ASpec => []EncodingNeverMisread
  <1>1. AInit => InputOK
    BY DEF AInit, InputOK
  <1>2. InputOK /\ [ANext]_<<walkVars, input>> => InputOK'
    BY DEF ANext, InputOK, walkVars
  <1>3. InputOK => EncodingNeverMisread
    <2> SUFFICES ASSUME InputOK, Alg("encoding") PROVE EncodingNeverMisread
      BY DEF EncodingNeverMisread
    <2>1. input \in Inputs /\ input.alg = "encoding"
      BY DEF Alg, InputOK
    <2>2. input \in Signatures
      BY <2>1, OverlayInput DEF Inputs, GeneratedRuns
    <2>3. PICK l \in BitLengths, last \in LastBits :
            input = [alg |-> "encoding", bs |-> [l |-> l, bits |-> {0, last} \cap 0 .. l - 1],
                     sig |-> "sig"]
      BY <2>2 DEF Signatures
    <2> DEFINE bits == {0, last} \cap 0 .. l - 1
               ms == [bs |-> input.bs, sig |-> input.sig]
    <2>4. l \in Nat \ {0} /\ 0 \in bits
      BY AlgorithmsAssumption
    <2>5. ms = [bs |-> [l |-> l, bits |-> bits], sig |-> "sig"] /\ ms.bs.l = l
      BY <2>3
    <2> HIDE DEF bits, ms
    <2>6. /\ Accepted(MarshalBinary(ms), l) <=> l < 65536
          /\ l < 65536 => Unmarshal(MarshalBinary(ms)).bs = ms.bs
          /\ Unmarshal(MarshalBinary(ms)).sig = ms.sig
      BY <2>4, <2>5, EncodingOf
    <2> QED
      BY <2>5, <2>6 DEF EncodingNeverMisread, ms
  <1> QED
    BY <1>1, <1>2, <1>3, PTL DEF ASpec

-----------------------------------------------------------------------------
(* Partitioner *)

\* The ids of the registry in a block.
within(p) == {j \in 0 .. c.size - 1 : p.min <= j /\ j < p.max}

\* The inductive invariant of the walk: the levels visited make up the own block.
WalkOK ==
    /\ IsPart(c)
    /\ level \in 0 .. c.bitsize + 1
    /\ covered = IF level = 0 THEN {} ELSE within(own(c.id, level - 1))

\* Ids below the highest power of two have a common prefix when their higher bits
\* agree.
LEMMA CommonPrefix ==
    ASSUME NEW b \in Nat, NEW x \in Nat, NEW j \in Nat, x < pow2[b], j < pow2[b],
           NEW k \in 0 .. b
    PROVE  (\A i \in k .. b : isSet(x, i) = isSet(j, i)) <=> prefix(x, k) = prefix(j, k)
  <1> DEFINE agree(m) == \A i \in m .. b : isSet(x, i) = isSet(j, i)
             same(m)  == prefix(x, m) = prefix(j, m)
             T == {d \in Nat : d <= b => (agree(b - d) <=> same(b - d))}
  <1>1. pow2[b] \in Nat \ {0}
    BY Pow2
  <1>2. prefix(x, b) = 0 /\ prefix(j, b) = 0
    <2>1. 0 * pow2[b] <= x /\ x < 0 * pow2[b] + pow2[b]
          /\ 0 * pow2[b] <= j /\ j < 0 * pow2[b] + pow2[b]
      BY <1>1
    <2> QED
      BY <2>1, PrefixBlock
  <1>3. 0 \in T
    <2>1. b - 0 = b /\ b .. b = {b}
      OBVIOUS
    <2>2. isSet(x, b) = isSet(j, b)
      BY <1>2 DEF isSet, prefix
    <2>3. agree(b) /\ same(b)
      BY <1>2, <2>1, <2>2
    <2> HIDE DEF agree, same
    <2> QED
      BY <2>1, <2>3
  <1>4. ASSUME NEW d \in Nat, d \in T PROVE d + 1 \in T
    <2> SUFFICES ASSUME d + 1 <= b PROVE agree(b - (d + 1)) <=> same(b - (d + 1))
      OBVIOUS
    <2> DEFINE m == b - (d + 1)
    <2>1. m \in Nat /\ m + 1 = b - d /\ m < b /\ m .. b = {m} \cup (m + 1 .. b)
      OBVIOUS
    <2>2. agree(m + 1) <=> same(m + 1)
      <3> HIDE DEF agree, same
      <3> QED
        BY <1>4, <2>1
    <2> HIDE DEF m
    <2>3. agree(m) <=> isSet(x, m) = isSet(j, m) /\ agree(m + 1)
      BY <2>1
    <2>4. same(m) <=> isSet(x, m) = isSet(j, m) /\ same(m + 1)
      <3> DEFINE p == prefix(x, m)
                 q == prefix(j, m)
                 r == prefix(x, m + 1)
                 s == prefix(j, m + 1)
      <3>1. p \in Nat /\ q \in Nat /\ r \in Nat /\ s \in Nat
        <4>1. m + 1 \in Nat
          BY <2>1
        <4> QED
          BY <2>1, <4>1, PrefixBlock
      <3>2. /\ isSet(x, m) => p = 2 * r + 1
            /\ ~isSet(x, m) => p = 2 * r
            /\ isSet(j, m) => q = 2 * s + 1
            /\ ~isSet(j, m) => q = 2 * s
        BY <2>1, PrefixStep
      <3>3. isSet(x, m) \in BOOLEAN /\ isSet(j, m) \in BOOLEAN
        BY DEF isSet
      <3> HIDE DEF p, q, r, s
      <3>4. CASE isSet(x, m) /\ isSet(j, m)
        <4>1. p = q <=> r = s
          BY <3>1, <3>2, <3>4
        <4> QED
          BY <3>4, <4>1 DEF p, q, r, s
      <3>5. CASE ~isSet(x, m) /\ ~isSet(j, m)
        <4>1. p = q <=> r = s
          BY <3>1, <3>2, <3>5
        <4>2. isSet(x, m) = isSet(j, m)
          BY <3>3, <3>5
        <4> QED
          BY <4>1, <4>2 DEF p, q, r, s
      <3>6. CASE ~(isSet(x, m) <=> isSet(j, m))
        <4>1. p # q
          BY <3>1, <3>2, <3>6
        <4> QED
          BY <3>6, <4>1 DEF p, q
      <3> QED
        BY <3>4, <3>5, <3>6
    <2> HIDE DEF agree, same
    <2> QED
      BY <2>2, <2>3, <2>4 DEF m
  <1>5. b - k \in T /\ b - k <= b /\ b - (b - k) = k
    <2> HIDE DEF T
    <2>1. Nat \subseteq T
      BY <1>3, <1>4, SetInduction
    <2> QED
      BY <2>1
  <1> HIDE DEF agree, same
  <1>6. agree(k) <=> same(k)
    BY <1>5
  <1> QED
    BY <1>6 DEF agree, same

\* The ids whose common prefix with this node's ends at a level are the other
\* block, and the node is in the other block of each of them.
LEMMA PeersAreOther ==
    ASSUME IsPart(c), NEW l \in 1 .. c.bitsize
    PROVE  /\ PeersByPrefix(l) = within(peers(c.id, l - 1))
           /\ \A j \in PeersByPrefix(l) : peers(j, l - 1) = own(c.id, l - 1)
  <1> DEFINE x == c.id
             b == c.bitsize
             k == l - 1
  <1>1. /\ x \in Nat /\ b \in Nat /\ c.size \in Nat /\ x < c.size
        /\ pow2[b] \in Nat /\ c.size <= pow2[b]
    BY PartShape
  <1>2. k \in Nat /\ k + 1 = l /\ l \in 0 .. b /\ l # 0 /\ l \in Nat
    BY <1>1
  <1>3. ASSUME NEW j \in 0 .. c.size - 1
        PROVE  /\ j \in PeersByPrefix(l) <=> prefix(j, k) = other(x, k)
               /\ j \in PeersByPrefix(l) => other(j, k) = prefix(x, k)
    <2>1. j \in Nat /\ j < pow2[b] /\ x < pow2[b]
      BY <1>1
    <2>2. CommonPrefixAbove(x, j, l) <=> prefix(x, l) = prefix(j, l)
      BY <1>1, <1>2, <2>1, CommonPrefix DEF CommonPrefixAbove
    <2>3. j \in PeersByPrefix(l) <=> prefix(x, l) = prefix(j, l) /\ isSet(x, k) # isSet(j, k)
      BY <1>2, <2>2 DEF PeersByPrefix
    <2> DEFINE p == prefix(x, l)
               q == prefix(j, l)
    <2>4. p \in Nat /\ q \in Nat
      BY <1>1, <1>2, <2>1, PrefixBlock
    <2>5. /\ isSet(x, k) => prefix(x, k) = 2 * p + 1
          /\ ~isSet(x, k) => prefix(x, k) = 2 * p
          /\ isSet(j, k) => prefix(j, k) = 2 * q + 1
          /\ ~isSet(j, k) => prefix(j, k) = 2 * q
      BY <1>1, <1>2, <2>1, PrefixStep
    <2>6. /\ isSet(x, k) => other(x, k) = 2 * p
          /\ ~isSet(x, k) => other(x, k) = 2 * p + 1
          /\ isSet(j, k) => other(j, k) = 2 * q
          /\ ~isSet(j, k) => other(j, k) = 2 * q + 1
      BY <1>2 DEF other
    <2>7. isSet(x, k) \in BOOLEAN /\ isSet(j, k) \in BOOLEAN
      BY DEF isSet
    <2> HIDE DEF p, q, k
    <2>8. prefix(j, k) = other(x, k) <=> p = q /\ ~(isSet(x, k) <=> isSet(j, k))
      BY <2>4, <2>5, <2>6
    <2>9. p = q /\ ~(isSet(x, k) <=> isSet(j, k)) => other(j, k) = prefix(x, k)
      BY <2>4, <2>5, <2>6
    <2>10. isSet(x, k) # isSet(j, k) <=> ~(isSet(x, k) <=> isSet(j, k))
      BY <2>7
    <2> QED
      BY <2>3, <2>8, <2>9, <2>10 DEF p, q
  <1>4. PeersByPrefix(l) \subseteq 0 .. c.size - 1
    BY DEF PeersByPrefix
  <1>5. ASSUME NEW j \in 0 .. c.size - 1
        PROVE  j \in PeersByPrefix(l) <=> j \in within(peers(x, k))
    <2>1. j \in Nat /\ x \in Nat /\ k \in Nat
      BY <1>1, <1>2
    <2> HIDE DEF k, x
    <2>2. peers(x, k).min <= j /\ j < peers(x, k).max <=> prefix(j, k) = other(x, k)
      BY <2>1, InBlock
    <2>3. j \in within(peers(x, k)) <=> peers(x, k).min <= j /\ j < peers(x, k).max
      BY DEF within
    <2> QED
      BY <1>3, <2>2, <2>3
  <1>6. within(peers(x, k)) \subseteq 0 .. c.size - 1
    BY DEF within
  <1>7. \A j \in PeersByPrefix(l) : peers(j, k) = own(x, k)
    BY <1>3, <1>4 DEF peers, own
  <1>8. PeersByPrefix(l) = within(peers(x, k))
    <2> HIDE DEF k
    <2> QED
      BY <1>4, <1>5, <1>6
  <1> QED
    BY <1>7, <1>8

\* The facts about the blocks of one level, for this node.
LEMMA LevelBlocks ==
    ASSUME IsPart(c), NEW l \in 1 .. c.bitsize
    PROVE  /\ {own(c.id, l - 1).min, own(c.id, l - 1).max,
               peers(c.id, l - 1).min, peers(c.id, l - 1).max} \subseteq Nat
           /\ own(c.id, l - 1).min <= c.id /\ c.id < own(c.id, l - 1).max
           /\ peers(c.id, l - 1).min < peers(c.id, l - 1).max
           /\ \/ /\ own(c.id, l).min = own(c.id, l - 1).min
                 /\ own(c.id, l - 1).max = peers(c.id, l - 1).min
                 /\ own(c.id, l).max = peers(c.id, l - 1).max
              \/ /\ own(c.id, l).min = peers(c.id, l - 1).min
                 /\ peers(c.id, l - 1).max = own(c.id, l - 1).min
                 /\ own(c.id, l).max = own(c.id, l - 1).max
  <1> DEFINE k == l - 1
             x == c.id
  <1>1. x \in Nat /\ k \in Nat /\ k + 1 = l
    BY PartShape
  <1> HIDE DEF k, x
  <1>2. /\ {own(x, k).min, own(x, k).max, peers(x, k).min, peers(x, k).max} \subseteq Nat
        /\ own(x, k).min <= x /\ x < own(x, k).max
        /\ peers(x, k).max = peers(x, k).min + pow2[k]
        /\ \/ /\ own(x, k + 1).min = own(x, k).min /\ own(x, k).max = peers(x, k).min
              /\ own(x, k + 1).max = peers(x, k).max
           \/ /\ own(x, k + 1).min = peers(x, k).min /\ peers(x, k).max = own(x, k).min
              /\ own(x, k + 1).max = own(x, k).max
    BY <1>1, BlockStep
  <1>3. pow2[k] \in Nat \ {0}
    BY <1>1, Pow2
  <1>4. peers(x, k).min < peers(x, k).max
    BY <1>2, <1>3
  <1> QED
    BY <1>1, <1>2, <1>4 DEF k, x

\* The ids of a level and of its inverse range.
LEMMA IdsOfLevel ==
    ASSUME IsPart(c), NEW l \in 1 .. c.bitsize
    PROVE  /\ rangeLevel(c, l).err = "ok" <=> within(peers(c.id, l - 1)) # {}
           /\ rangeLevel(c, l).err = "ok" => Ids(rangeLevel(c, l)) = within(peers(c.id, l - 1))
           /\ Ids(rangeLevelInverse(c, l)) = within(own(c.id, l - 1))
  <1> DEFINE n == c.size
             p == peers(c.id, l - 1)
             o == own(c.id, l - 1)
             cut(v) == IF v > n THEN n ELSE v
  <1>1. n \in Nat /\ {p.min, p.max, o.min, o.max} \subseteq Nat /\ p.min < p.max
    BY PartShape, LevelBlocks
  <1>2. rangeLevel(c, l) = IF p.min >= n THEN errEmptyLevel ELSE okRange(p.min, cut(p.max))
    BY Ranges DEF clamp
  <1>3. rangeLevelInverse(c, l) = okRange(o.min, cut(o.max))
    BY Ranges DEF clamp
  <1> HIDE DEF p, o
  <1>4. \A q \in {p, o} : q.min .. (cut(q.max) - 1) = within(q)
    BY <1>1 DEF within
  <1>5. p.min < n <=> within(p) # {}
    <2>1. p.min < n => p.min \in within(p)
      BY <1>1 DEF within
    <2>2. ASSUME NEW j \in within(p) PROVE p.min < n
      BY <1>1 DEF within
    <2> QED
      BY <2>1, <2>2
  <1>6. CASE p.min >= n
    <2>1. rangeLevel(c, l).err = "empty"
      BY <1>2, <1>6 DEF errEmptyLevel
    <2> QED
      BY <1>1, <1>3, <1>4, <1>5, <1>6, <2>1 DEF Ids, okRange, p, o
  <1>7. CASE ~(p.min >= n)
    <2>1. /\ rangeLevel(c, l).err = "ok" /\ rangeLevel(c, l).min = p.min
          /\ rangeLevel(c, l).max = cut(p.max)
      BY <1>2, <1>7 DEF okRange
    <2> QED
      BY <1>1, <1>3, <1>4, <1>5, <1>7, <2>1 DEF Ids, okRange, p, o
  <1> QED
    BY <1>6, <1>7

\* The own block of all bits has the whole registry.
LEMMA OwnWhole ==
    ASSUME IsPart(c)
    PROVE  within(own(c.id, c.bitsize)) = 0 .. c.size - 1
  <1> DEFINE b == c.bitsize
  <1>1. /\ c.id \in Nat /\ b \in Nat /\ c.size \in Nat /\ c.id < c.size
        /\ pow2[b] \in Nat /\ c.size <= pow2[b]
    BY PartShape
  <1>2. 0 * pow2[b] <= c.id /\ c.id < 0 * pow2[b] + pow2[b]
    BY <1>1
  <1>3. prefix(c.id, b) = 0
    BY <1>1, <1>2, PrefixBlock
  <1>4. own(c.id, b) = [min |-> 0, max |-> pow2[b]]
    BY <1>1, <1>3 DEF own, block
  <1> QED
    BY <1>1, <1>4 DEF within

\* The walk begins with nothing covered, at a partitioner of the registry.
LEMMA WalkInit == AInit => WalkOK
  <1>1. ASSUME Visit PROVE WalkOK
    <2>1. IsPart(c)
      BY <1>1, MaxSizeAssumption DEF Visit, IsPart
    <2>2. c.bitsize \in Nat
      BY <2>1, PartShape
    <2> QED
      BY <1>1, <2>1, <2>2 DEF Visit, WalkOK
  <1>2. ASSUME c = NewBinPartitioner(0, 1), level = MaxLevel(c) + 1, covered = {0}
        PROVE  WalkOK
    <2>1. IsPart(c)
      BY <1>2 DEF IsPart
    <2>2. c.bitsize \in Nat /\ MaxLevel(c) = c.bitsize /\ c.size = 1
      BY <1>2, <2>1, PartShape DEF MaxLevel, NewBinPartitioner
    <2>3. level - 1 = c.bitsize /\ level # 0 /\ level \in 0 .. c.bitsize + 1
      BY <1>2, <2>2
    <2>4. within(own(c.id, c.bitsize)) = {0}
      BY <2>1, <2>2, OwnWhole
    <2> QED
      BY <1>2, <2>1, <2>3, <2>4 DEF WalkOK
  <1> QED
    BY <1>1, <1>2 DEF AInit

\* After each level of rangeLevel the walk has covered the ids that share a prefix
\* of the length of this level with the node.
LEMMA WalkStep == WalkOK /\ [ANext]_<<walkVars, input>> => WalkOK'
  <1> SUFFICES ASSUME WalkOK, [ANext]_<<walkVars, input>> PROVE WalkOK'
    OBVIOUS
  <1>1. CASE UNCHANGED walkVars
    BY <1>1 DEF WalkOK, walkVars, within
  <1>2. CASE VisitLevel
    <2>1. /\ IsPart(c) /\ c' = c /\ c.bitsize \in Nat /\ MaxLevel(c) = c.bitsize
          /\ level \in 0 .. c.bitsize /\ level' = level + 1 /\ level' - 1 = level
          /\ c.id \in Nat /\ c.size \in Nat /\ c.id < c.size
      BY <1>2, PartShape DEF VisitLevel, WalkOK, MaxLevel
    <2>2. covered' = within(own(c.id, level))
      <3>1. CASE level = 0
        <4>1. rangeLevel(c, 0) = okRange(c.id, c.id + 1) /\ covered = {}
          BY <2>1, <3>1, Ranges DEF WalkOK
        <4>2. covered' = c.id .. ((c.id + 1) - 1)
          BY <1>2, <3>1, <4>1 DEF VisitLevel, okRange, Ids
        <4>3. own(c.id, 0) = [min |-> c.id, max |-> c.id + 1]
          BY <2>1, OwnIsId
        <4> QED
          BY <2>1, <3>1, <4>2, <4>3 DEF within
      <3>2. CASE level # 0
        <4>1. level \in 1 .. c.bitsize /\ covered = within(own(c.id, level - 1))
          BY <2>1, <3>2 DEF WalkOK
        <4>2. covered' = covered \cup within(peers(c.id, level - 1))
          BY <1>2, <2>1, <4>1, IdsOfLevel DEF VisitLevel
        <4>3. within(own(c.id, level))
                 = within(own(c.id, level - 1)) \cup within(peers(c.id, level - 1))
          <5> DEFINE o == own(c.id, level - 1)
                     p == peers(c.id, level - 1)
                     u == own(c.id, level)
          <5>1. /\ {o.min, o.max, p.min, p.max} \subseteq Nat
                /\ p.min < p.max /\ o.min < o.max
                /\ \/ u.min = o.min /\ o.max = p.min /\ u.max = p.max
                   \/ u.min = p.min /\ p.max = o.min /\ u.max = o.max
            BY <2>1, <4>1, LevelBlocks
          <5> HIDE DEF o, p, u
          <5>2. within(u) = within(o) \cup within(p)
            BY <2>1, <5>1 DEF within
          <5> QED
            BY <5>2 DEF o, p, u
        <4> QED
          BY <4>1, <4>2, <4>3
      <3> QED
        BY <3>1, <3>2
    <2>3. level' \in 0 .. c.bitsize + 1 /\ level' # 0
      BY <2>1
    <2> QED
      BY <2>1, <2>2, <2>3 DEF WalkOK, within
  <1> QED
    BY <1>1, <1>2 DEF ANext, walkVars

\* The walk over the levels of a node, lowest first, has at every level met the ids
\* of the node's own block of that level, in each registry.
THEOREM PartitionerWalk == ASpec => []WalkOK
  BY WalkInit, WalkStep, PTL DEF ASpec

\* The binary search of rangeLevel (partitioner.go:133) finds, for every node of
\* every registry, the ids that share its prefix up to the level, and the levels
\* are a partition of the registry.
THEOREM PartitionerLevels == ASpec => []LevelsPartitionRegistry
  <1>1. WalkOK => LevelsPartitionRegistry
    <2> SUFFICES ASSUME WalkOK PROVE LevelsPartitionRegistry
      OBVIOUS
    <2>1. /\ IsPart(c) /\ c.bitsize \in Nat /\ MaxLevel(c) = c.bitsize
          /\ c.id \in Nat /\ c.size \in Nat /\ c.id < c.size
          /\ level \in 0 .. c.bitsize + 1
      BY PartShape DEF WalkOK, MaxLevel
    <2>2. CASE level = 0
      <3>1. PeersByPrefix(0) = {c.id}
        BY <2>1 DEF PeersByPrefix
      <3>2. rangeLevel(c, 0) = okRange(c.id, c.id + 1) /\ covered = {}
        BY <2>1, <2>2, Ranges DEF WalkOK
      <3>3. rangeLevel(c, 0).err = "ok" /\ Ids(rangeLevel(c, 0)) = {c.id}
        BY <2>1, <3>2 DEF okRange, Ids
      <3>4. RangeIsPrefixSet
        BY <2>2, <3>1, <3>3 DEF RangeIsPrefixSet
      <3> QED
        BY <2>1, <2>2, <3>2, <3>4 DEF LevelsPartitionRegistry
    <2>3. CASE level \in 1 .. c.bitsize
      <3>1. PeersByPrefix(level) = within(peers(c.id, level - 1))
        BY <2>1, <2>3, PeersAreOther
      <3>2. /\ rangeLevel(c, level).err = "ok" <=> within(peers(c.id, level - 1)) # {}
            /\ rangeLevel(c, level).err = "ok"
                  => Ids(rangeLevel(c, level)) = within(peers(c.id, level - 1))
            /\ Ids(rangeLevelInverse(c, level)) = within(own(c.id, level - 1))
        BY <2>1, <2>3, IdsOfLevel
      <3>3. covered = within(own(c.id, level - 1))
        BY <2>1, <2>3 DEF WalkOK
      <3>4. RangeIsPrefixSet
        BY <3>1, <3>2 DEF RangeIsPrefixSet
      <3>5. within(own(c.id, level - 1)) \cap within(peers(c.id, level - 1)) = {}
        <4> DEFINE o == own(c.id, level - 1)
                   p == peers(c.id, level - 1)
        <4>1. /\ {o.min, o.max, p.min, p.max} \subseteq Nat
              /\ o.max = p.min \/ p.max = o.min
          BY <2>1, <2>3, LevelBlocks
        <4> HIDE DEF o, p
        <4>2. within(o) \cap within(p) = {}
          BY <2>1, <4>1 DEF within
        <4> QED
          BY <4>2 DEF o, p
      <3> QED
        BY <2>1, <2>3, <3>1, <3>2, <3>3, <3>4, <3>5 DEF LevelsPartitionRegistry
    <2>4. CASE level = c.bitsize + 1
      <3>1. covered = within(own(c.id, c.bitsize))
        <4>1. level - 1 = c.bitsize /\ level # 0
          BY <2>1, <2>4
        <4> QED
          BY <4>1 DEF WalkOK
      <3>2. covered = 0 .. c.size - 1
        BY <2>1, <3>1, OwnWhole
      <3> QED
        BY <2>1, <2>4, <3>2 DEF LevelsPartitionRegistry, RangeIsPrefixSet
    <2> QED
      BY <2>1, <2>2, <2>3, <2>4
  <1> QED
    BY <1>1, PartitionerWalk, PTL

\* What a node sends at a level is what each of its peers there expects, in every
\* registry: the same range, in which the peer finds the sender.
THEOREM PartitionerPeers == ASpec => []PeersAgreeOnRange
  <1>1. WalkOK => PeersAgreeOnRange
    <2> SUFFICES ASSUME WalkOK, level \in 1 .. MaxLevel(c), NEW j \in PeersByPrefix(level),
                        NEW peer, peer = NewBinPartitioner(j, c.size)
                 PROVE  /\ rangeLevel(peer, level) = rangeLevelInverse(c, level)
                        /\ IndexAtLevel(peer, c.id, level).err = "ok"
                        /\ IdentitiesAt(peer, level).ids
                              [IndexAtLevel(peer, c.id, level).index + 1] = c.id
      BY DEF PeersAgreeOnRange
    <2>1. /\ IsPart(c) /\ c.bitsize \in Nat /\ level \in 1 .. c.bitsize
          /\ c.id \in Nat /\ c.size \in Nat \ {0} /\ c.id < c.size
          /\ c.bitsize = log2(c.size)
      BY PartShape DEF WalkOK, MaxLevel
    <2>2. j \in 0 .. c.size - 1
      BY DEF PeersByPrefix
    <2>3. IsPart(peer) /\ peer.id = j /\ peer.size = c.size /\ peer.bitsize = c.bitsize
      BY <2>1, <2>2 DEF IsPart, NewBinPartitioner
    <2> DEFINE o == own(c.id, level - 1)
               n == c.size
               top == IF o.max > n THEN n ELSE o.max
    <2>4. o.min \in Nat /\ o.max \in Nat /\ o.min <= c.id /\ c.id < o.max
      BY <2>1, LevelBlocks
    <2>5. peers(peer.id, level - 1) = o
      BY <2>1, <2>3, PeersAreOther
    <2>6. rangeLevel(peer, level) = IF peers(peer.id, level - 1).min >= peer.size
                                    THEN errEmptyLevel
                                    ELSE clamp(peer, peers(peer.id, level - 1))
      BY <2>1, <2>3, Ranges
    <2>7. rangeLevelInverse(c, level) = okRange(o.min, top)
      BY <2>1, Ranges DEF clamp
    <2> HIDE DEF o
    <2>8. ~(o.min >= n)
      BY <2>1, <2>4
    <2>9. rangeLevel(peer, level) = okRange(o.min, top)
      BY <2>3, <2>5, <2>6, <2>8 DEF clamp
    <2>10. top \in Nat /\ top <= n /\ o.min <= c.id /\ c.id < top
      BY <2>1, <2>4
    <2> HIDE DEF top
    <2>11. IndexAtLevel(peer, c.id, level) = [err |-> "ok", index |-> c.id - o.min]
      <3>1. c.id \in o.min .. top - 1
        BY <2>1, <2>4, <2>10
      <3> QED
        BY <2>9, <3>1 DEF IndexAtLevel, okRange, Ids
    <2>12. IdentitiesAt(peer, level).ids = [i \in 1 .. (top - o.min) |-> o.min + i - 1]
      <3>1. {o.min, top} \subseteq 0 .. n /\ o.min <= top
        BY <2>1, <2>4, <2>10
      <3> QED
        BY <2>3, <2>9, <3>1 DEF IdentitiesAt, Identities, okRange
    <2>13. (c.id - o.min) + 1 \in 1 .. (top - o.min)
           /\ o.min + ((c.id - o.min) + 1) - 1 = c.id
      BY <2>1, <2>4, <2>10
    <2> QED
      BY <2>7, <2>9, <2>11, <2>12, <2>13
  <1> QED
    BY <1>1, PartitionerWalk, PTL

\* The ranges given to store and processing meet the contract that their theorems
\* assume, in every registry.
THEOREM PartitionerMeetsContract == ASpec => []InterfaceMeetsContract
  <1>1. WalkOK => InterfaceMeetsContract
    BY PartitionerContract DEF WalkOK, InterfaceMeetsContract
  <1> QED
    BY <1>1, PartitionerWalk, PTL

-----------------------------------------------------------------------------
(* The incoming signatures *)

\* All incomingSigs that come out of verifySignature have the shape and the
\* validity Store is entitled to.
LEMMA VerifiedIsGood ==
    ASSUME NEW l \in Part.levels, NEW sp \in Verified(l)
    PROVE  Good(Part, l, sp)
  <1>1. CASE sp \in {IndividualSp(l, i) : i \in 0 .. Part.size[l] - 1}
    <2>1. PICK i \in 0 .. Part.size[l] - 1 : sp = IndividualSp(l, i)
      BY <1>1
    <2> QED
      BY <2>1, PartAssumption, IndividualIsGood DEF Good, IndividualSp, individual
  <1>2. CASE sp \in {MultiSp(l, ms) : ms \in ValidSigs(Part.base[l], Part.size[l])}
    <2>1. PICK ms \in ValidSigs(Part.base[l], Part.size[l]) : sp = MultiSp(l, ms)
      BY <1>2
    <2>2. PICK bits \in (SUBSET (0 .. Part.size[l] - 1)) \ {{}} :
            ms = MS(Part.size[l], bits, [who |-> {Part.base[l] + i : i \in bits}, once |-> TRUE])
      BY <2>1 DEF ValidSigs
    <2>3. {Part.base[l] + i : i \in bits} \subseteq 0 .. Part.n - 1
      BY PartFacts, PartAssumption
    <2>4. ms \in SigsOf(Part, Part.size[l])
      BY <2>2, <2>3 DEF SigsOf, MS
    <2>5. Verifies(ms, Part.base[l], Part.size[l])
      <3>1. /\ ms.len = Part.size[l] /\ ms.bits = bits /\ ms.sig.once = TRUE
            /\ ms.sig.who = {Part.base[l] + i : i \in bits}
        BY <2>2 DEF MS
      <3> QED
        BY <3>1, <2>2 DEF Verifies
    <2> QED
      BY <2>1, <2>4, <2>5 DEF Good, MultiSp
  <1> QED
    BY <1>1, <1>2 DEF Verified

\* The node's own signature is the individual signature at index 0 of level 0.
LEMMA OwnSigIsGood == Good(Part, 0, OwnSig)
  <1>1. Part.base[0] + 0 = Part.base[0] /\ Part.size[0] = 1 /\ 0 \in Part.levels
    BY PartFacts, PartAssumption
  <1>2. OwnSig.ms = individual(Part, 0, 0)
    BY <1>1 DEF OwnSig, individual
  <1> QED
    BY <1>1, <1>2, PartAssumption, IndividualIsGood DEF Good, OwnSig

-----------------------------------------------------------------------------
(* The theorems *)

\* And so is the one NewHandel starts with, which has the node's own signature.
LEMMA InitIsSound == Init => Sound(Part, st)
  <1>1. Init => Sound(Part, Store(NewStore(Part), OwnSig))
    BY NewStoreIsSound, OwnSigIsGood, PartFacts, StoreStep, PartAssumption
  <1> QED
    BY <1>1 DEF Init

\* A step of the store preserves the inductive invariant, and the best
\* signatures of a level only grow.
LEMMA NextIsSound == Sound(Part, st) /\ [Next]_st => Sound(Part, st') /\ Grows(st, st')
  <1> SUFFICES ASSUME Sound(Part, st), [Next]_st PROVE Sound(Part, st') /\ Grows(st, st')
    OBVIOUS
  <1>1. CASE Next
    <2>1. PICK l \in RecvLevels : StoreVerified(l)
      BY <1>1 DEF Next
    <2>2. PICK sp \in Verified(l) : st' = Store(st, sp)
      BY <2>1 DEF StoreVerified
    <2>3. l \in Part.levels
      BY DEF RecvLevels
    <2>4. Good(Part, l, sp)
      BY <2>3, VerifiedIsGood
    <2> QED
      BY <2>2, <2>3, <2>4, StoreStep, PartAssumption
  <1>2. CASE UNCHANGED st
    BY <1>2 DEF Grows, HasBest
  <1> QED
    BY <1>1, <1>2

\* Sound(Part, st) is an invariant of the store.
THEOREM StoreInvariant == Spec => []Sound(Part, st)
  <1>1. Init => Sound(Part, st)
    BY InitIsSound
  <1>2. Sound(Part, st) /\ [Next]_st => Sound(Part, st)'
    BY NextIsSound
  <1> QED
    BY <1>1, <1>2, PTL DEF Spec

\* The store keeps the shape of its struct.
THEOREM StoreTypeOK == Spec => []TypeOK
  <1>1. Sound(Part, st) => TypeOK
    BY DEF Sound, MapsOK, TypeOK, Sigs, SigsOf
  <1> QED
    BY <1>1, StoreInvariant, PTL

\* Every signature in the store verifies against the keys of its bits: merging
\* and complementing with individual signatures never counts one twice.
THEOREM StoreValidity == Spec => []StoredSigsVerify
  <1>1. Sound(Part, st) => StoredSigsVerify
    BY DEF Sound, MapsOK, StoredSigsVerify
  <1> QED
    BY <1>1, StoreInvariant, PTL

\* Individual signatures marked verified are the ones in the map.
THEOREM StoreKeepsIndividuals == Spec => []IndividualsKept
  <1>1. Sound(Part, st) => IndividualsKept
    BY DEF Sound, MapsOK, IndividualsKept, IndividualSp, individual
  <1> QED
    BY <1>1, StoreInvariant, PTL

\* An individually verified contribution never leaves the level's best
\* signature, whichever signatures are stored after it.
THEOREM StoreCoversIndividuals == Spec => []IndividualsCovered
  <1>1. Sound(Part, st) => IndividualsCovered
    BY DEF Sound, Covers, IndividualsCovered, HasBest
  <1> QED
    BY <1>1, StoreInvariant, PTL

\* The best signature of a level is only replaced by a strictly larger one.
THEOREM StoreMonotonic == Spec => BestOnlyGrows
  <1>1. Sound(Part, st) /\ [Next]_st =>
           [\A l \in DOMAIN st.m :
               /\ HasBest(st', l)
               /\ st'.m[l] # st.m[l] => card(st'.m[l]) > card(st.m[l])]_st
    BY NextIsSound DEF Grows
  <1> QED
    BY <1>1, StoreInvariant, PTL DEF Spec, BestOnlyGrows

\* Storing the node's own signature in a new store keeps it.
LEMMA InitKeepsOwn == Init => OwnKept(st)
  BY FirstStore, OwnSigIsGood, PartAssumption DEF Init

\* The store always has the node's own signature.
THEOREM StoreKeepsOwn == Spec => []OwnKept(st)
  <1>1. Sound(Part, st) /\ OwnKept(st) /\ [Next]_st => OwnKept(st)'
    BY NextIsSound DEF Grows, HasBest, OwnKept
  <1> QED
    BY <1>1, InitKeepsOwn, StoreInvariant, PTL DEF Spec

\* What a node sends verifies at its peers, and what it puts out verifies
\* against the registry.
LEMMA SoundAggregates == Sound(Part, st) /\ OwnKept(st) => AggregatesVerify
  <1> SUFFICES ASSUME Sound(Part, st), OwnKept(st) PROVE AggregatesVerify
    OBVIOUS
  <1>1. CombinedVerifies
    BY PartAssumption, CombinedIsValid DEF CombinedVerifies, RecvLevels
  <1>2. FullSignatureVerifies
    BY PartAssumption, FullSignatureIs DEF FullSignatureVerifies
  <1> QED
    BY <1>1, <1>2 DEF AggregatesVerify

\* The aggregates of the store verify where they go, in every state.
THEOREM StoreAggregates == Spec => []AggregatesVerify
  BY SoundAggregates, StoreInvariant, StoreKeepsOwn, PTL

-----------------------------------------------------------------------------
(* The panics *)

\* No panic is reachable from a sound store.
LEMMA SoundNeverPanics == Sound(Part, st) /\ OwnKept(st) => NeverPanics
  <1> SUFFICES ASSUME Sound(Part, st), OwnKept(st) PROVE NeverPanics
    OBVIOUS
  <1>1. ASSUME NEW l \in RecvLevels, NEW sp \in Verified(l) PROVE ~StorePanics(st, sp)
    <2>1. l \in Part.levels
      BY DEF RecvLevels
    <2> QED
      BY <2>1, VerifiedIsGood, StoreDoesNotPanic, PartAssumption
  <1>2. ASSUME NEW l \in RecvLevels PROVE ~CombinedPanics(Part, st, l - 1)
    <2> DEFINE sigs == UpTo(st, l - 1)
    <2>1. \A k \in DOMAIN sigs : k \in Part.levels /\ k < l
      BY CombinedIs, PartAssumption DEF LevelSigs, RecvLevels
    <2>2. \A k \in DOMAIN sigs :
             /\ Part.invBase[l] <= Part.base[k]
             /\ Part.base[k] + Part.size[k] <= Part.invBase[l] + Part.invSize[l]
      BY <2>1, PartAssumption DEF Contract, RecvLevels
    <2>3. ~combinePanics(sigs, Part.invSize[l], Offsets(Part, sigs, Part.invBase[l]))
      BY <2>2, CombinedIs, CombineInBounds, PartAssumption DEF RecvLevels
    <2> QED
      BY <2>3, CombinedIs, PartAssumption DEF CombinedPanics, RecvLevels
  <1>3. ~combinePanics(st.m, Part.n, Offsets(Part, st.m, 0))
    <2>1. LevelSigs(Part, st.m)
      BY DEF LevelSigs, Sound, MapsOK
    <2>2. \A k \in DOMAIN st.m : 0 <= Part.base[k] /\ Part.base[k] + Part.size[k] <= 0 + Part.n
      BY <2>1, PartFacts, PartAssumption DEF LevelSigs
    <2> QED
      BY <2>1, <2>2, CombineInBounds, PartFacts, PartAssumption
  <1> QED
    BY <1>1, <1>2, <1>3 DEF NeverPanics

\* The panics of store.go and of the bitsets are unreachable, for any sequence
\* of verified signatures and every level Handel combines for.
THEOREM StoreNeverPanics == Spec => []NeverPanics
  BY SoundNeverPanics, StoreInvariant, StoreKeepsOwn, PTL

-----------------------------------------------------------------------------
(* The scores of Evaluate *)

\* Evaluate (store.go:101) never panics on a negative score, and what it discards
\* or puts last is what would not enlarge a level, in a registry whose levels fit
\* the constants of the scores.
THEOREM StoreScores == ScoresFit(Part) => (Spec => []EvaluatePredictsStore)
  <1> SUFFICES ASSUME ScoresFit(Part) PROVE Spec => []EvaluatePredictsStore
    OBVIOUS
  <1>1. \A s, l : BestSize(s, l) = SizeAt(s, l)
    BY DEF BestSize, SizeAt
  <1>2. Sound(Part, st) => EvaluatePredictsStore
    BY <1>1, ScorePredicts, VerifiedIsGood, PartAssumption DEF EvaluatePredictsStore, RecvLevels
  <1> QED
    BY <1>2, StoreInvariant, PTL

-----------------------------------------------------------------------------
(* Overlay *)


\* What a table of the turns of node i is.
Turns(t, i, n, max, failing) ==
    t = [chosen \in 0 .. max |->
           IF chosen = 0 THEN [baseID |-> i, firstLoop |-> FALSE, connected |-> {}, panic |-> FALSE]
           ELSE choose(t[chosen - 1], i, n, chosen \in failing)]

\* There is one.
LEMMA TurnsExist == \A i, n, failing : \A max \in Nat : \E t : Turns(t, i, n, max, failing)
  <1> TAKE i, n, failing
  <1> DEFINE start == [baseID |-> i, firstLoop |-> FALSE, connected |-> {}, panic |-> FALSE]
             T == {max \in Nat : \E t : Turns(t, i, n, max, failing)}
  <1>1. 0 \in T
    <2> DEFINE t == [chosen \in 0 .. 0 |-> start]
    <2>1. \A chosen \in 0 .. 0 : chosen = 0
      OBVIOUS
    <2> HIDE DEF start
    <2>2. t = [chosen \in 0 .. 0 |-> IF chosen = 0 THEN start ELSE choose(t[chosen - 1], i, n, chosen \in failing)]
      BY <2>1
    <2>3. Turns(t, i, n, 0, failing)
      <3> HIDE DEF t
      <3> QED
        BY <2>2 DEF Turns, start
    <2> QED
      BY <2>3
  <1>2. ASSUME NEW max \in Nat, max \in T PROVE max + 1 \in T
    <2>1. PICK t : Turns(t, i, n, max, failing)
      BY <1>2
    <2> HIDE DEF start
    <2>2. \A j \in 0 .. max : t[j] = IF j = 0 THEN start ELSE choose(t[j - 1], i, n, j \in failing)
      BY <2>1 DEF Turns, start
    <2> DEFINE u == [j \in 0 .. max + 1 |->
                 IF j = max + 1 THEN choose(t[max], i, n, j \in failing) ELSE t[j]]
    <2>3. ASSUME NEW j \in 0 .. max + 1
          PROVE  u[j] = IF j = 0 THEN start ELSE choose(u[j - 1], i, n, j \in failing)
      <3>1. CASE j = max + 1
        <4>1. j # 0 /\ j - 1 = max /\ max \in 0 .. max + 1 /\ max # max + 1 /\ max + 1 \in 0 .. max + 1
          BY <3>1
        <4> QED
          BY <3>1, <4>1
      <3>2. CASE j # max + 1
        <4>1. j \in 0 .. max /\ (j # 0 => j - 1 \in 0 .. max + 1 /\ j - 1 # max + 1)
          BY <3>2
        <4> QED
          BY <2>2, <3>2, <4>1
      <3> QED
        BY <3>1, <3>2
    <2>4. u = [j \in 0 .. max + 1 |-> u[j]]
      OBVIOUS
    <2> HIDE DEF u
    <2>5. u = [j \in 0 .. max + 1 |-> IF j = 0 THEN start ELSE choose(u[j - 1], i, n, j \in failing)]
      BY <2>3, <2>4
    <2>6. Turns(u, i, n, max + 1, failing)
      BY <2>5 DEF Turns, start
    <2> QED
      BY <2>6
  <1>3. Nat \subseteq T
    <2> HIDE DEF T
    <2> QED
      BY <1>1, <1>2, SetInduction
  <1> QED
    BY <1>3

\* The type of a walk.
WalkType == [baseID : Nat, firstLoop : BOOLEAN, connected : SUBSET Nat, panic : BOOLEAN]

\* The ids before the end of the registry that node i meets, and the first b of
\* those behind it.
Before(i, n) == i + 1 .. n - 1
Behind(i, b) == (0 .. b - 1) \ {i}

\* Where the walk of node i is when it has left j ids behind, itself included: on its
\* way to the end of the registry, behind the end, or at the end for the second time.
WalkAt(p, i, n, j) ==
    /\ p \in WalkType
    /\ p.panic => p.firstLoop /\ j = (2 * n) - i
    /\ ~p.firstLoop => /\ j <= n - i /\ p.baseID = i + j
                       /\ p.connected = i + 1 .. (i + j) - 1
    /\ p.firstLoop => /\ j >= n - i /\ j <= (2 * n) - i /\ p.baseID = j - (n - i)
                      /\ p.connected = Before(i, n) \cup Behind(i, j - (n - i))

\* The wrap at the end of the registry leaves the walk where it is.
LEMMA WrapStays ==
    ASSUME NEW n \in Nat, n > 0, NEW i \in 0 .. n - 1, NEW j \in Nat, NEW p, WalkAt(p, i, n, j),
           NEW q, q = wrap(p, n)
    PROVE  WalkAt(q, i, n, j) /\ (p.panic => q.panic) /\ (q.baseID = n => q.panic)
  <1>1. /\ p \in WalkType /\ q \in WalkType /\ q.connected = p.connected
        /\ p.baseID # n => q = p
        /\ p.baseID = n /\ ~p.firstLoop => q.baseID = 0 /\ q.firstLoop /\ q.panic = p.panic
        /\ p.baseID = n /\ p.firstLoop => q.panic /\ q.firstLoop /\ q.baseID = n
        /\ p.panic => q.panic
    BY DEF wrap, WalkType, WalkAt
  <1>2. CASE p.baseID # n
    BY <1>1, <1>2
  <1>3. CASE p.baseID = n /\ ~p.firstLoop
    <2>1. ~p.panic /\ i + j = n /\ p.connected = i + 1 .. (i + j) - 1
      BY <1>3 DEF WalkAt
    <2>2. ~q.panic /\ q.firstLoop /\ q.baseID = 0
      BY <1>1, <1>3, <2>1
    <2>3. j >= n - i /\ j <= (2 * n) - i /\ j - (n - i) = 0 /\ 0 # n
      BY <2>1
    <2>4. q.connected = Before(i, n) \cup Behind(i, 0)
      BY <1>1, <2>1 DEF Before, Behind
    <2> QED
      BY <1>1, <2>1, <2>2, <2>3, <2>4 DEF WalkAt
  <1>4. CASE p.baseID = n /\ p.firstLoop
    <2>1. q.panic /\ q.firstLoop /\ q.baseID = n
      BY <1>1, <1>4
    <2>2. /\ j >= n - i /\ j <= (2 * n) - i /\ n = j - (n - i)
          /\ p.connected = Before(i, n) \cup Behind(i, j - (n - i))
      BY <1>4 DEF WalkAt
    <2>3. j = (2 * n) - i
      BY <2>2
    <2> QED
      BY <1>1, <2>1, <2>2, <2>3 DEF WalkAt
  <1> QED
    BY <1>2, <1>3, <1>4

\* One turn more: the walk panics, tries the same id again, or goes on.
LEMMA TurnStep ==
    ASSUME NEW n \in Nat, n > 0, NEW i \in 0 .. n - 1, NEW j \in Nat, NEW p, WalkAt(p, i, n, j),
           NEW fails \in BOOLEAN, NEW r, r = choose(p, i, n, fails)
    PROVE  \/ WalkAt(r, i, n, j) /\ r.panic
           \/ WalkAt(r, i, n, j) /\ fails /\ ~p.panic /\ ~r.panic
           \/ WalkAt(r, i, n, j + 1) /\ ~p.panic /\ ~r.panic
  <1> DEFINE q == wrap(p, n)
             peer == IF q.baseID = i THEN {} ELSE {q.baseID}
  <1>1. WalkAt(q, i, n, j) /\ (p.panic => q.panic) /\ (q.baseID = n => q.panic)
    BY WrapStays
  <1>2. r = IF q.panic \/ (fails /\ peer # {}) THEN q
            ELSE [q EXCEPT !.connected = @ \cup peer, !.baseID = @ + 1]
    BY DEF choose
  <1> HIDE DEF q
  <1>3. q \in WalkType /\ q.baseID \in Nat /\ peer \in SUBSET Nat
    BY <1>1 DEF WalkAt, WalkType
  <1>4. CASE q.panic
    BY <1>1, <1>2, <1>4
  <1>5. CASE ~q.panic /\ fails /\ peer # {}
    BY <1>1, <1>2, <1>5
  <1>6. CASE ~q.panic /\ ~(fails /\ peer # {})
    <2>1. r = [q EXCEPT !.connected = @ \cup peer, !.baseID = @ + 1]
      BY <1>2, <1>6
    <2> HIDE DEF peer
    <2>2. /\ r \in WalkType /\ r.baseID = q.baseID + 1 /\ r.connected = q.connected \cup peer
          /\ r.panic = q.panic /\ r.firstLoop = q.firstLoop
      <3> DEFINE e == [q EXCEPT !.connected = q.connected \cup peer]
      <3>1. /\ e \in WalkType /\ e.connected = q.connected \cup peer /\ e.baseID = q.baseID
            /\ e.panic = q.panic /\ e.firstLoop = q.firstLoop
        BY <1>3 DEF WalkType
      <3>2. r = [e EXCEPT !.baseID = q.baseID + 1]
        BY <2>1
      <3> HIDE DEF e
      <3>3. /\ r \in WalkType /\ r.baseID = q.baseID + 1 /\ r.connected = e.connected
            /\ r.panic = e.panic /\ r.firstLoop = e.firstLoop
        BY <1>3, <3>1, <3>2 DEF WalkType
      <3> QED
        BY <3>1, <3>3
    <2>3. ~r.panic /\ ~p.panic /\ q.baseID # n
      BY <1>1, <1>6, <2>2
    <2>4. CASE ~q.firstLoop
      <3>1. j <= n - i /\ q.baseID = i + j /\ q.connected = i + 1 .. (i + j) - 1
        BY <1>1, <2>4 DEF WalkAt
      <3>2. j + 1 <= n - i /\ i + (j + 1) = (i + j) + 1
        BY <2>3, <3>1
      <3>3. (i + 1 .. (i + j) - 1) \cup (IF i + j = i THEN {} ELSE {i + j})
               = i + 1 .. (i + (j + 1)) - 1
        OBVIOUS
      <3>4. r.connected = i + 1 .. (i + (j + 1)) - 1 /\ r.baseID = i + (j + 1)
        BY <2>2, <3>1, <3>2, <3>3 DEF peer
      <3>5. ~r.firstLoop
        BY <2>2, <2>4
      <3> QED
        BY <2>2, <2>3, <3>2, <3>4, <3>5 DEF WalkAt
    <2>5. CASE q.firstLoop
      <3> DEFINE d == j - (n - i)
      <3>1. /\ j >= n - i /\ j <= (2 * n) - i /\ q.baseID = d
            /\ q.connected = Before(i, n) \cup Behind(i, d)
        BY <1>1, <2>5 DEF WalkAt
      <3>2. d \in Nat /\ d # n /\ j + 1 >= n - i /\ j + 1 <= (2 * n) - i /\ (j + 1) - (n - i) = d + 1
        BY <2>3, <3>1
      <3>3. Behind(i, d) \cup (IF d = i THEN {} ELSE {d}) = Behind(i, d + 1)
        BY <3>2 DEF Behind
      <3> HIDE DEF d
      <3>4. r.connected = Before(i, n) \cup Behind(i, d + 1) /\ r.baseID = d + 1
        BY <2>2, <3>1, <3>3 DEF peer
      <3>5. r.firstLoop
        BY <2>2, <2>5
      <3> QED
        BY <2>2, <2>3, <3>2, <3>4, <3>5 DEF WalkAt
    <2> QED
      BY <2>4, <2>5
  <1> QED
    BY <1>4, <1>5, <1>6

\* How many of the first t turns fail.
Failed(failing, t) == Cardinality({u \in failing : u <= t})

\* One turn more fails, or does not.
LEMMA FailedCounts ==
    ASSUME NEW max \in Nat, NEW failing \in SUBSET (1 .. max)
    PROVE  /\ Failed(failing, 0) = 0 /\ Failed(failing, max) = Cardinality(failing)
           /\ \A t \in Nat :
                /\ Failed(failing, t) \in Nat /\ Failed(failing, t) <= Failed(failing, t + 1)
                /\ t + 1 \in failing => Failed(failing, t + 1) = Failed(failing, t) + 1
  <1>1. \A u \in failing : u \in Int /\ u >= 1 /\ u <= max
    OBVIOUS
  <1>2. IsFiniteSet(failing)
    <2>1. IsFiniteSet(1 .. max)
      BY FS_Interval
    <2> QED
      BY <2>1, FS_Subset
  <1>3. ASSUME NEW t \in Nat
        PROVE  /\ Failed(failing, t) \in Nat /\ Failed(failing, t) <= Failed(failing, t + 1)
               /\ t + 1 \in failing => Failed(failing, t + 1) = Failed(failing, t) + 1
    <2> DEFINE A1 == {u \in failing : u <= t}
               A2 == {u \in failing : u <= t + 1}
    <2>1. IsFiniteSet(A1) /\ t + 1 \notin A1
      BY <1>2, FS_Subset
    <2>2. A2 = IF t + 1 \in failing THEN A1 \cup {t + 1} ELSE A1
      <3>1. \A u \in failing : u <= t + 1 <=> u <= t \/ u = t + 1
        BY <1>1
      <3> QED
        BY <3>1
    <2> HIDE DEF A1, A2
    <2>3. Cardinality(A1) \in Nat /\ Cardinality(A1 \cup {t + 1}) = Cardinality(A1) + 1
      BY <2>1, FS_AddElement, FS_CardinalityType
    <2>4. Failed(failing, t) = Cardinality(A1) /\ Failed(failing, t + 1) = Cardinality(A2)
      BY DEF Failed, A1, A2
    <2> QED
      BY <2>2, <2>3, <2>4
  <1>4. {u \in failing : u <= 0} = {} /\ {u \in failing : u <= max} = failing
    <2>1. \A u \in failing : ~(u <= 0) /\ u <= max
      BY <1>1
    <2> QED
      BY <2>1
  <1> QED
    BY <1>3, <1>4, FS_EmptySet DEF Failed

\* The walk of node i after t turns: it has left j ids behind, and wasted no turn but
\* those that failed, unless it has panicked.
Walk(p, i, n, failing, t, j) ==
    /\ j <= t /\ WalkAt(p, i, n, j)
    /\ p.panic => t > (2 * n) - i
    /\ ~p.panic => t <= j + Failed(failing, t)

\* Where the walk of node i ends.
LEMMA WalkEnds ==
    ASSUME NEW n \in Nat, n > 0, NEW i \in 0 .. n - 1, NEW max \in Nat, NEW failing \in SUBSET (1 .. max)
    PROVE  \E j \in Nat : Walk(neighborConnect(i, n, max, failing), i, n, failing, max, j)
  <1> DEFINE turn == CHOOSE t : Turns(t, i, n, max, failing)
             start == [baseID |-> i, firstLoop |-> FALSE, connected |-> {}, panic |-> FALSE]
  <1>1. neighborConnect(i, n, max, failing) = turn[max]
    BY DEF neighborConnect, Turns
  <1>2. Turns(turn, i, n, max, failing)
    BY TurnsExist
  <1> HIDE DEF turn
  <1>3. turn[0] = start /\ \A t \in 1 .. max : turn[t] = choose(turn[t - 1], i, n, t \in failing)
    <2> HIDE DEF start
    <2>1. turn = [chosen \in 0 .. max |->
                    IF chosen = 0 THEN start ELSE choose(turn[chosen - 1], i, n, chosen \in failing)]
      BY <1>2 DEF Turns, start
    <2>2. 0 \in 0 .. max /\ \A t \in 1 .. max : t \in 0 .. max /\ t # 0
      OBVIOUS
    <2>3. turn[0] = start
      BY <2>1, <2>2
    <2>4. \A t \in 1 .. max : turn[t] = choose(turn[t - 1], i, n, t \in failing)
      BY <2>1, <2>2
    <2> QED
      BY <2>3, <2>4
  <1>4. Walk(start, i, n, failing, 0, 0)
    <2>1. i + 0 = i /\ 0 <= n - i /\ i + 1 .. (i + 0) - 1 = {} /\ i \in Nat /\ 0 <= 0 + 0
      OBVIOUS
    <2>2. start \in WalkType /\ start.baseID = i /\ start.connected = {}
      BY <2>1 DEF WalkType
    <2>3. ~start.firstLoop /\ ~start.panic
      OBVIOUS
    <2> HIDE DEF start
    <2>4. WalkAt(start, i, n, 0)
      BY <2>1, <2>2, <2>3 DEF WalkAt
    <2> QED
      BY <2>1, <2>3, <2>4, FailedCounts DEF Walk
  <1> HIDE DEF start
  <1> DEFINE T == {t \in Nat : t <= max => \E j \in Nat : Walk(turn[t], i, n, failing, t, j)}
  <1>5. Nat \subseteq T
    <2>1. 0 \in T
      BY <1>3, <1>4
    <2>2. ASSUME NEW t \in Nat, t \in T PROVE t + 1 \in T
      <3> SUFFICES ASSUME t + 1 <= max
                   PROVE  \E j \in Nat : Walk(turn[t + 1], i, n, failing, t + 1, j)
        OBVIOUS
      <3>1. t + 1 \in 1 .. max /\ (t + 1) - 1 = t /\ t <= max
        OBVIOUS
      <3>2. PICK j \in Nat : Walk(turn[t], i, n, failing, t, j)
        BY <2>2, <3>1
      <3> DEFINE p == turn[t]
                 r == turn[t + 1]
                 fails == t + 1 \in failing
      <3>3. r = choose(p, i, n, fails)
        BY <1>3, <3>1
      <3>4. fails \in BOOLEAN
        OBVIOUS
      <3>5. /\ Failed(failing, t) \in Nat /\ Failed(failing, t + 1) \in Nat
            /\ Failed(failing, t) <= Failed(failing, t + 1)
            /\ fails => Failed(failing, t + 1) = Failed(failing, t) + 1
        BY FailedCounts
      <3> HIDE DEF p, r, fails
      <3>6. /\ j <= t /\ WalkAt(p, i, n, j) /\ (p.panic => t > (2 * n) - i)
            /\ ~p.panic => t <= j + Failed(failing, t)
        BY <3>2 DEF Walk, p
      <3>7. \/ WalkAt(r, i, n, j) /\ r.panic
            \/ WalkAt(r, i, n, j) /\ fails /\ ~p.panic /\ ~r.panic
            \/ WalkAt(r, i, n, j + 1) /\ ~p.panic /\ ~r.panic
        BY <3>3, <3>4, <3>6, TurnStep
      <3>8. CASE WalkAt(r, i, n, j) /\ r.panic
        <4>1. j = (2 * n) - i
          BY <3>8 DEF WalkAt
        <4>2. j <= t + 1 /\ t + 1 > (2 * n) - i
          BY <3>6, <4>1
        <4> QED
          BY <3>8, <4>2 DEF Walk, r
      <3>9. CASE WalkAt(r, i, n, j) /\ fails /\ ~p.panic /\ ~r.panic
        <4>1. j <= t + 1 /\ t + 1 <= j + Failed(failing, t + 1)
          BY <3>5, <3>6, <3>9
        <4> QED
          BY <3>9, <4>1 DEF Walk, r
      <3>10. CASE WalkAt(r, i, n, j + 1) /\ ~p.panic /\ ~r.panic
        <4>1. j + 1 \in Nat /\ j + 1 <= t + 1 /\ t + 1 <= (j + 1) + Failed(failing, t + 1)
          BY <3>5, <3>6, <3>10
        <4> QED
          BY <3>10, <4>1 DEF Walk, r
      <3> QED
        BY <3>7, <3>8, <3>9, <3>10
    <2> HIDE DEF T
    <2> QED
      BY <2>1, <2>2, SetInduction
  <1> QED
    BY <1>1, <1>5

\* How far y is from x on the way through the registry.
Ahead(n, x, y) == IF y > x THEN y - x ELSE (y + n) - x

\* The ids at a distance of at most f are the next f ones.
LEMMA NextOnes ==
    ASSUME NEW n \in Nat, n > 0, NEW x \in 0 .. n - 1, NEW f \in 0 .. n - 1
    PROVE  {(x + k) % n : k \in 1 .. f} = {y \in 0 .. n - 1 : Ahead(n, x, y) <= f}
  <1>1. ASSUME NEW k \in 1 .. f
        PROVE  (x + k) % n \in 0 .. n - 1 /\ Ahead(n, x, (x + k) % n) <= f
    <2>1. x + k \in Nat /\ x + k < 2 * n
      OBVIOUS
    <2>2. (x + k) % n = IF x + k < n THEN x + k ELSE (x + k) - n
      BY <2>1
    <2> QED
      BY <2>1, <2>2 DEF Ahead
  <1>2. ASSUME NEW y \in 0 .. n - 1, Ahead(n, x, y) <= f
        PROVE  \E k \in 1 .. f : y = (x + k) % n
    <2> DEFINE k == Ahead(n, x, y)
    <2>1. k \in 1 .. f /\ x + k \in Nat /\ x + k < 2 * n
          /\ y = IF x + k < n THEN x + k ELSE (x + k) - n
      BY <1>2 DEF Ahead
    <2> HIDE DEF k
    <2>2. (x + k) % n = IF x + k < n THEN x + k ELSE (x + k) - n
      BY <2>1
    <2> QED
      BY <2>1, <2>2
  <1> QED
    BY <1>1, <1>2

\* How many others a node connects to that leaves j ids behind, itself included.
Fewer(n, j) == IF j = 0 THEN 0 ELSE IF j < n THEN j - 1 ELSE n - 1

\* To whom node x connects.
LEMMA WalkConnects ==
    ASSUME NEW n \in Nat, n > 0, NEW x \in 0 .. n - 1, NEW j \in Nat, NEW p, WalkAt(p, x, n, j)
    PROVE  p.connected = {y \in 0 .. n - 1 : Ahead(n, x, y) <= Fewer(n, j)}
  <1>1. CASE ~p.firstLoop
    <2>1. j <= n - x /\ p.connected = x + 1 .. (x + j) - 1
      BY <1>1 DEF WalkAt
    <2>2. \A y : y \in x + 1 .. (x + j) - 1
                   <=> y \in 0 .. n - 1 /\ Ahead(n, x, y) <= Fewer(n, j)
      BY <2>1 DEF Ahead, Fewer
    <2> QED
      BY <2>1, <2>2
  <1>2. CASE p.firstLoop
    <2>1. /\ j >= n - x /\ j <= (2 * n) - x
          /\ p.connected = Before(x, n) \cup Behind(x, j - (n - x))
      BY <1>2 DEF WalkAt
    <2>2. \A y : y \in Before(x, n) \cup Behind(x, j - (n - x))
                   <=> y \in 0 .. n - 1 /\ Ahead(n, x, y) <= Fewer(n, j)
      BY <2>1 DEF Ahead, Fewer, Before, Behind
    <2> QED
      BY <2>1, <2>2
  <1> QED
    BY <1>1, <1>2

\* Every node is connected to the next one.
Ring(n, connected) == \A x, y \in 0 .. n - 1 : Ahead(n, x, y) = 1 /\ x # y => y \in connected[x]

\* No member of a group is connected to anybody outside it.
ClosedGroup(group, connected) == \A x \in group : connected[x] \subseteq group

\* In a ring of two or more nodes, each connected to the next one, a group that
\* connects to nobody outside it is everybody.
LEMMA RingIsConnected ==
    ASSUME NEW n \in Nat, n > 0, NEW connected,
           Ring(n, connected), NEW group \in SUBSET (0 .. n - 1), group # {}, ClosedGroup(group, connected)
    PROVE  group = 0 .. n - 1
  <1> DEFINE S == 0 .. n - 1
  <1>1. PICK x \in group : x \in S
    OBVIOUS
  <1> DEFINE T == {k \in Nat : \A y \in S : Ahead(n, x, y) <= k => y \in group}
  <1>2. 0 \in T
    <2>1. \A y \in S : ~(Ahead(n, x, y) <= 0)
      BY <1>1 DEF Ahead
    <2> QED
      BY <2>1
  <1>3. ASSUME NEW k \in Nat, k \in T PROVE k + 1 \in T
    <2> SUFFICES ASSUME NEW y \in S, Ahead(n, x, y) <= k + 1 PROVE y \in group
      OBVIOUS
    <2> DEFINE z == IF y = 0 THEN n - 1 ELSE y - 1
    <2>1. CASE Ahead(n, x, y) <= k
      BY <1>3, <2>1
    <2>2. CASE y = x
      BY <1>1, <2>2
    <2>3. CASE Ahead(n, x, y) = k + 1 /\ y # x
      <3>1. z \in S /\ Ahead(n, z, y) = 1 /\ z # y /\ (z = x \/ Ahead(n, x, z) <= k)
        BY <1>1, <2>3 DEF Ahead
      <3> HIDE DEF z
      <3>2. z \in group
        BY <1>1, <1>3, <3>1
      <3>3. y \in connected[z]
        BY <3>1 DEF Ring
      <3> QED
        BY <3>2, <3>3 DEF ClosedGroup
    <2>4. Ahead(n, x, y) \in Int
      BY <1>1 DEF Ahead
    <2> QED
      BY <2>1, <2>2, <2>3, <2>4
  <1>4. Nat \subseteq T
    <2> HIDE DEF T
    <2> QED
      BY <1>2, <1>3, SetInduction
  <1>5. ASSUME NEW y \in S PROVE y \in group
    <2>1. Ahead(n, x, y) <= n
      BY <1>1 DEF Ahead
    <2>2. n \in T
      BY <1>4
    <2> QED
      BY <2>1, <2>2
  <1> QED
    BY <1>5

\* The overlay of n nodes that ask for `count` connections each, some of which fail.
LEMMA OverlayIs ==
    ASSUME NEW n \in Nat, n > 0, NEW count \in Nat, NEW failing
    PROVE  LET o == Overlay(n, count, failing)
               ids == 0 .. n - 1
               failed(i) == Cardinality(failingOf(i, count, failing))
           IN  /\ \A i \in ids :
                    /\ o[i].panic => count > (2 * n) - i
                    /\ count > ((2 * n) - i) + failed(i) => o[i].panic
                    /\ \E k \in 0 .. n - 1 :
                         /\ o[i].connected = {(i + j) % n : j \in 1 .. k}
                         /\ k = n - 1 \/ k + 1 + failed(i) >= count
               /\ (\A i \in ids : count > 1 + failed(i)) =>
                    \A group \in (SUBSET ids) \ {{}} :
                      (\A i \in group : o[i].connected \subseteq group) => group = ids
  <1> DEFINE o == Overlay(n, count, failing)
             ids == 0 .. n - 1
             failed(i) == Cardinality(failingOf(i, count, failing))
  <1>1. ASSUME NEW i \in ids
        PROVE  \E j \in Nat : Walk(o[i], i, n, failingOf(i, count, failing), count, j)
    <2>1. failingOf(i, count, failing) \in SUBSET (1 .. count)
      BY DEF failingOf
    <2>2. o[i] = neighborConnect(i, n, count, failingOf(i, count, failing))
      BY DEF Overlay
    <2> QED
      BY <2>1, <2>2, WalkEnds
  <1>2. ASSUME NEW i \in ids
        PROVE  /\ failed(i) \in Nat /\ Failed(failingOf(i, count, failing), count) = failed(i)
    <2>1. failingOf(i, count, failing) \in SUBSET (1 .. count)
      BY DEF failingOf
    <2> QED
      BY <2>1, FailedCounts
  <1> HIDE DEF o, failed
  <1>3. ASSUME NEW i \in ids
        PROVE  /\ o[i].panic => count > (2 * n) - i
               /\ count > ((2 * n) - i) + failed(i) => o[i].panic
               /\ \E k \in 0 .. n - 1 :
                    /\ o[i].connected = {y \in ids : Ahead(n, i, y) <= k}
                    /\ k = n - 1 \/ k + 1 + failed(i) >= count
    <2>1. PICK j \in Nat : Walk(o[i], i, n, failingOf(i, count, failing), count, j)
      BY <1>1
    <2>2. /\ WalkAt(o[i], i, n, j) /\ (o[i].panic => count > (2 * n) - i)
          /\ ~o[i].panic => count <= j + failed(i)
      BY <1>2, <2>1 DEF Walk
    <2>3. j <= (2 * n) - i /\ (o[i].panic => j = (2 * n) - i)
      BY <2>2 DEF WalkAt
    <2>4. count > ((2 * n) - i) + failed(i) => o[i].panic
      BY <1>2, <2>2, <2>3
    <2>5. o[i].connected = {y \in ids : Ahead(n, i, y) <= Fewer(n, j)}
      BY <2>2, WalkConnects
    <2>6. Fewer(n, j) \in 0 .. n - 1
      BY DEF Fewer
    <2>7. Fewer(n, j) = n - 1 \/ Fewer(n, j) + 1 + failed(i) >= count
      <3>1. CASE o[i].panic
        BY <2>3, <3>1 DEF Fewer
      <3>2. CASE ~o[i].panic
        BY <1>2, <2>2, <3>2 DEF Fewer
      <3> QED
        BY <3>1, <3>2
    <2> QED
      BY <2>2, <2>4, <2>5, <2>6, <2>7
  <1>4. ASSUME NEW i \in ids
        PROVE  \E k \in 0 .. n - 1 : /\ o[i].connected = {(i + j) % n : j \in 1 .. k}
                                     /\ k = n - 1 \/ k + 1 + failed(i) >= count
    <2>1. PICK k \in 0 .. n - 1 : /\ o[i].connected = {y \in ids : Ahead(n, i, y) <= k}
                                  /\ k = n - 1 \/ k + 1 + failed(i) >= count
      BY <1>3
    <2>2. o[i].connected = {(i + j) % n : j \in 1 .. k}
      BY <2>1, NextOnes
    <2> QED
      BY <2>1, <2>2
  <1>5. ASSUME \A i \in ids : count > 1 + failed(i), NEW group \in (SUBSET ids) \ {{}},
               \A i \in group : o[i].connected \subseteq group
        PROVE  group = ids
    <2> DEFINE connected == [x \in ids |-> o[x].connected]
    <2>1. ASSUME NEW x \in ids, NEW y \in ids, Ahead(n, x, y) = 1, x # y PROVE y \in connected[x]
      <3>1. n > 1
        BY <2>1
      <3>2. PICK k \in 0 .. n - 1 : /\ o[x].connected = {z \in ids : Ahead(n, x, z) <= k}
                                    /\ k = n - 1 \/ k + 1 + failed(x) >= count
        BY <1>3
      <3>3. k >= 1
        <4>1. count > 1 + failed(x) /\ failed(x) \in Nat
          BY <1>2, <1>5
        <4> QED
          BY <3>1, <3>2, <4>1
      <3>4. Ahead(n, x, y) <= k
        BY <2>1, <3>3
      <3> QED
        BY <3>2, <3>4
    <2>2. \A x \in group : connected[x] \subseteq group
      BY <1>5
    <2> HIDE DEF connected
    <2>3. Ring(n, connected) /\ ClosedGroup(group, connected)
      BY <2>1, <2>2 DEF Ring, ClosedGroup
    <2>4. group \in SUBSET (0 .. n - 1) /\ group # {}
      OBVIOUS
    <2> QED
      BY <2>3, <2>4, RingIsConnected
  <1> QED
    BY <1>3, <1>4, <1>5 DEF o, failed

\* The walk of neighbor.Connect connects every overlay in which each node has two
\* turns that do not fail, whatever its size and however many connections are asked
\* for; it leaves no gap, and failures alone make no walk panic (connector.go:26).
THEOREM AlgorithmsNeighbors == ASpec => []NeighborsReachEverybody
  <1>1. AInit => InputOK
    BY DEF AInit, InputOK
  <1>2. InputOK /\ [ANext]_<<walkVars, input>> => InputOK'
    BY DEF ANext, InputOK, walkVars
  <1>3. InputOK => NeighborsReachEverybody
    <2> SUFFICES ASSUME InputOK, Alg("overlay") PROVE NeighborsReachEverybody
      BY DEF NeighborsReachEverybody
    <2>1. input \in Inputs /\ input.alg = "overlay"
      BY DEF Alg, InputOK
    <2>2. input \in Overlays
      BY <2>1 DEF Inputs, Signatures, GeneratedRuns
    <2> DEFINE n == input.n
               count == input.count
               failing == input.failing
    <2>3. n \in Nat /\ n > 0 /\ count \in Nat
      BY <2>2, OverlayInput
    <2> HIDE DEF n, count, failing
    <2>4. LET o == Overlay(n, count, failing)
              ids == 0 .. n - 1
              failed(i) == Cardinality(failingOf(i, count, failing))
          IN  /\ \A i \in ids :
                   /\ o[i].panic => count > (2 * n) - i
                   /\ count > ((2 * n) - i) + failed(i) => o[i].panic
                   /\ \E k \in 0 .. n - 1 :
                        /\ o[i].connected = {(i + j) % n : j \in 1 .. k}
                        /\ k = n - 1 \/ k + 1 + failed(i) >= count
              /\ (\A i \in ids : count > 1 + failed(i)) =>
                   \A group \in (SUBSET ids) \ {{}} :
                     (\A i \in group : o[i].connected \subseteq group) => group = ids
      BY <2>3, OverlayIs
    <2> QED
      BY <2>4 DEF NeighborsReachEverybody, n, count, failing
  <1> QED
    BY <1>1, <1>2, <1>3, PTL DEF ASpec

-----------------------------------------------------------------------------
(* Generated runs *)

\* What the proof needs to know of a run that is not of the practical scenario: no
\* node stays offline, or there are two nodes for each process and fewer nodes
\* offline than processes.
Offline(r) == \/ r.Failing = 0
              \/ r.Nodes = 2 * r.Processes /\ r.Failing < r.Processes

\* Its numbers fit together.
Numbers(r) ==
    /\ r.Nodes \in Nat /\ r.Failing \in Nat /\ r.Processes \in Nat /\ r.Threshold \in Nat
    /\ r.Threshold \in 1 .. r.Nodes - r.Failing
    /\ r.Processes \in 1 .. r.Nodes

\* No setting of Handel is left to its default.
Sane(conf) == conf.Period # 0 /\ conf.UpdateCount # 0 /\ conf.NodeCount # 0

\* Nor in its run.
Settings(r) == Sane(r.Handel)

\* The number of nodes, of those offline, of processes, and the threshold of a run.
LEMMA RunNumbers ==
    ASSUME NEW sim, NEW nodes, NEW thr, NEW failing, NEW procs, NEW conf, NEW r,
           r = RunConfig(sim, nodes, thr, failing, procs, conf)
    PROVE  r.Nodes = nodes /\ r.Threshold = thr /\ r.Failing = failing /\ r.Processes = procs
           /\ r.Handel = conf
  BY DEF RunConfig

\* The settings of the scenarios.
LEMMA HandelSettings ==
    /\ \A e : Sane([handel EXCEPT !.Evaluator = e])
    /\ \A e \in Nat \ {0} : /\ Sane([handel EXCEPT !.NodeCount = e]) /\ Sane([handel EXCEPT !.UpdateCount = e])
                            /\ Sane([handel EXCEPT !.Period = e]) /\ Sane([handel EXCEPT !.Timeout = e])
    /\ Sane(handel)
  BY DEF handel, Sane

\* The sizes of the scenarios are even multiples of a hundred.
LEMMA BaseNodes ==
    ASSUME NEW n \in baseNodes \cup {2500, 3000, 3500, 4000}
    PROVE  n \in Nat /\ \E h \in Nat \ {0} : n = 100 * h
  <1>1. \E h \in {1, 3, 5, 10, 15, 20, 25, 30, 35, 40} : n = 100 * h
    BY DEF baseNodes
  <1> QED
    BY <1>1

\* The shares of a hundred times h nodes.
LEMMA Shares ==
    ASSUME NEW h \in Nat \ {0}
    PROVE  /\ thrF(25, 100 * h) = h * 25 /\ thrF(51, 100 * h) = h * 51
           /\ thrF(75, 100 * h) = h * 75 /\ thrF(99, 100 * h) = h * 99
  BY DEF thrF, ceil

\* Two nodes, or one node, in each process.
LEMMA HalfOf ==
    ASSUME NEW h \in Nat \ {0}
    PROVE  getProcessF(2, 100 * h) = 50 * h /\ getProcessF(1, 100 * h) = 100 * h
  BY DEF getProcessF, ceil

\* The scenarios in which no node is offline.
LEMMA AllOnline ==
    ASSUME NEW r \in evaluatorScenario \cup nodeCountScenario \cup updateCountScenario
                     \cup libp2pScenario \cup nsquareScenario \cup thresholdIncScenario2
    PROVE  Numbers(r) /\ Settings(r) /\ r.Failing = 0
  <1>1. ASSUME NEW sim, NEW n \in baseNodes, NEW t \in {51, 75, 99}, NEW i \in {1, 2}, NEW conf, Sane(conf),
               r = RunConfig(sim, n, thrF(t, n), 0, getProcessF(i, n), conf)
        PROVE  Numbers(r) /\ Settings(r) /\ r.Failing = 0
    <2>1. /\ r.Nodes = n /\ r.Threshold = thrF(t, n) /\ r.Failing = 0 /\ r.Processes = getProcessF(i, n)
          /\ r.Handel = conf
      BY <1>1, RunNumbers
    <2>2. PICK h \in Nat \ {0} : n = 100 * h
      BY BaseNodes
    <2>3. thrF(51, 100 * h) = h * 51 /\ thrF(75, 100 * h) = h * 75 /\ thrF(99, 100 * h) = h * 99
      BY Shares
    <2>4. thrF(t, n) = h * t
      BY <2>2, <2>3
    <2>5. h * t \in Nat /\ h * t >= 1 /\ h * t <= 100 * h
      OBVIOUS
    <2>6. getProcessF(i, n) = 50 * h \/ getProcessF(i, n) = 100 * h
      BY <2>2, HalfOf
    <2>7. Numbers(r)
      BY <2>1, <2>2, <2>4, <2>5, <2>6 DEF Numbers
    <2> QED
      BY <1>1, <2>1, <2>7 DEF Settings
  <1>2. CASE r \in evaluatorScenario
    <2>1. PICK n \in baseNodes, e \in {"store", "equal"} :
            r = RunConfig("handel", n, thrF(99, n), 0, getProcessF(2, n), [handel EXCEPT !.Evaluator = e])
      BY <1>2 DEF evaluatorScenario
    <2>2. Sane([handel EXCEPT !.Evaluator = e])
      BY HandelSettings
    <2> QED
      BY <1>1, <2>1, <2>2
  <1>3. CASE r \in nodeCountScenario
    <2>1. PICK n \in baseNodes, k \in {1, 10, 20} :
            r = RunConfig("handel", n, thrF(99, n), 0, getProcessF(1, n), [handel EXCEPT !.NodeCount = k])
      BY <1>3 DEF nodeCountScenario
    <2>2. k \in Nat \ {0}
      OBVIOUS
    <2>3. Sane([handel EXCEPT !.NodeCount = k])
      BY <2>2, HandelSettings
    <2> QED
      BY <1>1, <2>1, <2>3
  <1>4. CASE r \in updateCountScenario
    <2>1. PICK n \in baseNodes, u \in {1, 10, 20} :
            r = RunConfig("handel", n, thrF(99, n), 0, getProcessF(1, n), [handel EXCEPT !.UpdateCount = u])
      BY <1>4 DEF updateCountScenario
    <2>2. u \in Nat \ {0}
      OBVIOUS
    <2>3. Sane([handel EXCEPT !.UpdateCount = u])
      BY <2>2, HandelSettings
    <2> QED
      BY <1>1, <2>1, <2>3
  <1>5. CASE r \in libp2pScenario
    <2>1. PICK n \in baseNodes, t \in {51, 75, 99} :
            r = RunConfig("p2p/libp2p", n, thrF(t, n), 0, getProcessF(2, n), handel)
      BY <1>5 DEF libp2pScenario
    <2>2. Sane(handel)
      BY HandelSettings
    <2> QED
      BY <1>1, <2>1, <2>2
  <1>6. CASE r \in nsquareScenario
    <2>1. PICK n \in baseNodes, t \in {51, 75, 99} :
            r = RunConfig("p2p/udp", n, thrF(t, n), 0, getProcessF(2, n), handel)
      BY <1>6 DEF nsquareScenario
    <2>2. Sane(handel)
      BY HandelSettings
    <2> QED
      BY <1>1, <2>1, <2>2
  <1>7. CASE r \in thresholdIncScenario2
    <2>1. PICK n \in baseNodes, t \in {51, 75, 99} :
            r = RunConfig("handel", n, thrF(t, n), 0, getProcessF(2, n), handel)
      BY <1>7 DEF thresholdIncScenario2
    <2>2. Sane(handel)
      BY HandelSettings
    <2> QED
      BY <1>1, <2>1, <2>2
  <1> QED
    BY <1>2, <1>3, <1>4, <1>5, <1>6, <1>7

\* The scenarios with two nodes in each process.
LEMMA TwoEach ==
    ASSUME NEW r \in periodIncScenario \cup timeoutIncScenario \cup failingIncScenario
    PROVE  Numbers(r) /\ Settings(r) /\ r.Nodes = 2 * r.Processes /\ r.Failing < r.Processes
  <1>1. ASSUME NEW conf, NEW n \in baseNodes,
               r = RunConfig("handel", n, ofAlive(n, thrF(25, n)), thrF(25, n), getProcessF(2, n), conf)
        PROVE  Numbers(r) /\ r.Nodes = 2 * r.Processes /\ r.Failing < r.Processes /\ r.Handel = conf
    <2>1. /\ r.Nodes = n /\ r.Threshold = ofAlive(n, thrF(25, n)) /\ r.Failing = thrF(25, n)
          /\ r.Processes = getProcessF(2, n) /\ r.Handel = conf
      BY <1>1, RunNumbers
    <2>2. PICK h \in Nat \ {0} : n = 100 * h
      BY BaseNodes
    <2>3. thrF(25, n) = h * 25 /\ getProcessF(2, n) = 50 * h
      BY <2>2, Shares, HalfOf
    <2>4. ofAlive(n, h * 25) \in 1 .. 75 * h
      BY <2>2 DEF ofAlive, thrF, ceil
    <2>5. r.Threshold \in 1 .. 75 * h /\ r.Nodes = 100 * h /\ r.Failing = 25 * h /\ r.Processes = 50 * h
      BY <2>1, <2>2, <2>3, <2>4
    <2> QED
      BY <2>1, <2>5 DEF Numbers
  <1>2. CASE r \in periodIncScenario
    <2>1. PICK n \in baseNodes, p \in {10, 20, 50, 100} :
            r = RunConfig("handel", n, ofAlive(n, thrF(25, n)), thrF(25, n), getProcessF(2, n),
                          [handel EXCEPT !.Period = p])
      BY <1>2 DEF periodIncScenario
    <2>2. /\ Numbers(r) /\ r.Nodes = 2 * r.Processes /\ r.Failing < r.Processes
          /\ r.Handel = [handel EXCEPT !.Period = p]
      BY <1>1, <2>1
    <2>3. Settings(r)
      <3>1. p \in Nat \ {0}
        OBVIOUS
      <3>2. Sane([handel EXCEPT !.Period = p])
        BY <3>1, HandelSettings
      <3> QED
        BY <2>2, <3>2 DEF Settings
    <2> QED
      BY <2>2, <2>3
  <1>3. CASE r \in timeoutIncScenario
    <2>1. PICK n \in baseNodes, t \in {50, 100, 200} :
            r = RunConfig("handel", n, ofAlive(n, thrF(25, n)), thrF(25, n), getProcessF(2, n),
                          [handel EXCEPT !.Timeout = t])
      BY <1>3 DEF timeoutIncScenario
    <2>2. /\ Numbers(r) /\ r.Nodes = 2 * r.Processes /\ r.Failing < r.Processes
          /\ r.Handel = [handel EXCEPT !.Timeout = t]
      BY <1>1, <2>1
    <2>3. Settings(r)
      <3>1. t \in Nat \ {0}
        OBVIOUS
      <3>2. Sane([handel EXCEPT !.Timeout = t])
        BY <3>1, HandelSettings
      <3> QED
        BY <2>2, <3>2 DEF Settings
    <2> QED
      BY <2>2, <2>3
  <1>4. CASE r \in failingIncScenario
    <2>1. PICK n \in {2000, 3000, 4000}, f \in {1, 25, 49} :
            r = RunConfig("handel", n, thrF(50, n), thrF(f, n), getProcessF(2, n), handel)
      BY <1>4 DEF failingIncScenario
    <2>2. /\ r.Nodes = n /\ r.Threshold = thrF(50, n) /\ r.Failing = thrF(f, n)
          /\ r.Processes = getProcessF(2, n) /\ r.Handel = handel
      BY <2>1, RunNumbers
    <2>3. PICK h \in {20, 30, 40} : n = 100 * h
      OBVIOUS
    <2>4. thrF(50, n) = h * 50 /\ thrF(f, n) = h * f /\ getProcessF(2, n) = 50 * h
      <3>1. h \in Nat \ {0}
        OBVIOUS
      <3> QED
        <4>1. /\ thrF(50, 100 * h) = h * 50 /\ thrF(1, 100 * h) = h * 1 /\ thrF(25, 100 * h) = h * 25
              /\ thrF(49, 100 * h) = h * 49
          BY <3>1 DEF thrF, ceil
        <4>2. getProcessF(2, 100 * h) = 50 * h
          BY <3>1, HalfOf
        <4>3. thrF(f, 100 * h) = h * f
          BY <4>1
        <4> QED
          BY <2>3, <4>1, <4>2, <4>3
    <2>5. h * f \in Nat /\ h * f < 50 * h
      OBVIOUS
    <2>6. Numbers(r) /\ r.Nodes = 2 * r.Processes /\ r.Failing < r.Processes
      BY <2>2, <2>3, <2>4, <2>5 DEF Numbers
    <2>7. Settings(r)
      BY <2>2, HandelSettings DEF Settings
    <2> QED
      BY <2>6, <2>7
  <1> QED
    BY <1>2, <1>3, <1>4

\* The scenario with as many processes as nodes, up to 2000.
LEMMA Practical ==
    ASSUME NEW r \in practicalScenario
    PROVE  /\ Numbers(r) /\ Settings(r) /\ 4 * r.Failing = r.Nodes
           /\ r.Processes = (IF r.Nodes < 2000 THEN r.Nodes ELSE 2000)
           /\ r.Nodes \in baseNodes \cup {2500, 3000, 3500, 4000}
  <1>1. PICK n \in baseNodes \cup {2500, 3000, 3500, 4000} :
          r = RunConfig("handel", n, thrF(66, n), thrF(25, n), thresholdProcessF(2000, n), handel)
    BY DEF practicalScenario
  <1>2. /\ r.Nodes = n /\ r.Threshold = thrF(66, n) /\ r.Failing = thrF(25, n)
        /\ r.Processes = thresholdProcessF(2000, n) /\ r.Handel = handel
    BY <1>1, RunNumbers
  <1>3. PICK h \in Nat \ {0} : n = 100 * h
    BY BaseNodes
  <1>4. thrF(66, n) = h * 66 /\ thrF(25, n) = h * 25
    <2>1. thrF(66, 100 * h) = h * 66 /\ thrF(25, 100 * h) = h * 25
      BY DEF thrF, ceil
    <2> QED
      BY <1>3, <2>1
  <1>5. r.Processes = IF r.Nodes < 2000 THEN r.Nodes ELSE 2000
    BY <1>2 DEF thresholdProcessF
  <1>6. Numbers(r) /\ 4 * r.Failing = r.Nodes
    BY <1>2, <1>3, <1>4, <1>5 DEF Numbers
  <1>7. Settings(r)
    BY <1>2, HandelSettings DEF Settings
  <1> QED
    BY <1>2, <1>5, <1>6, <1>7

\* Small quotients.
LEMMA Quotients ==
    ASSUME NEW p \in Nat \ {0}
    PROVE  /\ 0 \div p = 0 /\ 0 % p = 0
           /\ p \div p = 1 /\ p % p = 0
           /\ (2 * p) \div p = 2 /\ (2 * p) % p = 0
           /\ \A x \in 0 .. p - 1 : x \div p = 0 /\ x % p = x
           /\ \A x \in Nat : x \div p \in Nat /\ x % p \in Nat /\ (x >= p => x \div p >= 1)
  <1>1. ASSUME NEW x \in Nat, NEW q \in {0, 1, 2}, q * p <= x, x < q * p + p
        PROVE  x \div p = q /\ x % p = x - q * p
    <2>1. x - q * p \in 0 .. p - 1 /\ q \in Nat
      BY <1>1
    <2>2. PICK r \in 0 .. p - 1 : x = q * p + r
      BY <2>1
    <2> QED
      BY <2>1, <2>2
  <1>2. 0 \div p = 0 /\ 0 % p = 0
    BY <1>1
  <1>3. p \div p = 1 /\ p % p = 0
    BY <1>1
  <1>4. (2 * p) \div p = 2 /\ (2 * p) % p = 0
    BY <1>1
  <1>5. \A x \in 0 .. p - 1 : x \div p = 0 /\ x % p = x
    BY <1>1
  <1>6. ASSUME NEW x \in Nat PROVE x \div p \in Nat /\ x % p \in Nat /\ (x >= p => x \div p >= 1)
    <2>1. x \div p \in Nat /\ x = p * (x \div p) + (x % p) /\ (x % p) \in 0 .. p - 1
      OBVIOUS
    <2> DEFINE q == x \div p
               m == x % p
    <2>2. q \in Nat /\ x = p * q + m /\ m \in 0 .. p - 1
      BY <2>1
    <2> HIDE DEF q, m
    <2>3. q = 0 => p * q = 0
      BY <2>2
    <2>4. x >= p => q >= 1
      BY <2>2, <2>3
    <2> QED
      BY <2>1, <2>2, <2>4 DEF q, m
  <1> QED
    BY <1>2, <1>3, <1>4, <1>5, <1>6

\* The nodes that stay online in process k of a run.
Left(r, k) == A!slots(k, r.Nodes, r.Processes) - A!asked(k, r.Processes, r.Failing)

\* Every process has a node left, except in the practical scenario.
LEMMA SomeLeft ==
    ASSUME NEW r, Numbers(r), Offline(r), NEW k \in 0 .. r.Processes - 1
    PROVE  Left(r, k) >= 0 /\ Left(r, k) # 0
  <1> DEFINE n == r.Nodes
             p == r.Processes
             f == r.Failing
  <1>1. n \in Nat /\ p \in Nat \ {0} /\ f \in Nat /\ n >= p /\ k \in Nat
    BY DEF Numbers
  <1>2. /\ A!slots(k, n, p) = n \div p + (IF k < n % p THEN 1 ELSE 0)
        /\ A!asked(k, p, f) = f \div p + (IF k < f % p THEN 1 ELSE 0)
    BY DEF A!slots, A!asked
  <1>5. f = 0 \/ (n = 2 * p /\ f < p)
    BY DEF Offline
  <1>6. Left(r, k) = A!slots(k, n, p) - A!asked(k, p, f)
    BY DEF Left
  <1> HIDE DEF n, p, f
  <1>3. CASE f = 0
    <2>1. 0 \div p = 0 /\ 0 % p = 0 /\ n \div p \in Nat /\ n % p \in Nat /\ n \div p >= 1
      BY <1>1, Quotients
    <2>2. A!slots(k, n, p) \in Nat /\ A!slots(k, n, p) >= 1 /\ A!asked(k, p, f) = 0
      <3>1. f \div p = 0 /\ f % p = 0 /\ ~(k < 0)
        BY <1>1, <1>3, <2>1
      <3>2. A!asked(k, p, f) = 0
        BY <1>2, <3>1
      <3>3. A!slots(k, n, p) \in Nat /\ A!slots(k, n, p) >= 1
        BY <1>2, <2>1
      <3> QED
        BY <3>2, <3>3
    <2> QED
      BY <1>6, <2>2
  <1>4. CASE n = 2 * p /\ f < p
    <2>1. (2 * p) \div p = 2 /\ (2 * p) % p = 0
      BY <1>1, Quotients
    <2>2. f \div p = 0 /\ f % p = f
      <3>1. f \in 0 .. p - 1
        BY <1>1, <1>4
      <3> QED
        BY <1>1, <3>1, Quotients
    <2>3. n \div p = 2 /\ n % p = 0 /\ ~(k < 0)
      BY <1>1, <1>4, <2>1
    <2>4. A!slots(k, n, p) = 2
      BY <1>2, <2>3
    <2>5. A!asked(k, p, f) \in {0, 1}
      BY <1>2, <2>2
    <2> QED
      BY <1>6, <2>4, <2>5
  <1> QED
    BY <1>3, <1>4, <1>5

\* In the practical scenario there is a process without one up to 2500 nodes.
LEMMA PracticalLeft ==
    ASSUME NEW r \in practicalScenario
    PROVE  /\ \A k \in 0 .. r.Processes - 1 : Left(r, k) >= 0
           /\ (\E k \in 0 .. r.Processes - 1 : Left(r, k) = 0) <=> r.Nodes <= 2500
  <1> DEFINE n == r.Nodes
             p == r.Processes
             f == r.Failing
  <1>1. /\ n \in Nat /\ p \in Nat \ {0} /\ f \in Nat /\ 4 * f = n
        /\ p = (IF n < 2000 THEN n ELSE 2000)
        /\ n \in {100, 300, 500, 1000, 1500, 2000} \cup {2500, 3000, 3500, 4000}
    BY Practical DEF Numbers, baseNodes
  <1>2. \A k : /\ A!slots(k, n, p) = n \div p + (IF k < n % p THEN 1 ELSE 0)
               /\ A!asked(k, p, f) = f \div p + (IF k < f % p THEN 1 ELSE 0)
    BY DEF A!slots, A!asked
  <1> HIDE DEF n, p, f
  <1>3. f \div p = 0 /\ f % p = f
    <2>1. f \in 0 .. p - 1
      BY <1>1
    <2> QED
      BY <1>1, <2>1, Quotients
  <1>4. \A k : Left(r, k) = A!slots(k, n, p) - A!asked(k, p, f)
    BY DEF Left, n, p, f
  <1>5. CASE n <= 2000
    <2>1. n = p /\ p \div p = 1 /\ p % p = 0
      BY <1>1, <1>5, Quotients
    <2>2. ASSUME NEW k \in 0 .. p - 1 PROVE Left(r, k) = IF k < f THEN 0 ELSE 1
      <3>1. A!slots(k, n, p) = 1 /\ A!asked(k, p, f) = IF k < f THEN 1 ELSE 0
        BY <1>1, <1>2, <1>3, <2>1
      <3> QED
        BY <1>4, <3>1
    <2>3. 0 \in 0 .. p - 1 /\ 0 < f /\ n <= 2500
      BY <1>1, <1>5
    <2> QED
      BY <2>2, <2>3 DEF n, p
  <1>6. CASE n > 2000
    <2>1. p = 2000 /\ n \in {2500, 3000, 3500, 4000}
      BY <1>1, <1>6
    <2>2. /\ n = 4000 => n \div 2000 = 2 /\ n % 2000 = 0
          /\ n # 4000 => n \div 2000 = 1 /\ n % 2000 = n - 2000
      BY <2>1
    <2>3. ASSUME NEW k \in Nat
          PROVE  /\ k < f /\ (n = 4000 \/ k < n - 2000) => Left(r, k) = 1
                 /\ k < f /\ ~(n = 4000 \/ k < n - 2000) => Left(r, k) = 0
                 /\ ~(k < f) => Left(r, k) \in {1, 2}
      <3>1. /\ n = 4000 \/ k < n - 2000 => A!slots(k, n, p) = 2
            /\ ~(n = 4000 \/ k < n - 2000) => A!slots(k, n, p) = 1
            /\ k < f => A!asked(k, p, f) = 1
            /\ ~(k < f) => A!asked(k, p, f) = 0
        BY <1>1, <1>2, <1>3, <2>1, <2>2
      <3> QED
        BY <1>4, <3>1
    <2>4. CASE n = 2500
      <3>1. f = 625 /\ 500 \in Nat
        BY <1>1, <2>4
      <3>2. 500 < f /\ ~(n = 4000 \/ 500 < n - 2000)
        BY <2>4, <3>1
      <3>3. Left(r, 500) = 0
        BY <2>3, <3>1, <3>2
      <3>4. ASSUME NEW k \in Nat PROVE Left(r, k) >= 0
        BY <2>3
      <3>5. 500 \in 0 .. p - 1 /\ 0 .. p - 1 \subseteq Nat /\ n <= 2500
        BY <2>1, <2>4
      <3> QED
        BY <3>1, <3>3, <3>4, <3>5 DEF n, p
    <2>5. CASE n # 2500
      <3>1. n > 2500 /\ (n = 4000 \/ f <= n - 2000)
        BY <1>1, <2>1, <2>5
      <3>2. ASSUME NEW k \in Nat PROVE Left(r, k) >= 0 /\ Left(r, k) # 0
        <4>1. k < f => n = 4000 \/ k < n - 2000
          BY <1>1, <3>1
        <4>2. Left(r, k) \in {1, 2}
          <5>1. CASE k < f
            <6>1. n = 4000 \/ k < n - 2000
              BY <4>1, <5>1
            <6>2. Left(r, k) = 1
              BY <2>3, <5>1, <6>1
            <6> QED
              BY <6>2
          <5>2. CASE ~(k < f)
            BY <2>3, <5>2
          <5> QED
            BY <5>1, <5>2
        <4> QED
          BY <4>2
      <3>4. 0 .. p - 1 \subseteq Nat
        BY <2>1
      <3>3. \A k \in 0 .. p - 1 : Left(r, k) >= 0 /\ Left(r, k) # 0
        BY <3>2, <3>4
      <3> QED
        BY <1>1, <3>1, <3>3 DEF n, p
    <2> QED
      BY <2>4, <2>5
  <1> QED
    BY <1>1, <1>5, <1>6

\* A configuration in which no number is zero keeps them all.
LEMMA MergeKeeps ==
    ASSUME NEW a, NEW b, NEW d, NEW e, NEW g, NEW h, a # 0, b # 0, d # 0, e # 0, NEW size, NEW conf,
           conf = [UpdatePeriod |-> a, UpdateCount |-> b, FastPath |-> d, Contributions |-> e,
                   Timeout |-> g, Evaluator |-> h]
    PROVE  mergeWithDefault(conf, size) = [conf EXCEPT !.Evaluator = IF @ = "none" THEN "store" ELSE @]
  <1> DEFINE w == IF conf.Evaluator = "none" THEN "store" ELSE conf.Evaluator
             e1 == [conf EXCEPT !.Contributions = conf.Contributions]
             e2 == [e1 EXCEPT !.FastPath = conf.FastPath]
             e3 == [e2 EXCEPT !.UpdatePeriod = conf.UpdatePeriod]
             e4 == [e3 EXCEPT !.UpdateCount = conf.UpdateCount]
  <1>1. /\ conf.UpdatePeriod = a /\ conf.UpdateCount = b /\ conf.FastPath = d /\ conf.Contributions = e
    OBVIOUS
  <1>2. \A x, y : x # 0 => orDefault(x, y) = x
    BY DEF orDefault
  <1>3. mergeWithDefault(conf, size) = [e4 EXCEPT !.Evaluator = w]
    <2>1. /\ orDefault(conf.Contributions, PercentageToContributions(51, size)) = conf.Contributions
          /\ orDefault(conf.FastPath, 10) = conf.FastPath
          /\ orDefault(conf.UpdatePeriod, 10) = conf.UpdatePeriod
          /\ orDefault(conf.UpdateCount, 1) = conf.UpdateCount
      BY <1>1, <1>2
    <2> QED
      BY <2>1 DEF mergeWithDefault
  <1>4. e1 = conf
    BY <1>1
  <1>5. e2 = conf
    <2> HIDE DEF e1
    <2> QED
      BY <1>1, <1>4
  <1>6. e3 = conf
    <2> HIDE DEF e2
    <2> QED
      BY <1>1, <1>5
  <1>7. e4 = conf
    <2> HIDE DEF e3
    <2> QED
      BY <1>1, <1>6
  <1> HIDE DEF e4
  <1> QED
    BY <1>3, <1>7

\* Every run that the generator writes can finish: enough nodes stay online, a
\* node to take offline is always found, and Handel gets a configuration without
\* gaps (confgenerator, allocator.go:126).
THEOREM AlgorithmsGenerated == ASpec => []GeneratedRunsCanFinish
  <1>1. AInit => InputOK
    BY DEF AInit, InputOK
  <1>2. InputOK /\ [ANext]_<<walkVars, input>> => InputOK'
    BY DEF ANext, InputOK, walkVars
  <1>3. InputOK => GeneratedRunsCanFinish
    <2> SUFFICES ASSUME InputOK, Alg("run") PROVE GeneratedRunsCanFinish
      BY DEF GeneratedRunsCanFinish
    <2>1. input \in Inputs /\ input.alg = "run"
      BY DEF Alg, InputOK
    <2>2. input \in GeneratedRuns
      BY <2>1, OverlayInput DEF Inputs, Signatures
    <2> DEFINE r == input.run
               conf == GetHandelConfig(r)
               procs == 0 .. r.Processes - 1
    <2>3. r \in Generated
      BY <2>2 DEF GeneratedRuns
    <2> HIDE DEF r
    <2>4. r \in practicalScenario \/ (Numbers(r) /\ Settings(r) /\ Offline(r))
      BY <2>3, AllOnline, TwoEach DEF Generated, Offline
    <2>5. Numbers(r) /\ Settings(r)
      BY <2>4, Practical
    <2>6. GetThreshold(r) = r.Threshold /\ GetThreshold(r) \in 1 .. r.Nodes - r.Failing
          /\ r.Processes \in 1 .. r.Nodes /\ GetThreshold(r) # 0
      BY <2>5 DEF GetThreshold, Numbers
    <2>7. mergeWithDefault(conf, r.Nodes)
            = [conf EXCEPT !.Evaluator = IF @ = "none" THEN "store" ELSE @]
      BY <2>5, <2>6, MergeKeeps DEF GetHandelConfig, Settings, Sane
    <2>8. CASE r \in practicalScenario
      <3>1. /\ \A k \in procs : Left(r, k) >= 0
            /\ (\E k \in procs : Left(r, k) = 0) <=> r.Nodes <= 2500
        BY <2>8, PracticalLeft
      <3> QED
        BY <2>6, <2>7, <2>8, <3>1 DEF GeneratedRunsCanFinish, Left, r
    <2>9. CASE r \notin practicalScenario
      <3>2. \A k \in procs : Left(r, k) >= 0 /\ Left(r, k) # 0
        BY <2>4, <2>9, SomeLeft
      <3> QED
        BY <2>6, <2>7, <2>9, <3>2 DEF GeneratedRunsCanFinish, Left, r
    <2> QED
      BY <2>8, <2>9
  <1> QED
    BY <1>1, <1>2, <1>3, PTL DEF ASpec
=============================================================================

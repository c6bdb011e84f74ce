----------------------------- MODULE NodeLemmas -----------------------------
(***************************************************************************)
(* Lemmas about the operators a node is built from: the binary search of   *)
(* Partitioner, for every id of every registry, and the operations of      *)
(* SigStore, for every partitioner that meets the contract.                *)
(***************************************************************************)
EXTENDS Partitioner, SigStore, FiniteSetTheorems, WellFoundedInduction, TLAPS

-----------------------------------------------------------------------------
(* Induction over a set of naturals *)

Less == {ss \in Nat \X Nat : ss[1] < ss[2]}

\* A set with 0 and every successor of its members has all naturals.
LEMMA SetInduction ==
    ASSUME NEW T, 0 \in T, \A n \in Nat : n \in T => n + 1 \in T
    PROVE  Nat \subseteq T
  <1>1. IsWellFoundedOn(Less, Nat)
    BY Zenon, NatLessThanWellFounded DEF OpToRel, Less
  <1> DEFINE Rest == {n \in Nat : n \notin T}
  <1>2. SUFFICES ASSUME Rest # {} PROVE FALSE
    OBVIOUS
  <1>3. PICK x \in Rest : \A y \in Rest : ~(<<y, x>> \in Less)
    <2> HIDE DEF Rest
    <2>1. Rest \subseteq Nat
      BY DEF Rest
    <2> QED
      BY Zenon, <1>1, <1>2, <2>1, WFMin
  <1>4. x \in Nat /\ x # 0 /\ x - 1 \in Nat /\ x - 1 < x
    OBVIOUS
  <1>5. x - 1 \notin Rest
    BY <1>3, <1>4 DEF Less
  <1>6. x - 1 \in T /\ (x - 1) + 1 = x
    BY <1>4, <1>5
  <1> QED
    BY <1>4, <1>6

-----------------------------------------------------------------------------
(* Powers of two *)

\* The powers up to n, as a table.
Powers(g, n) == /\ g \in [0 .. n -> Nat] /\ g[0] = 1
                /\ \A i \in 1 .. n : g[i] = 2 * g[i - 1]

\* There is one such table for every n ...
LEMMA PowersExist == \A n \in Nat : \E g : Powers(g, n)
  <1> DEFINE T == {n \in Nat : \E g : Powers(g, n)}
  <1>1. 0 \in T
    <2>1. Powers([i \in 0 .. 0 |-> 1], 0)
      BY DEF Powers
    <2> QED
      BY <2>1
  <1>2. ASSUME NEW n \in Nat, n \in T PROVE n + 1 \in T
    <2>1. PICK g : Powers(g, n)
      BY <1>2
    <2> DEFINE h == [i \in 0 .. n + 1 |-> IF i = n + 1 THEN 2 * g[n] ELSE g[i]]
    <2>2. h \in [0 .. n + 1 -> Nat] /\ h[0] = 1
      BY <2>1 DEF Powers
    <2>3. ASSUME NEW i \in 1 .. n + 1 PROVE h[i] = 2 * h[i - 1]
      BY <2>1, <2>3 DEF Powers
    <2>4. Powers(h, n + 1)
      BY <2>2, <2>3 DEF Powers
    <2> QED
      BY <2>4
  <1>3. Nat \subseteq T
    <2> HIDE DEF T
    <2> QED
      BY <1>1, <1>2, SetInduction
  <1> QED
    BY <1>3

\* ... and only one.
LEMMA PowersAgree ==
    ASSUME NEW m \in Nat, NEW n \in Nat, NEW g, Powers(g, m), NEW h, Powers(h, n),
           NEW i \in Nat, i <= m, i <= n
    PROVE  g[i] = h[i]
  <1> DEFINE T == {k \in Nat : k <= m /\ k <= n => g[k] = h[k]}
  <1>1. 0 \in T
    BY DEF Powers
  <1>2. ASSUME NEW k \in Nat, k \in T PROVE k + 1 \in T
    <2> SUFFICES ASSUME k + 1 <= m, k + 1 <= n PROVE g[k + 1] = h[k + 1]
      OBVIOUS
    <2>1. g[k] = h[k] /\ k + 1 \in 1 .. m /\ k + 1 \in 1 .. n /\ (k + 1) - 1 = k
      BY <1>2
    <2> QED
      BY <2>1 DEF Powers
  <1>3. Nat \subseteq T
    <2> HIDE DEF T
    <2> QED
      BY <1>1, <1>2, SetInduction
  <1> QED
    BY <1>3

\* pow2 computes the powers of two.
LEMMA Pow2 ==
    /\ pow2[0] = 1
    /\ \A n \in Nat : pow2[n] \in Nat \ {0} /\ pow2[n + 1] = 2 * pow2[n]
  <1> DEFINE table(n) == CHOOSE g : Powers(g, n)
             h == [n \in Nat |-> table(n)[n]]
  <1>1. \A n \in Nat : Powers(table(n), n)
    BY PowersExist
  <1>2. \A n \in Nat \ {0} : table(n)[n - 1] = table(n - 1)[n - 1]
    <2> TAKE n \in Nat \ {0}
    <2>1. Powers(table(n), n) /\ Powers(table(n - 1), n - 1) /\ n - 1 \in Nat
      BY <1>1
    <2> HIDE DEF table
    <2> QED
      BY <2>1, PowersAgree
  <1>3. h[0] = 1 /\ \A n \in Nat \ {0} : h[n] = 2 * h[n - 1]
    <2>1. h[0] = 1
      BY <1>1 DEF Powers
    <2>2. ASSUME NEW n \in Nat \ {0} PROVE h[n] = 2 * h[n - 1]
      <3> HIDE DEF table
      <3>1. Powers(table(n), n) /\ table(n)[n - 1] = table(n - 1)[n - 1]
            /\ n - 1 \in Nat /\ n \in 1 .. n
        BY <1>1, <1>2
      <3>2. table(n)[n] = 2 * table(n)[n - 1]
        BY <3>1 DEF Powers
      <3> QED
        BY <3>1, <3>2
    <2> QED
      BY <2>1, <2>2
  <1>4. h = [n \in Nat |-> IF n = 0 THEN 1 ELSE 2 * h[n - 1]]
    <2> HIDE DEF table
    <2>1. \A n \in Nat : h[n] = IF n = 0 THEN 1 ELSE 2 * h[n - 1]
      BY <1>3
    <2>2. h = [n \in Nat |-> h[n]]
      OBVIOUS
    <2> HIDE DEF h
    <2> QED
      BY <2>1, <2>2
  <1>5. pow2 = [n \in Nat |-> IF n = 0 THEN 1 ELSE 2 * pow2[n - 1]]
    <2> HIDE DEF h
    <2>1. \E g : g = [n \in Nat |-> IF n = 0 THEN 1 ELSE 2 * g[n - 1]]
      BY <1>4
    <2> QED
      BY <2>1 DEF pow2
  <1>6. pow2[0] = 1
    BY <1>5
  <1>7. \A n \in Nat : pow2[n + 1] = 2 * pow2[n]
    BY <1>5
  <1> DEFINE T == {n \in Nat : pow2[n] \in Nat \ {0}}
  <1>8. Nat \subseteq T
    <2>1. 0 \in T
      BY <1>6
    <2>2. \A n \in Nat : n \in T => n + 1 \in T
      BY <1>7
    <2> HIDE DEF T
    <2> QED
      BY <2>1, <2>2, SetInduction
  <1> QED
    BY <1>6, <1>7, <1>8

\* No natural is larger than its power of two, so that there is a first power of
\* two that reaches a size.
LEMMA Log2 ==
    ASSUME NEW size \in Nat \ {0}
    PROVE  /\ log2(size) \in Nat
           /\ pow2[log2(size)] >= size
           /\ log2(size) > 0 => pow2[log2(size) - 1] < size
  <1>1. \A n \in Nat : pow2[n] >= n + 1
    <2> DEFINE T == {n \in Nat : pow2[n] >= n + 1}
    <2>1. 0 \in T
      BY Pow2
    <2>2. ASSUME NEW n \in Nat, n \in T PROVE n + 1 \in T
      BY <2>2, Pow2
    <2>3. Nat \subseteq T
      <3> HIDE DEF T
      <3> QED
        BY <2>1, <2>2, SetInduction
    <2> QED
      BY <2>3
  <1> DEFINE Enough == {n \in Nat : pow2[n] >= size}
  <1>2. IsWellFoundedOn(Less, Nat)
    BY Zenon, NatLessThanWellFounded DEF OpToRel, Less
  <1>3. size \in Enough
    <2>1. pow2[size] >= size + 1 /\ pow2[size] \in Nat
      BY <1>1, Pow2
    <2> QED
      BY <2>1
  <1>4. PICK k \in Enough : \A j \in Enough : ~(<<j, k>> \in Less)
    <2>1. Enough \subseteq Nat /\ Enough # {}
      BY <1>3
    <2> HIDE DEF Enough
    <2> QED
      BY Zenon, <1>2, <2>1, WFMin
  <1>5. k \in Nat /\ \A j \in Nat : j < k => pow2[j] < size
    <2>1. ASSUME NEW j \in Nat, j < k PROVE pow2[j] < size
      <3>1. j \notin Enough
        BY <1>4, <2>1 DEF Less
      <3> QED
        BY <3>1, Pow2
    <2> QED
      BY <2>1
  <1>6. k \in 0 .. size
    <2>1. ~(size < k)
      BY <1>3, <1>5, Pow2
    <2> QED
      BY <1>5, <2>1
  <1>7. pow2[k] >= size /\ (k > 0 => pow2[k - 1] < size)
    BY <1>5
  <1>8. /\ log2(size) \in 0 .. size /\ pow2[log2(size)] >= size
        /\ log2(size) > 0 => pow2[log2(size) - 1] < size
    BY <1>6, <1>7 DEF log2
  <1> QED
    BY <1>8

-----------------------------------------------------------------------------
(* The binary search *)

\* The partitioner of a node.
IsPart(c) == \E size \in Nat \ {0} : \E id \in 0 .. size - 1 : c = NewBinPartitioner(id, size)

\* What NewBinPartitioner computes for the node it is made for.
LEMMA PartShape ==
    ASSUME NEW c, IsPart(c)
    PROVE  /\ c.size \in Nat \ {0} /\ c.id \in Nat /\ c.id < c.size
           /\ c.bitsize = log2(c.size) /\ c.bitsize \in Nat
           /\ pow2[c.bitsize] \in Nat /\ pow2[c.bitsize] >= c.size
           /\ c = NewBinPartitioner(c.id, c.size)
  <1>1. PICK size \in Nat \ {0} : \E id \in 0 .. size - 1 : c = NewBinPartitioner(id, size)
    BY DEF IsPart
  <1>2. PICK id \in 0 .. size - 1 : c = NewBinPartitioner(id, size)
    BY <1>1
  <1>3. c.id = id /\ c.size = size /\ c.bitsize = log2(size)
    BY <1>2 DEF NewBinPartitioner
  <1> QED
    BY <1>2, <1>3, Log2, Pow2

\* The table of positions that the loop computes, from the highest bit down.
Search(c, flip, g) ==
    g = [idx \in 0 .. c.bitsize |->
           IF idx = c.bitsize
           THEN [min |-> 0, max |-> pow2[log2(c.size)]]
           ELSE IF g[idx + 1].min < g[idx + 1].max
                THEN halve(g[idx + 1], isSet(c.id, idx) # (idx = flip))
                ELSE g[idx + 1]]

\* rangeLevel and rangeLevelInverse return the entry of the level in this table.
LEMMA DescendIs ==
    ASSUME NEW c, NEW level, NEW flip
    PROVE  Descend(c, level, flip) =
             (CHOOSE g : Search(c, flip, g))[IF level = 0 THEN 0 ELSE level - 1]
  BY DEF Descend, Search

\* The loop has such a table.
LEMMA SearchExists ==
    ASSUME NEW c, IsPart(c), NEW flip
    PROVE  Search(c, flip, CHOOSE g : Search(c, flip, g))
  <1> DEFINE b == c.bitsize
             step(p, idx) == IF p.min < p.max
                             THEN halve(p, isSet(c.id, idx) # (idx = flip)) ELSE p
             Partial(g, k) == /\ g = [idx \in k .. b |-> g[idx]]
                              /\ g[b] = [min |-> 0, max |-> pow2[log2(c.size)]]
                              /\ \A idx \in k .. b - 1 : g[idx] = step(g[idx + 1], idx)
             T == {k \in Nat : k <= b => \E g : Partial(g, b - k)}
  <1>1. b \in Nat
    BY PartShape
  <1>2. 0 \in T
    <2> DEFINE g == [idx \in b .. b |-> [min |-> 0, max |-> pow2[log2(c.size)]]]
    <2>1. g = [idx \in b .. b |-> g[idx]] /\ g[b] = [min |-> 0, max |-> pow2[log2(c.size)]]
      BY <1>1
    <2>2. b - 0 = b /\ b .. b - 1 = {}
      BY <1>1
    <2> HIDE DEF g, step
    <2>3. Partial(g, b - 0)
      BY <2>1, <2>2
    <2> QED
      BY <2>3
  <1>3. ASSUME NEW k \in Nat, k \in T PROVE k + 1 \in T
    <2> SUFFICES ASSUME k + 1 <= b PROVE \E g : Partial(g, b - (k + 1))
      OBVIOUS
    <2> HIDE DEF step
    <2>1. PICK g : Partial(g, b - k)
      BY <1>1, <1>3
    <2> DEFINE i == b - (k + 1)
               h == [idx \in i .. b |-> IF idx = i THEN step(g[i + 1], i) ELSE g[idx]]
    <2>2. i \in Nat /\ b - k = i + 1 /\ i < b
      BY <1>1
    <2>3. h = [idx \in i .. b |-> h[idx]] /\ h[b] = g[b] /\ h[i] = step(g[i + 1], i)
      BY <1>1, <2>2
    <2>4. \A idx \in i + 1 .. b : h[idx] = g[idx]
      BY <1>1, <2>2
    <2>5. ASSUME NEW idx \in i .. b - 1 PROVE h[idx] = step(h[idx + 1], idx)
      <3> HIDE DEF h, i
      <3>1. CASE idx = i
        <4>1. i + 1 \in i + 1 .. b
          BY <1>1, <2>2
        <4>2. h[i + 1] = g[i + 1]
          BY <2>4, <4>1
        <4> QED
          BY <2>3, <3>1, <4>2
      <3>2. CASE idx # i
        <4>1. idx \in i + 1 .. b - 1 /\ idx \in i + 1 .. b /\ idx + 1 \in i + 1 .. b
          BY <1>1, <2>2, <2>5, <3>2
        <4>2. g[idx] = step(g[idx + 1], idx)
          BY <2>1, <2>2, <4>1
        <4> QED
          BY <2>4, <4>1, <4>2
      <3> QED
        BY <3>1, <3>2
    <2>6. Partial(h, i)
      <3> HIDE DEF h, i
      <3> QED
        BY <2>1, <2>3, <2>5
    <2> QED
      BY <2>6
  <1>4. b \in T
    <2> HIDE DEF T
    <2>1. Nat \subseteq T
      BY <1>2, <1>3, SetInduction
    <2> QED
      BY <1>1, <2>1
  <1>5. PICK g : Partial(g, 0)
    BY <1>1, <1>4
  <1>6. Search(c, flip, g)
    <2>1. \A idx \in 0 .. b : g[idx] = IF idx = b THEN [min |-> 0, max |-> pow2[log2(c.size)]]
                                       ELSE step(g[idx + 1], idx)
      <3> TAKE idx \in 0 .. b
      <3> HIDE DEF step
      <3>1. idx # b => idx \in 0 .. b - 1
        BY <1>1
      <3> QED
        BY <1>5, <3>1
    <2>2. g = [idx \in 0 .. b |-> IF idx = b THEN [min |-> 0, max |-> pow2[log2(c.size)]]
                                  ELSE step(g[idx + 1], idx)]
      <3>2. g = [idx \in 0 .. b |-> g[idx]]
        BY <1>5
      <3> HIDE DEF step
      <3> QED
        BY <2>1, <3>2
    <2> QED
      BY <2>2 DEF Search
  <1> QED
    BY <1>6

-----------------------------------------------------------------------------
(* Prefixes: what is left of an id without its k lowest bits *)

prefix(x, k) == x \div pow2[k]

\* A quotient is known by its bounds.
LEMMA DivUnique ==
    ASSUME NEW x \in Nat, NEW h \in Nat \ {0}, NEW q \in Nat, q * h <= x, x < q * h + h
    PROVE  x \div h = q
  <1>1. x - q * h \in 0 .. h - 1
    OBVIOUS
  <1>2. PICK r \in 0 .. h - 1 : x = q * h + r
    BY <1>1
  <1> QED
    BY <1>2

\* The ids with a prefix are a block of a power of two of them.
LEMMA PrefixBlock ==
    ASSUME NEW x \in Nat, NEW k \in Nat
    PROVE  /\ prefix(x, k) \in Nat
           /\ \A q \in Nat : prefix(x, k) = q
                 <=> q * pow2[k] <= x /\ x < q * pow2[k] + pow2[k]
  <1> DEFINE h == pow2[k]
  <1>1. h \in Nat \ {0}
    BY Pow2
  <1> HIDE DEF h
  <1>2. x \div h \in Nat /\ x = h * (x \div h) + (x % h) /\ (x % h) \in 0 .. h - 1
    BY <1>1
  <1> DEFINE q0 == x \div h
  <1>3. q0 * h <= x /\ x < q0 * h + h
    <2> HIDE DEF q0
    <2>1. q0 \in Nat /\ x = h * q0 + (x % h) /\ (x % h) \in 0 .. h - 1
      BY <1>2 DEF q0
    <2> QED
      BY <1>1, <2>1
  <1>4. \A q \in Nat : q * h <= x /\ x < q * h + h => x \div h = q
    BY <1>1, DivUnique
  <1> QED
    BY <1>2, <1>3, <1>4 DEF h, prefix

\* One bit of difference between two prefixes.
LEMMA PrefixStep ==
    ASSUME NEW x \in Nat, NEW k \in Nat
    PROVE  /\ isSet(x, k) => prefix(x, k) = 2 * prefix(x, k + 1) + 1
           /\ ~isSet(x, k) => prefix(x, k) = 2 * prefix(x, k + 1)
  <1> DEFINE h == pow2[k]
             q == prefix(x, k + 1)
  <1>1. h \in Nat \ {0} /\ pow2[k + 1] = 2 * h
    BY Pow2
  <1>2. q \in Nat /\ q * (2 * h) <= x /\ x < q * (2 * h) + 2 * h
    <2>1. k + 1 \in Nat
      OBVIOUS
    <2>2. q \in Nat /\ q * pow2[k + 1] <= x /\ x < q * pow2[k + 1] + pow2[k + 1]
      <3> HIDE DEF q
      <3>1. q \in Nat
        BY <2>1, PrefixBlock DEF q
      <3>2. prefix(x, k + 1) = q
        BY DEF q
      <3> QED
        BY <2>1, <3>1, <3>2, PrefixBlock
    <2> HIDE DEF q, h
    <2> QED
      BY <1>1, <2>2
  <1>3. isSet(x, k) <=> prefix(x, k) % 2 = 1
    BY DEF isSet, prefix
  <1> HIDE DEF h, q
  <1>4. CASE x >= q * (2 * h) + h
    <2>1. 2 * q + 1 \in Nat /\ (2 * q + 1) * h <= x /\ x < (2 * q + 1) * h + h
      BY <1>1, <1>2, <1>4
    <2>2. prefix(x, k) = 2 * q + 1
      BY <2>1, PrefixBlock DEF h
    <2>3. (2 * q + 1) % 2 = 1
      BY <1>2
    <2> QED
      BY <1>3, <2>2, <2>3 DEF q
  <1>5. CASE ~(x >= q * (2 * h) + h)
    <2>1. 2 * q \in Nat /\ (2 * q) * h <= x /\ x < (2 * q) * h + h
      BY <1>1, <1>2, <1>5
    <2>2. prefix(x, k) = 2 * q
      BY <2>1, PrefixBlock DEF h
    <2>3. (2 * q) % 2 = 0
      BY <1>2
    <2> QED
      BY <1>3, <2>2, <2>3 DEF q
  <1> QED
    BY <1>4, <1>5

-----------------------------------------------------------------------------
(* What the search finds *)

\* The range of the ids with prefix q without their k lowest bits.
block(q, k) == [min |-> q * pow2[k], max |-> q * pow2[k] + pow2[k]]

\* The other prefix of the same length with the same prefix one bit shorter.
other(x, k) == IF isSet(x, k) THEN 2 * prefix(x, k + 1) ELSE 2 * prefix(x, k + 1) + 1

\* Halving the interval of a prefix, as the loop does, gives the intervals of the
\* two prefixes that are one bit longer.
LEMMA HalveBlock ==
    ASSUME NEW q \in Nat, NEW k \in Nat
    PROVE  /\ halve(block(q, k + 1), TRUE) = block(2 * q + 1, k)
           /\ halve(block(q, k + 1), FALSE) = block(2 * q, k)
           /\ block(q, k + 1).min < block(q, k + 1).max
  <1> DEFINE h == pow2[k]
  <1>1. h \in Nat \ {0} /\ pow2[k + 1] = 2 * h
    BY Pow2
  <1> HIDE DEF h
  <1>2. block(q, k + 1) = [min |-> q * (2 * h), max |-> q * (2 * h) + 2 * h]
    BY <1>1 DEF block
  <1>3. ((q * (2 * h) + 2 * h) + q * (2 * h)) \div 2 = q * (2 * h) + h
    <2>1. PICK m \in Nat : m = q * (2 * h) + h
      BY <1>1
    <2>2. (q * (2 * h) + 2 * h) + q * (2 * h) = m * 2 + 0
      BY <1>1, <2>1
    <2>3. (m * 2 + 0) \div 2 = m
      BY <2>1
    <2> QED
      BY <2>1, <2>2, <2>3
  <1>4. /\ halve(block(q, k + 1), TRUE) =
             [min |-> q * (2 * h) + h, max |-> q * (2 * h) + 2 * h]
        /\ halve(block(q, k + 1), FALSE) = [min |-> q * (2 * h), max |-> q * (2 * h) + h]
    BY <1>2, <1>3 DEF halve
  <1>5. /\ q * (2 * h) + h = (2 * q + 1) * h
        /\ q * (2 * h) + 2 * h = (2 * q + 1) * h + h
        /\ q * (2 * h) = (2 * q) * h
        /\ q * (2 * h) < q * (2 * h) + 2 * h
    BY <1>1
  <1>6. /\ block(2 * q + 1, k) = [min |-> (2 * q + 1) * h, max |-> (2 * q + 1) * h + h]
        /\ block(2 * q, k) = [min |-> (2 * q) * h, max |-> (2 * q) * h + h]
    BY DEF block, h
  <1>7. /\ halve(block(q, k + 1), TRUE) = block(2 * q + 1, k)
        /\ halve(block(q, k + 1), FALSE) = block(2 * q, k)
    BY Zenon, <1>4, <1>5, <1>6
  <1>8. block(q, k + 1).min < block(q, k + 1).max
    BY <1>2, <1>5
  <1> QED
    BY <1>7, <1>8

\* Above the bit at which it turns the search stays with the node's own id ...
LEMMA SearchOwn ==
    ASSUME NEW c, IsPart(c), NEW flip \in Int, NEW g, Search(c, flip, g),
           NEW idx \in 0 .. c.bitsize, idx > flip
    PROVE  g[idx] = block(prefix(c.id, idx), idx)
  <1> DEFINE b == c.bitsize
             own(i) == g[i] = block(prefix(c.id, i), i)
             T == {k \in Nat : k <= b /\ b - k > flip => own(b - k)}
  <1>1. /\ b \in Nat /\ c.id \in Nat /\ c.id < pow2[b] /\ pow2[b] \in Nat
        /\ b = log2(c.size)
    BY PartShape
  <1>2. 0 \in T
    <2>1. g[b] = [min |-> 0, max |-> pow2[b]]
      BY <1>1 DEF Search
    <2>2. prefix(c.id, b) = 0
      <3>1. 0 * pow2[b] <= c.id /\ c.id < 0 * pow2[b] + pow2[b]
        BY <1>1
      <3> QED
        BY <1>1, <3>1, PrefixBlock
    <2>3. block(0, b) = [min |-> 0, max |-> pow2[b]]
      BY <1>1 DEF block
    <2>4. own(b) /\ b - 0 = b
      BY <1>1, <2>1, <2>2, <2>3
    <2> HIDE DEF own
    <2> QED
      BY <2>4
  <1>3. ASSUME NEW k \in Nat, k \in T PROVE k + 1 \in T
    <2> SUFFICES ASSUME k + 1 <= b, b - (k + 1) > flip PROVE own(b - (k + 1))
      OBVIOUS
    <2> DEFINE i == b - (k + 1)
    <2>1. i \in Nat /\ i + 1 = b - k /\ i \in 0 .. b /\ i # b /\ i # flip /\ b - k > flip
      BY <1>1
    <2>2. own(i + 1)
      <3> HIDE DEF own
      <3> QED
        BY <1>1, <1>3, <2>1
    <2> HIDE DEF i
    <2> DEFINE q == prefix(c.id, i + 1)
    <2>3. q \in Nat
      <3>1. i + 1 \in Nat
        BY <2>1
      <3> QED
        BY <1>1, <3>1, PrefixBlock
    <2>4. g[i + 1] = block(q, i + 1)
      BY <2>2
    <2> HIDE DEF q
    <2>5. g[i] = halve(block(q, i + 1), isSet(c.id, i) # FALSE)
      <3>1. g[i] = IF g[i + 1].min < g[i + 1].max
                   THEN halve(g[i + 1], isSet(c.id, i) # (i = flip)) ELSE g[i + 1]
        BY <2>1 DEF Search
      <3>2. (i = flip) = FALSE
        BY <2>1
      <3> QED
        BY <2>1, <2>3, <2>4, <3>1, <3>2, HalveBlock
    <2>6. CASE isSet(c.id, i)
      <3>1. (isSet(c.id, i) # FALSE) = TRUE
        BY <2>6
      <3>2. g[i] = block(2 * q + 1, i)
        BY <2>1, <2>3, <2>5, <3>1, HalveBlock
      <3> QED
        BY <1>1, <2>1, <2>6, <3>2, PrefixStep DEF q, i
    <2>7. CASE ~isSet(c.id, i)
      <3>1. (isSet(c.id, i) # FALSE) = FALSE
        BY <2>7 DEF isSet
      <3>2. g[i] = block(2 * q, i)
        BY <2>1, <2>3, <2>5, <3>1, HalveBlock
      <3> QED
        BY <1>1, <2>1, <2>7, <3>2, PrefixStep DEF q, i
    <2> QED
      BY <2>6, <2>7
  <1>4. b - idx \in T /\ b - idx <= b /\ b - (b - idx) = idx
    <2> HIDE DEF T
    <2>1. Nat \subseteq T
      BY <1>2, <1>3, SetInduction
    <2> QED
      BY <1>1, <2>1
  <1> HIDE DEF own
  <1>5. own(idx)
    BY <1>1, <1>4
  <1> QED
    BY <1>5 DEF own

\* ... and where it turns, it takes the other half.
LEMMA SearchOther ==
    ASSUME NEW c, IsPart(c), NEW flip \in 0 .. c.bitsize - 1, NEW g, Search(c, flip, g)
    PROVE  g[flip] = block(other(c.id, flip), flip)
  <1> DEFINE q == prefix(c.id, flip + 1)
  <1>1. c.bitsize \in Nat /\ c.id \in Nat
    BY PartShape
  <1>2. flip \in Nat /\ flip + 1 \in 0 .. c.bitsize /\ flip # c.bitsize
        /\ flip \in 0 .. c.bitsize /\ flip \in Int /\ flip + 1 > flip
    BY <1>1
  <1>3. g[flip + 1] = block(q, flip + 1)
    BY <1>2, SearchOwn
  <1>4. q \in Nat
    <2>1. flip + 1 \in Nat
      BY <1>2
    <2> QED
      BY <1>1, <2>1, PrefixBlock
  <1> HIDE DEF q
  <1>5. g[flip] = halve(block(q, flip + 1), isSet(c.id, flip) # TRUE)
    <2>1. g[flip] = IF g[flip + 1].min < g[flip + 1].max
                    THEN halve(g[flip + 1], isSet(c.id, flip) # (flip = flip))
                    ELSE g[flip + 1]
      BY <1>2 DEF Search
    <2>2. (flip = flip) = TRUE
      OBVIOUS
    <2> QED
      BY <1>2, <1>3, <1>4, <2>1, <2>2, HalveBlock
  <1>6. CASE isSet(c.id, flip)
    <2>1. (isSet(c.id, flip) # TRUE) = FALSE
      BY <1>6 DEF isSet
    <2> QED
      BY <1>2, <1>4, <1>5, <1>6, <2>1, HalveBlock DEF other, q
  <1>7. CASE ~isSet(c.id, flip)
    <2>1. (isSet(c.id, flip) # TRUE) = TRUE
      BY <1>7
    <2> QED
      BY <1>2, <1>4, <1>5, <1>7, <2>1, HalveBlock DEF other, q
  <1> QED
    BY <1>6, <1>7

-----------------------------------------------------------------------------
(* Own and other blocks of an id *)

own(x, k)   == block(prefix(x, k), k)
peers(x, k) == block(other(x, k), k)

\* An id is in its own blocks, which are half as large with every bit and lie in
\* each other; the rest of the larger one is the other block.
LEMMA BlockStep ==
    ASSUME NEW x \in Nat, NEW k \in Nat
    PROVE  /\ {own(x, k).min, own(x, k).max, peers(x, k).min, peers(x, k).max} \subseteq Nat
           /\ own(x, k).min <= x /\ x < own(x, k).max
           /\ own(x, k).max = own(x, k).min + pow2[k]
           /\ peers(x, k).max = peers(x, k).min + pow2[k]
           /\ \/ /\ own(x, k + 1).min = own(x, k).min /\ own(x, k).max = peers(x, k).min
                 /\ own(x, k + 1).max = peers(x, k).max
              \/ /\ own(x, k + 1).min = peers(x, k).min /\ peers(x, k).max = own(x, k).min
                 /\ own(x, k + 1).max = own(x, k).max
  <1> DEFINE h == pow2[k]
             p == prefix(x, k)
             q == prefix(x, k + 1)
             o == other(x, k)
  <1>1. h \in Nat \ {0} /\ pow2[k + 1] = 2 * h
    BY Pow2
  <1>2. p \in Nat /\ p * h <= x /\ x < p * h + h
    <2>1. p \in Nat
      BY PrefixBlock
    <2> HIDE DEF p
    <2>2. prefix(x, k) = p
      BY DEF p
    <2> QED
      BY <2>1, <2>2, PrefixBlock
  <1>3. q \in Nat
    <2>1. k + 1 \in Nat
      OBVIOUS
    <2> QED
      BY <2>1, PrefixBlock
  <1>4. \/ p = 2 * q + 1 /\ o = 2 * q
        \/ p = 2 * q /\ o = 2 * q + 1
    BY PrefixStep DEF other
  <1>5. /\ own(x, k) = [min |-> p * h, max |-> p * h + h]
        /\ peers(x, k) = [min |-> o * h, max |-> o * h + h]
        /\ own(x, k + 1) = [min |-> q * (2 * h), max |-> q * (2 * h) + 2 * h]
    BY <1>1 DEF own, peers, block
  <1> HIDE DEF h, p, q, o
  <1>6. /\ q * (2 * h) = (2 * q) * h
        /\ q * (2 * h) + 2 * h = (2 * q + 1) * h + h
        /\ (2 * q) * h + h = (2 * q + 1) * h
        /\ (2 * q) * h \in Nat /\ (2 * q + 1) * h \in Nat
    BY <1>1, <1>3
  <1>7. CASE p = 2 * q + 1 /\ o = 2 * q
    <2>1. /\ own(x, k) = [min |-> (2 * q + 1) * h, max |-> (2 * q + 1) * h + h]
          /\ peers(x, k) = [min |-> (2 * q) * h, max |-> (2 * q) * h + h]
      BY <1>5, <1>7
    <2> QED
      BY <1>1, <1>2, <1>5, <1>6, <1>7, <2>1 DEF h
  <1>8. CASE p = 2 * q /\ o = 2 * q + 1
    <2>1. /\ own(x, k) = [min |-> (2 * q) * h, max |-> (2 * q) * h + h]
          /\ peers(x, k) = [min |-> (2 * q + 1) * h, max |-> (2 * q + 1) * h + h]
      BY <1>5, <1>8
    <2> QED
      BY <1>1, <1>2, <1>5, <1>6, <1>8, <2>1 DEF h
  <1> QED
    BY <1>4, <1>7, <1>8

\* The own block of more bits lies in that of fewer.
LEMMA BlocksNest ==
    ASSUME NEW x \in Nat, NEW i \in Nat, NEW k \in Nat, i <= k
    PROVE  own(x, k).min <= own(x, i).min /\ own(x, i).max <= own(x, k).max
  <1> DEFINE In(m) == own(x, i + m).min <= own(x, i).min /\ own(x, i).max <= own(x, i + m).max
             T == {m \in Nat : In(m)}
  <1>1. 0 \in T
    <2>1. i + 0 = i /\ {own(x, i).min, own(x, i).max} \subseteq Nat
      BY BlockStep
    <2> QED
      BY <2>1
  <1>2. ASSUME NEW m \in Nat, m \in T PROVE m + 1 \in T
    <2> DEFINE j == i + m
    <2>1. j \in Nat /\ i + (m + 1) = j + 1
      OBVIOUS
    <2>2. own(x, j).min <= own(x, i).min /\ own(x, i).max <= own(x, j).max
      BY <1>2
    <2> HIDE DEF j
    <2>3. j + 1 \in Nat
      BY <2>1
    <2>4. /\ {own(x, i).min, own(x, i).max, own(x, j).min, own(x, j).max} \subseteq Nat
          /\ {own(x, j + 1).min, own(x, j + 1).max} \subseteq Nat
      BY <2>1, <2>3, BlockStep
    <2>5. own(x, j + 1).min <= own(x, j).min /\ own(x, j).max <= own(x, j + 1).max
      <3>1. pow2[j] \in Nat
        BY <2>1, Pow2
      <3>2. /\ {peers(x, j).min, peers(x, j).max} \subseteq Nat
            /\ own(x, j).max = own(x, j).min + pow2[j]
            /\ peers(x, j).max = peers(x, j).min + pow2[j]
            /\ \/ /\ own(x, j + 1).min = own(x, j).min /\ own(x, j).max = peers(x, j).min
                  /\ own(x, j + 1).max = peers(x, j).max
               \/ /\ own(x, j + 1).min = peers(x, j).min /\ peers(x, j).max = own(x, j).min
                  /\ own(x, j + 1).max = own(x, j).max
        BY <2>1, BlockStep
      <3> QED
        BY <2>4, <3>1, <3>2
    <2>6. own(x, j + 1).min <= own(x, i).min /\ own(x, i).max <= own(x, j + 1).max
      BY <2>2, <2>4, <2>5
    <2> QED
      BY <2>1, <2>6
  <1>3. k - i \in T
    <2> HIDE DEF T
    <2>1. Nat \subseteq T
      BY <1>1, <1>2, SetInduction
    <2> QED
      BY <2>1
  <1>4. i + (k - i) = k
    OBVIOUS
  <1> QED
    BY <1>3, <1>4

\* The own block of no bit is the id.
LEMMA OwnIsId ==
    ASSUME NEW x \in Nat
    PROVE  own(x, 0) = [min |-> x, max |-> x + 1]
  <1>1. pow2[0] = 1 /\ x * 1 = x /\ x * 1 <= x /\ x < x * 1 + 1
    BY Pow2
  <1>2. prefix(x, 0) = x
    BY <1>1, PrefixBlock
  <1> QED
    BY <1>1, <1>2 DEF own, block

\* An id is in a block of k bits exactly when it has the block's prefix.
LEMMA InBlock ==
    ASSUME NEW x \in Nat, NEW j \in Nat, NEW k \in Nat
    PROVE  /\ own(x, k).min <= j /\ j < own(x, k).max <=> prefix(j, k) = prefix(x, k)
           /\ peers(x, k).min <= j /\ j < peers(x, k).max <=> prefix(j, k) = other(x, k)
           /\ other(x, k) \in Nat
  <1>1. prefix(x, k) \in Nat /\ prefix(x, k + 1) \in Nat
    <2>1. k + 1 \in Nat
      OBVIOUS
    <2> QED
      BY <2>1, PrefixBlock
  <1>2. other(x, k) \in Nat
    BY <1>1 DEF other
  <1>3. \A q \in Nat : prefix(j, k) = q <=> block(q, k).min <= j /\ j < block(q, k).max
    BY PrefixBlock DEF block
  <1> QED
    BY <1>1, <1>2, <1>3 DEF own, peers

\* Whom an id sees in its other block sees the id in its own.
LEMMA OtherOfOther ==
    ASSUME NEW x \in Nat, NEW j \in Nat, NEW k \in Nat, prefix(j, k) = other(x, k)
    PROVE  other(j, k) = prefix(x, k)
  <1> DEFINE p == prefix(x, k + 1)
             q == prefix(j, k + 1)
  <1>1. p \in Nat /\ q \in Nat
    <2>1. k + 1 \in Nat
      OBVIOUS
    <2> QED
      BY <2>1, PrefixBlock
  <1>2. /\ isSet(x, k) => prefix(x, k) = 2 * p + 1
        /\ ~isSet(x, k) => prefix(x, k) = 2 * p
        /\ isSet(j, k) => prefix(j, k) = 2 * q + 1
        /\ ~isSet(j, k) => prefix(j, k) = 2 * q
    BY PrefixStep
  <1>3. /\ isSet(x, k) => other(x, k) = 2 * p
        /\ ~isSet(x, k) => other(x, k) = 2 * p + 1
        /\ isSet(j, k) => other(j, k) = 2 * q
        /\ ~isSet(j, k) => other(j, k) = 2 * q + 1
    BY DEF other
  <1> HIDE DEF p, q
  <1> QED
    BY <1>1, <1>2, <1>3

\* The own block of k bits is the id and its other blocks of fewer bits.
LEMMA OwnIsOthers ==
    ASSUME NEW x \in Nat, NEW j \in Nat, j # x, NEW k \in Nat,
           own(x, k).min <= j, j < own(x, k).max
    PROVE  \E i \in 0 .. k - 1 : peers(x, i).min <= j /\ j < peers(x, i).max
  <1> DEFINE In(m)   == own(x, m).min <= j /\ j < own(x, m).max
             Out(i)  == peers(x, i).min <= j /\ j < peers(x, i).max
             T == {m \in Nat : In(m) => \E i \in 0 .. m - 1 : Out(i)}
  <1>1. 0 \in T
    <2>1. own(x, 0).min = x /\ own(x, 0).max = x + 1
      BY OwnIsId
    <2>2. ~In(0)
      BY <2>1
    <2> HIDE DEF In, Out
    <2> QED
      BY <2>2
  <1>2. ASSUME NEW m \in Nat, m \in T PROVE m + 1 \in T
    <2>1. pow2[m] \in Nat
      BY Pow2
    <2>2. In(m + 1) => In(m) \/ Out(m)
      <3>1. /\ {own(x, m).min, own(x, m).max, peers(x, m).min, peers(x, m).max} \subseteq Nat
            /\ \/ /\ own(x, m + 1).min = own(x, m).min /\ own(x, m).max = peers(x, m).min
                  /\ own(x, m + 1).max = peers(x, m).max
               \/ /\ own(x, m + 1).min = peers(x, m).min /\ peers(x, m).max = own(x, m).min
                  /\ own(x, m + 1).max = own(x, m).max
        BY BlockStep, Zenon
      <3> QED
        BY <3>1
    <2> HIDE DEF In, Out
    <2>3. \A i \in 0 .. m - 1 : i \in 0 .. (m + 1) - 1
      OBVIOUS
    <2>4. m \in 0 .. (m + 1) - 1 /\ m + 1 \in Nat
      OBVIOUS
    <2>5. In(m) => \E i \in 0 .. m - 1 : Out(i)
      BY <1>2
    <2> QED
      BY <2>2, <2>3, <2>4, <2>5
  <1>3. k \in T
    <2> HIDE DEF T
    <2> QED
      BY <1>1, <1>2, SetInduction
  <1> QED
    BY <1>3

-----------------------------------------------------------------------------
(* The ranges of a level *)

\* The search without a turn finds the node's own block, and with one the block
\* of its peers.
LEMMA DescendBlocks ==
    ASSUME NEW c, IsPart(c)
    PROVE  /\ Descend(c, 0, -1) = own(c.id, 0)
           /\ \A l \in 1 .. c.bitsize : /\ Descend(c, l, -1) = own(c.id, l - 1)
                                         /\ Descend(c, l, l - 1) = peers(c.id, l - 1)
  <1>1. c.bitsize \in Nat
    BY PartShape
  <1> DEFINE g(flip) == CHOOSE f : Search(c, flip, f)
  <1>2. \A flip : Search(c, flip, g(flip))
    BY SearchExists
  <1>3. \A l, flip : Descend(c, l, flip) = g(flip)[IF l = 0 THEN 0 ELSE l - 1]
    BY DescendIs
  <1> HIDE DEF g
  <1>4. Descend(c, 0, -1) = own(c.id, 0)
    <2>1. 0 \in 0 .. c.bitsize /\ 0 > -1 /\ -1 \in Int
      BY <1>1
    <2>2. g(-1)[0] = block(prefix(c.id, 0), 0)
      BY <1>2, <2>1, SearchOwn
    <2> QED
      BY <1>3, <2>2 DEF own
  <1>5. ASSUME NEW l \in 1 .. c.bitsize
        PROVE  Descend(c, l, -1) = own(c.id, l - 1)
    <2>1. l - 1 \in 0 .. c.bitsize /\ l - 1 > -1 /\ -1 \in Int /\ l # 0
      BY <1>1
    <2>2. g(-1)[l - 1] = block(prefix(c.id, l - 1), l - 1)
      BY <1>2, <2>1, SearchOwn
    <2> QED
      BY <1>3, <2>1, <2>2 DEF own
  <1>6. ASSUME NEW l \in 1 .. c.bitsize
        PROVE  Descend(c, l, l - 1) = peers(c.id, l - 1)
    <2>1. l - 1 \in 0 .. c.bitsize - 1 /\ l # 0
      BY <1>1
    <2>2. g(l - 1)[l - 1] = block(other(c.id, l - 1), l - 1)
      BY <1>2, <2>1, SearchOther
    <2> QED
      BY <1>3, <2>1, <2>2 DEF peers
  <1> QED
    BY <1>4, <1>5, <1>6

\* The ranges of a level and of its inverse: blocks, cut at the end of the
\* registry.  Level 0 is the node, and a level that begins past the end is empty.
LEMMA Ranges ==
    ASSUME NEW c, IsPart(c)
    PROVE  /\ rangeLevel(c, 0) = okRange(c.id, c.id + 1)
           /\ \A l \in 1 .. c.bitsize :
                 /\ rangeLevel(c, l) = IF peers(c.id, l - 1).min >= c.size THEN errEmptyLevel
                                       ELSE clamp(c, peers(c.id, l - 1))
                 /\ rangeLevelInverse(c, l) = clamp(c, own(c.id, l - 1))
  <1>1. /\ c.bitsize \in Nat /\ c.id \in Nat /\ c.size \in Nat /\ c.id < c.size
    BY PartShape
  <1>2. rangeLevel(c, 0) = okRange(c.id, c.id + 1)
    <2>1. ValidLevel(c, 0) /\ 0 - 1 = -1
      BY <1>1 DEF ValidLevel
    <2>2. Descend(c, 0, 0 - 1) = [min |-> c.id, max |-> c.id + 1]
      BY <1>1, <2>1, DescendBlocks, OwnIsId
    <2> QED
      BY <1>1, <2>1, <2>2 DEF rangeLevel, clamp
  <1>3. ASSUME NEW l \in 1 .. c.bitsize
        PROVE  /\ rangeLevel(c, l) = IF peers(c.id, l - 1).min >= c.size THEN errEmptyLevel
                                     ELSE clamp(c, peers(c.id, l - 1))
               /\ rangeLevelInverse(c, l) = clamp(c, own(c.id, l - 1))
    <2>1. ValidLevel(c, l)
      BY <1>1 DEF ValidLevel
    <2>2. Descend(c, l, l - 1) = peers(c.id, l - 1) /\ Descend(c, l, -1) = own(c.id, l - 1)
      BY DescendBlocks
    <2> QED
      BY <2>1, <2>2 DEF rangeLevel, rangeLevelInverse
  <1> QED
    BY <1>2, <1>3

\* The end of a block, cut at the end of the registry.
cutAt(c, v) == IF v > c.size THEN c.size ELSE v

\* Where the interface of a partitioner says that the levels are: at the other
\* blocks of the node, and their inverses at its own, cut at the end of the registry.
LEMMA InterfaceBlocks ==
    ASSUME NEW c, IsPart(c), NEW l \in 1 .. c.bitsize, NEW part, part = Interface(c),
           NEW x, x = c.id
    PROVE  /\ l - 1 \in Nat
           /\ {own(x, l - 1).min, own(x, l - 1).max,
               peers(x, l - 1).min, peers(x, l - 1).max} \subseteq Nat
           /\ own(x, l - 1).min <= x /\ x < own(x, l - 1).max
           /\ peers(x, l - 1).min < peers(x, l - 1).max
           /\ \/ own(x, l - 1).max <= peers(x, l - 1).min
              \/ peers(x, l - 1).max <= own(x, l - 1).min
           /\ l \in Levels(c) <=> peers(x, l - 1).min < c.size
           /\ l \in Levels(c) => /\ part.base[l] = peers(x, l - 1).min
                                 /\ part.base[l] + part.size[l] = cutAt(c, peers(x, l - 1).max)
                                 /\ part.size[l] \in Nat /\ part.size[l] > 0
           /\ l \notin Levels(c) => part.base[l] = 0 /\ part.size[l] = 0
           /\ part.invBase[l] = own(x, l - 1).min
           /\ part.invSize[l] \in Nat
           /\ part.invBase[l] + part.invSize[l] = cutAt(c, own(x, l - 1).max)
  <1> DEFINE b == c.bitsize
             n == c.size
             cut(v) == cutAt(c, v)
  <1> USE DEF cutAt
  <1>1. /\ b \in Nat /\ x \in Nat /\ n \in Nat /\ n > 0 /\ x < n
        /\ MaxLevel(c) = b
    BY PartShape DEF MaxLevel
  <1>2. /\ part.n = n /\ part.max = b /\ part.levels = {0} \cup Levels(c)
        /\ part.base = [k \in 0 .. b |-> rangeLevel(c, k).min]
        /\ part.size = [k \in 0 .. b |-> Size(c, k)]
        /\ part.invBase = [k \in 0 .. b |-> rangeLevelInverse(c, k).min]
        /\ part.invSize = [k \in 0 .. b |->
                             rangeLevelInverse(c, k).max - rangeLevelInverse(c, k).min]
    BY <1>1 DEF Interface
  <1>3. /\ l - 1 \in Nat
        /\ {own(x, l - 1).min, own(x, l - 1).max,
            peers(x, l - 1).min, peers(x, l - 1).max} \subseteq Nat
        /\ own(x, l - 1).min <= x /\ x < own(x, l - 1).max
        /\ peers(x, l - 1).min < peers(x, l - 1).max
        /\ \/ own(x, l - 1).max <= peers(x, l - 1).min
           \/ peers(x, l - 1).max <= own(x, l - 1).min
    <2>1. l - 1 \in Nat /\ pow2[l - 1] \in Nat \ {0}
      BY <1>1, Pow2
    <2> DEFINE k == l - 1
    <2> HIDE DEF k
    <2>2. /\ {own(x, k).min, own(x, k).max, peers(x, k).min, peers(x, k).max} \subseteq Nat
          /\ own(x, k).min <= x /\ x < own(x, k).max
          /\ peers(x, k).max = peers(x, k).min + pow2[k]
          /\ own(x, k).max = peers(x, k).min \/ peers(x, k).max = own(x, k).min
      BY <1>1, <2>1, BlockStep DEF k
    <2> QED
      BY <2>1, <2>2 DEF k
  <1>4. /\ l \in Levels(c) <=> peers(x, l - 1).min < n
        /\ l \in Levels(c) => /\ part.base[l] = peers(x, l - 1).min
                              /\ part.base[l] + part.size[l] = cut(peers(x, l - 1).max)
                              /\ part.size[l] \in Nat /\ part.size[l] > 0
        /\ l \notin Levels(c) => part.base[l] = 0 /\ part.size[l] = 0
    <2>1. rangeLevel(c, l) = IF peers(x, l - 1).min >= n THEN errEmptyLevel
                             ELSE clamp(c, peers(x, l - 1))
      BY Ranges
    <2>2. part.base[l] = rangeLevel(c, l).min
          /\ part.size[l] = rangeLevel(c, l).max - rangeLevel(c, l).min
      BY <1>1, <1>2 DEF Size
    <2>3. l \in Levels(c) <=> rangeLevel(c, l).err = "ok"
      BY <1>1 DEF Levels
    <2>4. CASE peers(x, l - 1).min >= n
      BY <1>1, <1>3, <2>1, <2>2, <2>3, <2>4 DEF errEmptyLevel
    <2>5. CASE ~(peers(x, l - 1).min >= n)
      <3>1. rangeLevel(c, l) = okRange(peers(x, l - 1).min, cut(peers(x, l - 1).max))
        BY <2>1, <2>5 DEF clamp
      <3>2. /\ rangeLevel(c, l).err = "ok" /\ rangeLevel(c, l).min = peers(x, l - 1).min
            /\ rangeLevel(c, l).max = cut(peers(x, l - 1).max)
        BY <3>1 DEF okRange
      <3> QED
        BY <1>1, <1>3, <2>2, <2>3, <2>5, <3>2
    <2> QED
      BY <2>4, <2>5
  <1>5. /\ part.invBase[l] = own(x, l - 1).min
        /\ part.invSize[l] \in Nat
        /\ part.invBase[l] + part.invSize[l] = cut(own(x, l - 1).max)
    <2>1. rangeLevelInverse(c, l) = okRange(own(x, l - 1).min, cut(own(x, l - 1).max))
      BY Ranges DEF clamp
    <2>2. /\ rangeLevelInverse(c, l).min = own(x, l - 1).min
          /\ rangeLevelInverse(c, l).max = cut(own(x, l - 1).max)
      BY <2>1 DEF okRange
    <2> QED
      BY <1>1, <1>2, <1>3, <2>2
  <1> QED
    BY <1>3, <1>4, <1>5

\* The partitioner meets the contract its users rely on, for every id and every
\* size of the registry.
THEOREM PartitionerContract ==
    ASSUME NEW c, IsPart(c)
    PROVE  Contract(Interface(c))
  <1> DEFINE b == c.bitsize
             n == c.size
             x == c.id
             part == Interface(c)
             cut(v) == cutAt(c, v)
  <1> USE DEF cutAt
  <1>1. /\ b \in Nat /\ x \in Nat /\ n \in Nat /\ n > 0 /\ x < n
        /\ MaxLevel(c) = b
    BY PartShape DEF MaxLevel
  <1>2. /\ part.n = n /\ part.max = b /\ part.levels = {0} \cup Levels(c)
        /\ part.base = [l \in 0 .. b |-> rangeLevel(c, l).min]
        /\ part.size = [l \in 0 .. b |-> Size(c, l)]
        /\ part.invBase = [l \in 0 .. b |-> rangeLevelInverse(c, l).min]
        /\ part.invSize = [l \in 0 .. b |->
                             rangeLevelInverse(c, l).max - rangeLevelInverse(c, l).min]
    BY <1>1 DEF Interface
  <1>3. part.base[0] = x /\ part.size[0] = 1
    BY <1>1, <1>2, Ranges DEF Size, okRange
  <1>4. ASSUME NEW l \in 1 .. b
        PROVE  /\ l - 1 \in Nat
               /\ {own(x, l - 1).min, own(x, l - 1).max,
                   peers(x, l - 1).min, peers(x, l - 1).max} \subseteq Nat
               /\ own(x, l - 1).min <= x /\ x < own(x, l - 1).max
               /\ peers(x, l - 1).min < peers(x, l - 1).max
               /\ \/ own(x, l - 1).max <= peers(x, l - 1).min
                  \/ peers(x, l - 1).max <= own(x, l - 1).min
    BY InterfaceBlocks
  <1>5. ASSUME NEW l \in 1 .. b
        PROVE  /\ l \in Levels(c) <=> peers(x, l - 1).min < n
               /\ l \in Levels(c) => /\ part.base[l] = peers(x, l - 1).min
                                     /\ part.base[l] + part.size[l] = cut(peers(x, l - 1).max)
                                     /\ part.size[l] \in Nat /\ part.size[l] > 0
               /\ l \notin Levels(c) => part.base[l] = 0 /\ part.size[l] = 0
    BY InterfaceBlocks
  <1>6. ASSUME NEW l \in 1 .. b
        PROVE  /\ part.invBase[l] = own(x, l - 1).min
               /\ part.invSize[l] \in Nat
               /\ part.invBase[l] + part.invSize[l] = cut(own(x, l - 1).max)
    BY InterfaceBlocks
  <1>7. part.invBase[0] \in Nat /\ part.invSize[0] \in Nat
    <2>1. ValidLevel(c, 0) /\ Descend(c, 0, -1) = [min |-> x, max |-> x + 1]
      BY <1>1, DescendBlocks, OwnIsId DEF ValidLevel
    <2>2. rangeLevelInverse(c, 0) = okRange(x, x + 1)
      BY <1>1, <2>1 DEF rangeLevelInverse, clamp
    <2> QED
      BY <1>1, <1>2, <2>2 DEF okRange
  \* A level lies in the own block of the levels above it.
  <1>8. ASSUME NEW k \in part.levels, NEW l \in 1 .. b, k < l
        PROVE  /\ own(x, l - 1).min <= part.base[k]
               /\ part.base[k] + part.size[k] <= cut(own(x, l - 1).max)
    <2>1. CASE k = 0
      BY <1>1, <1>3, <1>4, <2>1
    <2>2. CASE k # 0
      <3>1. k \in 1 .. b /\ k \in Levels(c) /\ k - 1 \in Nat /\ l - 1 \in Nat /\ k \in Nat
            /\ k <= l - 1 /\ (k - 1) + 1 = k
        BY <1>1, <1>2, <1>8, <2>2 DEF Levels
      <3>2. part.base[k] = peers(x, k - 1).min
            /\ part.base[k] + part.size[k] = cut(peers(x, k - 1).max)
        BY <1>5, <3>1
      <3>3. own(x, k).min <= peers(x, k - 1).min /\ peers(x, k - 1).max <= own(x, k).max
        <4>1. PICK j \in Nat : j = k - 1 /\ j + 1 = k
          BY <3>1
        <4>2. x \in Nat /\ pow2[j] \in Nat
          BY <1>1, Pow2
        <4>3. /\ {own(x, j).min, own(x, j).max, peers(x, j).min, peers(x, j).max} \subseteq Nat
              /\ own(x, j).max = own(x, j).min + pow2[j]
              /\ peers(x, j).max = peers(x, j).min + pow2[j]
              /\ \/ /\ own(x, j + 1).min = own(x, j).min /\ own(x, j).max = peers(x, j).min
                    /\ own(x, j + 1).max = peers(x, j).max
                 \/ /\ own(x, j + 1).min = peers(x, j).min /\ peers(x, j).max = own(x, j).min
                    /\ own(x, j + 1).max = own(x, j).max
          BY <4>2, BlockStep, Zenon
        <4>4. own(x, j + 1).min <= peers(x, j).min /\ peers(x, j).max <= own(x, j + 1).max
          BY <4>2, <4>3
        <4> QED
          BY <4>1, <4>4, Zenon
      <3>4. own(x, l - 1).min <= own(x, k).min /\ own(x, k).max <= own(x, l - 1).max
        BY <1>1, <3>1, BlocksNest
      <3>5. {own(x, k).min, own(x, k).max} \subseteq Nat
        BY <1>1, <3>1, BlockStep
      <3> QED
        BY <1>1, <1>4, <3>1, <3>2, <3>3, <3>4, <3>5
    <2> QED
      BY <2>1, <2>2
  <1> HIDE DEF part
  <1>9. \A l \in part.levels : l = 0 \/ (l \in 1 .. b /\ l \in Levels(c))
    BY <1>1, <1>2 DEF Levels
  <1>10. part.n \in Nat \ {0} /\ part.max \in Nat
    BY <1>1, <1>2
  <1>11. part.levels \subseteq 0 .. part.max /\ 0 \in part.levels
    BY <1>1, <1>2, <1>9
  <1>12. \A l \in 0 .. b : /\ part.base[l] \in Nat /\ part.size[l] \in Nat
                           /\ part.invBase[l] \in Nat /\ part.invSize[l] \in Nat
    <2> SUFFICES ASSUME NEW l \in 0 .. b, l # 0
                 PROVE  /\ part.base[l] \in Nat /\ part.size[l] \in Nat
                        /\ part.invBase[l] \in Nat /\ part.invSize[l] \in Nat
      BY <1>1, <1>3, <1>7
    <2>1. l \in 1 .. b
      BY <1>1
    <2> QED
      BY <1>1, <1>4, <1>5, <1>6, <2>1
  <1>13. {part.base, part.size, part.invBase, part.invSize} \subseteq [0 .. part.max -> Nat]
    BY <1>2, <1>12
  <1>14. \A l \in part.levels : part.size[l] > 0 /\ part.base[l] + part.size[l] <= part.n
    <2> TAKE l \in part.levels
    <2>1. CASE l = 0
      BY <1>1, <1>2, <1>3, <2>1
    <2>2. CASE l # 0
      <3>1. l \in 1 .. b /\ l \in Levels(c)
        BY <1>9, <2>2
      <3>2. part.size[l] > 0 /\ part.base[l] + part.size[l] = cut(peers(x, l - 1).max)
        BY <1>5, <3>1
      <3>3. peers(x, l - 1).max \in Nat /\ part.n = n
        BY <1>2, <1>4, <3>1
      <3> QED
        BY <1>1, <3>2, <3>3
    <2> QED
      BY <2>1, <2>2
  <1>15. \A j, k \in part.levels :
           j < k => \/ part.base[j] + part.size[j] <= part.base[k]
                    \/ part.base[k] + part.size[k] <= part.base[j]
    <2> SUFFICES ASSUME NEW j \in part.levels, NEW k \in part.levels, j < k
                 PROVE  \/ part.base[j] + part.size[j] <= part.base[k]
                        \/ part.base[k] + part.size[k] <= part.base[j]
      OBVIOUS
    <2>1. j \in 0 .. b /\ k \in 1 .. b /\ k \in Levels(c) /\ k \in 0 .. b
      BY <1>1, <1>9
    <2>2. /\ own(x, k - 1).min <= part.base[j]
          /\ part.base[j] + part.size[j] <= cut(own(x, k - 1).max)
      BY <1>8, <2>1
    <2>3. /\ part.base[k] = peers(x, k - 1).min
          /\ part.base[k] + part.size[k] = cut(peers(x, k - 1).max)
      BY <1>5, <2>1
    <2> QED
      BY <1>1, <1>4, <1>12, <2>1, <2>2, <2>3
  <1>16. \A l \in part.levels \ {0} : \A k \in part.levels :
           k < l => /\ part.invBase[l] <= part.base[k]
                    /\ part.base[k] + part.size[k] <= part.invBase[l] + part.invSize[l]
    BY <1>6, <1>8, <1>9
  <1> QED
    BY <1>3, <1>10, <1>11, <1>13, <1>14, <1>15, <1>16 DEF Contract, part

\* The tables of a partitioner's interface say where its levels are.
LEMMA InterfaceIs ==
    ASSUME NEW c, IsPart(c)
    PROVE  /\ Interface(c).n = c.size
           /\ Interface(c).base[0] = c.id
           /\ \A l \in Interface(c).levels \ {0} :
                 /\ rangeLevel(c, l).err = "ok"
                 /\ rangeLevel(c, l).min = Interface(c).base[l]
                 /\ rangeLevel(c, l).max = Interface(c).base[l] + Interface(c).size[l]
  <1> DEFINE part == Interface(c)
             b    == c.bitsize
  <1>1. /\ c.id \in Nat /\ b \in Nat /\ MaxLevel(c) = b
    BY PartShape DEF MaxLevel
  <1>2. /\ part.n = c.size /\ part.levels = {0} \cup Levels(c)
        /\ part.base = [l \in 0 .. b |-> rangeLevel(c, l).min]
        /\ part.size = [l \in 0 .. b |-> Size(c, l)]
    BY <1>1 DEF Interface
  <1>3. part.base[0] = c.id
    BY <1>1, <1>2, Ranges DEF okRange
  <1>4. ASSUME NEW l \in part.levels \ {0}
        PROVE  /\ rangeLevel(c, l).err = "ok"
               /\ rangeLevel(c, l).min = part.base[l]
               /\ rangeLevel(c, l).max = part.base[l] + part.size[l]
    <2>1. l \in 1 .. b /\ l \in 0 .. b /\ rangeLevel(c, l).err = "ok"
      BY <1>1, <1>2 DEF Levels
    <2>2. rangeLevel(c, l).min = part.base[l]
      BY <1>2, <2>1
    <2>3. part.size[l] = rangeLevel(c, l).max - rangeLevel(c, l).min
      BY <1>2, <2>1 DEF Size
    <2>4. part.base[l] \in Nat /\ part.size[l] \in Nat
      BY PartitionerContract DEF Contract
    <2>5. rangeLevel(c, l).max \in Int
      <3>1. rangeLevel(c, l) = clamp(c, peers(c.id, l - 1))
        BY <2>1, Ranges DEF errEmptyLevel
      <3>2. l - 1 \in Nat
        BY <2>1
      <3>3. peers(c.id, l - 1).max \in Int /\ c.size \in Nat
        BY <1>1, <3>2, BlockStep, PartShape
      <3> QED
        BY <3>1, <3>3 DEF clamp, okRange
    <2> QED
      BY <2>1, <2>2, <2>3, <2>4, <2>5
  <1> QED
    BY <1>2, <1>3, <1>4

\* The ids of a level, and of its inverse.
rangeOf(P, l)   == P.base[l] .. P.base[l] + P.size[l] - 1
inverseOf(P, l) == P.invBase[l] .. P.invBase[l] + P.invSize[l] - 1

\* Two nodes see each other at the same level, and the range of the one is the
\* inverse range of the other.
LEMMA PeersMutual ==
    ASSUME NEW size \in Nat \ {0}, NEW x \in 0 .. size - 1, NEW j \in 0 .. size - 1,
           NEW P, P = Interface(NewBinPartitioner(x, size)),
           NEW Q, Q = Interface(NewBinPartitioner(j, size)),
           NEW l \in P.levels \ {0}, j \in rangeOf(P, l)
    PROVE  /\ l \in Q.levels \ {0}
           /\ Q.base[l] = P.invBase[l] /\ Q.size[l] = P.invSize[l]
           /\ x \in rangeOf(Q, l)
  <1> DEFINE c == NewBinPartitioner(x, size)
             d == NewBinPartitioner(j, size)
             b == log2(size)
             k == l - 1
  <1>1. IsPart(c) /\ IsPart(d)
    BY DEF IsPart
  <1>2. /\ c.id = x /\ c.size = size /\ c.bitsize = b
        /\ d.id = j /\ d.size = size /\ d.bitsize = b
    BY DEF NewBinPartitioner
  <1>3. b \in Nat /\ MaxLevel(c) = b /\ MaxLevel(d) = b /\ x \in Nat /\ j \in Nat
    BY <1>2, Log2 DEF MaxLevel
  <1>4. P.levels = {0} \cup Levels(c) /\ Q.levels = {0} \cup Levels(d)
    BY DEF Interface
  <1>5. l \in 1 .. b /\ l \in Levels(c) /\ l # 0
    BY <1>3, <1>4 DEF Levels
  <1> HIDE DEF c, d, b
  <1>6. P = Interface(c) /\ Q = Interface(d)
    BY DEF c, d
  <1>7. /\ k \in Nat
        /\ {own(x, k).min, own(x, k).max, peers(x, k).min, peers(x, k).max} \subseteq Nat
        /\ own(x, k).min <= x /\ x < own(x, k).max
        /\ P.base[l] = peers(x, k).min /\ P.size[l] \in Nat
        /\ P.base[l] + P.size[l] = cutAt(c, peers(x, k).max)
        /\ P.invBase[l] = own(x, k).min /\ P.invSize[l] \in Nat
        /\ P.invBase[l] + P.invSize[l] = cutAt(c, own(x, k).max)
        /\ l \in Levels(c) <=> peers(x, k).min < size
    BY <1>1, <1>2, <1>5, <1>6, InterfaceBlocks
  <1> HIDE DEF k
  <1>8. peers(x, k).min <= j /\ j < peers(x, k).max
    <2>1. P.base[l] <= j /\ j < P.base[l] + P.size[l]
      <3>1. P.base[l] \in Nat /\ P.size[l] \in Nat
        BY <1>7
      <3> QED
        BY <1>3, <3>1 DEF rangeOf
    <2> QED
      BY <1>2, <1>3, <1>7, <2>1 DEF cutAt
  <1>9. prefix(j, k) = other(x, k)
    <2>1. k \in Nat /\ x \in Nat /\ j \in Nat
      BY <1>3, <1>7
    <2>2. peers(x, k).min <= j /\ j < peers(x, k).max <=> prefix(j, k) = other(x, k)
      BY <2>1, InBlock
    <2> QED
      BY <1>8, <2>2
  <1>10. peers(j, k) = own(x, k)
    BY <1>3, <1>7, <1>9, OtherOfOther DEF peers, own
  <1>11. /\ l \in Levels(d) <=> peers(j, k).min < size
         /\ l \in Levels(d) => /\ Q.base[l] = peers(j, k).min /\ Q.size[l] \in Nat
                               /\ Q.base[l] + Q.size[l] = cutAt(d, peers(j, k).max)
    BY <1>1, <1>2, <1>5, <1>6, InterfaceBlocks DEF k
  <1>12. l \in Levels(d)
    BY <1>3, <1>7, <1>10, <1>11
  <1>13. /\ Q.base[l] = own(x, k).min /\ Q.size[l] \in Nat
         /\ Q.base[l] + Q.size[l] = cutAt(d, own(x, k).max)
    BY <1>10, <1>11, <1>12
  <1>14. Q.size[l] = P.invSize[l] /\ x \in rangeOf(Q, l)
    BY <1>2, <1>7, <1>13 DEF cutAt, rangeOf
  <1> QED
    BY <1>4, <1>5, <1>7, <1>12, <1>13, <1>14

\* The levels below a level make up its inverse range, and all levels the registry.
LEMMA LevelsCover ==
    ASSUME NEW size \in Nat \ {0}, NEW x \in 0 .. size - 1, NEW j \in 0 .. size - 1, j # x,
           NEW P, P = Interface(NewBinPartitioner(x, size))
    PROVE  /\ \E k \in P.levels \ {0} : j \in rangeOf(P, k)
           /\ \A l \in P.levels \ {0} :
                 j \in inverseOf(P, l) => \E k \in P.levels \ {0} : k < l /\ j \in rangeOf(P, k)
  <1> DEFINE c == NewBinPartitioner(x, size)
             b == log2(size)
  <1>1. IsPart(c)
    BY DEF IsPart
  <1>2. c.id = x /\ c.size = size /\ c.bitsize = b
    BY DEF NewBinPartitioner
  <1>3. /\ b \in Nat /\ MaxLevel(c) = b /\ x \in Nat /\ j \in Nat
        /\ pow2[b] \in Nat /\ pow2[b] >= size
    BY <1>2, Log2, Pow2 DEF MaxLevel
  <1>4. P.levels = {0} \cup Levels(c) /\ P.levels \ {0} \subseteq 1 .. b
    BY <1>3 DEF Interface, Levels
  <1> HIDE DEF c, b
  <1>5. P = Interface(c)
    BY DEF c
  <1>6. ASSUME NEW m \in 0 .. b, own(x, m).min <= j, j < own(x, m).max
        PROVE  \E k \in P.levels \ {0} : k <= m /\ j \in rangeOf(P, k)
    <2>1. m \in Nat
      BY <1>3
    <2>2. PICK i \in 0 .. m - 1 : peers(x, i).min <= j /\ j < peers(x, i).max
      BY <1>3, <1>6, <2>1, OwnIsOthers
    <2> DEFINE k == i + 1
    <2>3. k \in 1 .. b /\ k - 1 = i /\ k <= m /\ k # 0
      BY <1>3, <2>1, <2>2
    <2> HIDE DEF k
    <2>4. /\ {peers(x, i).min, peers(x, i).max} \subseteq Nat
          /\ k \in Levels(c) <=> peers(x, i).min < size
          /\ k \in Levels(c) => /\ P.base[k] = peers(x, i).min /\ P.size[k] \in Nat
                                /\ P.base[k] + P.size[k] = cutAt(c, peers(x, i).max)
      BY <1>1, <1>2, <1>5, <2>3, InterfaceBlocks
    <2>5. k \in Levels(c)
      BY <1>3, <2>2, <2>4
    <2>6. j \in rangeOf(P, k)
      BY <1>2, <1>3, <2>2, <2>4, <2>5 DEF rangeOf, cutAt
    <2> QED
      BY <1>4, <2>3, <2>5, <2>6
  <1>7. \E k \in P.levels \ {0} : j \in rangeOf(P, k)
    <2>1. 0 * pow2[b] <= x /\ x < 0 * pow2[b] + pow2[b]
      BY <1>3
    <2>2. prefix(x, b) = 0
      BY <1>3, <2>1, PrefixBlock
    <2>3. own(x, b).min = 0 /\ own(x, b).max = pow2[b]
      BY <1>3, <2>2 DEF own, block
    <2>4. b \in 0 .. b /\ own(x, b).min <= j /\ j < own(x, b).max
      BY <1>3, <2>3
    <2> QED
      BY <1>6, <2>4
  <1>8. ASSUME NEW l \in P.levels \ {0}, j \in inverseOf(P, l)
        PROVE  \E k \in P.levels \ {0} : k < l /\ j \in rangeOf(P, k)
    <2> DEFINE m == l - 1
    <2>1. l \in 1 .. b
      BY <1>4
    <2>2. m \in 0 .. b /\ (\A k \in 1 .. b : k <= m => k < l)
      BY <1>3, <2>1
    <2>3. /\ {own(x, m).min, own(x, m).max} \subseteq Nat
          /\ P.invBase[l] = own(x, m).min /\ P.invSize[l] \in Nat
          /\ P.invBase[l] + P.invSize[l] = cutAt(c, own(x, m).max)
      BY <1>1, <1>2, <1>5, <2>1, InterfaceBlocks
    <2> HIDE DEF m
    <2>4. own(x, m).min <= j /\ j < own(x, m).max
      BY <1>2, <1>3, <1>8, <2>3 DEF inverseOf, cutAt
    <2>5. PICK k \in P.levels \ {0} : k <= m /\ j \in rangeOf(P, k)
      BY <1>6, <2>2, <2>4
    <2> QED
      BY <1>4, <2>2, <2>5
  <1> QED
    BY <1>7, <1>8

-----------------------------------------------------------------------------
(* The signature store of a node, for a partitioner P that meets the contract *)

\* The ids of a range.
LEMMA RangeSize ==
    ASSUME NEW b \in Nat, NEW k \in Nat
    PROVE  IsFiniteSet(b .. b + k - 1) /\ Cardinality(b .. b + k - 1) = k
  <1>1. b \in Int /\ b + k - 1 \in Int
    OBVIOUS
  <1>2. /\ IsFiniteSet(b .. b + k - 1)
        /\ Cardinality(b .. b + k - 1) = IF b > b + k - 1 THEN 0 ELSE (b + k - 1) - b + 1
    BY <1>1, FS_Interval, Zenon
  <1> QED
    BY <1>2

\* Bitsets are finite, and as long as their length at most.
LEMMA BitsFinite ==
    ASSUME NEW n \in Nat, NEW bits \in SUBSET (0 .. n - 1)
    PROVE  /\ IsFiniteSet(bits) /\ Cardinality(bits) \in Nat /\ Cardinality(bits) <= n
           /\ Cardinality(bits) = n => bits = 0 .. n - 1
  <1>1. IsFiniteSet(0 .. n - 1) /\ Cardinality(0 .. n - 1) = n
    <2>1. 0 .. 0 + n - 1 = 0 .. n - 1
      OBVIOUS
    <2>2. IsFiniteSet(0 .. 0 + n - 1) /\ Cardinality(0 .. 0 + n - 1) = n
      BY RangeSize
    <2> QED
      BY <2>1, <2>2, Zenon
  <1>2. /\ IsFiniteSet(bits) /\ Cardinality(bits) <= n
        /\ Cardinality(bits) = n => bits = 0 .. n - 1
    BY <1>1, FS_Subset
  <1> QED
    BY <1>2, FS_CardinalityType

\* The merge test of unsafeCheckMerge: the cardinalities of two bitsets add up
\* exactly when they share no bit.
LEMMA DisjointByCardinality ==
    ASSUME NEW n \in Nat, NEW a \in SUBSET (0 .. n - 1), NEW b \in SUBSET (0 .. n - 1)
    PROVE  Cardinality(a \cup b) = Cardinality(b) + Cardinality(a) <=> a \cap b = {}
  <1>1. IsFiniteSet(a) /\ IsFiniteSet(b) /\ Cardinality(a) \in Nat /\ Cardinality(b) \in Nat
    BY BitsFinite
  <1>2. Cardinality(a \cup b) = Cardinality(a) + Cardinality(b) - Cardinality(a \cap b)
    BY <1>1, FS_Union
  <1>3. IsFiniteSet(a \cap b) /\ Cardinality(a \cap b) \in Nat
    BY BitsFinite
  <1>4. Cardinality(a \cap b) = 0 <=> a \cap b = {}
    BY <1>3, FS_EmptySet
  <1> QED
    BY <1>1, <1>2, <1>3, <1>4

\* A multi-signature over a range of n ids.
SigsOf(P, n) == [len : {n}, bits : SUBSET (0 .. n - 1),
                 sig : [who : SUBSET (0 .. P.n - 1), once : BOOLEAN]]

\* Two valid signatures of a range without a common bit sum up to a valid one.
LEMMA MergeVerifies ==
    ASSUME NEW P, NEW base \in Nat, NEW n \in Nat,
           NEW a \in SigsOf(P, n), Verifies(a, base, n),
           NEW b \in SigsOf(P, n), Verifies(b, base, n),
           a.bits \cap b.bits = {}
    PROVE  Verifies(MS(n, a.bits \cup b.bits, Combine2(b.sig, a.sig)), base, n)
  <1>1. a.sig.who \cap b.sig.who = {}
    BY DEF Verifies, SigsOf
  <1>2. a.sig.who \cup b.sig.who = {base + i : i \in a.bits \cup b.bits}
    BY DEF Verifies, SigsOf
  <1> QED
    BY <1>1, <1>2 DEF Verifies, MS, Combine2

\* The sum of the individual signatures at the positions of a set.
LEMMA SumOfIndividuals ==
    ASSUME NEW base \in Nat, NEW n \in Nat, NEW iS \in SUBSET (0 .. n - 1),
           NEW f, DOMAIN f = iS, \A pos \in iS : f[pos] = SignatureOf(base + pos)
    PROVE  CombineAll(f) = [who |-> {base + i : i \in iS}, once |-> TRUE]
  <1>1. \A pos \in iS : f[pos].who = {base + pos} /\ f[pos].once
    BY DEF SignatureOf
  <1>2. UNION {f[k].who : k \in iS} = {base + i : i \in iS}
    <2>1. UNION {f[k].who : k \in iS} \subseteq {base + i : i \in iS}
      BY <1>1
    <2>2. ASSUME NEW i \in iS
          PROVE  base + i \in UNION {f[k].who : k \in iS}
      <3>1. base + i \in f[i].who
        BY <1>1
      <3> QED
        BY <3>1
    <2> QED
      BY <2>1, <2>2
  <1>3. \A j, k \in iS : j # k => f[j].who \cap f[k].who = {}
    <2> SUFFICES ASSUME NEW j \in iS, NEW k \in iS, j # k
                 PROVE  {base + j} \cap {base + k} = {}
      BY <1>1
    <2> QED
      OBVIOUS
  <1> QED
    BY <1>1, <1>2, <1>3 DEF CombineAll

\* What the contract of the partitioner says of one level.
LEMMA PartFacts ==
    ASSUME NEW P, Contract(P)
    PROVE  /\ P.n \in Nat
           /\ 0 \in P.levels /\ P.size[0] = 1
           /\ \A l \in P.levels :
                 /\ l \in Nat
                 /\ P.base[l] \in Nat /\ P.size[l] \in Nat /\ P.size[l] > 0
                 /\ P.base[l] + P.size[l] <= P.n
  <1>1. /\ P.n \in Nat /\ P.max \in Nat /\ P.levels \subseteq 0 .. P.max /\ 0 \in P.levels
        /\ P.base \in [0 .. P.max -> Nat] /\ P.size \in [0 .. P.max -> Nat] /\ P.size[0] = 1
    BY DEF Contract
  <1>2. \A l \in P.levels : P.size[l] > 0 /\ P.base[l] + P.size[l] <= P.n
    BY DEF Contract
  <1> QED
    BY <1>1, <1>2

\* The signature of the signer at index i of a level.
individual(P, l, i) == MS(P.size[l], {i}, SignatureOf(P.base[l] + i))

\* What the store may assume of a verified signature.
Good(P, l, sp) ==
    /\ sp.level = l
    /\ sp.ms \in SigsOf(P, P.size[l])
    /\ Verifies(sp.ms, P.base[l], P.size[l])
    /\ sp.isInd \in BOOLEAN
    /\ sp.isInd => /\ sp.mappedIndex \in 0 .. P.size[l] - 1
                   /\ sp.ms = individual(P, l, sp.mappedIndex)

\* A valid individual signature of a level verifies at its range.
LEMMA IndividualIsGood ==
    ASSUME NEW P, Contract(P), NEW l \in P.levels, NEW i \in 0 .. P.size[l] - 1
    PROVE  /\ individual(P, l, i) \in SigsOf(P, P.size[l])
           /\ Verifies(individual(P, l, i), P.base[l], P.size[l])
           /\ individual(P, l, i).bits = {i}
  <1>1. P.base[l] + i \in 0 .. P.n - 1
    BY PartFacts
  <1>2. individual(P, l, i) \in SigsOf(P, P.size[l])
    BY <1>1 DEF individual, SigsOf, MS, SignatureOf
  <1>3. Verifies(individual(P, l, i), P.base[l], P.size[l])
    BY PartFacts DEF individual, Verifies, MS, SignatureOf
  <1> QED
    BY <1>2, <1>3 DEF individual, MS

\* The part about the maps, which recording an individual signature keeps.
MapsOK(P, s) ==
    /\ DOMAIN s = {"m", "highest", "indivSigsVerified", "individualSigs"}
    /\ DOMAIN s.m \subseteq P.levels
    /\ \A l \in DOMAIN s.m : /\ s.m[l] \in SigsOf(P, P.size[l])
                             /\ Verifies(s.m[l], P.base[l], P.size[l])
    /\ s.highest \in P.levels
    /\ DOMAIN s.indivSigsVerified = P.levels
    /\ DOMAIN s.individualSigs = P.levels
    /\ \A l \in P.levels :
          /\ s.indivSigsVerified[l] \subseteq 0 .. P.size[l] - 1
          /\ DOMAIN s.individualSigs[l] = s.indivSigsVerified[l]
          /\ \A i \in s.indivSigsVerified[l] : s.individualSigs[l][i] = individual(P, l, i)

Covers(s, l) ==
    /\ l \notin DOMAIN s.m => s.indivSigsVerified[l] = {}
    /\ l \in DOMAIN s.m => s.indivSigsVerified[l] \subseteq s.m[l].bits

Sound(P, s) == MapsOK(P, s) /\ \A l \in P.levels : Covers(s, l)

\* recordIndividual keeps the maps in order and touches only the two maps of
\* individual signatures, at the signature's level.
LEMMA RecordKeepsMaps ==
    ASSUME NEW P, Contract(P),
           NEW s, MapsOK(P, s), NEW l \in P.levels, NEW sp, Good(P, l, sp),
           NEW s1, s1 = recordIndividual(s, sp)
    PROVE  /\ MapsOK(P, s1)
           /\ s1.m = s.m /\ s1.highest = s.highest
           /\ \A k \in P.levels \ {l} : s1.indivSigsVerified[k] = s.indivSigsVerified[k]
           /\ s1.indivSigsVerified[l] =
                 s.indivSigsVerified[l] \cup (IF sp.isInd THEN {sp.mappedIndex} ELSE {})
  <1>1. CASE ~sp.isInd
    BY <1>1 DEF recordIndividual
  <1>2. CASE sp.isInd
    <2> DEFINE i == sp.mappedIndex
    <2>1. s1 = [s EXCEPT !.indivSigsVerified[l] = @ \cup {i},
                         !.individualSigs[l]    = Put(@, i, sp.ms)]
      BY <1>2 DEF recordIndividual, Good
    <2>2. /\ DOMAIN s1 = DOMAIN s
          /\ s1.m = s.m /\ s1.highest = s.highest
      BY <2>1 DEF MapsOK
    <2>3. /\ s1.indivSigsVerified =
                [s.indivSigsVerified EXCEPT ![l] = s.indivSigsVerified[l] \cup {i}]
          /\ s1.individualSigs =
                [s.individualSigs EXCEPT ![l] = Put(s.individualSigs[l], i, sp.ms)]
      BY <2>1 DEF MapsOK
    <2>4. i \in 0 .. P.size[l] - 1 /\ sp.ms = individual(P, l, i)
      BY <1>2 DEF Good
    <2>5. /\ DOMAIN s1.indivSigsVerified = P.levels
          /\ DOMAIN s1.individualSigs = P.levels
          /\ s1.indivSigsVerified[l] = s.indivSigsVerified[l] \cup {i}
          /\ s1.individualSigs[l] = Put(s.individualSigs[l], i, sp.ms)
          /\ \A k \in P.levels \ {l} :
                /\ s1.indivSigsVerified[k] = s.indivSigsVerified[k]
                /\ s1.individualSigs[k] = s.individualSigs[k]
      BY <2>3 DEF MapsOK
    <2>6. /\ DOMAIN s1.individualSigs[l] = s1.indivSigsVerified[l]
          /\ \A j \in s1.indivSigsVerified[l] :
                s1.individualSigs[l][j] = individual(P, l, j)
      BY <2>4, <2>5 DEF MapsOK, Put
    <2>7. MapsOK(P, s1)
      <3>1. ASSUME NEW k \in P.levels
            PROVE  /\ s1.indivSigsVerified[k] \subseteq 0 .. P.size[k] - 1
                   /\ DOMAIN s1.individualSigs[k] = s1.indivSigsVerified[k]
                   /\ \A j \in s1.indivSigsVerified[k] :
                         s1.individualSigs[k][j] = individual(P, k, j)
        <4>1. CASE k = l
          BY <4>1, <2>4, <2>5, <2>6 DEF MapsOK
        <4>2. CASE k # l
          BY <4>2, <2>5 DEF MapsOK
        <4> QED
          BY <4>1, <4>2
      <3>2. \A k \in DOMAIN s1.m : /\ s1.m[k] \in SigsOf(P, P.size[k])
                                   /\ Verifies(s1.m[k], P.base[k], P.size[k])
        BY <2>2 DEF MapsOK
      <3>3. DOMAIN s1.m \subseteq P.levels /\ s1.highest \in P.levels
        BY <2>2 DEF MapsOK
      <3>4. DOMAIN s1 = {"m", "highest", "indivSigsVerified", "individualSigs"}
        BY <2>2 DEF MapsOK
      <3> QED
        BY <2>5, <3>1, <3>2, <3>3, <3>4 DEF MapsOK
    <2> QED
      BY <1>2, <2>2, <2>5, <2>7
  <1> QED
    BY <1>1, <1>2 DEF Good

\* Keeping a valid signature that has the verified individual ones of its level.
LEMMA KeepIsSound ==
    ASSUME NEW P, Contract(P),
           NEW s, MapsOK(P, s), NEW l \in P.levels,
           NEW ms \in SigsOf(P, P.size[l]), Verifies(ms, P.base[l], P.size[l]),
           s.indivSigsVerified[l] \subseteq ms.bits,
           \A k \in P.levels \ {l} : Covers(s, k),
           NEW t, t = keep(s, l, ms)
    PROVE  /\ Sound(P, t)
           /\ DOMAIN t.m = DOMAIN s.m \cup {l}
           /\ t.m[l] = ms
           /\ \A k \in DOMAIN s.m \ {l} : t.m[k] = s.m[k]
  <1>1. /\ DOMAIN t = {"m", "highest", "indivSigsVerified", "individualSigs"}
        /\ t.m = Put(s.m, l, ms)
        /\ t.highest \in {l, s.highest}
        /\ t.indivSigsVerified = s.indivSigsVerified
        /\ t.individualSigs = s.individualSigs
    BY DEF keep, MapsOK
  <1>2. /\ DOMAIN t.m = DOMAIN s.m \cup {l}
        /\ t.m[l] = ms
        /\ \A k \in DOMAIN s.m \ {l} : t.m[k] = s.m[k]
    BY <1>1 DEF Put
  <1>3. \A k \in DOMAIN t.m : /\ t.m[k] \in SigsOf(P, P.size[k])
                              /\ Verifies(t.m[k], P.base[k], P.size[k])
    BY <1>2 DEF MapsOK
  <1>4. MapsOK(P, t)
    BY <1>1, <1>2, <1>3 DEF MapsOK
  <1>5. \A k \in P.levels : Covers(t, k)
    BY <1>1, <1>2 DEF Covers
  <1> QED
    BY <1>2, <1>4, <1>5 DEF Sound

\* The signature unsafeCheckMerge builds when the level has a best one.
LEMMA MergedSignature ==
    ASSUME NEW P, Contract(P),
           NEW s, MapsOK(P, s), NEW l \in P.levels, NEW sp, Good(P, l, sp), l \in DOMAIN s.m,
           NEW best, best = mergeWithBest(s, sp),
           NEW iS, iS = complement(s, l, best),
           NEW ms, ms = addIndividuals(s, l, best, iS)
    PROVE  /\ best \in SigsOf(P, P.size[l])
           /\ s.m[l].bits \cap sp.ms.bits = {} => best.bits = sp.ms.bits \cup s.m[l].bits
           /\ ms \in SigsOf(P, P.size[l])
           /\ Verifies(ms, P.base[l], P.size[l])
           /\ s.indivSigsVerified[l] \subseteq ms.bits
           /\ sp.ms.bits \subseteq ms.bits
           /\ card(ms) = Cardinality(iS) + card(best)
  <1> DEFINE n    == P.size[l]
             base == P.base[l]
             ms2  == s.m[l]
  <1>1. n \in Nat /\ base \in Nat /\ base + n <= P.n
    BY PartFacts
  <1>2. ms2 \in SigsOf(P, n) /\ Verifies(ms2, base, n)
    BY DEF MapsOK
  <1>3. sp.level = l /\ sp.ms \in SigsOf(P, n) /\ Verifies(sp.ms, base, n) /\ sp.ms.len = n
    BY DEF Good, SigsOf
  <1>4. Cardinality(sp.ms.bits \cup ms2.bits) = card(ms2) + card(sp.ms)
           <=> sp.ms.bits \cap ms2.bits = {}
    <2>1. sp.ms.bits \in SUBSET (0 .. n - 1) /\ ms2.bits \in SUBSET (0 .. n - 1)
      BY <1>2, <1>3 DEF SigsOf
    <2> QED
      BY <1>1, <2>1, DisjointByCardinality DEF card
  <1>5. best = IF sp.ms.bits \cap ms2.bits = {}
               THEN MS(n, sp.ms.bits \cup ms2.bits, Combine2(ms2.sig, sp.ms.sig))
               ELSE sp.ms
    BY <1>3, <1>4 DEF mergeWithBest
  <1>6. Verifies(best, base, n) /\ sp.ms.bits \subseteq best.bits
    <2>1. CASE sp.ms.bits \cap ms2.bits = {}
      BY <1>1, <1>2, <1>3, <1>5, <2>1, MergeVerifies DEF MS
    <2>2. CASE sp.ms.bits \cap ms2.bits # {}
      BY <1>3, <1>5, <2>2
    <2> QED
      BY <2>1, <2>2
  <1>7. best.bits \in SUBSET (0 .. n - 1) /\ best \in SigsOf(P, n)
    <2>1. CASE sp.ms.bits \cap ms2.bits = {}
      <3>1. /\ sp.ms.bits \in SUBSET (0 .. n - 1) /\ ms2.bits \in SUBSET (0 .. n - 1)
            /\ sp.ms.sig.who \in SUBSET (0 .. P.n - 1) /\ ms2.sig.who \in SUBSET (0 .. P.n - 1)
        BY <1>2, <1>3 DEF SigsOf
      <3>2. best = MS(n, sp.ms.bits \cup ms2.bits, Combine2(ms2.sig, sp.ms.sig))
        BY <1>5, <2>1
      <3> QED
        BY <3>1, <3>2 DEF MS, SigsOf, Combine2
    <2>2. CASE sp.ms.bits \cap ms2.bits # {}
      BY <1>3, <1>5, <2>2 DEF SigsOf
    <2> QED
      BY <2>1, <2>2, SMTT(30)
  <1>8. iS = s.indivSigsVerified[l] \ best.bits /\ iS \in SUBSET (0 .. n - 1)
    BY DEF complement, MapsOK
  <1> DEFINE f == [pos \in iS |-> s.individualSigs[l][pos].sig]
  <1>9. \A pos \in iS : f[pos] = SignatureOf(base + pos)
    <2> SUFFICES ASSUME NEW pos \in iS
                 PROVE  s.individualSigs[l][pos].sig = SignatureOf(base + pos)
      OBVIOUS
    <2>1. s.individualSigs[l][pos] = individual(P, l, pos)
      BY <1>8 DEF MapsOK
    <2> QED
      BY <2>1 DEF individual, MS
  <1>10. CombineAll(f) = [who |-> {base + i : i \in iS}, once |-> TRUE]
    BY <1>1, <1>8, <1>9, SumOfIndividuals
  <1>11. ms = MS(best.len, best.bits \cup iS, Combine2(CombineAll(f), best.sig))
    BY DEF addIndividuals
  <1>12. /\ ms.len = n /\ ms.bits = best.bits \cup iS
         /\ ms.sig = Combine2(CombineAll(f), best.sig)
    BY <1>7, <1>11 DEF MS, SigsOf
  <1>13. best.sig.who = {base + i : i \in best.bits} /\ best.sig.once
    BY <1>6 DEF Verifies
  <1>14. /\ ms.sig.who = {base + i : i \in iS} \cup {base + i : i \in best.bits}
         /\ ms.sig.once
    <2>1. {base + i : i \in iS} \cap {base + i : i \in best.bits} = {}
      BY <1>1, <1>7, <1>8
    <2>2. /\ ms.sig.who = CombineAll(f).who \cup best.sig.who
          /\ ms.sig.once = (CombineAll(f).once /\ best.sig.once
                              /\ CombineAll(f).who \cap best.sig.who = {})
      BY <1>12 DEF Combine2
    <2>3. CombineAll(f).who = {base + i : i \in iS} /\ CombineAll(f).once = TRUE
      BY <1>10
    <2> HIDE DEF f, base
    <2> QED
      BY <1>13, <2>1, <2>2, <2>3
  <1>15. Verifies(ms, base, n)
    <2>1. ms.sig.who = {base + i : i \in ms.bits}
      BY <1>12, <1>14
    <2>2. ms.bits # {}
      BY <1>6, <1>12 DEF Verifies
    <2> QED
      BY <1>12, <1>14, <2>1, <2>2 DEF Verifies
  <1>16. ms \in SigsOf(P, n)
    <2>1. ms.bits \in SUBSET (0 .. n - 1)
      BY <1>7, <1>8, <1>12
    <2>2. ms.sig.who \in SUBSET (0 .. P.n - 1)
      <3>1. ASSUME NEW i \in 0 .. n - 1
            PROVE  base + i \in 0 .. P.n - 1
        BY <1>1, PartFacts
      <3>2. /\ {base + i : i \in iS} \subseteq 0 .. P.n - 1
            /\ {base + i : i \in best.bits} \subseteq 0 .. P.n - 1
        BY <1>7, <1>8, <3>1
      <3> QED
        BY <1>14, <3>2
    <2>3. ms = [len |-> n, bits |-> ms.bits, sig |-> [who |-> ms.sig.who, once |-> ms.sig.once]]
      BY <1>7, <1>11, <1>12 DEF MS, Combine2, SigsOf
    <2>4. ms.sig.once \in BOOLEAN
      BY <1>12 DEF Combine2
    <2> QED
      BY <2>1, <2>2, <2>3, <2>4 DEF SigsOf
  <1>17. card(ms) = Cardinality(iS) + card(best)
    <2>1. iS \cap best.bits = {}
      BY <1>8
    <2>2. Cardinality(iS \cup best.bits) = Cardinality(best.bits) + Cardinality(iS)
      <3>1. n \in Nat /\ iS \in SUBSET (0 .. n - 1) /\ best.bits \in SUBSET (0 .. n - 1)
        BY <1>1, <1>7, <1>8
      <3> HIDE DEF n, ms2, base, f
      <3> QED
        BY <2>1, <3>1, DisjointByCardinality
    <2>3. Cardinality(iS) \in Nat /\ Cardinality(best.bits) \in Nat
      BY <1>1, <1>7, <1>8, BitsFinite
    <2>4. ms.bits = iS \cup best.bits
      BY <1>12
    <2> QED
      BY <2>2, <2>3, <2>4 DEF card
  <1>18. s.m[l].bits \cap sp.ms.bits = {} => best.bits = sp.ms.bits \cup s.m[l].bits
    BY <1>5 DEF MS
  <1>19. s.indivSigsVerified[l] \subseteq ms.bits /\ sp.ms.bits \subseteq ms.bits
    BY <1>6, <1>8, <1>12
  <1> QED
    BY <1>7, <1>15, <1>16, <1>17, <1>18, <1>19

\* What replacing the best signature of a level may do to it.
Grows(s, t) == \A k \in DOMAIN s.m :
                  /\ HasBest(t, k)
                  /\ t.m[k] # s.m[k] => card(t.m[k]) > card(s.m[k])

\* Storing a verified signature keeps the invariant and only enlarges bests.
LEMMA StoreStep ==
    ASSUME NEW P, Contract(P),
           NEW s, Sound(P, s), NEW l \in P.levels, NEW sp, Good(P, l, sp),
           NEW t, t = Store(s, sp)
    PROVE  Sound(P, t) /\ Grows(s, t)
  <1> DEFINE s1 == recordIndividual(s, sp)
             r  == unsafeCheckMerge(s1, sp)
  <1>1. /\ MapsOK(P, s1)
        /\ s1.m = s.m /\ s1.highest = s.highest
        /\ \A k \in P.levels \ {l} : s1.indivSigsVerified[k] = s.indivSigsVerified[k]
        /\ s1.indivSigsVerified[l] =
              s.indivSigsVerified[l] \cup (IF sp.isInd THEN {sp.mappedIndex} ELSE {})
    BY RecordKeepsMaps DEF Sound
  <1>2. \A k \in P.levels \ {l} : Covers(s1, k)
    BY <1>1 DEF Sound, Covers
  <1>3. t = IF r.store THEN keep(s1, l, r.ms) ELSE s1
    BY DEF Store, Good
  <1>4. sp.isInd => sp.ms.bits = {sp.mappedIndex}
    BY IndividualIsGood DEF Good
  <1>5. sp.level = l /\ sp.ms \in SigsOf(P, P.size[l])
        /\ Verifies(sp.ms, P.base[l], P.size[l])
    BY DEF Good
  <1>6. CASE l \notin DOMAIN s.m
    <2>1. r = [ms |-> sp.ms, store |-> TRUE]
      BY <1>1, <1>5, <1>6 DEF unsafeCheckMerge, HasBest
    <2>2. t = keep(s1, l, sp.ms)
      BY <1>3, <2>1
    <2>3. s1.indivSigsVerified[l] \subseteq sp.ms.bits
      BY <1>1, <1>4, <1>6 DEF Sound, Covers
    <2>4. /\ Sound(P, t)
          /\ DOMAIN t.m = DOMAIN s1.m \cup {l}
          /\ \A k \in DOMAIN s1.m \ {l} : t.m[k] = s1.m[k]
      <3> HIDE DEF s1
      <3> QED
        BY <1>1, <1>2, <1>5, <2>2, <2>3, KeepIsSound
    <2> QED
      BY <1>1, <1>6, <2>4 DEF Grows, HasBest
  <1>7. CASE l \in DOMAIN s.m
    <2> DEFINE best == mergeWithBest(s1, sp)
               iS   == complement(s1, l, best)
               ms   == addIndividuals(s1, l, best, iS)
    <2>1. /\ best \in SigsOf(P, P.size[l])
          /\ s.m[l].bits \cap sp.ms.bits = {} => best.bits = sp.ms.bits \cup s.m[l].bits
          /\ ms \in SigsOf(P, P.size[l])
          /\ Verifies(ms, P.base[l], P.size[l])
          /\ s1.indivSigsVerified[l] \subseteq ms.bits
          /\ card(ms) = Cardinality(iS) + card(best)
      <3> HIDE DEF s1
      <3> QED
        BY <1>1, <1>7, MergedSignature
    <2>2. r = IF Cardinality(iS) + card(best) <= card(s.m[l])
              THEN [ms |-> best, store |-> FALSE]
              ELSE [ms |-> ms, store |-> TRUE]
      BY <1>1, <1>5, <1>7 DEF unsafeCheckMerge, HasBest
    <2>3. /\ card(s.m[l]) \in Nat /\ Cardinality(iS) \in Nat /\ card(best) \in Nat
          /\ card(sp.ms) \in Nat
      <3>1. s.m[l].bits \in SUBSET (0 .. P.size[l] - 1)
        BY <1>7 DEF Sound, MapsOK, SigsOf
      <3>2. best.bits \in SUBSET (0 .. P.size[l] - 1)
            /\ sp.ms.bits \in SUBSET (0 .. P.size[l] - 1)
        BY <1>5, <2>1 DEF SigsOf
      <3>3. iS \in SUBSET (0 .. P.size[l] - 1)
        <4> HIDE DEF s1
        <4> QED
          BY <1>1 DEF complement, MapsOK
      <3> QED
        BY <3>1, <3>2, <3>3, PartFacts, BitsFinite DEF card
    <2>4. CASE Cardinality(iS) + card(best) <= card(s.m[l])
      <3>1. t = s1
        BY <1>3, <2>2, <2>4
      <3>2. s1.indivSigsVerified[l] \subseteq s.m[l].bits
        <4>1. s.indivSigsVerified[l] \subseteq s.m[l].bits
          BY <1>7 DEF Sound, Covers
        <4>2. ASSUME sp.isInd, sp.mappedIndex \notin s.m[l].bits
              PROVE  FALSE
          <5>1. s.m[l].bits \cap sp.ms.bits = {} /\ sp.ms.bits # {}
            BY <1>4, <4>2
          <5>2. best.bits = sp.ms.bits \cup s.m[l].bits
            BY <2>1, <5>1
          <5>3. sp.ms.bits \in SUBSET (0 .. P.size[l] - 1)
                /\ s.m[l].bits \in SUBSET (0 .. P.size[l] - 1)
            BY <1>5, <1>7 DEF Sound, MapsOK, SigsOf
          <5>4. Cardinality(best.bits) = Cardinality(s.m[l].bits) + Cardinality(sp.ms.bits)
            <6>1. sp.ms.bits \cap s.m[l].bits = {} /\ P.size[l] \in Nat
              BY <5>1, PartFacts
            <6>2. Cardinality(sp.ms.bits \cup s.m[l].bits)
                     = Cardinality(s.m[l].bits) + Cardinality(sp.ms.bits)
              BY <5>3, <6>1, DisjointByCardinality
            <6> QED
              BY <5>2, <6>2
          <5>5. Cardinality(sp.ms.bits) # 0
            BY <5>1, <5>3, PartFacts, BitsFinite, FS_EmptySet
          <5> QED
            BY <2>3, <2>4, <5>4, <5>5 DEF card
        <4> QED
          BY <1>1, <4>1, <4>2
      <3>3. Covers(s1, l)
        BY <1>1, <1>7, <3>2 DEF Covers
      <3>4. Sound(P, t)
        BY <1>1, <1>2, <3>1, <3>3 DEF Sound
      <3> QED
        BY <1>1, <3>1, <3>4 DEF Grows, HasBest
    <2>5. CASE ~(Cardinality(iS) + card(best) <= card(s.m[l]))
      <3>1. t = keep(s1, l, ms)
        BY <1>3, <2>2, <2>5
      <3>2. /\ Sound(P, t)
            /\ DOMAIN t.m = DOMAIN s1.m \cup {l}
            /\ t.m[l] = ms
            /\ \A k \in DOMAIN s1.m \ {l} : t.m[k] = s1.m[k]
        <4> HIDE DEF s1, ms
        <4> QED
          BY <1>1, <1>2, <2>1, <3>1, KeepIsSound
      <3>3. card(ms) > card(s.m[l])
        BY <2>1, <2>3, <2>5
      <3> QED
        BY <1>1, <3>2, <3>3 DEF Grows, HasBest
    <2> QED
      BY <2>4, <2>5
  <1> QED
    BY <1>6, <1>7

\* Storing a signature of a level touches no other level, and takes its bits from
\* the signature and from what the level has.
LEMMA StoreBits ==
    ASSUME NEW P, Contract(P),
           NEW s, Sound(P, s), NEW l \in P.levels, NEW sp, Good(P, l, sp),
           NEW t, t = Store(s, sp)
    PROVE  /\ DOMAIN t.m = DOMAIN s.m \cup {l}
           /\ \A k \in DOMAIN s.m \ {l} : t.m[k] = s.m[k]
           /\ \A i \in t.m[l].bits : i \in sp.ms.bits \/ (l \in DOMAIN s.m /\ i \in s.m[l].bits)
  <1> DEFINE s1 == recordIndividual(s, sp)
             r  == unsafeCheckMerge(s1, sp)
  <1>1. /\ MapsOK(P, s1)
        /\ s1.m = s.m
        /\ s1.indivSigsVerified[l] =
              s.indivSigsVerified[l] \cup (IF sp.isInd THEN {sp.mappedIndex} ELSE {})
    BY RecordKeepsMaps DEF Sound
  <1>2. t = IF r.store THEN keep(s1, l, r.ms) ELSE s1
    BY DEF Store, Good
  <1>3. sp.level = l /\ (sp.isInd => sp.ms.bits = {sp.mappedIndex})
    BY IndividualIsGood DEF Good
  <1>4. ASSUME NEW ms, t = keep(s1, l, ms)
        PROVE  /\ DOMAIN t.m = DOMAIN s.m \cup {l} /\ t.m[l] = ms
               /\ \A k \in DOMAIN s.m \ {l} : t.m[k] = s.m[k]
    <2>1. t.m = Put(s.m, l, ms)
      <3> HIDE DEF s1
      <3> QED
        BY <1>1, <1>4 DEF keep, MapsOK
    <2> QED
      BY <2>1 DEF Put
  <1>5. CASE l \notin DOMAIN s.m
    <2>1. r = [ms |-> sp.ms, store |-> TRUE]
      BY <1>1, <1>3, <1>5 DEF unsafeCheckMerge, HasBest
    <2> QED
      BY <1>2, <1>4, <2>1
  <1>6. CASE l \in DOMAIN s.m
    <2> DEFINE best == mergeWithBest(s1, sp)
               iS   == complement(s1, l, best)
               ms   == addIndividuals(s1, l, best, iS)
    <2>1. r = IF Cardinality(iS) + card(best) <= card(s.m[l])
              THEN [ms |-> best, store |-> FALSE]
              ELSE [ms |-> ms, store |-> TRUE]
      BY <1>1, <1>3, <1>6 DEF unsafeCheckMerge, HasBest
    <2>2. ms.bits = best.bits \cup (s1.indivSigsVerified[l] \ best.bits)
      BY DEF addIndividuals, MS, complement
    <2>3. best.bits \subseteq sp.ms.bits \cup s.m[l].bits
      BY <1>1, <1>3 DEF mergeWithBest, MS
    <2>4. s1.indivSigsVerified[l] \subseteq sp.ms.bits \cup s.m[l].bits
      BY <1>1, <1>3, <1>6 DEF Sound, Covers
    <2>5. t = s1 \/ t = keep(s1, l, ms)
      BY <1>2, <2>1
    <2>6. CASE t = s1
      BY <1>1, <1>6, <2>6
    <2>7. CASE t = keep(s1, l, ms)
      <3>1. ms.bits \subseteq sp.ms.bits \cup s.m[l].bits
        BY <2>2, <2>3, <2>4
      <3> HIDE DEF ms, s1
      <3> QED
        BY <1>4, <1>6, <2>7, <3>1
    <2> QED
      BY <2>5, <2>6, <2>7
  <1> QED
    BY <1>5, <1>6

\* The store newStore makes is sound.
LEMMA NewStoreIsSound == ASSUME NEW P, Contract(P) PROVE Sound(P, NewStore(P))
  BY PartFacts DEF NewStore, Sound, MapsOK, Covers

\* The signatures of several levels, each valid at the range of its level.
LevelSigs(P, sigs) ==
    /\ DOMAIN sigs \subseteq P.levels
    /\ \A k \in DOMAIN sigs : /\ sigs[k] \in SigsOf(P, P.size[k])
                              /\ Verifies(sigs[k], P.base[k], P.size[k])

\* The signers of a level's signature lie in the range of the level.
LEMMA SignersInRange ==
    ASSUME NEW P, Contract(P),
           NEW sigs, LevelSigs(P, sigs), NEW k \in DOMAIN sigs
    PROVE  sigs[k].sig.who \subseteq P.base[k] .. P.base[k] + P.size[k] - 1
  <1>1. k \in P.levels /\ P.base[k] \in Nat /\ P.size[k] \in Nat
    BY PartFacts DEF LevelSigs
  <1>2. sigs[k].bits \subseteq 0 .. P.size[k] - 1
    BY DEF LevelSigs, SigsOf
  <1>3. sigs[k].sig.who = {P.base[k] + i : i \in sigs[k].bits}
    BY DEF LevelSigs, Verifies
  <1> QED
    BY <1>1, <1>2, <1>3

\* No id signs at two levels: their ranges are disjoint.
LEMMA SignersDisjoint ==
    ASSUME NEW P, Contract(P),
           NEW sigs, LevelSigs(P, sigs), NEW j \in DOMAIN sigs, NEW k \in DOMAIN sigs, j # k
    PROVE  sigs[j].sig.who \cap sigs[k].sig.who = {}
  <1>1. j \in P.levels /\ k \in P.levels
    BY DEF LevelSigs
  <1>2. /\ j \in Nat /\ k \in Nat
        /\ P.base[j] \in Nat /\ P.size[j] \in Nat
        /\ P.base[k] \in Nat /\ P.size[k] \in Nat
    BY <1>1, PartFacts
  <1>3. j < k \/ k < j
    BY <1>2
  <1>4. \/ P.base[j] + P.size[j] <= P.base[k]
        \/ P.base[k] + P.size[k] <= P.base[j]
    BY <1>1, <1>3 DEF Contract
  <1>5. /\ sigs[j].sig.who \subseteq P.base[j] .. P.base[j] + P.size[j] - 1
        /\ sigs[k].sig.who \subseteq P.base[k] .. P.base[k] + P.size[k] - 1
    BY SignersInRange
  <1> QED
    BY <1>2, <1>4, <1>5

\* combineSize: the combination of valid signatures of several levels is a
\* valid signature of any range, given the offsets of the levels in it.
LEMMA CombineSizeVerifies ==
    ASSUME NEW P, Contract(P),
           NEW sigs, LevelSigs(P, sigs), DOMAIN sigs # {}, NEW min \in Nat, NEW size \in Nat
    PROVE  Verifies(combineSize(sigs, size, Offsets(P, sigs, min)), min, size)
  <1> DEFINE off == Offsets(P, sigs, min)
             c   == combineSize(sigs, size, off)
  <1>1. \A k \in DOMAIN sigs :
           /\ P.base[k] \in Nat
           /\ sigs[k].bits \subseteq Nat /\ sigs[k].bits # {}
           /\ sigs[k].sig.once
           /\ sigs[k].sig.who = {P.base[k] + i : i \in sigs[k].bits}
           /\ off[k] = P.base[k] - min
    <2> TAKE k \in DOMAIN sigs
    <2>1. k \in P.levels /\ P.size[k] \in Nat /\ P.base[k] \in Nat
      BY PartFacts DEF LevelSigs
    <2>2. sigs[k].bits \subseteq 0 .. P.size[k] - 1
      BY DEF LevelSigs, SigsOf
    <2>3. off[k] = P.base[k] - min
      BY DEF Offsets
    <2> QED
      BY <2>1, <2>2, <2>3 DEF LevelSigs, Verifies
  <1>2. /\ c.len = size
        /\ c.bits = UNION {{off[k] + i : i \in sigs[k].bits} : k \in DOMAIN sigs}
        /\ c.sig = CombineAll([k \in DOMAIN sigs |-> sigs[k].sig])
    BY DEF combineSize, MS
  <1>3. c.bits # {}
    <2>1. PICK k \in DOMAIN sigs : TRUE
      OBVIOUS
    <2>2. PICK i \in sigs[k].bits : TRUE
      BY <1>1
    <2> QED
      BY <1>2, <2>2
  <1>4. c.sig.once
    <2>1. \A j, k \in DOMAIN sigs : j # k => sigs[j].sig.who \cap sigs[k].sig.who = {}
      BY SignersDisjoint
    <2> QED
      BY <1>1, <1>2, <2>1 DEF CombineAll
  <1>5. c.sig.who = UNION {sigs[k].sig.who : k \in DOMAIN sigs}
    BY <1>2 DEF CombineAll
  <1>6. c.sig.who = {min + i : i \in c.bits}
    <2>1. ASSUME NEW x \in c.sig.who PROVE \E i \in c.bits : x = min + i
      <3>1. PICK k \in DOMAIN sigs : x \in sigs[k].sig.who
        BY <1>5
      <3>2. PICK b \in sigs[k].bits : x = P.base[k] + b
        BY <1>1, <3>1
      <3>3. off[k] + b \in c.bits
        BY <1>2
      <3>4. x = min + (off[k] + b)
        BY <1>1, <3>2
      <3> QED
        BY <3>3, <3>4
    <2>2. ASSUME NEW i \in c.bits PROVE min + i \in c.sig.who
      <3>1. PICK k \in DOMAIN sigs : \E b \in sigs[k].bits : i = off[k] + b
        BY <1>2
      <3>2. PICK b \in sigs[k].bits : i = off[k] + b
        BY <3>1
      <3>3. min + i = P.base[k] + b
        BY <1>1, <3>2
      <3> QED
        BY <1>1, <1>5, <3>3
    <2> QED
      BY <2>1, <2>2
  <1> QED
    BY <1>2, <1>3, <1>4, <1>6 DEF Verifies

\* Next to Sound: the node's own signature is in the store.
OwnKept(s) == 0 \in DOMAIN s.m

\* What Combined combines for the peers of a level: the levels below it.
LEMMA CombinedIs ==
    ASSUME NEW P, Contract(P),
           NEW s, Sound(P, s), OwnKept(s), NEW l \in P.levels \ {0}
    PROVE  /\ l \in P.levels /\ P.invBase[l] \in Nat /\ P.invSize[l] \in Nat
           /\ LevelSigs(P, UpTo(s, l - 1)) /\ DOMAIN UpTo(s, l - 1) # {}
           /\ \A k \in DOMAIN UpTo(s, l - 1) : k < l
           /\ l - 1 < P.max /\ (l - 1) + 1 = l
  <1>1. l \in P.levels /\ l \in 0 .. P.max /\ l # 0 /\ l \in Nat
    BY DEF Contract
  <1>2. P.invBase[l] \in Nat /\ P.invSize[l] \in Nat /\ P.max \in Nat
    BY <1>1 DEF Contract
  <1>3. DOMAIN s.m \subseteq P.levels /\ 0 \in DOMAIN s.m
    BY DEF Sound, MapsOK, OwnKept
  <1>4. \A k \in DOMAIN s.m : k \in Nat
    BY <1>3, PartFacts
  <1>5. DOMAIN UpTo(s, l - 1) = {j \in DOMAIN s.m : j <= l - 1}
    BY DEF UpTo
  <1>6. \A k \in DOMAIN UpTo(s, l - 1) : UpTo(s, l - 1)[k] = s.m[k] /\ k \in DOMAIN s.m
    BY DEF UpTo
  <1>7. LevelSigs(P, UpTo(s, l - 1))
    BY <1>3, <1>5, <1>6 DEF LevelSigs, Sound, MapsOK
  <1>8. DOMAIN UpTo(s, l - 1) # {}
    BY <1>1, <1>3, <1>5
  <1>9. \A k \in DOMAIN UpTo(s, l - 1) : k < l
    BY <1>1, <1>4, <1>5
  <1> QED
    BY <1>1, <1>2, <1>7, <1>8, <1>9

\* What a node sends verifies at the peers of the level it is for.
LEMMA CombinedIsValid ==
    ASSUME NEW P, Contract(P), NEW s, Sound(P, s), OwnKept(s), NEW l \in P.levels \ {0}
    PROVE  /\ Combined(P, s, l - 1) = combineSize(UpTo(s, l - 1), P.invSize[l],
                                                 Offsets(P, UpTo(s, l - 1), P.invBase[l]))
           /\ Verifies(Combined(P, s, l - 1), P.invBase[l], P.invSize[l])
  <1> DEFINE sigs == UpTo(s, l - 1)
  <1>1. Combined(P, s, l - 1) = Combine(P, sigs, l)
    BY CombinedIs DEF Combined
  <1>2. l \in Nat /\ \A k \in DOMAIN sigs : k \in Nat /\ k < l
    BY CombinedIs, PartFacts DEF LevelSigs
  <1>3. ~ \E k \in DOMAIN sigs : k > l
    BY <1>2
  <1>4. Combine(P, sigs, l) = combineSize(sigs, P.invSize[l], Offsets(P, sigs, P.invBase[l]))
    BY <1>3, CombinedIs DEF Combine
  <1> QED
    BY <1>1, <1>4, CombinedIs, CombineSizeVerifies

\* What a node puts out is the combination of its levels, and verifies against
\* the registry.
LEMMA FullSignatureIs ==
    ASSUME NEW P, Contract(P), NEW s, Sound(P, s), OwnKept(s)
    PROVE  /\ LevelSigs(P, s.m)
           /\ FullSignature(P, s) = combineSize(s.m, P.n, Offsets(P, s.m, 0))
           /\ Verifies(FullSignature(P, s), 0, P.n)
  <1>1. LevelSigs(P, s.m) /\ DOMAIN s.m # {}
    BY DEF LevelSigs, Sound, MapsOK, OwnKept
  <1>2. FullSignature(P, s) = combineSize(s.m, P.n, Offsets(P, s.m, 0))
    BY <1>1 DEF FullSignature, CombineFull
  <1> QED
    BY <1>1, <1>2, CombineSizeVerifies, PartFacts

\* Shifted by an offset, a bitset keeps its size.
LEMMA ShiftCardinality ==
    ASSUME NEW n \in Nat, NEW bits \in SUBSET (0 .. n - 1), NEW base \in Nat
    PROVE  /\ IsFiniteSet({base + i : i \in bits})
           /\ Cardinality({base + i : i \in bits}) = Cardinality(bits)
  <1> DEFINE ids == {base + i : i \in bits}
             f   == [i \in bits |-> base + i]
  <1>1. f \in Bijection(bits, ids)
    <2>1. f \in [bits -> ids] /\ \A y \in ids : \E i \in bits : f[i] = y
      OBVIOUS
    <2>2. \A i, j \in bits : f[i] = f[j] => i = j
      OBVIOUS
    <2> QED
      BY <2>1, <2>2 DEF Bijection, Injection, Surjection, IsInjective
  <1>2. ExistsBijection(bits, ids)
    BY <1>1 DEF ExistsBijection
  <1> QED
    BY <1>2, BitsFinite, FS_Bijection

\* The signers of the full signature are those of the levels, each counted once.
LEMMA FullSignatureBits ==
    ASSUME NEW P, Contract(P), NEW s, Sound(P, s), OwnKept(s)
    PROVE  /\ FullSignature(P, s).bits = UNION {s.m[k].sig.who : k \in DOMAIN s.m}
           /\ FullSignature(P, s).bits \in SUBSET (0 .. P.n - 1)
  <1> DEFINE full == FullSignature(P, s)
  <1>1. /\ LevelSigs(P, s.m)
        /\ full = combineSize(s.m, P.n, Offsets(P, s.m, 0))
    BY FullSignatureIs
  <1>2. full.bits = UNION {{Offsets(P, s.m, 0)[k] + i : i \in s.m[k].bits} : k \in DOMAIN s.m}
    BY <1>1 DEF combineSize, MS
  <1>3. ASSUME NEW k \in DOMAIN s.m
        PROVE  /\ {Offsets(P, s.m, 0)[k] + i : i \in s.m[k].bits} = s.m[k].sig.who
               /\ s.m[k].sig.who \subseteq 0 .. P.n - 1
    <2>1. k \in P.levels /\ P.base[k] \in Nat
      BY <1>1, PartFacts DEF LevelSigs
    <2>2. Offsets(P, s.m, 0)[k] = P.base[k]
      BY <2>1 DEF Offsets
    <2>3. s.m[k].sig.who = {P.base[k] + i : i \in s.m[k].bits} /\ s.m[k] \in SigsOf(P, P.size[k])
      BY <1>1 DEF LevelSigs, Verifies
    <2> QED
      BY <2>2, <2>3 DEF SigsOf
  <1>4. {{Offsets(P, s.m, 0)[k] + i : i \in s.m[k].bits} : k \in DOMAIN s.m}
           = {s.m[k].sig.who : k \in DOMAIN s.m}
    BY <1>3
  <1>5. full.bits = UNION {s.m[k].sig.who : k \in DOMAIN s.m}
    BY <1>2, <1>4
  <1> QED
    BY <1>3, <1>5

\* The signers of a combination, when the signature of one level is added or
\* replaced by a larger one.
LEMMA SignersGrow ==
    ASSUME NEW P, Contract(P), NEW f, LevelSigs(P, f), NEW g, LevelSigs(P, g), NEW l,
           DOMAIN g = DOMAIN f \cup {l}, \A k \in DOMAIN f \ {l} : g[k] = f[k],
           l \in DOMAIN f /\ g[l] # f[l] => card(g[l]) > card(f[l])
    PROVE  \/ DOMAIN g = DOMAIN f /\ \A k \in DOMAIN f : g[k] = f[k]
           \/ Cardinality(UNION {g[k].sig.who : k \in DOMAIN g})
                 > Cardinality(UNION {f[k].sig.who : k \in DOMAIN f})
  <1> DEFINE old  == IF l \in DOMAIN f THEN f[l].sig.who ELSE {}
             new  == g[l].sig.who
             rest == UNION {f[k].sig.who : k \in DOMAIN f \ {l}}
             F    == UNION {f[k].sig.who : k \in DOMAIN f}
             G    == UNION {g[k].sig.who : k \in DOMAIN g}
  <1>1. F = rest \cup old
    OBVIOUS
  <1>2. G = rest \cup new
    <2>1. DOMAIN g \ {l} = DOMAIN f \ {l} /\ l \in DOMAIN g
      OBVIOUS
    <2>2. ASSUME NEW x PROVE x \in G <=> x \in rest \/ x \in new
      <3>1. x \in G <=> \E k \in DOMAIN g : x \in g[k].sig.who
        OBVIOUS
      <3>2. x \in rest <=> \E k \in DOMAIN f \ {l} : x \in f[k].sig.who
        OBVIOUS
      <3>3. (\E k \in DOMAIN f \ {l} : x \in f[k].sig.who)
               <=> \E k \in DOMAIN g \ {l} : x \in g[k].sig.who
        BY <2>1
      <3> HIDE DEF rest, G
      <3> QED
        BY <2>1, <3>1, <3>2, <3>3
    <2> HIDE DEF rest, new, G
    <2> QED
      BY <2>2
  <1>3. rest \cap old = {}
    BY SignersDisjoint
  <1>4. rest \cap new = {}
    <2>1. \A k \in DOMAIN f \ {l} : g[k].sig.who \cap g[l].sig.who = {}
      BY SignersDisjoint
    <2> QED
      BY <2>1
  <1>5. /\ P.n \in Nat /\ l \in P.levels /\ P.base[l] \in Nat /\ P.size[l] \in Nat
        /\ \A k \in DOMAIN f : f[k].sig.who \subseteq 0 .. P.n - 1
        /\ g[l].sig.who \subseteq 0 .. P.n - 1
    BY PartFacts DEF LevelSigs, SigsOf
  <1>6. /\ IsFiniteSet(rest) /\ IsFiniteSet(old) /\ IsFiniteSet(new)
        /\ Cardinality(rest) \in Nat /\ Cardinality(old) \in Nat /\ Cardinality(new) \in Nat
    <2>1. {rest, old, new} \subseteq SUBSET (0 .. P.n - 1)
      BY <1>5
    <2> HIDE DEF rest, old, new
    <2> QED
      BY <1>5, <2>1, BitsFinite
  <1>7. /\ Cardinality(rest \cup old) = Cardinality(rest) + Cardinality(old)
        /\ Cardinality(rest \cup new) = Cardinality(rest) + Cardinality(new)
    <2> HIDE DEF rest, old, new
    <2>1. /\ Cardinality(rest \cup old) = Cardinality(rest) + Cardinality(old) - Cardinality({})
          /\ Cardinality(rest \cup new) = Cardinality(rest) + Cardinality(new) - Cardinality({})
      BY <1>3, <1>4, <1>6, FS_Union
    <2>2. Cardinality({}) = 0
      BY FS_EmptySet
    <2> QED
      BY <1>6, <2>1, <2>2
  <1>8. l \in DOMAIN f => Cardinality(old) = card(f[l])
    <2> SUFFICES ASSUME l \in DOMAIN f PROVE Cardinality(f[l].sig.who) = card(f[l])
      OBVIOUS
    <2>1. /\ f[l].sig.who = {P.base[l] + i : i \in f[l].bits}
          /\ f[l].bits \in SUBSET (0 .. P.size[l] - 1)
      BY DEF LevelSigs, SigsOf, Verifies
    <2>2. Cardinality({P.base[l] + i : i \in f[l].bits}) = Cardinality(f[l].bits)
      BY <1>5, <2>1, ShiftCardinality
    <2> QED
      BY <2>1, <2>2 DEF card
  <1>9. Cardinality(new) = card(g[l]) /\ card(g[l]) # 0
    <2>1. /\ g[l].sig.who = {P.base[l] + i : i \in g[l].bits}
          /\ g[l].bits \in SUBSET (0 .. P.size[l] - 1) /\ g[l].bits # {}
      BY DEF LevelSigs, SigsOf, Verifies
    <2>2. Cardinality(g[l].bits) # 0
      BY <1>5, <2>1, BitsFinite, FS_EmptySet
    <2>3. Cardinality({P.base[l] + i : i \in g[l].bits}) = Cardinality(g[l].bits)
      BY <1>5, <2>1, ShiftCardinality
    <2> QED
      BY <2>1, <2>2, <2>3 DEF card
  <1>10. CASE l \in DOMAIN f /\ g[l] = f[l]
    BY <1>10
  <1>11. CASE l \notin DOMAIN f
    <2>1. Cardinality(old) = 0
      BY <1>11, FS_EmptySet
    <2> HIDE DEF rest, old, new, F, G
    <2>2. Cardinality(G) > Cardinality(F)
      BY <1>1, <1>2, <1>6, <1>7, <1>9, <2>1
    <2> QED
      BY <2>2 DEF F, G
  <1>12. CASE l \in DOMAIN f /\ g[l] # f[l]
    <2>1. card(g[l]) > card(f[l])
      BY <1>12
    <2> HIDE DEF rest, old, new, F, G
    <2>2. Cardinality(G) > Cardinality(F)
      BY <1>1, <1>2, <1>6, <1>7, <1>8, <1>9, <1>12, <2>1
    <2> QED
      BY <2>2 DEF F, G
  <1> QED
    BY <1>10, <1>11, <1>12

\* Storing a verified signature leaves the full signature as it is, or gives it
\* more contributions than before.
LEMMA FullSignatureGrows ==
    ASSUME NEW P, Contract(P),
           NEW s, Sound(P, s), OwnKept(s), NEW l \in P.levels, NEW sp, Good(P, l, sp),
           NEW t, t = Store(s, sp), Sound(P, t), OwnKept(t)
    PROVE  \/ FullSignature(P, t) = FullSignature(P, s)
           \/ Cardinality(FullSignature(P, t).bits) > Cardinality(FullSignature(P, s).bits)
  <1>1. /\ DOMAIN t.m = DOMAIN s.m \cup {l}
        /\ \A k \in DOMAIN s.m \ {l} : t.m[k] = s.m[k]
    BY StoreBits
  <1>2. l \in DOMAIN s.m /\ t.m[l] # s.m[l] => card(t.m[l]) > card(s.m[l])
    BY StoreStep DEF Grows
  <1>3. LevelSigs(P, s.m) /\ LevelSigs(P, t.m)
    BY FullSignatureIs
  <1>4. \/ DOMAIN t.m = DOMAIN s.m /\ \A k \in DOMAIN s.m : t.m[k] = s.m[k]
        \/ Cardinality(UNION {t.m[k].sig.who : k \in DOMAIN t.m})
              > Cardinality(UNION {s.m[k].sig.who : k \in DOMAIN s.m})
    BY <1>1, <1>2, <1>3, SignersGrow
  <1>5. /\ FullSignature(P, t).bits = UNION {t.m[k].sig.who : k \in DOMAIN t.m}
        /\ FullSignature(P, s).bits = UNION {s.m[k].sig.who : k \in DOMAIN s.m}
    BY FullSignatureBits
  <1>6. CASE DOMAIN t.m = DOMAIN s.m /\ \A k \in DOMAIN s.m : t.m[k] = s.m[k]
    <2>1. {t.m[k].sig.who : k \in DOMAIN t.m} = {s.m[k].sig.who : k \in DOMAIN s.m}
      BY <1>6
    <2>2. [k \in DOMAIN t.m |-> t.m[k].sig] = [k \in DOMAIN s.m |-> s.m[k].sig]
      BY <1>6
    <2>3. /\ FullSignature(P, t) = combineSize(t.m, P.n, Offsets(P, t.m, 0))
          /\ FullSignature(P, s) = combineSize(s.m, P.n, Offsets(P, s.m, 0))
      BY FullSignatureIs
    <2>4. /\ FullSignature(P, t) = MS(P.n, FullSignature(P, t).bits,
                                       CombineAll([k \in DOMAIN t.m |-> t.m[k].sig]))
          /\ FullSignature(P, s) = MS(P.n, FullSignature(P, s).bits,
                                       CombineAll([k \in DOMAIN s.m |-> s.m[k].sig]))
      BY <2>3 DEF combineSize, MS
    <2> QED
      BY <1>5, <2>1, <2>2, <2>4
  <1> QED
    BY <1>4, <1>5, <1>6

\* The first signature stored is kept as it is.
LEMMA FirstStore ==
    ASSUME NEW P, Contract(P), NEW sp, Good(P, 0, sp)
    PROVE  LET t == Store(NewStore(P), sp)
           IN  OwnKept(t) /\ DOMAIN t.m = {0} /\ t.m[0] = sp.ms
  <1> DEFINE s == recordIndividual(NewStore(P), sp)
  <1>1. MapsOK(P, NewStore(P)) /\ 0 \in P.levels
    BY NewStoreIsSound, PartFacts DEF Sound
  <1>2. MapsOK(P, s) /\ s.m = NewStore(P).m
    BY <1>1, RecordKeepsMaps
  <1>3. DOMAIN s.m = {}
    BY <1>2 DEF NewStore
  <1>4. unsafeCheckMerge(s, sp) = [ms |-> sp.ms, store |-> TRUE] /\ sp.level = 0
    BY <1>3 DEF unsafeCheckMerge, HasBest, Good
  <1>5. Store(NewStore(P), sp) = keep(s, 0, sp.ms)
    BY <1>4 DEF Store
  <1>6. DOMAIN s = {"m", "highest", "indivSigsVerified", "individualSigs"}
    BY <1>2 DEF MapsOK
  <1>7. keep(s, 0, sp.ms).m = Put(s.m, 0, sp.ms)
    <2> HIDE DEF s
    <2> QED
      BY <1>6 DEF keep
  <1>8. DOMAIN keep(s, 0, sp.ms).m = {0} /\ keep(s, 0, sp.ms).m[0] = sp.ms
    <2> HIDE DEF s
    <2> QED
      BY <1>3, <1>7 DEF Put
  <1> QED
    BY <1>5, <1>8 DEF OwnKept

\* An individual signature has one bit.
LEMMA IndividualHasOneBit ==
    ASSUME NEW P, Contract(P),
           NEW l \in P.levels, NEW i \in 0 .. P.size[l] - 1
    PROVE  card(individual(P, l, i)) = 1
  <1>1. individual(P, l, i).bits = {i}
    BY DEF individual, MS
  <1> QED
    BY <1>1, FS_Singleton DEF card

\* Store does not panic on a verified signature.
LEMMA StoreDoesNotPanic ==
    ASSUME NEW P, Contract(P), NEW s, Sound(P, s), NEW l \in P.levels, NEW sp, Good(P, l, sp)
    PROVE  ~StorePanics(s, sp)
  <1> DEFINE s1 == recordIndividual(s, sp)
             iS == complement(s1, sp.level, mergeWithBest(s1, sp))
  <1>1. sp.level = l
    BY DEF Good
  <1>2. ~(sp.isInd /\ card(sp.ms) # 1)
    BY IndividualHasOneBit DEF Good
  <1>3. MapsOK(P, s1)
    BY RecordKeepsMaps DEF Sound
  <1>4. iS \subseteq s1.indivSigsVerified[l]
    BY <1>1 DEF complement
  <1>5. \A pos \in s1.indivSigsVerified[l] :
           /\ pos \in DOMAIN s1.individualSigs[l]
           /\ pos \in 0 .. P.size[l] - 1
           /\ s1.individualSigs[l][pos] = individual(P, l, pos)
    BY <1>3 DEF MapsOK
  <1>6. \A pos \in iS : pos \in DOMAIN s1.individualSigs[l] /\ card(s1.individualSigs[l][pos]) = 1
    BY <1>4, <1>5, IndividualHasOneBit
  <1> QED
    BY <1>1, <1>2, <1>6 DEF StorePanics

\* Combining writes inside of the bitset when the ranges of the levels lie in
\* the range the bitset is for.
LEMMA CombineInBounds ==
    ASSUME NEW P, Contract(P),
           NEW sigs, LevelSigs(P, sigs), NEW min \in Nat, NEW size \in Nat,
           \A k \in DOMAIN sigs : min <= P.base[k] /\ P.base[k] + P.size[k] <= min + size
    PROVE  ~combinePanics(sigs, size, Offsets(P, sigs, min))
  <1> SUFFICES ASSUME NEW k \in DOMAIN sigs, NEW i \in 0 .. sigs[k].len - 1
               PROVE  Offsets(P, sigs, min)[k] + i \in 0 .. size - 1
    BY DEF combinePanics
  <1>1. P.base[k] \in Nat /\ P.size[k] \in Nat
    BY PartFacts DEF LevelSigs
  <1>2. sigs[k].len = P.size[k]
    BY DEF LevelSigs, SigsOf
  <1>3. Offsets(P, sigs, min)[k] = P.base[k] - min
    BY DEF Offsets
  <1> QED
    BY <1>1, <1>2, <1>3

-----------------------------------------------------------------------------
(* The scores of Evaluate *)

\* The levels are small enough for the constants of unsafeEvaluate (store.go:177
\* and 182): beyond that the penalty for individual signatures would outweigh the
\* reward.
ScoresFit(P) == \A l \in P.levels : 100 * l + P.size[l] <= 99998

\* They are in every registry of up to 65536 nodes; for a level of 65536 ids or
\* more the lengths of the bitsets no longer fit the packets either (Encoding).
LEMMA RegistriesFit ==
    ASSUME NEW c, IsPart(c), c.size <= 65536
    PROVE  ScoresFit(Interface(c))
  <1>1. \A n \in Nat : pow2[n] \in Nat /\ pow2[n] >= 256 * (n - 7)
    <2> DEFINE T == {n \in Nat : pow2[n] >= 256 * (n - 7)}
    <2>1. \A n \in 0 .. 8 : n \in T
      <3>1. pow2[1] = 2 /\ pow2[2] = 4 /\ pow2[3] = 8 /\ pow2[4] = 16
        BY Pow2
      <3>2. pow2[5] = 32 /\ pow2[6] = 64 /\ pow2[7] = 128 /\ pow2[8] = 256
        BY <3>1, Pow2
      <3> QED
        BY <3>1, <3>2, Pow2
    <2>2. ASSUME NEW n \in Nat, n \in T PROVE n + 1 \in T
      <3>1. CASE n + 1 <= 8
        BY <2>1, <3>1
      <3>2. CASE n >= 8
        <4>1. pow2[n] \in Nat /\ pow2[n] >= 256 * (n - 7) /\ pow2[n + 1] = 2 * pow2[n]
          BY <2>2, Pow2
        <4> QED
          BY <3>2, <4>1
      <3> QED
        BY <3>1, <3>2
    <2>3. 0 \in T
      BY <2>1
    <2>4. Nat \subseteq T
      <3> HIDE DEF T
      <3> QED
        BY <2>2, <2>3, SetInduction
    <2> QED
      BY <2>4, Pow2
  <1>2. c.size \in Nat \ {0} /\ c.bitsize = log2(c.size) /\ c.bitsize \in Nat
    BY PartShape
  <1>3. c.bitsize < 264
    <2>1. c.bitsize > 0 => pow2[c.bitsize - 1] < c.size
      BY <1>2, Log2
    <2>2. c.bitsize > 0 => c.bitsize - 1 \in Nat
      BY <1>2
    <2> QED
      BY <1>1, <1>2, <2>1, <2>2
  <1>4. /\ Interface(c).max = c.bitsize /\ Interface(c).n = c.size
        /\ Contract(Interface(c))
    <2>1. Contract(Interface(c))
      BY PartitionerContract
    <2>2. Interface(c).max = c.bitsize /\ Interface(c).n = c.size
      BY <1>2 DEF Interface, MaxLevel
    <2> QED
      BY <2>1, <2>2
  <1>5. ASSUME NEW l \in Interface(c).levels
        PROVE  100 * l + Interface(c).size[l] <= 99998
    <2>1. l \in 0 .. c.bitsize
      BY <1>4 DEF Contract
    <2>2. Interface(c).base[l] \in Nat /\ Interface(c).size[l] \in Nat
          /\ Interface(c).base[l] + Interface(c).size[l] <= c.size
      BY <1>4, PartFacts
    <2> QED
      BY <1>2, <1>3, <2>1, <2>2
  <1> QED
    BY <1>5 DEF ScoresFit

\* The bits a level has, and those it would have after a signature is stored.
Current(s, l) == IF HasBest(s, l) THEN s.m[l].bits ELSE {}
Final(s, l, sp) ==
    LET withIndiv == sp.ms.bits \cup s.indivSigsVerified[l]
    IN  IF sp.ms.bits \cap Current(s, l) = {} THEN withIndiv \cup Current(s, l) ELSE withIndiv

\* The size of a level's best, 0 for none.
SizeAt(s, l) == IF HasBest(s, l) THEN card(s.m[l]) ELSE 0

\* These are bitsets of the level, and the verified individuals are in the first.
LEMMA EvaluatedBits ==
    ASSUME NEW P, Contract(P), NEW s, Sound(P, s), NEW l \in P.levels, NEW sp, Good(P, l, sp)
    PROVE  /\ Current(s, l) \in SUBSET (0 .. P.size[l] - 1)
           /\ sp.ms.bits \in SUBSET (0 .. P.size[l] - 1) /\ sp.ms.bits # {}
           /\ Final(s, l, sp) \in SUBSET (0 .. P.size[l] - 1)
           /\ s.indivSigsVerified[l] \subseteq Current(s, l)
           /\ sp.isInd => sp.ms.bits = {sp.mappedIndex}
  <1>1. Current(s, l) \in SUBSET (0 .. P.size[l] - 1)
    BY DEF Sound, MapsOK, SigsOf, Current, HasBest
  <1>2. sp.ms.bits \in SUBSET (0 .. P.size[l] - 1) /\ sp.ms.bits # {}
    BY DEF Good, SigsOf, Verifies
  <1>3. s.indivSigsVerified[l] \subseteq Current(s, l)
    BY DEF Sound, Covers, Current, HasBest
  <1>4. sp.isInd => sp.ms.bits = {sp.mappedIndex}
    BY IndividualIsGood DEF Good
  <1>5. Final(s, l, sp) \in SUBSET (0 .. P.size[l] - 1)
    BY <1>1, <1>2, <1>3 DEF Final
  <1> QED
    BY <1>1, <1>2, <1>3, <1>4, <1>5

\* After a verified signature is stored a level has as many bits as Evaluate
\* looks at, or those it had when these are not fewer.
LEMMA StoreGrowsByFinal ==
    ASSUME NEW P, Contract(P), NEW s, Sound(P, s), NEW l \in P.levels, NEW sp, Good(P, l, sp)
    PROVE  LET f == Cardinality(Final(s, l, sp))
               k == Cardinality(Current(s, l))
           IN  /\ f \in Nat /\ k \in Nat /\ SizeAt(s, l) = k
               /\ SizeAt(Store(s, sp), l) = IF f > k THEN f ELSE k
  <1> DEFINE s1 == recordIndividual(s, sp)
             r  == unsafeCheckMerge(s1, sp)
             t  == Store(s, sp)
             n  == P.size[l]
  <1>1. /\ MapsOK(P, s1)
        /\ s1.m = s.m
        /\ \A k \in P.levels \ {l} : s1.indivSigsVerified[k] = s.indivSigsVerified[k]
        /\ s1.indivSigsVerified[l] =
              s.indivSigsVerified[l] \cup (IF sp.isInd THEN {sp.mappedIndex} ELSE {})
    BY RecordKeepsMaps DEF Sound
  <1>2. t = IF r.store THEN keep(s1, l, r.ms) ELSE s1
    BY DEF Store, Good
  <1>3. /\ Current(s, l) \in SUBSET (0 .. n - 1)
        /\ sp.ms.bits \in SUBSET (0 .. n - 1) /\ sp.ms.bits # {}
        /\ Final(s, l, sp) \in SUBSET (0 .. n - 1)
        /\ s.indivSigsVerified[l] \subseteq Current(s, l)
        /\ sp.isInd => sp.ms.bits = {sp.mappedIndex}
    BY EvaluatedBits
  <1>4. n \in Nat /\ sp.level = l
    BY PartFacts DEF Good
  <1>5. /\ Cardinality(Current(s, l)) \in Nat /\ Cardinality(Final(s, l, sp)) \in Nat
        /\ Cardinality(sp.ms.bits) \in Nat
    BY <1>3, <1>4, BitsFinite
  <1>6. SizeAt(s, l) = Cardinality(Current(s, l))
    BY FS_EmptySet DEF SizeAt, Current, card
  <1>7. CASE ~HasBest(s, l)
    <2>1. r = [ms |-> sp.ms, store |-> TRUE]
      BY <1>1, <1>4, <1>7 DEF unsafeCheckMerge, HasBest
    <2>2. t = keep(s1, l, sp.ms)
      BY <1>2, <2>1
    <2>3. t.m = Put(s1.m, l, sp.ms)
      <3> HIDE DEF s1
      <3> QED
        BY <1>1, <2>2 DEF keep, MapsOK
    <2>4. HasBest(t, l) /\ t.m[l] = sp.ms
      BY <2>3 DEF Put, HasBest
    <2>5. SizeAt(t, l) = Cardinality(sp.ms.bits)
      BY <2>4 DEF SizeAt, card
    <2>6. Current(s, l) = {} /\ Final(s, l, sp) = sp.ms.bits
      BY <1>3, <1>7 DEF Final, Current
    <2>7. Cardinality(Current(s, l)) = 0
      BY <2>6, FS_EmptySet
    <2> QED
      BY <1>5, <1>6, <2>5, <2>6, <2>7
  <1>8. CASE HasBest(s, l)
    <2> DEFINE best == mergeWithBest(s1, sp)
               iS   == complement(s1, l, best)
               ms   == addIndividuals(s1, l, best, iS)
    <2>1. Current(s, l) = s.m[l].bits /\ l \in DOMAIN s1.m
      BY <1>1, <1>8 DEF Current, HasBest
    <2>2. card(ms) = Cardinality(iS) + card(best)
      <3> HIDE DEF s1
      <3> QED
        BY <1>1, <2>1, MergedSignature
    <2>3. ms.bits = best.bits \cup iS /\ iS = s1.indivSigsVerified[l] \ best.bits
      BY DEF addIndividuals, MS, complement
    <2>4. Cardinality(sp.ms.bits \cup s.m[l].bits) = card(s.m[l]) + card(sp.ms)
             <=> sp.ms.bits \cap s.m[l].bits = {}
      <3>1. s.m[l].bits \in SUBSET (0 .. n - 1)
        BY <1>3, <2>1
      <3> HIDE DEF n, s1, r, t
      <3>2. \A a, b \in SUBSET (0 .. n - 1) :
               Cardinality(a \cup b) = Cardinality(b) + Cardinality(a) <=> a \cap b = {}
        BY <1>4, DisjointByCardinality
      <3> QED
        BY <1>3, <3>1, <3>2 DEF card
    <2>5. best.bits = IF sp.ms.bits \cap s.m[l].bits = {}
                      THEN sp.ms.bits \cup s.m[l].bits ELSE sp.ms.bits
      BY <1>1, <1>4, <2>4 DEF mergeWithBest, MS
    <2>6. ms.bits = Final(s, l, sp)
      <3>1. s1.indivSigsVerified[l] \cup sp.ms.bits = s.indivSigsVerified[l] \cup sp.ms.bits
        BY <1>1, <1>3
      <3> HIDE DEF s1, best, iS, ms
      <3> QED
        BY <2>1, <2>3, <2>5, <3>1 DEF Final
    <2>7. r = IF Cardinality(iS) + card(best) <= card(s.m[l])
              THEN [ms |-> best, store |-> FALSE]
              ELSE [ms |-> ms, store |-> TRUE]
      BY <1>1, <1>4, <1>8 DEF unsafeCheckMerge, HasBest
    <2>8. Cardinality(iS) + card(best) = Cardinality(Final(s, l, sp))
      BY <2>2, <2>6 DEF card
    <2>9. card(s.m[l]) = Cardinality(Current(s, l))
      BY <2>1 DEF card
    <2>10. CASE Cardinality(Final(s, l, sp)) <= Cardinality(Current(s, l))
      <3>1. t = s1
        BY <1>2, <2>7, <2>8, <2>9, <2>10
      <3>2. SizeAt(t, l) = SizeAt(s, l)
        BY <1>1, <3>1 DEF SizeAt, HasBest
      <3> QED
        BY <1>5, <1>6, <2>10, <3>2
    <2>11. CASE ~(Cardinality(Final(s, l, sp)) <= Cardinality(Current(s, l)))
      <3>1. t = keep(s1, l, ms)
        BY <1>2, <2>7, <2>8, <2>9, <2>11
      <3>2. t.m = Put(s1.m, l, ms)
        <4> HIDE DEF s1, ms
        <4> QED
          BY <1>1, <3>1 DEF keep, MapsOK
      <3>3. HasBest(t, l) /\ t.m[l] = ms
        <4> HIDE DEF s1, ms, t
        <4> QED
          BY <3>2 DEF Put, HasBest
      <3>4. SizeAt(t, l) = Cardinality(Final(s, l, sp))
        BY <2>6, <3>3 DEF SizeAt, card
      <3> QED
        BY <1>5, <1>6, <2>11, <3>4
    <2> QED
      BY <2>10, <2>11
  <1> QED
    BY <1>7, <1>8

\* A sound store scores a verified signature above 1 exactly when storing it adds
\* to its level, and never below 0.
LEMMA ScorePredicts ==
    ASSUME NEW P, Contract(P), ScoresFit(P), NEW s, Sound(P, s),
           NEW l \in P.levels, NEW sp, Good(P, l, sp),
           NEW mark, mark = unsafeEvaluate(P, s, sp)
    PROVE  /\ mark >= 0
           /\ mark > 1 <=> SizeAt(Store(s, sp), l) > SizeAt(s, l)
  <1> DEFINE n        == P.size[l]
             cur      == Current(s, l)
             final    == Final(s, l, sp)
             combined == IF sp.ms.bits \cap cur = {} THEN final \ (cur \cup sp.ms.bits)
                                                     ELSE final \ sp.ms.bits
             added    == Cardinality(final) - Cardinality(cur)
             marked   == score(P, l, sp.isInd, Cardinality(final), added,
                               Cardinality(combined))
             useless  == \/ HasBest(s, l) /\ Cardinality(cur) = n
                         \/ sp.isInd /\ sp.mappedIndex \in s.indivSigsVerified[l]
                         \/ HasBest(s, l) /\ ~sp.isInd /\ sp.ms.bits \subseteq cur
             f == Cardinality(final)
             k == Cardinality(cur)
             x == Cardinality(combined)
  <1> HIDE DEF n, cur, final, combined, added, marked, useless, f, k, x
  <1>1. /\ cur \in SUBSET (0 .. n - 1)
        /\ sp.ms.bits \in SUBSET (0 .. n - 1) /\ sp.ms.bits # {}
        /\ final \in SUBSET (0 .. n - 1)
        /\ s.indivSigsVerified[l] \subseteq cur
        /\ sp.isInd => sp.ms.bits = {sp.mappedIndex}
    BY EvaluatedBits DEF n, cur, final
  <1>2. n \in Nat /\ l \in Nat /\ sp.level = l /\ 100 * l + n <= 99998
    <2>1. n \in Nat /\ l \in Nat
      BY PartFacts DEF n
    <2>2. sp.level = l
      BY DEF Good
    <2>3. 100 * l + n <= 99998
      BY DEF ScoresFit, n
    <2> QED
      BY <2>1, <2>2, <2>3
  <1>3. \A b \in SUBSET (0 .. n - 1) :
           IsFiniteSet(b) /\ Cardinality(b) \in Nat /\ Cardinality(b) <= n
    <2> TAKE b \in SUBSET (0 .. n - 1)
    <2>1. n \in Nat
      BY <1>2
    <2> QED
      BY <2>1, BitsFinite, Zenon
  <1>4. mark = IF useless THEN 0 ELSE marked
    BY <1>2 DEF unsafeEvaluate, Current, Final, HasBest, n, cur, final, combined, added, marked,
                useless
  <1>5. combined \in SUBSET (0 .. n - 1)
    BY <1>1 DEF combined
  <1>6. f \in Nat /\ f <= n /\ k \in Nat /\ k <= n /\ x \in Nat /\ x <= n
    BY <1>1, <1>3, <1>5, Zenon DEF f, k, x
  <1>7. useless => f <= k
    <2>1. CASE k = n
      BY <1>6, <2>1
    <2>2. CASE sp.isInd /\ sp.mappedIndex \in s.indivSigsVerified[l]
      <3>1. final \subseteq cur
        BY <1>1, <2>2 DEF Final, final, cur
      <3> QED
        BY <1>1, <1>3, <3>1, FS_Subset, Zenon DEF f, k
    <2>3. CASE sp.ms.bits \subseteq cur
      <3>1. final \subseteq cur
        BY <1>1, <2>3 DEF Final, final, cur
      <3> QED
        BY <1>1, <1>3, <3>1, FS_Subset, Zenon DEF f, k
    <2> QED
      BY <2>1, <2>2, <2>3 DEF useless, k
  <1>8. SizeAt(Store(s, sp), l) > SizeAt(s, l) <=> f > k
    <2>1. SizeAt(s, l) = k /\ SizeAt(Store(s, sp), l) = IF f > k THEN f ELSE k
      BY StoreGrowsByFinal DEF f, k, cur, final
    <2> QED
      BY <1>6, <2>1
  <1>9. marked >= 0 /\ (marked > 1 <=> f > k)
    <2>1. added \in Int /\ (added > 0 <=> f > k)
      BY <1>6 DEF added, f, k
    <2>2. CASE added <= 0
      <3>1. marked = IF sp.isInd THEN 1 ELSE 0
        BY <2>1, <2>2 DEF score, marked, f, x, n
      <3> QED
        BY <2>1, <2>2, <3>1
    <2>3. CASE added > 0 /\ f = n
      <3>1. marked = 1000000 - l * 10 - x
        BY <2>1, <2>3 DEF score, marked, f, x, n
      <3> QED
        BY <1>2, <1>6, <2>1, <2>3, <3>1
    <2>4. CASE added > 0 /\ f # n
      <3>1. marked = 100000 - l * 100 + added * 10 - x
        BY <2>1, <2>4 DEF score, marked, f, x, n
      <3> QED
        BY <1>2, <1>6, <2>1, <2>4, <3>1
    <2> QED
      BY <2>1, <2>2, <2>3, <2>4
  <1> QED
    BY <1>4, <1>6, <1>7, <1>8, <1>9
=============================================================================

-------------------------- MODULE ProcessingProofs --------------------------
(***************************************************************************)
(* Proofs about Processing: whatever the order of the two loops, no valid  *)
(* signature that the filter accepted is discarded while it would still    *)
(* have been of use.                                                       *)
(*                                                                         *)
(* The difficulty is that a score is computed on a store that changes      *)
(* before it is acted on.  What carries the proof is that a signature of   *)
(* score 0 is Served by the store, and that a Served signature stays so    *)
(* however the store changes: the invariant says of every accepted         *)
(* signature that it is on its way or Served, and of every signature that  *)
(* the running pass has looked at that it is kept for later or Served.     *)
(***************************************************************************)
EXTENDS Processing, NodeLemmas, SequenceTheorems

-----------------------------------------------------------------------------
(* The invariant *)

\* The store has no more use for a signature: the individual one is verified,
\* or its level is complete; the best of its level is as large.
Served(s, sp) ==
    IF sp.isInd THEN \/ sp.mappedIndex \in s.indivSigsVerified[sp.level]
                     \/ SizeAt(s, sp.level) = Part.size[sp.level]
    ELSE SizeAt(s, sp.level) >= card(sp.ms)

Valid == {sp \in Incoming : verifySignature(Part, sp)}

OneOrNone(a) == a = <<>> \/ \E sp \in Incoming : a = <<sp>>

PassOK(v) == /\ DOMAIN v = {"i", "newTodos", "best", "bestMark"}
             /\ v.i \in Nat
             /\ v.newTodos \in Seq(Incoming)
             /\ OneOrNone(v.best)

\* What a pass keeps: the best so far and the others.
Kept(v) == ToSet(v.newTodos) \cup ToSet(v.best)

TypesOK ==
    /\ todos \in Seq(Incoming \cup {deathPillPair})
    /\ PassOK(pass) /\ pass.i <= Len(todos)
    /\ OneOrNone(picked)
    /\ out \in Seq(Valid)
    /\ accepted \in Seq(Incoming)

\* While a pass is under way nothing is being verified.
OneAtATime == pass.i > 0 => picked = <<>>

\* The signatures the pass has looked at are kept for later, or Served.
LookedAt ==
    \A k \in 1 .. pass.i :
        todos[k] \in Valid => todos[k] \in Kept(pass) \/ Served(st, todos[k])

\* The accepted ones are on their way, or Served.
AcceptedOK ==
    ~closed => \A sp \in ToSet(accepted) : sp \in Valid => InPipeline(sp) \/ Served(st, sp)

Inv == Sound(Part, st) /\ TypesOK /\ OneAtATime /\ LookedAt /\ AcceptedOK

-----------------------------------------------------------------------------
(* The signatures and the store *)

\* The partitioner keeps its contract.
LEMMA PartOK == Contract(Part)
  <1> DEFINE c == NewBinPartitioner(Id, N)
  <1>1. IsPart(c)
    BY ProcessingAssumption DEF IsPart, NewBinPartitioner
  <1> HIDE DEF c
  <1>2. Contract(Interface(c))
    BY <1>1, PartitionerContract
  <1> QED
    BY <1>2 DEF Part, c

\* An incoming signature that verifies is what the store is entitled to.
LEMMA ValidIsGood ==
    ASSUME NEW sp \in Valid
    PROVE  sp.level \in Part.levels /\ Good(Part, sp.level, sp)
  <1>1. PICK l \in Part.levels \ {0} : sp \in Multis(l) \/ sp \in Individuals(l)
    BY DEF Valid, Incoming
  <1>2. /\ Part.base[l] \in Nat /\ Part.size[l] \in Nat /\ Part.n \in Nat
        /\ Part.base[l] + Part.size[l] <= Part.n
    BY PartOK, PartFacts
  <1>3. \A bits \in SUBSET (0 .. Part.size[l] - 1) :
           {Part.base[l] + i : i \in bits} \subseteq 0 .. Part.n - 1
    BY <1>2
  <1>4. Verifies(sp.ms, Part.base[sp.level], Part.size[sp.level])
    BY DEF Valid, verifySignature
  <1>5. CASE sp \in Multis(l)
    <2>1. PICK bits \in (SUBSET (0 .. Part.size[l] - 1)) \ {{}}, once \in BOOLEAN :
             sp = [ origin |-> Part.base[l], level |-> l, isInd |-> FALSE, mappedIndex |-> 0,
                    ms |-> SigOver(l, bits, once) ]
      BY <1>5 DEF Multis
    <2>2. SigOver(l, bits, once) \in SigsOf(Part, Part.size[l])
      BY <1>3 DEF SigOver, MS, SigsOf
    <2> QED
      BY <1>1, <1>4, <2>1, <2>2 DEF Good
  <1>6. CASE sp \in Individuals(l)
    <2>1. PICK i \in 0 .. Part.size[l] - 1, once \in BOOLEAN :
             sp = [ origin |-> Part.base[l] + i, level |-> l, isInd |-> TRUE,
                    mappedIndex |-> i, ms |-> SigOver(l, {i}, once) ]
      BY <1>6 DEF Individuals
    <2>2. {Part.base[l] + j : j \in {i}} = {Part.base[l] + i}
      OBVIOUS
    <2>3. /\ sp.level = l /\ sp.isInd = TRUE /\ sp.mappedIndex = i
          /\ sp.ms = MS(Part.size[l], {i}, [who |-> {Part.base[l] + i}, once |-> once])
      BY <2>1, <2>2 DEF SigOver
    <2>4. once = TRUE
      BY <1>4, <2>1, <2>3 DEF Verifies, MS
    <2>5. sp.ms = individual(Part, l, i)
      BY <2>3, <2>4 DEF individual, SignatureOf
    <2>6. /\ individual(Part, l, i) \in SigsOf(Part, Part.size[l])
          /\ Verifies(individual(Part, l, i), Part.base[l], Part.size[l])
      BY <1>1, PartOK, IndividualIsGood
    <2> QED
      BY <1>1, <2>3, <2>5, <2>6 DEF Good
  <1> QED
    BY <1>1, <1>5, <1>6

\* Storing a signature forgets no individual signature, records its own, and
\* makes no level's best smaller.
LEMMA StoreRecords ==
    ASSUME NEW s, Sound(Part, s), NEW l \in Part.levels, NEW x, Good(Part, l, x),
           NEW t, t = Store(s, x)
    PROVE  /\ x.isInd => x.mappedIndex \in t.indivSigsVerified[l]
           /\ \A k \in Part.levels : /\ s.indivSigsVerified[k] \subseteq t.indivSigsVerified[k]
                                     /\ SizeAt(s, k) \in Nat /\ SizeAt(s, k) <= Part.size[k]
                                     /\ SizeAt(t, k) \in Nat /\ SizeAt(t, k) <= Part.size[k]
                                     /\ SizeAt(t, k) >= SizeAt(s, k)
  <1> DEFINE s1 == recordIndividual(s, x)
             r  == unsafeCheckMerge(s1, x)
  <1>1. /\ MapsOK(Part, s1)
        /\ \A k \in Part.levels \ {l} : s1.indivSigsVerified[k] = s.indivSigsVerified[k]
        /\ s1.indivSigsVerified[l] =
              s.indivSigsVerified[l] \cup (IF x.isInd THEN {x.mappedIndex} ELSE {})
    BY PartOK, RecordKeepsMaps DEF Sound
  <1>2. t = IF r.store THEN keep(s1, l, r.ms) ELSE s1
    BY DEF Store, Good
  <1>3. t.indivSigsVerified = s1.indivSigsVerified
    <2> HIDE DEF s1, r
    <2> QED
      BY <1>1, <1>2 DEF keep, MapsOK
  <1>4. Sound(Part, t) /\ Grows(s, t)
    BY PartOK, StoreStep
  <1>5. ASSUME NEW z, Sound(Part, z), NEW k \in Part.levels
        PROVE  SizeAt(z, k) \in Nat /\ SizeAt(z, k) <= Part.size[k]
    <2>1. Part.size[k] \in Nat
      BY PartOK, PartFacts
    <2>2. CASE ~HasBest(z, k)
      BY <2>1, <2>2 DEF SizeAt
    <2>3. CASE HasBest(z, k)
      <3>1. z.m[k].bits \in SUBSET (0 .. Part.size[k] - 1)
        BY <1>5, <2>3 DEF Sound, MapsOK, SigsOf, HasBest
      <3>2. Cardinality(z.m[k].bits) \in Nat /\ Cardinality(z.m[k].bits) <= Part.size[k]
        BY <2>1, <3>1, BitsFinite, Zenon
      <3> QED
        BY <2>3, <3>2 DEF SizeAt, card
    <2> QED
      BY <2>2, <2>3
  <1>6. ASSUME NEW k \in Part.levels PROVE SizeAt(t, k) >= SizeAt(s, k)
    <2>1. SizeAt(s, k) \in Nat /\ SizeAt(t, k) \in Nat
      BY <1>4, <1>5
    <2>2. CASE HasBest(s, k)
      <3>1. HasBest(t, k) /\ (t.m[k] = s.m[k] \/ card(t.m[k]) > card(s.m[k]))
        BY <1>4, <2>2 DEF Grows, HasBest
      <3> QED
        BY <2>1, <2>2, <3>1 DEF SizeAt
    <2>3. CASE ~HasBest(s, k)
      <3>1. SizeAt(s, k) = 0
        BY <2>3 DEF SizeAt
      <3> QED
        BY <2>1, <3>1
    <2> QED
      BY <2>2, <2>3
  <1> HIDE DEF s1
  <1>7. \A k \in Part.levels : s.indivSigsVerified[k] \subseteq t.indivSigsVerified[k]
    BY <1>1, <1>3
  <1>8. x.isInd => x.mappedIndex \in t.indivSigsVerified[l]
    BY <1>1, <1>3
  <1> QED
    BY <1>4, <1>5, <1>6, <1>7, <1>8

\* A Served signature stays so.
LEMMA ServedStays ==
    ASSUME NEW s, Sound(Part, s), NEW x \in Valid, NEW sp \in Valid, Served(s, sp)
    PROVE  Served(Store(s, x), sp)
  <1> DEFINE t == Store(s, x)
             l == sp.level
  <1>1. x.level \in Part.levels /\ Good(Part, x.level, x) /\ l \in Part.levels
    BY ValidIsGood
  <1>2. /\ s.indivSigsVerified[l] \subseteq t.indivSigsVerified[l]
        /\ SizeAt(s, l) \in Nat /\ SizeAt(s, l) <= Part.size[l]
        /\ SizeAt(t, l) \in Nat /\ SizeAt(t, l) <= Part.size[l]
        /\ SizeAt(t, l) >= SizeAt(s, l)
    BY <1>1, StoreRecords
  <1>3. Good(Part, l, sp) /\ Part.size[l] \in Nat /\ card(sp.ms) \in Nat
    <2>1. Good(Part, l, sp) /\ Part.size[l] \in Nat
      BY <1>1, ValidIsGood, PartOK, PartFacts
    <2>2. sp.ms.bits \in SUBSET (0 .. Part.size[l] - 1)
      BY <2>1 DEF Good, SigsOf
    <2> QED
      BY <2>1, <2>2, BitsFinite DEF card
  <1>4. Served(t, sp)
    <2> HIDE DEF t
    <2>1. CASE sp.isInd
      BY <1>2, <1>3, <2>1 DEF Served
    <2>2. CASE ~sp.isInd
      BY <1>2, <1>3, <2>2 DEF Served
    <2> QED
      BY <2>1, <2>2
  <1> QED
    BY <1>4

\* The bits of a signature are among those its level would have.
LEMMA BitsOfFinal ==
    ASSUME NEW s, Sound(Part, s), NEW sp \in Valid
    PROVE  /\ card(sp.ms) \in Nat /\ Cardinality(Final(s, sp.level, sp)) \in Nat
           /\ card(sp.ms) <= Cardinality(Final(s, sp.level, sp))
  <1> DEFINE l == sp.level
  <1>1. l \in Part.levels /\ Good(Part, l, sp) /\ Part.size[l] \in Nat
    BY ValidIsGood, PartOK, PartFacts
  <1>2. /\ sp.ms.bits \in SUBSET (0 .. Part.size[l] - 1)
        /\ Final(s, l, sp) \in SUBSET (0 .. Part.size[l] - 1)
    BY <1>1, PartOK, EvaluatedBits
  <1>3. sp.ms.bits \subseteq Final(s, l, sp)
    BY DEF Final
  <1>4. /\ IsFiniteSet(Final(s, l, sp))
        /\ Cardinality(Final(s, l, sp)) \in Nat /\ Cardinality(sp.ms.bits) \in Nat
    BY <1>1, <1>2, BitsFinite
  <1>5. Cardinality(sp.ms.bits) <= Cardinality(Final(s, l, sp))
    BY <1>3, <1>4, FS_Subset
  <1> QED
    BY <1>4, <1>5 DEF card

\* A stored signature is Served.
LEMMA StoredIsServed ==
    ASSUME NEW s, Sound(Part, s), NEW sp \in Valid
    PROVE  Served(Store(s, sp), sp)
  <1> DEFINE l == sp.level
             f == Cardinality(Final(s, l, sp))
             k == Cardinality(Current(s, l))
  <1>1. l \in Part.levels /\ Good(Part, l, sp)
    BY ValidIsGood
  <1>2. sp.isInd => sp.mappedIndex \in Store(s, sp).indivSigsVerified[l]
    BY <1>1, StoreRecords
  <1>3. f \in Nat /\ k \in Nat /\ SizeAt(Store(s, sp), l) = IF f > k THEN f ELSE k
    BY <1>1, PartOK, StoreGrowsByFinal
  <1>4. card(sp.ms) \in Nat /\ card(sp.ms) <= f
    BY BitsOfFinal
  <1> HIDE DEF f, k
  <1>5. SizeAt(Store(s, sp), l) >= card(sp.ms)
    BY <1>3, <1>4
  <1> QED
    BY <1>2, <1>5 DEF Served

\* And so is one of score 0: it could not add to its level when it was looked at.
LEMMA ZeroIsServed ==
    ASSUME ScoresFit(Part), NEW s, Sound(Part, s), NEW sp \in Valid,
           unsafeEvaluate(Part, s, sp) = 0
    PROVE  Served(s, sp)
  <1> DEFINE l    == sp.level
             f    == Cardinality(Final(s, l, sp))
             k    == Cardinality(Current(s, l))
             mark == unsafeEvaluate(Part, s, sp)
             seenIt == sp.mappedIndex \in s.indivSigsVerified[l]
  <1>1. l \in Part.levels /\ Good(Part, l, sp)
    BY ValidIsGood
  <1>2. /\ f \in Nat /\ k \in Nat /\ SizeAt(s, l) = k
        /\ SizeAt(Store(s, sp), l) = IF f > k THEN f ELSE k
    BY <1>1, PartOK, StoreGrowsByFinal
  <1>3. mark > 1 <=> SizeAt(Store(s, sp), l) > SizeAt(s, l)
    BY <1>1, PartOK, ScorePredicts
  <1>4. card(sp.ms) \in Nat /\ card(sp.ms) <= f
    BY BitsOfFinal
  <1>5. f <= k
    <2> HIDE DEF f, k, mark
    <2>1. mark = 0
      BY DEF mark
    <2> QED
      BY <1>2, <1>3, <2>1
  <1>6. CASE ~sp.isInd
    <2> HIDE DEF f, k
    <2> QED
      BY <1>2, <1>4, <1>5, <1>6 DEF Served
  <1>7. CASE sp.isInd
    <2>1. mark = IF \/ HasBest(s, l) /\ k = Part.size[l]
                    \/ seenIt
                 THEN 0
                 ELSE score(Part, l, sp.isInd, f, f - k,
                            Cardinality(IF sp.ms.bits \cap Current(s, l) = {}
                                        THEN Final(s, l, sp) \ (Current(s, l) \cup sp.ms.bits)
                                        ELSE Final(s, l, sp) \ sp.ms.bits))
      BY <1>7 DEF unsafeEvaluate, Current, Final, HasBest
    <2>2. \A x : score(Part, l, sp.isInd, f, f - k, x) = 1
      <3>1. f - k <= 0 /\ ~(f - k > 0)
        <4> HIDE DEF f, k
        <4> QED
          BY <1>2, <1>5
      <3> HIDE DEF f, k
      <3> QED
        BY <1>7, <3>1 DEF score
    <2>3. k = Part.size[l] \/ seenIt
      <3> HIDE DEF f, k
      <3> QED
        BY <2>1, <2>2
    <2> QED
      BY <1>2, <1>7, <2>3 DEF Served
  <1> QED
    BY <1>6, <1>7

-----------------------------------------------------------------------------
(* The sequences *)

\* The elements of a sequence that grows by one, of two in a row, and of one
\* that loses its first.
LEMMA Elements ==
    ASSUME NEW S, NEW a \in Seq(S)
    PROVE  /\ \A x : ToSet(<<>>) = {} /\ ToSet(<<x>>) = {x}
           /\ \A x \in S : ToSet(Append(a, x)) = ToSet(a) \cup {x}
           /\ \A b \in Seq(S) : ToSet(a \o b) = ToSet(a) \cup ToSet(b)
           /\ a # <<>> => /\ Tail(a) \in Seq(S) /\ Head(a) \in S
                          /\ ToSet(a) = {Head(a)} \cup ToSet(Tail(a))
           /\ ToSet(a) = {a[k] : k \in 1 .. Len(a)}
  <1>1. \A x : ToSet(<<>>) = {} /\ ToSet(<<x>>) = {x}
    BY DEF ToSet
  <1>2. ASSUME NEW x \in S PROVE ToSet(Append(a, x)) = ToSet(a) \cup {x}
    <2>1. /\ DOMAIN Append(a, x) = 1 .. Len(a) + 1 /\ DOMAIN a = 1 .. Len(a) /\ Len(a) \in Nat
          /\ \A k \in 1 .. Len(a) : Append(a, x)[k] = a[k]
          /\ Append(a, x)[Len(a) + 1] = x
      OBVIOUS
    <2>2. 1 .. Len(a) + 1 = (1 .. Len(a)) \cup {Len(a) + 1}
      BY <2>1
    <2>3. ASSUME NEW y PROVE y \in ToSet(Append(a, x)) <=> y \in ToSet(a) \cup {x}
      BY <2>1, <2>2 DEF ToSet
    <2> QED
      BY <2>3
  <1>3. ASSUME NEW b \in Seq(S) PROVE ToSet(a \o b) = ToSet(a) \cup ToSet(b)
    <2>1. /\ DOMAIN (a \o b) = 1 .. Len(a) + Len(b) /\ DOMAIN a = 1 .. Len(a) /\ Len(a) \in Nat
          /\ DOMAIN b = 1 .. Len(b) /\ Len(b) \in Nat
          /\ \A k \in 1 .. Len(a) : (a \o b)[k] = a[k]
          /\ \A k \in 1 .. Len(b) : (a \o b)[Len(a) + k] = b[k]
      OBVIOUS
    <2>2. \A k \in 1 .. Len(a) + Len(b) :
             k \in 1 .. Len(a) \/ \E j \in 1 .. Len(b) : k = Len(a) + j
      <3> TAKE k \in 1 .. Len(a) + Len(b)
      <3>1. CASE k > Len(a)
        <4>1. k - Len(a) \in 1 .. Len(b) /\ k = Len(a) + (k - Len(a))
          BY <2>1, <3>1
        <4> QED
          BY <4>1
      <3>2. CASE k <= Len(a)
        BY <2>1, <3>2
      <3> QED
        BY <2>1, <3>1, <3>2
    <2>3. /\ \A k \in 1 .. Len(a) : k \in 1 .. Len(a) + Len(b)
          /\ \A k \in 1 .. Len(b) : Len(a) + k \in 1 .. Len(a) + Len(b)
      BY <2>1
    <2>4. ASSUME NEW x \in ToSet(a \o b) PROVE x \in ToSet(a) \cup ToSet(b)
      <3>1. PICK k \in 1 .. Len(a) + Len(b) : x = (a \o b)[k]
        BY <2>1 DEF ToSet
      <3>2. CASE k \in 1 .. Len(a)
        BY <2>1, <3>1, <3>2 DEF ToSet
      <3>3. ASSUME NEW j \in 1 .. Len(b), k = Len(a) + j PROVE x \in ToSet(b)
        BY <2>1, <3>1, <3>3 DEF ToSet
      <3> QED
        BY <2>2, <3>2, <3>3
    <2>5. ToSet(a) \cup ToSet(b) \subseteq ToSet(a \o b)
      BY <2>1, <2>3, Zenon DEF ToSet
    <2> QED
      BY <2>4, <2>5
  <1>4. ASSUME a # <<>>
        PROVE  /\ Tail(a) \in Seq(S) /\ Head(a) \in S
               /\ ToSet(a) = {Head(a)} \cup ToSet(Tail(a))
    <2>1. /\ DOMAIN a = 1 .. Len(a) /\ Len(a) \in Nat /\ Len(a) >= 1
          /\ Tail(a) \in Seq(S) /\ Head(a) \in S /\ Head(a) = a[1]
          /\ DOMAIN Tail(a) = 1 .. Len(a) - 1
          /\ \A k \in 1 .. Len(a) - 1 : Tail(a)[k] = a[k + 1]
      BY <1>4
    <2>2. \A k \in 1 .. Len(a) : k = 1 \/ \E j \in 1 .. Len(a) - 1 : k = j + 1
      <3> TAKE k \in 1 .. Len(a)
      <3>1. CASE k # 1
        <4>1. k - 1 \in 1 .. Len(a) - 1 /\ k = (k - 1) + 1
          BY <2>1, <3>1
        <4> QED
          BY <4>1
      <3> QED
        BY <3>1
    <2>3. 1 \in 1 .. Len(a) /\ \A k \in 1 .. Len(a) - 1 : k + 1 \in 1 .. Len(a)
      BY <2>1
    <2>4. ASSUME NEW x \in ToSet(a) PROVE x = Head(a) \/ x \in ToSet(Tail(a))
      <3>1. PICK k \in 1 .. Len(a) : x = a[k]
        BY <2>1 DEF ToSet
      <3>2. ASSUME NEW j \in 1 .. Len(a) - 1, k = j + 1 PROVE x \in ToSet(Tail(a))
        <4>1. x = Tail(a)[j] /\ j \in DOMAIN Tail(a)
          BY <2>1, <3>1, <3>2
        <4> QED
          BY <4>1 DEF ToSet
      <3> QED
        BY <2>1, <2>2, <3>1, <3>2
    <2>5. ASSUME NEW x \in ToSet(Tail(a)) PROVE x \in ToSet(a)
      <3>1. PICK k \in 1 .. Len(a) - 1 : x = Tail(a)[k]
        BY <2>1 DEF ToSet
      <3>2. x = a[k + 1] /\ k + 1 \in DOMAIN a
        BY <2>1, <2>3, <3>1
      <3> QED
        BY <3>2 DEF ToSet
    <2>6. Head(a) \in ToSet(a)
      BY <2>1, <2>3 DEF ToSet
    <2> QED
      BY <2>1, <2>4, <2>5, <2>6
  <1>5. ToSet(a) = {a[k] : k \in 1 .. Len(a)}
    <2>1. DOMAIN a = 1 .. Len(a)
      OBVIOUS
    <2> QED
      BY <2>1 DEF ToSet
  <1> QED
    BY <1>1, <1>2, <1>3, <1>4, <1>5

\* Looking at one more signature loses none that is kept, and keeps this one
\* unless its score is 0.
LEMMA ConsiderStep ==
    ASSUME NEW s, NEW v, PassOK(v), NEW sp \in Incoming
    PROVE  LET w == consider(Part, s, v, sp)
           IN  /\ PassOK(w) /\ w.i = v.i + 1
               /\ Kept(v) \subseteq Kept(w)
               /\ unsafeEvaluate(Part, s, sp) # 0 => sp \in Kept(w)
  <1> DEFINE w    == consider(Part, s, v, sp)
             mark == unsafeEvaluate(Part, s, sp)
             next == [v EXCEPT !.i = @ + 1]
             a    == v.newTodos
             b    == v.best
  <1>1. PassOK(next) /\ next.i = v.i + 1 /\ next.newTodos = a /\ next.best = b
    BY DEF PassOK
  <1>2. a \in Seq(Incoming) /\ b \in Seq(Incoming) /\ OneOrNone(b) /\ <<sp>> \in Seq(Incoming)
    <2>1. <<>> \in Seq(Incoming) /\ \A y \in Incoming : <<y>> \in Seq(Incoming)
      OBVIOUS
    <2>2. OneOrNone(b) => b \in Seq(Incoming)
      BY <2>1 DEF OneOrNone
    <2> QED
      BY <2>1, <2>2 DEF PassOK
  <1>3. w = IF mark = 0 THEN next
            ELSE IF mark <= v.bestMark THEN [next EXCEPT !.newTodos = Append(@, sp)]
            ELSE [next EXCEPT !.newTodos = @ \o v.best, !.best = <<sp>>, !.bestMark = mark]
    BY DEF consider
  <1> HIDE DEF w, mark, next, a, b
  <1>4. CASE mark = 0
    BY <1>1, <1>3, <1>4 DEF Kept, a, b, w, mark
  <1>5. CASE mark # 0 /\ mark <= v.bestMark
    <2>1. w = [next EXCEPT !.newTodos = Append(@, sp)]
      BY <1>3, <1>5
    <2>2. /\ DOMAIN w = {"i", "newTodos", "best", "bestMark"} /\ w.i = v.i + 1
          /\ w.newTodos = Append(a, sp) /\ w.best = b /\ w.i \in Nat
      BY <1>1, <2>1 DEF PassOK
    <2>3. ToSet(Append(a, sp)) = ToSet(a) \cup {sp} /\ Append(a, sp) \in Seq(Incoming)
      BY <1>2, Elements
    <2>4. PassOK(w)
      BY <1>2, <2>2, <2>3 DEF PassOK
    <2> QED
      BY <2>2, <2>3, <2>4 DEF Kept, a, b, w
  <1>6. CASE mark # 0 /\ ~(mark <= v.bestMark)
    <2>1. w = [next EXCEPT !.newTodos = @ \o b, !.best = <<sp>>, !.bestMark = mark]
      BY <1>3, <1>6 DEF b
    <2>2. /\ DOMAIN w = {"i", "newTodos", "best", "bestMark"} /\ w.i = v.i + 1
          /\ w.newTodos = a \o b /\ w.best = <<sp>> /\ w.i \in Nat
      BY <1>1, <2>1 DEF PassOK
    <2>3. /\ ToSet(a \o b) = ToSet(a) \cup ToSet(b) /\ ToSet(<<sp>>) = {sp}
          /\ a \o b \in Seq(Incoming)
      BY <1>2, Elements
    <2>4. PassOK(w)
      BY <2>2, <2>3 DEF PassOK, OneOrNone
    <2> QED
      BY <2>2, <2>3, <2>4 DEF Kept, a, b, w
  <1> QED
    BY <1>4, <1>5, <1>6

-----------------------------------------------------------------------------
(* The steps *)

\* The node starts with its own signature and an empty queue.
LEMMA InitInv == Init => Inv
  <1> SUFFICES ASSUME Init PROVE Inv
    OBVIOUS
  <1>1. Good(Part, 0, OwnSig) /\ 0 \in Part.levels
    <2> DEFINE c == NewBinPartitioner(Id, N)
    <2>1. IsPart(c) /\ c.id = Id
      BY ProcessingAssumption DEF IsPart, NewBinPartitioner
    <2>2. Part.base[0] = Id
      <3> HIDE DEF c
      <3>1. Interface(c).base[0] = c.id
        BY <2>1, InterfaceIs
      <3> QED
        BY <2>1, <3>1 DEF Part, c
    <2>3. 0 \in Part.levels /\ Part.size[0] = 1 /\ Id \in Nat
      BY PartOK, PartFacts, ProcessingAssumption
    <2>4. 0 \in 0 .. Part.size[0] - 1 /\ Id + 0 = Id
      BY <2>3
    <2>5. OwnSig.ms = individual(Part, 0, 0)
      BY <2>2, <2>3, <2>4 DEF OwnSig, individual
    <2>6. /\ individual(Part, 0, 0) \in SigsOf(Part, Part.size[0])
          /\ Verifies(individual(Part, 0, 0), Part.base[0], Part.size[0])
      BY <2>3, <2>4, PartOK, IndividualIsGood
    <2> QED
      BY <2>3, <2>4, <2>5, <2>6 DEF Good, OwnSig
  <1>2. Sound(Part, Store(NewStore(Part), OwnSig))
    BY <1>1, PartOK, NewStoreIsSound, StoreStep
  <1>3. TypesOK
    BY DEF Init, TypesOK, PassOK, OneOrNone, NewPass
  <1>4. OneAtATime /\ LookedAt
    BY DEF Init, OneAtATime, LookedAt, NewPass
  <1>5. AcceptedOK
    BY DEF Init, AcceptedOK, ToSet
  <1> QED
    BY <1>2, <1>3, <1>4, <1>5 DEF Inv, Init

\* A signature comes in: it is accepted and queued, or neither.
LEMMA AddStep ==
    ASSUME Inv, NEW sp \in Incoming, Add(sp)
    PROVE  Inv'
  <1>1. /\ pass = NewPass /\ UNCHANGED <<st, pass, picked, out, closed>>
        /\ todos' = enqueue(seen, todos, sp)
        /\ accepted' = IF Accept(seen, sp) THEN Append(accepted, sp) ELSE accepted
    BY DEF Add, Unlocked
  <1>2. /\ todos \in Seq(Incoming \cup {deathPillPair}) /\ accepted \in Seq(Incoming)
        /\ PassOK(pass) /\ OneOrNone(picked) /\ out \in Seq(Valid) /\ Sound(Part, st)
    BY DEF Inv, TypesOK
  <1>3. pass.i = 0 /\ pass'.i = 0
    BY <1>1 DEF NewPass
  <1>4. OneAtATime' /\ LookedAt' /\ Sound(Part, st)'
    BY <1>1, <1>2, <1>3 DEF OneAtATime, LookedAt
  <1>5. CASE ~Accept(seen, sp)
    <2>1. todos' = todos /\ accepted' = accepted
      BY <1>1, <1>5 DEF enqueue
    <2>2. TypesOK' /\ AcceptedOK'
      BY <1>1, <2>1 DEF Inv, TypesOK, AcceptedOK, InPipeline
    <2> QED
      BY <1>4, <2>2 DEF Inv
  <1>6. CASE Accept(seen, sp)
    <2>1. todos' = Append(todos, sp) /\ accepted' = Append(accepted, sp)
      BY <1>1, <1>6 DEF enqueue
    <2>2. /\ ToSet(todos') = ToSet(todos) \cup {sp} /\ ToSet(accepted') = ToSet(accepted) \cup {sp}
          /\ todos' \in Seq(Incoming \cup {deathPillPair}) /\ accepted' \in Seq(Incoming)
      <3>1. ToSet(Append(todos, sp)) = ToSet(todos) \cup {sp}
        BY <1>2, Elements
      <3>2. ToSet(Append(accepted, sp)) = ToSet(accepted) \cup {sp}
        BY <1>2, Elements
      <3> QED
        BY <1>2, <2>1, <3>1, <3>2
    <2>3. Len(todos') \in Nat
      BY <2>2
    <2>4. TypesOK'
      BY <1>1, <1>2, <1>3, <2>2, <2>3 DEF TypesOK
    <2>5. AcceptedOK'
      BY <1>1, <2>2 DEF Inv, AcceptedOK, InPipeline
    <2> QED
      BY <1>4, <2>4, <2>5 DEF Inv
  <1> QED
    BY <1>5, <1>6

\* Stop queues the death pill.
LEMMA StopStep ==
    ASSUME Inv, Stop
    PROVE  Inv'
  <1>1. /\ pass = NewPass /\ UNCHANGED <<st, pass, picked, out, closed, accepted>>
        /\ todos' = Append(todos, deathPillPair)
    BY DEF Stop, Unlocked, enqueue, Accept, deathPillPair
  <1>2. /\ todos \in Seq(Incoming \cup {deathPillPair}) /\ PassOK(pass) /\ Sound(Part, st)
    BY DEF Inv, TypesOK
  <1>3. pass.i = 0 /\ pass'.i = 0
    BY <1>1 DEF NewPass
  <1>4. OneAtATime' /\ LookedAt' /\ Sound(Part, st)'
    BY <1>1, <1>2, <1>3 DEF OneAtATime, LookedAt
  <1>5. /\ ToSet(todos') = ToSet(todos) \cup {deathPillPair}
        /\ todos' \in Seq(Incoming \cup {deathPillPair}) /\ Len(todos') \in Nat
    BY <1>1, <1>2, Elements
  <1>6. TypesOK'
    BY <1>1, <1>3, <1>5 DEF Inv, TypesOK
  <1>7. AcceptedOK'
    BY <1>1, <1>5 DEF Inv, AcceptedOK, InPipeline
  <1> QED
    BY <1>4, <1>6, <1>7 DEF Inv

\* The pass looks at one more signature, and discards it only when it is Served.
LEMMA EvaluateStep ==
    ASSUME ScoresFit(Part), Inv, Evaluate
    PROVE  Inv'
  <1> DEFINE j  == pass.i + 1
             sp == todos[j]
  <1>1. /\ ~closed /\ picked = <<>> /\ pass.i < Len(todos)
        /\ UNCHANGED <<st, todos, picked, out, accepted>>
        /\ IF sp = deathPillPair THEN closed' = TRUE /\ pass' = NewPass
           ELSE pass' = consider(Part, st, pass, sp) /\ closed' = closed
    BY DEF Evaluate
  <1>2. /\ todos \in Seq(Incoming \cup {deathPillPair}) /\ PassOK(pass) /\ Sound(Part, st)
        /\ pass.i \in Nat /\ Len(todos) \in Nat
    BY DEF Inv, TypesOK, PassOK
  <1>3. j \in 1 .. Len(todos) /\ sp \in Incoming \cup {deathPillPair}
    BY <1>1, <1>2
  <1>4. CASE sp = deathPillPair
    <2>1. closed' = TRUE /\ pass' = NewPass /\ pass'.i = 0
      BY <1>1, <1>4 DEF NewPass
    <2>2. PassOK(NewPass)
      BY DEF PassOK, NewPass, OneOrNone
    <2>3. TypesOK'
      BY <1>1, <1>2, <2>1, <2>2 DEF Inv, TypesOK
    <2> QED
      BY <1>1, <1>2, <2>1, <2>3 DEF Inv, OneAtATime, LookedAt, AcceptedOK
  <1>5. CASE sp # deathPillPair
    <2> HIDE DEF sp
    <2>1. sp \in Incoming /\ pass' = consider(Part, st, pass, sp) /\ closed' = closed
      BY <1>1, <1>3, <1>5
    <2>2. /\ PassOK(pass') /\ pass'.i = pass.i + 1 /\ Kept(pass) \subseteq Kept(pass')
          /\ unsafeEvaluate(Part, st, sp) # 0 => sp \in Kept(pass')
      BY <1>2, <2>1, ConsiderStep
    <2>3. TypesOK'
      BY <1>1, <1>2, <2>2 DEF Inv, TypesOK
    <2>4. sp \in Valid => sp \in Kept(pass') \/ Served(st, sp)
      BY <1>2, <2>2, ZeroIsServed
    <2>5. \A k \in 1 .. pass'.i : k \in 1 .. pass.i \/ k = j
      BY <1>2, <2>2
    <2>6. LookedAt'
      <3> SUFFICES ASSUME NEW k \in 1 .. pass'.i, todos[k] \in Valid
                   PROVE  todos[k] \in Kept(pass') \/ Served(st, todos[k])
        BY <1>1 DEF LookedAt
      <3>1. CASE k \in 1 .. pass.i
        BY <2>2, <3>1 DEF Inv, LookedAt
      <3>2. CASE k = j
        BY <2>4, <3>2 DEF sp
      <3> QED
        BY <2>5, <3>1, <3>2
    <2>7. OneAtATime' /\ AcceptedOK'
      BY <1>1, <2>1 DEF Inv, OneAtATime, AcceptedOK, InPipeline
    <2> QED
      BY <1>1, <1>2, <2>3, <2>6, <2>7 DEF Inv
  <1> QED
    BY <1>4, <1>5

\* The pass ends: what it kept is the queue and the signature to verify.
LEMMA EndOfPassStep ==
    ASSUME Inv, EndOfPass
    PROVE  Inv'
  <1>1. /\ ~closed /\ todos # <<>> /\ pass.i = Len(todos)
        /\ pass' = NewPass /\ todos' = pass.newTodos /\ picked' = pass.best
        /\ UNCHANGED <<st, out, closed, accepted>>
    BY DEF EndOfPass
  <1>2. /\ todos \in Seq(Incoming \cup {deathPillPair}) /\ PassOK(pass) /\ Sound(Part, st)
        /\ Len(todos) > 0
    BY <1>1 DEF Inv, TypesOK
  <1>3. picked = <<>> /\ pass'.i = 0
    BY <1>1, <1>2 DEF Inv, OneAtATime, NewPass
  <1>4. PassOK(NewPass)
    BY DEF PassOK, NewPass, OneOrNone
  <1>5. todos' \in Seq(Incoming \cup {deathPillPair}) /\ Len(todos') \in Nat
    BY <1>1, <1>2 DEF PassOK
  <1>6. TypesOK'
    BY <1>1, <1>2, <1>3, <1>4, <1>5 DEF Inv, TypesOK, PassOK
  <1>7. OneAtATime' /\ LookedAt'
    BY <1>3 DEF OneAtATime, LookedAt
  <1>8. AcceptedOK'
    <2> SUFFICES ASSUME NEW sp \in ToSet(accepted), sp \in Valid
                 PROVE  InPipeline(sp)' \/ Served(st, sp)
      BY <1>1 DEF AcceptedOK
    <2>1. InPipeline(sp) \/ Served(st, sp)
      BY <1>1 DEF Inv, AcceptedOK
    <2>2. CASE sp \in ToSet(todos)
      <3>1. PICK k \in 1 .. Len(todos) : sp = todos[k]
        BY <1>2, <2>2, Elements
      <3>2. sp \in Kept(pass) \/ Served(st, sp)
        BY <1>1, <3>1 DEF Inv, LookedAt
      <3> QED
        BY <1>1, <3>2 DEF Kept, InPipeline
    <2>3. ToSet(picked) = {}
      BY <1>3 DEF ToSet
    <2>4. CASE sp \in ToSet(out)
      BY <1>1, <2>4 DEF InPipeline
    <2> QED
      BY <2>1, <2>2, <2>3, <2>4 DEF InPipeline
  <1> QED
    BY <1>1, <1>2, <1>6, <1>7, <1>8 DEF Inv

\* A signature is verified: it goes to the channel when it is valid.
LEMMA VerifyStep ==
    ASSUME Inv, verifyAndPublish
    PROVE  Inv'
  <1>1. /\ picked # <<>> /\ picked' = <<>> /\ UNCHANGED <<st, todos, pass, closed, accepted>>
        /\ IF verifySignature(Part, picked[1]) THEN out' = out \o picked ELSE out' = out
    BY DEF verifyAndPublish
  <1>2. PICK x \in Incoming : picked = <<x>>
    BY <1>1 DEF Inv, TypesOK, OneOrNone
  <1>3. picked[1] = x /\ ToSet(picked) = {x} /\ out \in Seq(Valid)
    BY <1>2 DEF ToSet, Inv, TypesOK
  <1>4. /\ out' \in Seq(Valid) /\ ToSet(out) \subseteq ToSet(out')
        /\ x \in Valid => x \in ToSet(out')
    <2>1. CASE verifySignature(Part, x)
      <3>1. x \in Valid /\ out' = out \o <<x>> /\ <<x>> \in Seq(Valid)
        BY <1>1, <1>2, <1>3, <2>1 DEF Valid
      <3>2. ToSet(out \o <<x>>) = ToSet(out) \cup ToSet(<<x>>) /\ ToSet(<<x>>) = {x}
        <4>1. ToSet(<<x>>) = {x}
          BY DEF ToSet
        <4>2. \A b \in Seq(Valid) : ToSet(out \o b) = ToSet(out) \cup ToSet(b)
          BY <1>3, Elements
        <4> QED
          BY <3>1, <4>1, <4>2
      <3>3. out \o <<x>> \in Seq(Valid)
        BY <1>3, <3>1
      <3> QED
        BY <3>1, <3>2, <3>3
    <2>2. CASE ~verifySignature(Part, x)
      BY <1>1, <1>3, <2>2 DEF Valid
    <2> QED
      BY <2>1, <2>2
  <1>5. TypesOK'
    BY <1>1, <1>4 DEF Inv, TypesOK, OneOrNone
  <1>6. OneAtATime' /\ LookedAt' /\ Sound(Part, st)'
    BY <1>1 DEF Inv, OneAtATime, LookedAt
  <1>7. AcceptedOK'
    BY <1>1, <1>3, <1>4 DEF Inv, AcceptedOK, InPipeline
  <1> QED
    BY <1>5, <1>6, <1>7 DEF Inv

\* The consumer stores the next signature of the channel, whatever the state of
\* the pass: this one becomes Served, and what was Served stays so.
LEMMA StoreVerifiedStep ==
    ASSUME Inv, StoreVerified
    PROVE  Inv'
  <1> DEFINE x == Head(out)
  <1>1. /\ out # <<>> /\ st' = Store(st, x) /\ out' = Tail(out)
        /\ UNCHANGED <<todos, pass, picked, closed, accepted>>
    BY DEF StoreVerified
  <1>2. out \in Seq(Valid) /\ Sound(Part, st)
    BY DEF Inv, TypesOK
  <1>3. x \in Valid /\ out' \in Seq(Valid) /\ ToSet(out) = {x} \cup ToSet(out')
    BY <1>1, <1>2, Elements
  <1>4. Sound(Part, st')
    <2>1. x.level \in Part.levels /\ Good(Part, x.level, x)
      BY <1>3, ValidIsGood
    <2> QED
      BY <1>1, <1>2, <2>1, PartOK, StoreStep
  <1>5. \A sp \in Valid : Served(st, sp) \/ sp = x => Served(st', sp)
    BY <1>1, <1>2, <1>3, ServedStays, StoredIsServed
  <1>6. TypesOK' /\ OneAtATime'
    BY <1>1, <1>3 DEF Inv, TypesOK, OneAtATime
  <1> HIDE DEF x
  <1>7. LookedAt'
    <2> SUFFICES ASSUME NEW k \in 1 .. pass.i, todos[k] \in Valid
                 PROVE  todos[k] \in Kept(pass) \/ Served(st', todos[k])
      BY <1>1 DEF LookedAt
    <2> QED
      BY <1>5 DEF Inv, LookedAt
  <1>8. AcceptedOK'
    <2> SUFFICES ASSUME ~closed, NEW sp \in ToSet(accepted), sp \in Valid
                 PROVE  InPipeline(sp)' \/ Served(st', sp)
      BY <1>1 DEF AcceptedOK
    <2>1. InPipeline(sp) \/ Served(st, sp)
      BY DEF Inv, AcceptedOK
    <2>2. InPipeline(sp) => InPipeline(sp)' \/ sp = x
      BY <1>1, <1>3 DEF InPipeline
    <2> QED
      BY <1>5, <2>1, <2>2
  <1> QED
    BY <1>4, <1>6, <1>7, <1>8 DEF Inv

\* Every step keeps the invariant.
LEMMA NextInv == ScoresFit(Part) /\ Inv /\ [Next]_vars => Inv'
  <1> SUFFICES ASSUME ScoresFit(Part), Inv, [Next]_vars PROVE Inv'
    OBVIOUS
  <1>1. CASE EndOfVerified \/ UNCHANGED vars
    <2>1. UNCHANGED <<st, todos, pass, picked, out, closed, accepted>>
      BY <1>1 DEF EndOfVerified, vars
    <2> QED
      BY <2>1 DEF Inv, TypesOK, OneAtATime, LookedAt, AcceptedOK, InPipeline
  <1>2. CASE \E sp \in Incoming : Add(sp)
    BY <1>2, AddStep
  <1> QED
    BY <1>1, <1>2, StopStep, EvaluateStep, EndOfPassStep, VerifyStep, StoreVerifiedStep DEF Next

-----------------------------------------------------------------------------
(* The theorems *)

\* The scores of a registry of up to 65536 nodes can be told apart.
LEMMA PartFits == N <= 65536 => ScoresFit(Part)
  <1> DEFINE c == NewBinPartitioner(Id, N)
  <1>1. IsPart(c) /\ c.size = N
    BY ProcessingAssumption DEF IsPart, NewBinPartitioner
  <1> HIDE DEF c
  <1>2. N <= 65536 => ScoresFit(Interface(c))
    BY <1>1, RegistriesFit
  <1> QED
    BY <1>2 DEF Part, c

\* The invariant: what the filter accepted is on its way or Served, and so is
\* what the running pass has looked at.
THEOREM ProcessingInvariant == N <= 65536 => (Spec => []Inv)
  <1> SUFFICES ASSUME N <= 65536 PROVE Spec => []Inv
    OBVIOUS
  <1>1. Inv /\ [Next]_vars => Inv'
    BY NextInv, PartFits
  <1> QED
    BY <1>1, InitInv, PTL DEF Spec

\* A Served signature has lost nothing: an individual contribution is in its
\* level's best signature, and no multi-signature is larger than it.
LEMMA ServedLostNothing ==
    ASSUME Sound(Part, st), NEW sp \in Valid, Served(st, sp)
    PROVE  IF sp.isInd THEN sp.mappedIndex \in BestBits(sp.level)
           ELSE Cardinality(BestBits(sp.level)) >= card(sp.ms)
  <1> DEFINE l == sp.level
             n == Part.size[l]
  <1>1. l \in Part.levels /\ Good(Part, l, sp) /\ n \in Nat /\ n > 0
    BY ValidIsGood, PartOK, PartFacts
  <1>2. BestBits(l) \in SUBSET (0 .. n - 1) /\ st.indivSigsVerified[l] \subseteq BestBits(l)
    BY <1>1 DEF Sound, MapsOK, SigsOf, Covers, BestBits, HasBest
  <1>3. SizeAt(st, l) = Cardinality(BestBits(l))
    BY FS_EmptySet DEF SizeAt, BestBits, card
  <1>4. CASE sp.isInd /\ SizeAt(st, l) = n
    <2>2. BestBits(l) = 0 .. n - 1
      <3> HIDE DEF n
      <3>1. n \in Nat /\ BestBits(l) \in SUBSET (0 .. n - 1) /\ Cardinality(BestBits(l)) = n
        BY <1>1, <1>2, <1>3, <1>4
      <3> QED
        BY <3>1, BitsFinite, Zenon
    <2>3. sp.mappedIndex \in 0 .. n - 1
      BY <1>1, <1>4 DEF Good
    <2> QED
      BY <1>4, <2>2, <2>3
  <1>5. CASE sp.isInd /\ sp.mappedIndex \in st.indivSigsVerified[l]
    BY <1>2, <1>5
  <1>6. CASE ~sp.isInd
    BY <1>3, <1>6 DEF Served
  <1> QED
    BY <1>4, <1>5, <1>6 DEF Served

\* Until Stop, no valid signature that the filter accepted is discarded while
\* it would still have been of use (readTodos, processing.go:194), for every node
\* of every registry of up to 65536 and every capacity of the channel.
THEOREM ProcessingDiscards == N <= 65536 => (Spec => []NothingBetterDiscarded)
  <1> SUFFICES ASSUME N <= 65536 PROVE Spec => []NothingBetterDiscarded
    OBVIOUS
  <1>1. Inv => NothingBetterDiscarded
    <2> SUFFICES ASSUME Inv, ~closed, NEW sp \in ToSet(accepted),
                        verifySignature(Part, sp), ~InPipeline(sp)
                 PROVE  IF sp.isInd THEN sp.mappedIndex \in BestBits(sp.level)
                        ELSE Cardinality(BestBits(sp.level)) >= card(sp.ms)
      BY DEF NothingBetterDiscarded
    <2>1. sp \in Incoming
      BY DEF Inv, TypesOK, ToSet
    <2>2. sp \in Valid /\ Served(st, sp) /\ Sound(Part, st)
      BY <2>1 DEF Valid, Inv, AcceptedOK
    <2> QED
      BY <2>2, ServedLostNothing
  <1> QED
    BY <1>1, ProcessingInvariant, PTL
=============================================================================

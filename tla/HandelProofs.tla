---------------------------- MODULE HandelProofs ----------------------------
(***************************************************************************)
(* Proofs about the Handel protocol, for every size of the registry, any   *)
(* nodes offline, any threshold and any order of the threads, over a       *)
(* network that may lose, duplicate and reorder packets.                   *)
(***************************************************************************)
EXTENDS HandelFaults, NodeLemmas, SequenceTheorems

-----------------------------------------------------------------------------
(* The inductive invariant *)

\* The signatures parseSignatures makes of packets.
Parsed(n) ==
    {sp \in [ origin : Nodes, level : LevelIds[n], isInd : BOOLEAN, mappedIndex : Nat,
              ms : UNION {SigsOf(Part[n], Part[n].size[l]) : l \in LevelIds[n]} ] :
        /\ sp.ms \in SigsOf(Part[n], Part[n].size[sp.level])
        /\ sp.ms.sig.who \subseteq Online
        /\ sp.isInd => /\ sp.mappedIndex \in 0 .. Part[n].size[sp.level] - 1
                       /\ sp.ms = individual(Part[n], sp.level, sp.mappedIndex)}

\* Those that verifySignature lets pass.
Valid(n) == {sp \in Parsed(n) : verifySignature(Part[n], sp)}

\* A packet carries contributions of online nodes over a bitset that fits its
\* length, and the signature of the node it comes from, or none.
PacketOK(msg) ==
    /\ msg.origin \in Online
    /\ msg.ms.len \in Nat
    /\ msg.ms \in [ len : Nat, bits : SUBSET (0 .. msg.ms.len - 1),
                    sig : [who : SUBSET Online, once : BOOLEAN] ]
    /\ msg.ind \in {<<>>, <<SignatureOf(msg.origin)>>}

\* The store is sound and has contributions of online nodes only.
StoreOK(n, s) == /\ Sound(Part[n], s) /\ OwnKept(s)
                 /\ \A k \in DOMAIN s.m : s.m[k].sig.who \subseteq Online

\* A level has as many nodes as its range has ids.
LevelOK(n, l, lvl) ==
    /\ DOMAIN lvl = {"nodes", "sendStarted", "rcvCompleted", "sendPos", "sendPeersCt",
                     "sendExpectedFullSize", "sendSigSize"}
    /\ lvl.rcvCompleted \in BOOLEAN
    /\ Len(lvl.nodes) = Part[n].size[l]

\* The signature between the store and the actors has left its level with a best.
CurrentOK(n, s, cur) ==
    cur # <<>> => \E sp \in Valid(n) : cur = <<sp>> /\ HasBest(s, sp.level)

\* A level is complete when the store has all of it, unless the actors have not
\* seen that yet.
HasAll(n, s, l) == HasBest(s, l) /\ card(s.m[l]) = Part[n].size[l]
CompleteOK(n, s, lvls, cur) ==
    \A l \in LevelIds[n] :
        /\ lvls[l].rcvCompleted => HasAll(n, s, l)
        /\ HasAll(n, s, l) => lvls[l].rcvCompleted \/ (cur # <<>> /\ cur[1].level = l)

\* What was put out verifies, reaches the threshold, and is the full signature
\* or smaller; it is the full signature unless the actors have not seen that yet.
OutputOK(n, s, cur, sig) ==
    LET full == FullSignature(Part[n], s)
    IN  /\ \/ sig = Nil
           \/ /\ Verifies(sig, 0, N) /\ card(sig) \in Nat /\ card(sig) >= Contributions
              /\ sig = full \/ card(sig) < card(full)
        /\ cur = <<>> /\ DOMAIN s.m # {0} =>
              sig = IF card(full) >= Contributions THEN full ELSE Nil

NodeOK(n, s, lvls, td, vd, cur, sig) ==
    /\ StoreOK(n, s)
    /\ DOMAIN lvls = LevelIds[n] /\ \A l \in LevelIds[n] : LevelOK(n, l, lvls[l])
    /\ td \in Seq(Parsed(n)) /\ vd \in Seq(Valid(n))
    /\ CurrentOK(n, s, cur)
    /\ CompleteOK(n, s, lvls, cur)
    /\ OutputOK(n, s, cur, sig)

Domains == /\ DOMAIN store = Online /\ DOMAIN levels = Online /\ DOMAIN todos = Online
           /\ DOMAIN verified = Online /\ DOMAIN current = Online /\ DOMAIN best = Online

NodesOK == \A n \in Online : NodeOK(n, store[n], levels[n], todos[n], verified[n], current[n],
                                    best[n])

PacketsOK == \A p \in packets : PacketOK(p.msg)

HandelInv == Domains /\ NodesOK /\ PacketsOK

-----------------------------------------------------------------------------
(* The partitioners *)

\* What a node uses of its partitioner.
LEMMA PartOf ==
    ASSUME NEW n \in Nodes
    PROVE  /\ Contract(Part[n])
           /\ Part[n].n = N /\ Part[n].base[0] = n /\ Part[n].size[0] = 1
           /\ LevelIds[n] = Part[n].levels \ {0}
           /\ \A l \in LevelIds[n] :
                 /\ l \in Part[n].levels /\ l \in Nat
                 /\ Part[n].base[l] \in Nat /\ Part[n].size[l] \in Nat /\ Part[n].size[l] > 0
                 /\ Part[n].base[l] + Part[n].size[l] <= N
  <1> DEFINE c == NewBinPartitioner(n, N)
  <1>1. IsPart(c) /\ c.size = N /\ c.id = n
    BY HandelAssumption DEF IsPart, Nodes, NewBinPartitioner
  <1>2. Part[n] = Interface(c)
    BY DEF Part
  <1>3. Contract(Part[n])
    BY <1>1, <1>2, PartitionerContract
  <1>4. Part[n].n = N /\ Part[n].base[0] = n
    BY <1>1, <1>2, InterfaceIs
  <1>5. LevelIds[n] = Part[n].levels \ {0}
    BY DEF LevelIds
  <1> HIDE DEF c
  <1> QED
    BY <1>3, <1>4, <1>5, PartFacts

\* IndexAtLevel finds the place of an id in the range of a level.
LEMMA IndexIs ==
    ASSUME NEW n \in Nodes, NEW l \in LevelIds[n], NEW id \in Nodes,
           IndexAtLevel(NewBinPartitioner(n, N), id, l).err = "ok"
    PROVE  LET index == IndexAtLevel(NewBinPartitioner(n, N), id, l).index
           IN  index \in 0 .. Part[n].size[l] - 1 /\ Part[n].base[l] + index = id
  <1> DEFINE c == NewBinPartitioner(n, N)
  <1>1. IsPart(c) /\ Part[n] = Interface(c)
    BY HandelAssumption DEF IsPart, Nodes, Part
  <1>2. l \in Interface(c).levels \ {0}
    BY <1>1, PartOf
  <1>3. /\ rangeLevel(c, l).min = Part[n].base[l]
        /\ rangeLevel(c, l).max = Part[n].base[l] + Part[n].size[l]
    BY <1>1, <1>2, InterfaceIs
  <1>4. /\ id \in Ids(rangeLevel(c, l))
        /\ IndexAtLevel(c, id, l).index = id - rangeLevel(c, l).min
    BY DEF IndexAtLevel
  <1> HIDE DEF c
  <1>5. Part[n].base[l] \in Nat /\ Part[n].size[l] \in Nat /\ id \in Nat
    BY PartOf DEF Nodes
  <1>6. /\ id \in Part[n].base[l] .. ((Part[n].base[l] + Part[n].size[l]) - 1)
        /\ IndexAtLevel(c, id, l).index = id - Part[n].base[l]
    BY Zenon, <1>3, <1>4 DEF Ids
  <1> QED
    BY <1>5, <1>6 DEF c

\* The nodes of a level are in number those of its range, in every order.
LEMMA OrderLength ==
    ASSUME NEW n \in Nodes, NEW l \in LevelIds[n], NEW order \in Orders(n, l)
    PROVE  Len(order) = Part[n].size[l]
  <1> DEFINE c == NewBinPartitioner(n, N)
             b == Part[n].base[l]
             k == Part[n].size[l]
  <1>1. b \in Nat /\ k \in Nat /\ k > 0 /\ b + k <= N /\ N \in Nat
    BY PartOf, HandelAssumption
  <1>2. CASE Shuffles
    <2>1. Cardinality(PeersAt(n, l)) = k
      <3>1. PeersAt(n, l) = b .. b + k - 1
        BY DEF PeersAt
      <3> HIDE DEF b, k
      <3> QED
        BY <1>1, <3>1, RangeSize, Zenon
    <2>2. order \in [1 .. k -> PeersAt(n, l)]
      BY <1>2, <2>1 DEF Orders, SetToSeqs
    <2> HIDE DEF k
    <2>3. order \in Seq(PeersAt(n, l)) /\ DOMAIN order = 1 .. k
      BY <1>1, <2>2
    <2>4. Len(order) \in Nat /\ DOMAIN order = 1 .. Len(order)
      BY <2>3
    <2> QED
      BY <1>1, <2>3, <2>4 DEF k
  <1>3. CASE ~Shuffles
    <2>1. order = IdentitiesAt(c, l).ids
      BY <1>3 DEF Orders
    <2>2. IsPart(c) /\ Part[n] = Interface(c) /\ c.size = N
      BY HandelAssumption DEF IsPart, Nodes, Part, NewBinPartitioner
    <2>3. l \in Interface(c).levels \ {0}
      BY <2>2, PartOf
    <2>4. rangeLevel(c, l).err = "ok" /\ rangeLevel(c, l).min = b /\ rangeLevel(c, l).max = b + k
      BY <2>2, <2>3, InterfaceIs
    <2> HIDE DEF c, b, k
    <2>5. IdentitiesAt(c, l).ids = Identities(N, b, b + k).ids
      BY <2>2, <2>4 DEF IdentitiesAt
    <2>6. Identities(N, b, b + k).ids = [i \in 1 .. (b + k) - b |-> b + i - 1]
      BY <1>1 DEF Identities
    <2>7. (b + k) - b = k
      BY <1>1
    <2> QED
      BY <1>1, <2>1, <2>5, <2>6, <2>7 DEF k
  <1> QED
    BY <1>2, <1>3, HandelAssumption

-----------------------------------------------------------------------------
(* The pass over the queue *)

\* The table of the passes after 0, 1, ... signatures.
Passes(part, st, td, g) ==
    g = [i \in 0 .. Len(td) |->
           IF i = 0 THEN NewPass ELSE consider(part, st, g[i - 1], td[i])]

\* readTodos returns the last entry of this table.
LEMMA ReadTodosIs ==
    ASSUME NEW part, NEW st, NEW td
    PROVE  readTodos(part, st, td) = (CHOOSE g : Passes(part, st, td, g))[Len(td)]
  BY DEF readTodos, Passes

\* There is such a table.
LEMMA PassesExist ==
    ASSUME NEW part, NEW st, NEW S, NEW td \in Seq(S)
    PROVE  Passes(part, st, td, CHOOSE g : Passes(part, st, td, g))
  <1> DEFINE b == Len(td)
             step(v, i) == consider(part, st, v, td[i])
             Partial(g, k) == /\ g = [i \in 0 .. k |-> g[i]]
                              /\ g[0] = NewPass
                              /\ \A i \in 1 .. k : g[i] = step(g[i - 1], i)
             T == {k \in Nat : k <= b => \E g : Partial(g, k)}
  <1>1. b \in Nat
    OBVIOUS
  <1>2. 0 \in T
    <2> DEFINE g == [i \in 0 .. 0 |-> NewPass]
    <2>1. g = [i \in 0 .. 0 |-> g[i]] /\ g[0] = NewPass /\ 1 .. 0 = {}
      OBVIOUS
    <2> HIDE DEF g, step
    <2>2. Partial(g, 0)
      BY <2>1
    <2> QED
      BY <2>2
  <1>3. ASSUME NEW k \in Nat, k \in T PROVE k + 1 \in T
    <2> SUFFICES ASSUME k + 1 <= b PROVE \E g : Partial(g, k + 1)
      OBVIOUS
    <2> HIDE DEF step
    <2>1. PICK g : Partial(g, k)
      BY <1>1, <1>3
    <2> DEFINE h == [i \in 0 .. k + 1 |-> IF i = k + 1 THEN step(g[k], k + 1) ELSE g[i]]
    <2>2. h = [i \in 0 .. k + 1 |-> h[i]] /\ h[0] = g[0] /\ h[k + 1] = step(g[k], k + 1)
      OBVIOUS
    <2>3. \A i \in 0 .. k : h[i] = g[i]
      OBVIOUS
    <2>4. ASSUME NEW i \in 1 .. k + 1 PROVE h[i] = step(h[i - 1], i)
      <3> HIDE DEF h
      <3>1. CASE i = k + 1
        <4>1. i - 1 = k /\ k \in 0 .. k
          BY <3>1
        <4>2. h[i - 1] = g[k]
          BY <2>3, <4>1
        <4> QED
          BY <2>2, <3>1, <4>2
      <3>2. CASE i # k + 1
        <4>1. i \in 1 .. k /\ i \in 0 .. k /\ i - 1 \in 0 .. k
          BY <2>4, <3>2
        <4>2. g[i] = step(g[i - 1], i)
          BY <2>1, <4>1
        <4> QED
          BY <2>3, <4>1, <4>2
      <3> QED
        BY <3>1, <3>2
    <2>5. Partial(h, k + 1)
      <3> HIDE DEF h
      <3> QED
        BY <2>1, <2>2, <2>4
    <2> QED
      BY <2>5
  <1>4. b \in T
    <2> HIDE DEF T
    <2>1. Nat \subseteq T
      BY <1>2, <1>3, SetInduction
    <2> QED
      BY <1>1, <2>1
  <1>5. PICK g : Partial(g, b)
    BY <1>1, <1>4
  <1>6. Passes(part, st, td, g)
    <2>1. \A i \in 0 .. b : g[i] = IF i = 0 THEN NewPass ELSE step(g[i - 1], i)
      <3> TAKE i \in 0 .. b
      <3> HIDE DEF step
      <3>1. i # 0 => i \in 1 .. b
        BY <1>1
      <3> QED
        BY <1>5, <3>1
    <2>2. g = [i \in 0 .. b |-> IF i = 0 THEN NewPass ELSE step(g[i - 1], i)]
      <3>1. g = [i \in 0 .. b |-> g[i]]
        BY <1>5
      <3> HIDE DEF step
      <3> QED
        BY <2>1, <3>1
    <2> QED
      BY <2>2 DEF Passes
  <1> QED
    BY <1>6

\* A pass over signatures of S.
PassOK(S, v) == /\ DOMAIN v = {"i", "newTodos", "best", "bestMark"}
                /\ v.newTodos \in Seq(S)
                /\ v.best = <<>> \/ \E sp \in S : v.best = <<sp>>

\* Looking at one more signature keeps that.
LEMMA ConsiderStep ==
    ASSUME NEW part, NEW st, NEW S, NEW v, PassOK(S, v), NEW sp \in S
    PROVE  PassOK(S, consider(part, st, v, sp))
  <1> DEFINE mark == unsafeEvaluate(part, st, sp)
             next == [v EXCEPT !.i = @ + 1]
  <1>1. PassOK(S, next) /\ next.newTodos = v.newTodos
    BY DEF PassOK
  <1> HIDE DEF mark
  <1>2. PassOK(S, [next EXCEPT !.newTodos = Append(@, sp)])
    <2> HIDE DEF next
    <2> QED
      BY <1>1 DEF PassOK
  <1>3. PassOK(S, [next EXCEPT !.newTodos = @ \o v.best, !.best = <<sp>>, !.bestMark = mark])
    <2>1. v.best \in Seq(S)
      <3>1. <<>> \in Seq(S) /\ \A x \in S : <<x>> \in Seq(S)
        OBVIOUS
      <3> QED
        BY <3>1 DEF PassOK
    <2> HIDE DEF next
    <2>2. next.newTodos \o v.best \in Seq(S)
      BY <1>1, <2>1 DEF PassOK
    <2> QED
      BY <1>1, <2>2 DEF PassOK
  <1>4. consider(part, st, v, sp) \in
           { next, [next EXCEPT !.newTodos = Append(@, sp)],
             [next EXCEPT !.newTodos = @ \o v.best, !.best = <<sp>>, !.bestMark = mark] }
    BY DEF consider, mark
  <1> HIDE DEF next
  <1> QED
    BY <1>1, <1>2, <1>3, <1>4

\* readTodos picks one of the queued signatures or none, and leaves queued ones.
LEMMA ReadTodos ==
    ASSUME NEW part, NEW st, NEW S, NEW td \in Seq(S)
    PROVE  PassOK(S, readTodos(part, st, td))
  <1> DEFINE g == CHOOSE f : Passes(part, st, td, f)
             T == {i \in Nat : i <= Len(td) => PassOK(S, g[i])}
  <1>1. Passes(part, st, td, g)
    BY PassesExist
  <1> HIDE DEF g
  <1>2. \A i \in 0 .. Len(td) :
           g[i] = IF i = 0 THEN NewPass ELSE consider(part, st, g[i - 1], td[i])
    BY <1>1 DEF Passes
  <1>3. Len(td) \in Nat /\ \A i \in 1 .. Len(td) : td[i] \in S
    OBVIOUS
  <1>4. 0 \in T
    <2>1. PassOK(S, NewPass)
      BY DEF PassOK, NewPass
    <2>2. g[0] = NewPass
      BY <1>2, <1>3
    <2> QED
      BY <2>1, <2>2
  <1>5. ASSUME NEW i \in Nat, i \in T PROVE i + 1 \in T
    <2> SUFFICES ASSUME i + 1 <= Len(td) PROVE PassOK(S, g[i + 1])
      OBVIOUS
    <2>1. i + 1 \in 0 .. Len(td) /\ i + 1 \in 1 .. Len(td) /\ i + 1 # 0 /\ (i + 1) - 1 = i
      BY <1>3
    <2>2. g[i + 1] = consider(part, st, g[i], td[i + 1])
      BY <1>2, <2>1
    <2>3. PassOK(S, g[i]) /\ td[i + 1] \in S
      BY <1>3, <1>5, <2>1
    <2> QED
      BY <2>2, <2>3, ConsiderStep
  <1>6. Len(td) \in T
    <2> HIDE DEF T
    <2>1. Nat \subseteq T
      BY <1>4, <1>5, SetInduction
    <2> QED
      BY <1>3, <2>1
  <1>7. PassOK(S, g[Len(td)])
    BY <1>3, <1>6
  <1>8. readTodos(part, st, td) = g[Len(td)]
    BY ReadTodosIs DEF g
  <1> QED
    BY <1>7, <1>8

-----------------------------------------------------------------------------
(* The store of a node *)

\* A node's own signature is what the store is entitled to.
LEMMA OwnSigGood ==
    ASSUME NEW n \in Nodes
    PROVE  Good(Part[n], 0, ownSig(n))
  <1>1. /\ Contract(Part[n]) /\ 0 \in Part[n].levels
        /\ Part[n].size[0] = 1 /\ Part[n].base[0] = n /\ n \in Nat
    BY PartOf, PartFacts DEF Nodes
  <1>2. 0 \in 0 .. Part[n].size[0] - 1 /\ n + 0 = n
    BY <1>1
  <1>3. ownSig(n).ms = individual(Part[n], 0, 0)
    BY <1>1, <1>2 DEF ownSig, individual
  <1>4. /\ individual(Part[n], 0, 0) \in SigsOf(Part[n], Part[n].size[0])
        /\ Verifies(individual(Part[n], 0, 0), Part[n].base[0], Part[n].size[0])
    BY <1>1, <1>2, IndividualIsGood
  <1> QED
    BY <1>2, <1>3, <1>4 DEF Good, ownSig

\* What passes verifySignature is what the store is entitled to, and has
\* contributions of online nodes only.
LEMMA ValidIsGood ==
    ASSUME NEW n \in Nodes, NEW sp \in Valid(n)
    PROVE  /\ Good(Part[n], sp.level, sp)
           /\ sp.level \in LevelIds[n] /\ sp.level \in Part[n].levels /\ sp.level # 0
           /\ sp.ms.sig.who \subseteq Online
  <1>1. sp.level \in LevelIds[n] /\ sp.isInd \in BOOLEAN
    BY DEF Valid, Parsed
  <1>2. sp.level \in Part[n].levels /\ sp.level # 0
    BY <1>1, PartOf
  <1> QED
    BY <1>1, <1>2 DEF Valid, Parsed, Good, verifySignature

\* The full signature of a node is valid, has its own contribution and only those
\* of online nodes.
LEMMA FullOK ==
    ASSUME NEW n \in Online, NEW s, StoreOK(n, s)
    PROVE  LET full == FullSignature(Part[n], s)
           IN  /\ Verifies(full, 0, N)
               /\ full.bits \subseteq Online /\ n \in full.bits
               /\ IsFiniteSet(full.bits) /\ card(full) \in Nat
  <1> DEFINE full == FullSignature(Part[n], s)
             P    == Part[n]
  <1>1. n \in Nodes /\ n \in Nat
    BY DEF Online, Nodes
  <1>2. /\ Contract(P) /\ P.n = N /\ P.base[0] = n /\ P.size[0] = 1
        /\ Sound(P, s) /\ OwnKept(s)
    BY <1>1, PartOf DEF StoreOK
  <1> HIDE DEF P
  <1>3. /\ Verifies(full, 0, N)
    BY <1>2, FullSignatureIs DEF P
  <1>4. /\ full.bits = UNION {s.m[k].sig.who : k \in DOMAIN s.m}
        /\ full.bits \in SUBSET (0 .. N - 1)
    BY <1>2, FullSignatureBits DEF P
  <1>5. n \in s.m[0].sig.who /\ 0 \in DOMAIN s.m
    <2>1. 0 \in DOMAIN s.m /\ s.m[0] \in SigsOf(P, 1) /\ Verifies(s.m[0], n, 1)
      BY <1>2 DEF Sound, MapsOK, OwnKept
    <2>2. 0 \in s.m[0].bits
      BY <2>1 DEF SigsOf, Verifies
    <2> QED
      BY <1>1, <2>1, <2>2 DEF Verifies
  <1>6. N \in Nat
    BY HandelAssumption
  <1>7. IsFiniteSet(full.bits) /\ Cardinality(full.bits) \in Nat
    BY <1>4, <1>6, BitsFinite
  <1>8. full.bits \subseteq Online
    BY <1>4 DEF StoreOK
  <1> HIDE DEF full
  <1> QED
    BY <1>3, <1>4, <1>5, <1>7, <1>8 DEF full, card

\* Storing a verified signature.
LEMMA StoredOK ==
    ASSUME NEW n \in Online, NEW s, StoreOK(n, s), NEW sp \in Valid(n), NEW t, t = Store(s, sp)
    PROVE  /\ StoreOK(n, t)
           /\ HasBest(t, sp.level) /\ DOMAIN t.m # {0}
           /\ \A l \in LevelIds[n] : HasAll(n, s, l) => HasAll(n, t, l)
           /\ \A l \in LevelIds[n] : HasAll(n, t, l) => HasAll(n, s, l) \/ l = sp.level
           /\ \/ FullSignature(Part[n], t) = FullSignature(Part[n], s)
              \/ card(FullSignature(Part[n], t)) > card(FullSignature(Part[n], s))
  <1> DEFINE P == Part[n]
             v == sp.level
  <1>1. n \in Nodes
    BY DEF Online
  <1>2. /\ Good(P, v, sp) /\ v \in P.levels /\ v # 0
        /\ sp.ms.sig.who \subseteq Online
        /\ Contract(P) /\ LevelIds[n] = P.levels \ {0}
        /\ Sound(P, s) /\ OwnKept(s)
    BY <1>1, ValidIsGood, PartOf DEF StoreOK
  <1>3. Sound(P, t) /\ Grows(s, t)
    <2> HIDE DEF P, v
    <2> QED
      BY <1>2, StoreStep
  <1>4. /\ DOMAIN t.m = DOMAIN s.m \cup {v}
        /\ \A k \in DOMAIN s.m \ {v} : t.m[k] = s.m[k]
        /\ \A i \in t.m[v].bits : i \in sp.ms.bits \/ (v \in DOMAIN s.m /\ i \in s.m[v].bits)
    <2> HIDE DEF P, v
    <2> QED
      BY <1>2, StoreBits
  <1>5. OwnKept(t)
    BY <1>2, <1>4 DEF OwnKept
  <1>6. t.m[v].sig.who \subseteq Online
    <2> SUFFICES ASSUME NEW x \in t.m[v].sig.who PROVE x \in Online
      OBVIOUS
    <2>1. PICK i \in t.m[v].bits : x = P.base[v] + i
      BY <1>3, <1>4 DEF Sound, MapsOK, Verifies
    <2>2. CASE i \in sp.ms.bits
      BY <1>2, <2>1, <2>2 DEF Good, Verifies
    <2>3. CASE v \in DOMAIN s.m /\ i \in s.m[v].bits
      <3>1. x \in s.m[v].sig.who
        BY <1>2, <2>1, <2>3 DEF Sound, MapsOK, Verifies
      <3> QED
        BY <2>3, <3>1 DEF StoreOK
    <2> QED
      BY <1>4, <2>2, <2>3
  <1>7. StoreOK(n, t)
    BY <1>3, <1>4, <1>5, <1>6 DEF StoreOK
  <1>8. HasBest(t, v) /\ DOMAIN t.m # {0}
    BY <1>2, <1>4 DEF HasBest
  <1>9. ASSUME NEW l \in LevelIds[n], HasAll(n, s, l) PROVE HasAll(n, t, l)
    <2>1. l \in DOMAIN s.m /\ l \in DOMAIN t.m /\ l \in P.levels /\ card(s.m[l]) = P.size[l]
      BY <1>2, <1>4, <1>9 DEF HasAll, HasBest
    <2>2. t.m[l].bits \in SUBSET (0 .. P.size[l] - 1) /\ P.size[l] \in Nat
      BY <1>2, <1>3, <2>1, PartFacts DEF Sound, MapsOK, SigsOf
    <2>3. Cardinality(t.m[l].bits) <= P.size[l] /\ Cardinality(t.m[l].bits) \in Nat
      <3> HIDE DEF P
      <3> QED
        BY <2>2, BitsFinite, Zenon
    <2>4. t.m[l] # s.m[l] => card(t.m[l]) > card(s.m[l])
      BY <1>3, <2>1 DEF Grows
    <2>5. card(t.m[l]) = P.size[l]
      <3> HIDE DEF P
      <3> QED
        BY <2>1, <2>2, <2>3, <2>4 DEF card
    <2> QED
      BY <2>1, <2>5 DEF HasAll, HasBest
  <1>10. ASSUME NEW l \in LevelIds[n], HasAll(n, t, l), l # v PROVE HasAll(n, s, l)
    BY <1>4, <1>10 DEF HasAll, HasBest
  <1>11. \/ FullSignature(P, t) = FullSignature(P, s)
         \/ Cardinality(FullSignature(P, t).bits) > Cardinality(FullSignature(P, s).bits)
    <2> HIDE DEF P, v
    <2> QED
      BY <1>2, <1>3, <1>5, FullSignatureGrows
  <1> QED
    BY <1>7, <1>8, <1>9, <1>10, <1>11 DEF card

\* What a node sends to a level fits its bitset and comes from online nodes.
LEMMA CombinedOK ==
    ASSUME NEW n \in Online, NEW s, StoreOK(n, s), NEW l \in LevelIds[n],
           NEW ms, ms = Combined(Part[n], s, l - 1)
    PROVE  /\ ms.len \in Nat
           /\ ms \in [ len : Nat, bits : SUBSET (0 .. ms.len - 1),
                      sig : [who : SUBSET Online, once : BOOLEAN] ]
  <1> DEFINE P    == Part[n]
             sigs == UpTo(s, l - 1)
             off  == Offsets(P, sigs, P.invBase[l])
             size == P.invSize[l]
  <1>1. n \in Nodes
    BY DEF Online
  <1>2. /\ Contract(P) /\ l \in P.levels \ {0} /\ l \in P.levels
        /\ Sound(P, s) /\ OwnKept(s)
    BY <1>1, PartOf DEF StoreOK
  <1>3. /\ P.invBase[l] \in Nat /\ size \in Nat
        /\ LevelSigs(P, sigs)
        /\ \A k \in DOMAIN sigs : k < l
        /\ ms = combineSize(sigs, size, off)
    <2> HIDE DEF P
    <2> QED
      BY <1>2, CombinedIs, CombinedIsValid DEF P
  <1>4. \A k \in DOMAIN sigs : /\ P.invBase[l] <= P.base[k]
                               /\ P.base[k] + P.size[k] <= P.invBase[l] + size
    BY <1>2, <1>3 DEF Contract, LevelSigs
  <1>5. ~combinePanics(sigs, size, off)
    <2> HIDE DEF P, sigs, size
    <2> QED
      BY <1>2, <1>3, <1>4, CombineInBounds DEF size
  <1>6. ASSUME NEW k \in DOMAIN sigs, NEW i \in sigs[k].bits
        PROVE  off[k] + i \in 0 .. size - 1
    <2>1. sigs[k].bits \in SUBSET (0 .. sigs[k].len - 1)
      BY <1>3 DEF LevelSigs, SigsOf
    <2> HIDE DEF sigs, off, size
    <2> QED
      BY <1>5, <2>1 DEF combinePanics
  <1>7. \A k \in DOMAIN sigs : sigs[k].sig.who \subseteq Online
    BY DEF UpTo, StoreOK
  <1> HIDE DEF P, sigs, off, size
  <1>8. ms = [len |-> size, bits |-> ms.bits, sig |-> [who |-> ms.sig.who, once |-> ms.sig.once]]
    BY <1>3 DEF combineSize, MS, CombineAll
  <1>9. ms.bits \subseteq 0 .. size - 1
    BY <1>3, <1>6 DEF combineSize, MS
  <1>10. ms.sig.who \subseteq Online /\ ms.sig.once \in BOOLEAN
    <2> DEFINE f == [k \in DOMAIN sigs |-> sigs[k].sig]
    <2>1. ms.sig = CombineAll(f)
      BY <1>3 DEF combineSize, MS
    <2>2. CombineAll(f).who \subseteq Online
      BY <1>7 DEF CombineAll
    <2>3. CombineAll(f).once \in BOOLEAN
      <3> HIDE DEF f
      <3> QED
        BY DEF CombineAll
    <2> QED
      BY <2>1, <2>2, <2>3
  <1>11. ms.len = size
    BY <1>8
  <1> QED
    BY <1>3, <1>8, <1>9, <1>10, <1>11

-----------------------------------------------------------------------------
(* The initial state *)

\* The store NewHandel makes.
LEMMA FirstOK ==
    ASSUME NEW n \in Online, NEW s, s = Store(NewStore(Part[n]), ownSig(n))
    PROVE  StoreOK(n, s) /\ DOMAIN s.m = {0} /\ FullSignature(Part[n], s).bits = {n}
  <1> DEFINE P == Part[n]
             o == ownSig(n)
  <1>1. n \in Nodes
    BY DEF Online
  <1>2. Contract(P) /\ 0 \in P.levels /\ Good(P, 0, o)
    BY <1>1, PartOf, PartFacts, OwnSigGood
  <1>3. o.ms.sig.who = {n}
    BY DEF ownSig, MS, SignatureOf
  <1> HIDE DEF P, o
  <1>4. Sound(P, s)
    BY <1>2, NewStoreIsSound, StoreStep DEF P, o
  <1>5. OwnKept(s) /\ DOMAIN s.m = {0} /\ s.m[0] = o.ms
    BY <1>2, FirstStore DEF P, o
  <1>6. StoreOK(n, s)
    BY <1>3, <1>4, <1>5 DEF StoreOK, P
  <1>7. FullSignature(P, s).bits = UNION {s.m[k].sig.who : k \in DOMAIN s.m}
    BY <1>2, <1>4, <1>5, FullSignatureBits
  <1> QED
    BY <1>3, <1>5, <1>6, <1>7 DEF P

\* The operations on a level keep its shape, its nodes and what it received.
LEMMA SetStartedOK ==
    ASSUME NEW n, NEW l, NEW lvl, LevelOK(n, l, lvl)
    PROVE  LevelOK(n, l, setStarted(lvl)) /\ setStarted(lvl).rcvCompleted = lvl.rcvCompleted
  BY DEF LevelOK, setStarted

\* So does selecting the next peers.
LEMMA SelectOK ==
    ASSUME NEW n, NEW l, NEW lvl, LevelOK(n, l, lvl), NEW count
    PROVE  /\ LevelOK(n, l, selectNextPeers(lvl, count))
           /\ selectNextPeers(lvl, count).rcvCompleted = lvl.rcvCompleted
  BY DEF LevelOK, selectNextPeers

\* And so does a new signature to send.
LEMMA UpdateOK ==
    ASSUME NEW n, NEW l, NEW lvl, LevelOK(n, l, lvl), NEW size
    PROVE  /\ LevelOK(n, l, updateSigToSend(lvl, size))
           /\ updateSigToSend(lvl, size).rcvCompleted = lvl.rcvCompleted
  BY DEF LevelOK, updateSigToSend

\* The levels createLevels makes.
LEMMA NewLevelsOK ==
    ASSUME NEW n \in Online, NEW lvls \in NewLevels(n)
    PROVE  /\ DOMAIN lvls = LevelIds[n]
           /\ \A l \in LevelIds[n] : LevelOK(n, l, lvls[l]) /\ lvls[l].rcvCompleted = FALSE
  <1>1. n \in Nodes
    BY DEF Online
  <1>2. PICK order : /\ \A l \in LevelIds[n] : order[l] \in Orders(n, l)
                     /\ lvls = createLevels(n, order)
    BY DEF NewLevels
  <1>3. DOMAIN lvls = LevelIds[n]
    BY <1>2 DEF createLevels
  <1>4. ASSUME NEW l \in LevelIds[n]
        PROVE  LevelOK(n, l, lvls[l]) /\ lvls[l].rcvCompleted = FALSE
    <2> DEFINE size == 1 + SumFunctionOnSet(Part[n].size, {k \in LevelIds[n] : k < l})
               new  == newLevel(order[l], size)
    <2>1. lvls[l] \in {new, setStarted(new)}
      BY <1>2 DEF createLevels
    <2>2. Len(order[l]) = Part[n].size[l]
      BY <1>1, <1>2, OrderLength
    <2> HIDE DEF size
    <2>3. LevelOK(n, l, new) /\ new.rcvCompleted = FALSE
      BY <2>2 DEF newLevel, LevelOK
    <2> HIDE DEF new
    <2>4. LevelOK(n, l, setStarted(new)) /\ setStarted(new).rcvCompleted = FALSE
      BY <2>3, SetStartedOK
    <2> QED
      BY <2>1, <2>3, <2>4
  <1> QED
    BY <1>3, <1>4

\* Every node starts with its own signature, incomplete levels and no output.
LEMMA InitHandelInv == Init => HandelInv
  <1> SUFFICES ASSUME Init PROVE HandelInv
    OBVIOUS
  <1>1. Domains /\ PacketsOK
    BY DEF Init, Domains, PacketsOK
  <1>2. ASSUME NEW n \in Online
        PROVE  NodeOK(n, store[n], levels[n], todos[n], verified[n], current[n], best[n])
    <2>1. /\ todos[n] = <<>> /\ verified[n] = <<>> /\ current[n] = <<>> /\ best[n] = Nil
          /\ store[n] = Store(NewStore(Part[n]), ownSig(n)) /\ levels[n] \in NewLevels(n)
      BY DEF Init
    <2>2. StoreOK(n, store[n]) /\ DOMAIN store[n].m = {0}
      BY <2>1, FirstOK
    <2>3. /\ DOMAIN levels[n] = LevelIds[n]
          /\ \A l \in LevelIds[n] : /\ LevelOK(n, l, levels[n][l])
                                    /\ levels[n][l].rcvCompleted = FALSE
      BY <2>1, NewLevelsOK
    <2>4. \A l \in LevelIds[n] : ~HasAll(n, store[n], l)
      BY <2>2, PartOf DEF HasAll, HasBest, Online
    <2>5. CompleteOK(n, store[n], levels[n], current[n])
      BY <2>3, <2>4 DEF CompleteOK
    <2>6. OutputOK(n, store[n], current[n], best[n]) /\ CurrentOK(n, store[n], current[n])
      BY <2>1, <2>2 DEF OutputOK, CurrentOK
    <2> QED
      BY <2>1, <2>2, <2>3, <2>5, <2>6 DEF NodeOK
  <1> QED
    BY <1>1, <1>2 DEF HandelInv, NodesOK

-----------------------------------------------------------------------------
(* The steps of a node *)

\* The other nodes are left alone.
OthersKept(n) ==
    \A m \in Online \ {n} :
        /\ store'[m] = store[m] /\ levels'[m] = levels[m] /\ todos'[m] = todos[m]
        /\ verified'[m] = verified[m] /\ current'[m] = current[m] /\ best'[m] = best[m]

\* A step of one node that keeps its part of the invariant keeps the invariant.
LEMMA OneNode ==
    ASSUME HandelInv, NEW n \in Online, OthersKept(n), Domains', PacketsOK',
           NodeOK(n, store'[n], levels'[n], todos'[n], verified'[n], current'[n], best'[n])
    PROVE  HandelInv'
  <1>1. ASSUME NEW m \in Online
        PROVE  NodeOK(m, store'[m], levels'[m], todos'[m], verified'[m], current'[m], best'[m])
    BY DEF HandelInv, NodesOK, OthersKept
  <1>2. NodesOK'
    BY <1>1 DEF NodesOK
  <1> QED
    BY <1>2 DEF HandelInv

\* sendUpdate keeps the shape of the levels and sends well-formed packets.
LEMMA SendOK ==
    ASSUME HandelInv, NEW n \in Online,
           NEW lvls, \A l \in LevelIds[n] : LevelOK(n, l, lvls[l]),
           NEW count, DOMAIN count \subseteq LevelIds[n],
           sendUpdates(n, lvls, count)
    PROVE  /\ DOMAIN levels' = Online /\ \A m \in Online \ {n} : levels'[m] = levels[m]
           /\ DOMAIN levels'[n] = LevelIds[n]
           /\ \A l \in LevelIds[n] : /\ LevelOK(n, l, levels'[n][l])
                                     /\ levels'[n][l].rcvCompleted = lvls[l].rcvCompleted
           /\ PacketsOK'
  <1> DEFINE new == [l \in LevelIds[n] |-> IF l \in DOMAIN count
                                           THEN selectNextPeers(lvls[l], count[l]) ELSE lvls[l]]
             to == [l \in DOMAIN count |-> nextPeers(lvls[l], count[l])]
             pk == [l \in DOMAIN count |-> packetFor(n, l, lvls[l])]
  <1>1. /\ levels' = [levels EXCEPT ![n] = new]
        /\ packets' = packets \cup
              UNION {{[to |-> p, msg |-> pk[l]] : p \in to[l] \cap Online} : l \in DOMAIN count}
    BY DEF sendUpdates
  <1>2. \A l \in LevelIds[n] : /\ LevelOK(n, l, new[l])
                               /\ new[l].rcvCompleted = lvls[l].rcvCompleted
    BY SelectOK
  <1>3. DOMAIN new = LevelIds[n]
    OBVIOUS
  <1>4. \A l \in DOMAIN count : PacketOK(pk[l])
    <2> TAKE l \in DOMAIN count
    <2> DEFINE ms == Combined(Part[n], store[n], l - 1)
    <2>1. /\ pk[l].origin = n /\ pk[l].ms = ms
          /\ pk[l].ind \in {<<>>, <<SignatureOf(n)>>}
      BY DEF packetFor
    <2>2. StoreOK(n, store[n]) /\ l \in LevelIds[n]
      BY DEF HandelInv, NodesOK, NodeOK
    <2>3. /\ ms.len \in Nat
          /\ ms \in [ len : Nat, bits : SUBSET (0 .. ms.len - 1),
                      sig : [who : SUBSET Online, once : BOOLEAN] ]
      BY <2>2, CombinedOK
    <2> HIDE DEF ms, pk
    <2> QED
      BY <2>1, <2>3 DEF PacketOK
  <1>5. PacketsOK'
    <2> SUFFICES ASSUME NEW p \in packets' PROVE PacketOK(p.msg)
      BY DEF PacketsOK
    <2>1. CASE p \in packets
      BY <2>1 DEF HandelInv, PacketsOK
    <2>2. CASE p \notin packets
      <3> HIDE DEF pk, to
      <3>1. PICK l \in DOMAIN count : \E q \in to[l] \cap Online : p = [to |-> q, msg |-> pk[l]]
        BY <1>1, <2>2
      <3>2. p.msg = pk[l]
        BY <3>1
      <3> QED
        BY <1>4, <3>2
    <2> QED
      BY <2>1, <2>2
  <1> HIDE DEF new
  <1>6. DOMAIN levels = Online
    BY DEF HandelInv, Domains
  <1>7. levels'[n] = new /\ DOMAIN levels' = Online /\ \A m \in Online \ {n} : levels'[m] = levels[m]
    BY <1>1, <1>6
  <1> QED
    BY <1>2, <1>3, <1>5, <1>7

\* A step that only sends keeps the invariant.
LEMMA SendStep ==
    ASSUME HandelInv, NEW n \in Online,
           NEW lvls, \A l \in LevelIds[n] : /\ LevelOK(n, l, lvls[l])
                                            /\ lvls[l].rcvCompleted = levels[n][l].rcvCompleted,
           NEW count, DOMAIN count \subseteq LevelIds[n],
           sendUpdates(n, lvls, count), UNCHANGED <<store, todos, verified, current, best>>
    PROVE  HandelInv'
  <1>1. /\ DOMAIN levels' = Online /\ \A m \in Online \ {n} : levels'[m] = levels[m]
        /\ DOMAIN levels'[n] = LevelIds[n]
        /\ \A l \in LevelIds[n] : /\ LevelOK(n, l, levels'[n][l])
                                  /\ levels'[n][l].rcvCompleted = lvls[l].rcvCompleted
        /\ PacketsOK'
    BY SendOK
  <1>2. NodeOK(n, store[n], levels[n], todos[n], verified[n], current[n], best[n])
    BY DEF HandelInv, NodesOK
  <1>3. NodeOK(n, store[n], levels'[n], todos[n], verified[n], current[n], best[n])
    BY <1>1, <1>2 DEF NodeOK, CompleteOK
  <1>4. OthersKept(n) /\ Domains'
    BY <1>1 DEF OthersKept, HandelInv, Domains
  <1> QED
    BY <1>1, <1>3, <1>4, OneNode

\* The periodic update only sends.
LEMMA PeriodicUpdateStep ==
    ASSUME HandelInv, NEW n \in Online, periodicUpdate(n) PROVE HandelInv'
  <1> DEFINE count == [l \in {l \in LevelIds[n] : active(levels[n][l])} |-> UpdateCount]
  <1>1. sendUpdates(n, levels[n], count) /\ UNCHANGED <<store, todos, verified, current, best>>
    BY DEF periodicUpdate
  <1>2. \A l \in LevelIds[n] : LevelOK(n, l, levels[n][l])
    BY DEF HandelInv, NodesOK, NodeOK
  <1>3. DOMAIN count \subseteq LevelIds[n]
    OBVIOUS
  <1> HIDE DEF count
  <1> QED
    BY <1>1, <1>2, <1>3, SendStep

\* Starting a level marks it as started, and sends when that was news.
LEMMA StartLevelStep ==
    ASSUME HandelInv, NEW n \in Online, StartLevel(n) PROVE HandelInv'
  <1>1. UNCHANGED <<store, todos, verified, current, best>>
    BY DEF StartLevel
  <1>2. DOMAIN levels[n] = LevelIds[n] /\ \A l \in LevelIds[n] : LevelOK(n, l, levels[n][l])
    BY DEF HandelInv, NodesOK, NodeOK
  <1>3. PICK l \in LevelIds[n] :
           IF levels[n][l].sendStarted
           THEN UNCHANGED <<levels, packets, sentSize>>
           ELSE sendUpdates(n, [levels[n] EXCEPT ![l] = setStarted(@)], [k \in {l} |-> UpdateCount])
    BY DEF StartLevel
  <1>4. CASE UNCHANGED <<levels, packets>>
    BY <1>1, <1>4 DEF HandelInv, Domains, NodesOK, PacketsOK
  <1>5. CASE sendUpdates(n, [levels[n] EXCEPT ![l] = setStarted(@)], [k \in {l} |-> UpdateCount])
    <2> DEFINE lvls  == [levels[n] EXCEPT ![l] = setStarted(@)]
               count == [k \in {l} |-> UpdateCount]
    <2>1. \A k \in LevelIds[n] : /\ LevelOK(n, k, lvls[k])
                                 /\ lvls[k].rcvCompleted = levels[n][k].rcvCompleted
      BY <1>2, SetStartedOK
    <2>2. DOMAIN count \subseteq LevelIds[n]
      OBVIOUS
    <2> HIDE DEF lvls, count
    <2> QED
      BY <1>1, <1>5, <2>1, <2>2, SendStep DEF lvls, count
  <1> QED
    BY <1>3, <1>4, <1>5

\* The signatures of a packet that NewPacket accepts.
LEMMA ParsedOK ==
    ASSUME HandelInv, NEW n \in Online, NEW msg, PacketOK(msg), WellFormed(n, msg)
    PROVE  /\ parseMultiSig(msg) \in Parsed(n)
           /\ msg.ind # <<>> => parseIndividualSig(n, msg) \in Parsed(n)
  <1> DEFINE l == msg.level
             P == Part[n]
  <1>1. n \in Nodes /\ msg.origin \in Nodes /\ l \in LevelIds[n] /\ Online \subseteq 0 .. N - 1
    BY DEF Online, Nodes, WellFormed
  <1>2. Len(levels[n][l].nodes) = P.size[l]
    BY <1>1 DEF HandelInv, NodesOK, NodeOK, LevelOK
  <1>3. Contract(P) /\ P.n = N /\ l \in P.levels
    BY <1>1, PartOf
  <1>4. parseMultiSig(msg) \in Parsed(n)
    <2>1. msg.ms.len = P.size[l]
      BY <1>2 DEF WellFormed
    <2>2. msg.ms \in SigsOf(P, P.size[l])
      BY <1>1, <1>3, <2>1 DEF PacketOK, SigsOf
    <2>3. msg.ms.sig.who \subseteq Online
      BY DEF PacketOK
    <2> DEFINE sp == parseMultiSig(msg)
    <2>4. sp = [ origin |-> msg.origin, level |-> l, ms |-> msg.ms, isInd |-> FALSE,
                 mappedIndex |-> 0 ]
      BY DEF parseMultiSig
    <2> HIDE DEF sp, P, l
    <2> QED
      BY <1>1, <2>2, <2>3, <2>4 DEF Parsed, P, sp
  <1>5. ASSUME msg.ind # <<>> PROVE parseIndividualSig(n, msg) \in Parsed(n)
    <2> DEFINE index == IndexAtLevel(NewBinPartitioner(n, N), msg.origin, l).index
               sp    == parseIndividualSig(n, msg)
    <2>1. index \in 0 .. P.size[l] - 1 /\ P.base[l] + index = msg.origin
      BY <1>1, <1>5, IndexIs DEF WellFormed
    <2>2. msg.ind[1] = SignatureOf(msg.origin) /\ msg.origin \in Online
      BY <1>5 DEF PacketOK
    <2> HIDE DEF index
    <2>3. sp = [ origin |-> msg.origin, level |-> l, isInd |-> TRUE, mappedIndex |-> index,
                 ms |-> individual(P, l, index) ]
      BY <1>2, <2>1, <2>2 DEF parseIndividualSig, individual, index
    <2>4. individual(P, l, index) \in SigsOf(P, P.size[l])
      <3> HIDE DEF P, l
      <3> QED
        BY <1>3, <2>1, IndividualIsGood
    <2>5. individual(P, l, index).sig.who \subseteq Online
      BY <2>1, <2>2 DEF individual, MS, SignatureOf
    <2>6. index \in Nat
      BY <2>1
    <2> HIDE DEF sp, P, l
    <2> QED
      BY <1>1, <2>1, <2>3, <2>4, <2>5, <2>6 DEF Parsed, P, sp
  <1> QED
    BY <1>4, <1>5

\* A packet that comes in, for the first time or again.
LEMMA NewPacketStep ==
    ASSUME HandelInv, NEW n \in Online, NEW p \in packets, NewPacket(n, p.msg),
           packets' \subseteq packets, UNCHANGED <<store, levels, verified, current, best>>
    PROVE  HandelInv'
  <1> DEFINE msg == p.msg
  <1>1. PacketOK(msg)
    BY DEF HandelInv, PacketsOK
  <1>2. /\ todos[n] \in Seq(Parsed(n)) /\ DOMAIN todos = Online
        /\ NodeOK(n, store[n], levels[n], todos[n], verified[n], current[n], best[n])
    BY DEF HandelInv, NodesOK, NodeOK, Domains
  <1>3. \E td \in Seq(Parsed(n)) : todos' = [todos EXCEPT ![n] = td] \/ todos' = todos
    <2>1. CASE WellFormed(n, msg) /\ ~levels[n][msg.level].rcvCompleted
      <3> DEFINE multi == enqueue(seen[n], todos[n], parseMultiSig(msg))
                 ind   == parseIndividualSig(n, msg)
      <3>1. parseMultiSig(msg) \in Parsed(n) /\ (msg.ind # <<>> => ind \in Parsed(n))
        BY <1>1, <2>1, ParsedOK
      <3>2. multi \in Seq(Parsed(n))
        BY <1>2, <3>1 DEF enqueue
      <3> HIDE DEF multi, ind
      <3>3. msg.ind # <<>> => enqueue(seen[n], multi, ind) \in Seq(Parsed(n))
        BY <3>1, <3>2 DEF enqueue
      <3>4. todos' = [todos EXCEPT ![n] = IF msg.ind = <<>> THEN multi
                                          ELSE enqueue(seen[n], multi, ind)]
        BY <2>1 DEF NewPacket, multi, ind
      <3> QED
        BY <3>2, <3>3, <3>4
    <2>2. CASE ~(WellFormed(n, msg) /\ ~levels[n][msg.level].rcvCompleted)
      BY <1>2, <2>2 DEF NewPacket
    <2> QED
      BY <2>1, <2>2
  <1>4. /\ todos'[n] \in Seq(Parsed(n)) /\ DOMAIN todos' = Online
        /\ \A m \in Online \ {n} : todos'[m] = todos[m]
    BY <1>2, <1>3
  <1>5. NodeOK(n, store[n], levels[n], todos'[n], verified[n], current[n], best[n])
    BY <1>2, <1>4 DEF NodeOK
  <1>6. OthersKept(n) /\ Domains' /\ PacketsOK'
    BY <1>4 DEF OthersKept, HandelInv, Domains, PacketsOK
  <1> QED
    BY <1>5, <1>6, OneNode

\* A pass over the queue moves at most one signature to the channel, and only one
\* that verifies.
LEMMA ProcessStepStep ==
    ASSUME HandelInv, NEW n \in Online, processStep(n) PROVE HandelInv'
  <1> DEFINE r == readTodos(Part[n], store[n], todos[n])
  <1>1. /\ todos[n] \in Seq(Parsed(n)) /\ verified[n] \in Seq(Valid(n))
        /\ NodeOK(n, store[n], levels[n], todos[n], verified[n], current[n], best[n])
        /\ Domains
    BY DEF HandelInv, NodesOK, NodeOK
  <1>2. PassOK(Parsed(n), r)
    BY <1>1, ReadTodos
  <1> HIDE DEF r
  <1>3. /\ todos' = [todos EXCEPT ![n] = r.newTodos]
        /\ verified' = IF r.best # <<>> /\ verifySignature(Part[n], r.best[1])
                       THEN [verified EXCEPT ![n] = @ \o r.best] ELSE verified
        /\ UNCHANGED <<store, levels, current, best, packets>>
    BY DEF processStep, r
  <1>4. /\ todos'[n] \in Seq(Parsed(n)) /\ DOMAIN todos' = Online
        /\ \A m \in Online \ {n} : todos'[m] = todos[m]
    BY <1>1, <1>2, <1>3 DEF PassOK, Domains
  <1>5. /\ verified'[n] \in Seq(Valid(n)) /\ DOMAIN verified' = Online
        /\ \A m \in Online \ {n} : verified'[m] = verified[m]
    <2>1. CASE r.best # <<>> /\ verifySignature(Part[n], r.best[1])
      <3>1. PICK sp \in Parsed(n) : r.best = <<sp>>
        BY <1>2, <2>1 DEF PassOK
      <3>2. sp \in Valid(n)
        BY <2>1, <3>1 DEF Valid
      <3>3. verified[n] \o r.best \in Seq(Valid(n))
        BY <1>1, <3>1, <3>2
      <3> QED
        BY <1>1, <1>3, <2>1, <3>3 DEF Domains
    <2>2. CASE ~(r.best # <<>> /\ verifySignature(Part[n], r.best[1]))
      BY <1>1, <1>3, <2>2 DEF Domains
    <2> QED
      BY <2>1, <2>2
  <1>6. NodeOK(n, store[n], levels[n], todos'[n], verified'[n], current[n], best[n])
    BY <1>1, <1>4, <1>5 DEF NodeOK
  <1>7. OthersKept(n) /\ Domains' /\ PacketsOK'
    BY <1>3, <1>4, <1>5 DEF OthersKept, HandelInv, Domains, PacketsOK
  <1> QED
    BY <1>3, <1>6, <1>7, OneNode

\* Storing opens the window in which the level may be complete, and the full
\* signature larger than the output, without the actors having seen it.
LEMMA StoreVerifiedStep ==
    ASSUME HandelInv, NEW n \in Online, StoreVerified(n) PROVE HandelInv'
  <1> DEFINE s  == store[n]
             sp == Head(verified[n])
             t  == Store(s, sp)
  <1>1. /\ NodeOK(n, s, levels[n], todos[n], verified[n], current[n], best[n])
        /\ Domains
    BY DEF HandelInv, NodesOK
  <1>2. /\ current[n] = <<>> /\ verified[n] # <<>>
        /\ current' = [current EXCEPT ![n] = <<sp>>]
        /\ verified' = [verified EXCEPT ![n] = Tail(@)]
        /\ store' = [store EXCEPT ![n] = t]
        /\ UNCHANGED <<levels, todos, best, packets>>
    BY DEF StoreVerified
  <1>3. sp \in Valid(n) /\ Tail(verified[n]) \in Seq(Valid(n))
    BY <1>1, <1>2 DEF NodeOK
  <1> HIDE DEF s, sp, t
  <1>4. /\ StoreOK(n, t)
        /\ HasBest(t, sp.level) /\ DOMAIN t.m # {0}
        /\ \A l \in LevelIds[n] : HasAll(n, s, l) => HasAll(n, t, l)
        /\ \A l \in LevelIds[n] : HasAll(n, t, l) => HasAll(n, s, l) \/ l = sp.level
        /\ \/ FullSignature(Part[n], t) = FullSignature(Part[n], s)
           \/ card(FullSignature(Part[n], t)) > card(FullSignature(Part[n], s))
    BY <1>1, <1>3, StoredOK DEF NodeOK, t
  <1>5. /\ store'[n] = t /\ current'[n] = <<sp>> /\ verified'[n] \in Seq(Valid(n))
        /\ OthersKept(n) /\ Domains' /\ PacketsOK'
    BY <1>1, <1>2, <1>3 DEF OthersKept, HandelInv, Domains, PacketsOK
  <1>6. <<sp>> # <<>> /\ <<sp>>[1] = sp
    OBVIOUS
  <1>7. CurrentOK(n, t, <<sp>>)
    BY <1>3, <1>4 DEF CurrentOK
  <1>8. CompleteOK(n, t, levels[n], <<sp>>)
    <2>1. CompleteOK(n, s, levels[n], <<>>)
      BY <1>1, <1>2 DEF NodeOK
    <2> QED
      BY <1>4, <1>6, <2>1 DEF CompleteOK
  <1>9. OutputOK(n, t, <<sp>>, best[n])
    <2> DEFINE old == FullSignature(Part[n], s)
               new == FullSignature(Part[n], t)
    <2>1. /\ card(old) \in Nat /\ card(new) \in Nat
      BY <1>1, <1>4, FullOK DEF NodeOK
    <2>2. new = old \/ card(new) > card(old)
      BY <1>4
    <2>3. \/ best[n] = Nil
          \/ /\ Verifies(best[n], 0, N) /\ card(best[n]) \in Nat /\ card(best[n]) >= Contributions
             /\ best[n] = old \/ card(best[n]) < card(old)
      BY <1>1 DEF NodeOK, OutputOK
    <2> HIDE DEF old, new
    <2>4. \/ best[n] = Nil
          \/ /\ Verifies(best[n], 0, N) /\ card(best[n]) \in Nat /\ card(best[n]) >= Contributions
             /\ best[n] = new \/ card(best[n]) < card(new)
      BY <2>1, <2>2, <2>3
    <2> QED
      BY <1>6, <2>4 DEF OutputOK, new
  <1>10. NodeOK(n, t, levels[n], todos[n], verified'[n], <<sp>>, best[n])
    BY <1>1, <1>4, <1>5, <1>7, <1>8, <1>9 DEF NodeOK
  <1>11. NodeOK(n, store'[n], levels'[n], todos'[n], verified'[n], current'[n], best'[n])
    BY <1>2, <1>5, <1>10
  <1> QED
    BY <1>5, <1>11, OneNode

\* What checkCompletedLevel does: it marks the level of the signature when the
\* store has all of it, and sends.
LEMMA CheckCompletedStep ==
    ASSUME HandelInv, NEW n \in Online, NEW sp \in Valid(n), checkCompletedLevel(n, sp)
    PROVE  /\ DOMAIN levels' = Online /\ \A m \in Online \ {n} : levels'[m] = levels[m]
           /\ DOMAIN levels'[n] = LevelIds[n]
           /\ \A l \in LevelIds[n] :
                 /\ LevelOK(n, l, levels'[n][l])
                 /\ levels'[n][l].rcvCompleted <=>
                       \/ levels[n][l].rcvCompleted
                       \/ l = sp.level /\ card(store[n].m[l]) = Part[n].size[l]
           /\ PacketsOK'
  <1> DEFINE v == sp.level
             done == complete(levels[n][v], card(store[n].m[v]))
             rcvd == IF done THEN [levels[n] EXCEPT ![v].rcvCompleted = TRUE] ELSE levels[n]
             size(l) == card(Combined(Part[n], store[n], l - 1))
             above == {l \in LevelIds[n] : l > v}
             lvls  == [l \in LevelIds[n] |-> IF l \in above THEN updateSigToSend(rcvd[l], size(l))
                                             ELSE rcvd[l]]
             count == [l \in {l \in above : sendsAtOnce(rcvd[l], size(l))} |-> FastPath]
  <1>1. v \in LevelIds[n] /\ n \in Nodes
    BY ValidIsGood DEF Online
  <1>2. /\ DOMAIN levels = Online /\ DOMAIN levels[n] = LevelIds[n]
        /\ \A l \in LevelIds[n] : LevelOK(n, l, levels[n][l])
        /\ CompleteOK(n, store[n], levels[n], current[n]) /\ PacketsOK
    BY DEF HandelInv, NodesOK, NodeOK, Domains
  <1>3. done <=> card(store[n].m[v]) = Part[n].size[v]
    BY <1>1, <1>2 DEF complete, LevelOK
  <1>4. CASE levels[n][v].rcvCompleted
    <2>1. UNCHANGED <<levels, packets>>
      BY <1>4 DEF checkCompletedLevel
    <2> QED
      BY <1>2, <1>4, <2>1 DEF PacketsOK
  <1>5. CASE ~levels[n][v].rcvCompleted
    <2>1. sendUpdates(n, lvls, count)
      BY <1>5 DEF checkCompletedLevel
    <2>2. ASSUME NEW l \in LevelIds[n]
          PROVE  /\ LevelOK(n, l, rcvd[l])
                 /\ rcvd[l].rcvCompleted <=> levels[n][l].rcvCompleted \/ (l = v /\ done)
      <3> HIDE DEF done
      <3>1. CASE ~done
        BY <1>2, <3>1
      <3>2. CASE done /\ l # v
        BY <1>2, <3>2
      <3>3. CASE done /\ l = v
        <4> DEFINE x == levels[n][v]
        <4>1. LevelOK(n, v, x)
          BY <1>1, <1>2
        <4>2. rcvd[v] = [x EXCEPT !.rcvCompleted = TRUE]
          BY <1>1, <1>2, <3>3
        <4> HIDE DEF x, rcvd, v
        <4>3. LevelOK(n, v, rcvd[v]) /\ rcvd[v].rcvCompleted = TRUE
          BY <4>1, <4>2 DEF LevelOK
        <4> QED
          BY <3>3, <4>3
      <3> QED
        BY <3>1, <3>2, <3>3
    <2> HIDE DEF rcvd, size, above
    <2>3. \A l \in LevelIds[n] : /\ LevelOK(n, l, lvls[l])
                                 /\ lvls[l].rcvCompleted = rcvd[l].rcvCompleted
      BY <2>2, UpdateOK
    <2>4. DOMAIN count \subseteq LevelIds[n]
      BY DEF above
    <2> HIDE DEF lvls, count
    <2>5. /\ DOMAIN levels' = Online /\ \A m \in Online \ {n} : levels'[m] = levels[m]
          /\ DOMAIN levels'[n] = LevelIds[n]
          /\ \A l \in LevelIds[n] : /\ LevelOK(n, l, levels'[n][l])
                                    /\ levels'[n][l].rcvCompleted = lvls[l].rcvCompleted
          /\ PacketsOK'
      BY <2>1, <2>3, <2>4, SendOK
    <2>6. ASSUME NEW l \in LevelIds[n]
          PROVE  levels'[n][l].rcvCompleted <=>
                       \/ levels[n][l].rcvCompleted
                       \/ l = v /\ card(store[n].m[l]) = Part[n].size[l]
      <3> HIDE DEF done
      <3> QED
        BY <1>3, <2>2, <2>3, <2>5
    <2> QED
      BY <2>5, <2>6
  <1> QED
    BY <1>4, <1>5

\* The actors close it: the level is marked complete, and the full signature put out.
LEMMA OnVerifiedSignatureStep ==
    ASSUME HandelInv, NEW n \in Online, OnVerifiedSignature(n) PROVE HandelInv'
  <1> DEFINE s    == store[n]
             full == FullSignature(Part[n], s)
  <1>1. /\ NodeOK(n, s, levels[n], todos[n], verified[n], current[n], best[n])
        /\ Domains
    BY DEF HandelInv, NodesOK
  <1>2. /\ current[n] # <<>> /\ checkCompletedLevel(n, current[n][1])
        /\ best' = IF card(full) >= Contributions /\ card(full) > card(best[n])
                   THEN [best EXCEPT ![n] = full] ELSE best
        /\ current' = [current EXCEPT ![n] = <<>>]
        /\ UNCHANGED <<store, todos, verified>>
    BY DEF OnVerifiedSignature, checkFinalSignature
  <1>3. PICK sp \in Valid(n) : current[n] = <<sp>> /\ HasBest(s, sp.level)
    BY <1>1, <1>2 DEF NodeOK, CurrentOK
  <1>4. current[n][1] = sp
    BY <1>3
  <1>5. /\ DOMAIN levels' = Online /\ \A m \in Online \ {n} : levels'[m] = levels[m]
        /\ DOMAIN levels'[n] = LevelIds[n]
        /\ \A l \in LevelIds[n] :
              /\ LevelOK(n, l, levels'[n][l])
              /\ levels'[n][l].rcvCompleted <=>
                    \/ levels[n][l].rcvCompleted
                    \/ l = sp.level /\ card(s.m[l]) = Part[n].size[l]
        /\ PacketsOK'
    BY <1>2, <1>4, CheckCompletedStep
  <1> HIDE DEF s, full
  <1>6. CompleteOK(n, s, levels'[n], <<>>)
    <2>1. CompleteOK(n, s, levels[n], current[n])
      BY <1>1 DEF NodeOK
    <2> QED
      BY <1>3, <1>4, <1>5, <2>1 DEF CompleteOK, HasAll
  <1>7. CurrentOK(n, s, <<>>)
    BY DEF CurrentOK
  <1>8. /\ best'[n] = IF card(full) >= Contributions /\ card(full) > card(best[n])
                      THEN full ELSE best[n]
        /\ DOMAIN best' = Online /\ \A m \in Online \ {n} : best'[m] = best[m]
    BY <1>1, <1>2 DEF Domains
  <1>9. OutputOK(n, s, <<>>, best'[n])
    <2>1. Verifies(full, 0, N) /\ card(full) \in Nat
      BY <1>1, FullOK DEF NodeOK, full
    <2>2. Contributions \in Nat /\ Contributions > 0
      BY HandelAssumption
    <2>3. \/ best[n] = Nil
          \/ /\ Verifies(best[n], 0, N) /\ card(best[n]) \in Nat /\ card(best[n]) >= Contributions
             /\ best[n] = full \/ card(best[n]) < card(full)
      BY <1>1 DEF NodeOK, OutputOK, full
    <2>4. card(Nil) = 0
      BY FS_EmptySet DEF card, Nil, MS
    <2> HIDE DEF full
    <2>5. CASE card(full) >= Contributions
      <3>1. best'[n] = full
        <4>1. CASE best[n] = Nil
          BY <1>8, <2>1, <2>2, <2>4, <2>5, <4>1
        <4>2. CASE best[n] = full
          BY <1>8, <4>2
        <4>3. CASE card(best[n]) \in Nat /\ card(best[n]) < card(full)
          BY <1>8, <2>1, <2>5, <4>3
        <4> QED
          BY <2>3, <4>1, <4>2, <4>3
      <3> QED
        BY <2>1, <2>5, <3>1 DEF OutputOK, full
    <2>6. CASE ~(card(full) >= Contributions)
      <3>1. best[n] = Nil
        <4>1. CASE best[n] = full /\ card(best[n]) >= Contributions
          BY <2>6, <4>1
        <4>2. CASE /\ card(best[n]) \in Nat /\ card(best[n]) < card(full)
                   /\ card(best[n]) >= Contributions
          BY <2>1, <2>2, <2>6, <4>2
        <4> QED
          BY <2>3, <4>1, <4>2
      <3>2. best'[n] = Nil
        BY <1>8, <2>6, <3>1
      <3> QED
        BY <2>6, <3>2 DEF OutputOK, full
    <2> QED
      BY <2>5, <2>6
  <1>10. current'[n] = <<>> /\ OthersKept(n) /\ Domains'
    BY <1>1, <1>2, <1>5, <1>8 DEF OthersKept, Domains
  <1>11. NodeOK(n, s, levels'[n], todos[n], verified[n], <<>>, best'[n])
    BY <1>1, <1>5, <1>6, <1>7, <1>9 DEF NodeOK
  <1>12. NodeOK(n, store'[n], levels'[n], todos'[n], verified'[n], current'[n], best'[n])
    BY <1>2, <1>10, <1>11 DEF s
  <1> QED
    BY <1>5, <1>10, <1>12, OneNode

\* The steps of the nodes and of a network that loses and duplicates packets.
AnyNext == \/ Next
           \/ Lose
           \/ \E n \in Online : Duplicate(n)

\* Every step keeps the invariant, those of the network included.
LEMMA NextHandelInv == HandelInv /\ [AnyNext]_vars => HandelInv'
  <1> SUFFICES ASSUME HandelInv, [AnyNext]_vars PROVE HandelInv'
    OBVIOUS
  <1>1. ASSUME NEW n \in Online, periodicUpdate(n) PROVE HandelInv'
    BY <1>1, PeriodicUpdateStep
  <1>2. ASSUME NEW n \in Online, StartLevel(n) PROVE HandelInv'
    BY <1>2, StartLevelStep
  <1>3. ASSUME NEW n \in Online, Deliver(n) PROVE HandelInv'
    <2>1. PICK p \in packets : packets' = packets \ {p} /\ NewPacket(n, p.msg)
      BY <1>3 DEF Deliver
    <2>2. UNCHANGED <<store, levels, verified, current, best>>
      BY <1>3 DEF Deliver
    <2> QED
      BY <2>1, <2>2, NewPacketStep
  <1>4. ASSUME NEW n \in Online, processStep(n) PROVE HandelInv'
    BY <1>4, ProcessStepStep
  <1>5. ASSUME NEW n \in Online, StoreVerified(n) PROVE HandelInv'
    BY <1>5, StoreVerifiedStep
  <1>6. ASSUME NEW n \in Online, OnVerifiedSignature(n) PROVE HandelInv'
    BY <1>6, OnVerifiedSignatureStep
  <1>7. CASE Lose
    BY <1>7 DEF Lose, HandelInv, Domains, NodesOK, PacketsOK
  <1>8. ASSUME NEW n \in Online, Duplicate(n) PROVE HandelInv'
    <2>1. PICK p \in packets : NewPacket(n, p.msg)
      BY <1>8 DEF Duplicate
    <2>2. UNCHANGED <<store, levels, verified, current, best, packets>>
      BY <1>8 DEF Duplicate
    <2> QED
      BY <2>1, <2>2, NewPacketStep
  <1>9. CASE UNCHANGED vars
    BY <1>9 DEF vars, HandelInv, Domains, NodesOK, PacketsOK
  <1> QED
    BY <1>1, <1>2, <1>3, <1>4, <1>5, <1>6, <1>7, <1>8, <1>9 DEF AnyNext, Next, Step

\* The behaviours of Handel over any of the networks: reliable, losing with
\* fairness, and losing or duplicating a number of packets.
AnySpec == Init /\ [][AnyNext]_vars

\* Every specification of Handel that a run checks is one of these networks.
LEMMA AnyNetwork == /\ Spec => AnySpec
                    /\ LossySpec => AnySpec
                    /\ FSpec => AnySpec
  <1>1. [Next]_vars => [AnyNext]_vars
    BY DEF AnyNext
  <1>2. [Next \/ Lose]_vars => [AnyNext]_vars
    BY DEF AnyNext
  <1>3. [FNext]_<<vars, faults, lost>> => [AnyNext]_vars
    BY DEF FNext, Fault, AnyNext
  <1>4. Spec => AnySpec
    BY <1>1, PTL DEF Spec, AnySpec
  <1>5. LossySpec => AnySpec
    BY <1>2, PTL DEF LossySpec, AnySpec
  <1>6. FSpec => AnySpec
    BY <1>3, PTL DEF FSpec, FInit, AnySpec
  <1> QED
    BY <1>4, <1>5, <1>6

\* The inductive invariant holds over all of these networks.
THEOREM HandelInvariant == AnySpec => []HandelInv
  BY InitHandelInv, NextHandelInv, PTL DEF AnySpec

\* Outside of the window between Store and the actors (handel.go:241) the
\* application has the best signature the store can make.
THEOREM HandelOutput == AnySpec => []OutputUpToDate
  <1>1. HandelInv => OutputUpToDate
    BY DEF HandelInv, NodesOK, NodeOK, OutputOK, OutputUpToDate
  <1> QED
    BY <1>1, HandelInvariant, PTL

\* A level is marked complete exactly when the store has all of it, outside of
\* the same window.
THEOREM HandelCompleted == AnySpec => []CompletedIsComplete
  <1>1. HandelInv => CompletedIsComplete
    BY DEF HandelInv, NodesOK, NodeOK, CompleteOK, HasAll, CompletedIsComplete
  <1> QED
    BY <1>1, HandelInvariant, PTL

-----------------------------------------------------------------------------
(* Handel implements Aggregation *)

\* What Aggregation calls known and given.
Known == [n \in Online |-> contributions(FullSignature(Part[n], store[n]))]
Given == [n \in Online |-> contributions(best[n])]

\* The two modules count in the same way.
LEMMA SameCount == \A S : AGG!Cardinality(S) = Cardinality(S)
  BY DEF AGG!Cardinality, Cardinality

\* What a node holds are the signers of its full signature, itself included.
LEMMA KnownIs ==
    ASSUME NEW n \in Online, NEW s, StoreOK(n, s)
    PROVE  LET full == FullSignature(Part[n], s)
           IN  /\ contributions(full) = full.bits
               /\ card(full) = Cardinality(contributions(full)) /\ card(full) \in Nat
               /\ n \in contributions(full) /\ contributions(full) \subseteq Online
  <1> DEFINE full == FullSignature(Part[n], s)
  <1>1. /\ Verifies(full, 0, N) /\ full.bits \subseteq Online /\ n \in full.bits
        /\ card(full) \in Nat
    BY FullOK
  <1> HIDE DEF full
  <1>2. contributions(full) = full.bits
    BY <1>1 DEF contributions
  <1> QED
    BY <1>1, <1>2 DEF card, full

\* No signature at all stands for no contribution.
LEMMA NilGivesNone == contributions(Nil) = {}
  BY HandelAssumption DEF contributions, Verifies, Nil, MS

\* What was given counts as many as its signature.
LEMMA GivenIs ==
    ASSUME HandelInv, NEW n \in Online
    PROVE  card(best[n]) = Cardinality(contributions(best[n])) /\ card(best[n]) \in Nat
  <1>1. OutputOK(n, store[n], current[n], best[n])
    BY DEF HandelInv, NodesOK, NodeOK
  <1>2. CASE best[n] = Nil
    BY <1>2, NilGivesNone, FS_EmptySet DEF card, Nil, MS
  <1>3. CASE Verifies(best[n], 0, N) /\ card(best[n]) \in Nat
    BY <1>3 DEF contributions, card
  <1> QED
    BY <1>1, <1>2, <1>3 DEF OutputOK

\* At the start a node holds its own contribution and has given none.
LEMMA InitIsAggregationInit == Init => AGG!Init
  <1> SUFFICES ASSUME Init PROVE AGG!Init
    OBVIOUS
  <1>1. HandelInv
    BY InitHandelInv
  <1>2. ASSUME NEW n \in Online
        PROVE  contributions(FullSignature(Part[n], store[n])) = {n}
    <2>1. FullSignature(Part[n], store[n]).bits = {n}
      BY FirstOK DEF Init
    <2> QED
      BY <1>1, <2>1, KnownIs DEF HandelInv, NodesOK, NodeOK
  <1>3. \A n \in Online : contributions(best[n]) = {}
    BY NilGivesNone DEF Init
  <1> QED
    BY <1>2, <1>3 DEF AGG!Init

\* Storing a signature keeps what a node holds, or trades it for more.
LEMMA StoreVerifiedLearns ==
    ASSUME HandelInv, HandelInv', NEW n \in Online, StoreVerified(n)
    PROVE  Known' = Known \/ AGG!Learn(n)
  <1> DEFINE sp  == Head(verified[n])
             old == FullSignature(Part[n], store[n])
             new == FullSignature(Part[n], store'[n])
  <1>1. /\ store' = [store EXCEPT ![n] = Store(store[n], sp)] /\ best' = best
        /\ DOMAIN store = Online
    BY DEF StoreVerified, HandelInv, Domains
  <1>2. StoreOK(n, store[n]) /\ StoreOK(n, store'[n]) /\ sp \in Valid(n)
    BY DEF StoreVerified, HandelInv, NodesOK, NodeOK
  <1>3. store'[n] = Store(store[n], sp)
    BY <1>1
  <1>4. new = old \/ card(new) > card(old)
    BY <1>2, <1>3, StoredOK
  <1>5. /\ card(old) = Cardinality(contributions(old))
        /\ DOMAIN Known = Online /\ DOMAIN Known' = Online
        /\ Known[n] = contributions(old) /\ Known'[n] = contributions(new)
    BY <1>2, KnownIs DEF Known
  <1>6. /\ card(new) = Cardinality(contributions(new))
        /\ n \in contributions(new) /\ contributions(new) \subseteq Online
    BY <1>2, KnownIs
  <1>7. \A m \in Online \ {n} : Known'[m] = Known[m]
    BY <1>1 DEF Known
  <1>8. Known' = [Known EXCEPT ![n] = Known'[n]]
    BY <1>7 DEF Known
  <1>9. CASE new = old
    BY <1>5, <1>7, <1>9 DEF Known
  <1>10. CASE card(new) > card(old)
    <2> HIDE DEF old, new
    <2>1. /\ AGG!Cardinality(Known'[n]) > AGG!Cardinality(Known[n])
          /\ n \in Known'[n] /\ Known'[n] \subseteq Online
          /\ Given' = Given
      BY <1>1, <1>5, <1>6, <1>10, SameCount DEF Given
    <2> QED
      BY <1>8, <2>1 DEF AGG!Learn, Known, Given
  <1> QED
    BY <1>4, <1>9, <1>10

\* The actors give out nothing new, or what the node holds.
LEMMA OnVerifiedSignatureGives ==
    ASSUME HandelInv, NEW n \in Online, OnVerifiedSignature(n)
    PROVE  best' = best \/ AGG!Give(n)
  <1> DEFINE full == FullSignature(Part[n], store[n])
  <1>1. /\ store' = store /\ DOMAIN best = Online
        /\ best' = IF card(full) >= Contributions /\ card(full) > card(best[n])
                   THEN [best EXCEPT ![n] = full] ELSE best
    BY DEF OnVerifiedSignature, checkFinalSignature, HandelInv, Domains
  <1>2. SUFFICES ASSUME card(full) >= Contributions, card(full) > card(best[n]),
                        best' = [best EXCEPT ![n] = full]
                 PROVE  AGG!Give(n)
    BY <1>1
  <1>3. /\ card(full) = Cardinality(Known[n]) /\ card(full) \in Nat
        /\ Known[n] = contributions(full)
    BY KnownIs DEF Known, HandelInv, NodesOK, NodeOK
  <1>4. /\ card(best[n]) = Cardinality(Given[n]) /\ card(best[n]) \in Nat
        /\ Given[n] = contributions(best[n])
    BY GivenIs DEF Given
  <1>5. Given' = [Given EXCEPT ![n] = Known[n]] /\ Given'[n] = Known[n]
    BY <1>1, <1>2, <1>3 DEF Given
  <1>6. Known' = Known
    BY <1>1 DEF Known
  <1>7. /\ Given[n] # Given'[n]
        /\ AGG!Cardinality(Known[n]) >= Contributions
        /\ AGG!Cardinality(Known[n]) > AGG!Cardinality(Given[n])
    <2> HIDE DEF full
    <2> QED
      BY <1>2, <1>3, <1>4, <1>5, SameCount
  <1> QED
    BY <1>5, <1>6, <1>7 DEF AGG!Give, Known, Given

\* Every step learns, gives, or changes nothing that Aggregation sees.
LEMMA NextIsAggregationNext ==
    ASSUME HandelInv, HandelInv', [AnyNext]_vars
    PROVE  [AGG!Next]_<<Known, Given>>
  <1>1. store' = store => Known' = Known
    BY DEF Known
  <1>2. best' = best => Given' = Given
    BY DEF Given
  <1>3. ASSUME NEW n \in Online, StoreVerified(n) PROVE [AGG!Next]_<<Known, Given>>
    <2>1. best' = best
      BY <1>3 DEF StoreVerified
    <2> QED
      BY <1>2, <1>3, <2>1, StoreVerifiedLearns DEF AGG!Next
  <1>4. ASSUME NEW n \in Online, OnVerifiedSignature(n) PROVE [AGG!Next]_<<Known, Given>>
    <2>1. store' = store
      BY <1>4 DEF OnVerifiedSignature
    <2> QED
      BY <1>1, <1>2, <1>4, <2>1, OnVerifiedSignatureGives DEF AGG!Next
  <1>5. ASSUME NEW n \in Online,
               \/ periodicUpdate(n) \/ StartLevel(n) \/ Deliver(n) \/ processStep(n)
               \/ Duplicate(n)
        PROVE  store' = store /\ best' = best
    BY <1>5 DEF periodicUpdate, StartLevel, Deliver, processStep, Duplicate
  <1>6. Lose \/ UNCHANGED vars => store' = store /\ best' = best
    BY DEF Lose, vars
  <1> QED
    BY <1>1, <1>2, <1>3, <1>4, <1>5, <1>6 DEF AnyNext, Next, Step

\* Handel implements Aggregation over all of these networks.
THEOREM HandelImplementsAggregation == AnySpec => HandelIsAggregation
  BY InitIsAggregationInit, NextIsAggregationNext, HandelInvariant, PTL
     DEF AnySpec, HandelIsAggregation, AGG!Spec, Known, Given

-----------------------------------------------------------------------------
(* A level that goes quiet *)

\* The size of the signature for the peers of a level.
SendSize(n, s, l) == card(Combined(Part[n], s, l - 1))

\* A level's peers in some order, a position among them and two counters.
PlaceOK(n, l, lvl) ==
    /\ lvl.nodes \in [1 .. Part[n].size[l] -> PeersAt(n, l)]
    /\ \A p \in PeersAt(n, l) : \E i \in 0 .. Part[n].size[l] - 1 : lvl.nodes[i + 1] = p
    /\ lvl.sendPos \in 0 .. Part[n].size[l] - 1
    /\ lvl.sendPeersCt \in Nat /\ lvl.sendSigSize \in Nat

\* How many selections ago index i was selected, when it was at all.
Ago(k, pos, i) == IF i < pos THEN pos - i ELSE pos + k - i

\* The last sendPeersCt peers were sent a signature of this size.
Contacted(k, lvl, size, sent) ==
    \A i \in 0 .. k - 1 :
        Ago(k, lvl.sendPos, i) <= lvl.sendPeersCt => sent[lvl.nodes[i + 1]] = size

\* Or the actors will find a larger one to send.
Pending(n, l, lvls, cur, size) ==
    /\ cur # <<>> /\ cur[1].level \in LevelIds[n] /\ cur[1].level < l
    /\ ~lvls[cur[1].level].rcvCompleted
    /\ lvls[l].sendSigSize < size

ContactOK(n, l, lvls, cur, size, sent) ==
    /\ PlaceOK(n, l, lvls[l]) /\ lvls[l].sendSigSize <= size
    /\ \/ Contacted(Part[n].size[l], lvls[l], size, sent)
       \/ Pending(n, l, lvls, cur, size)

ContactInv ==
    /\ DOMAIN sentSize = Online
    /\ \A n \in Online : \A l \in LevelIds[n] :
          ContactOK(n, l, levels[n], current[n], SendSize(n, store[n], l), sentSize[n][l])

\* Every order of a level's peers has each of them.
LEMMA OrderIs ==
    ASSUME NEW n \in Nodes, NEW l \in LevelIds[n], NEW order \in Orders(n, l)
    PROVE  /\ order \in [1 .. Part[n].size[l] -> PeersAt(n, l)]
           /\ \A p \in PeersAt(n, l) : \E i \in 0 .. Part[n].size[l] - 1 : order[i + 1] = p
  <1> DEFINE c == NewBinPartitioner(n, N)
             b == Part[n].base[l]
             k == Part[n].size[l]
             S == b .. b + k - 1
  <1>1. b \in Nat /\ k \in Nat /\ k > 0 /\ b + k <= N /\ N \in Nat
    BY PartOf, HandelAssumption
  <1>2. PeersAt(n, l) = S
    BY DEF PeersAt
  <1>3. CASE Shuffles
    <2> HIDE DEF b, k
    <2>1. IsFiniteSet(S) /\ Cardinality(S) = k
      BY <1>1, RangeSize, Zenon
    <2> HIDE DEF S
    <2>2. order \in [1 .. k -> S] /\ \A i, j \in 1 .. k : i # j => order[i] # order[j]
      BY <1>2, <1>3, <2>1 DEF Orders, SetToSeqs
    <2>3. ASSUME NEW p \in S PROVE \E i \in 1 .. k : order[i] = p
      <3> SUFFICES ASSUME \A i \in 1 .. k : order[i] # p PROVE FALSE
        OBVIOUS
      <3> DEFINE T == S \ {p}
      <3>1. order \in [1 .. k -> T]
        BY <2>2
      <3>2. IsFiniteSet(T) /\ Cardinality(T) = k - 1
        BY <2>1, FS_RemoveElement
      <3>3. IsFiniteSet(1 .. k) /\ Cardinality(1 .. k) = k
        <4>1. 1 \in Nat /\ 1 .. 1 + k - 1 = 1 .. k
          BY <1>1
        <4>2. IsFiniteSet(1 .. 1 + k - 1) /\ Cardinality(1 .. 1 + k - 1) = k
          BY <1>1, <4>1, RangeSize, Zenon
        <4> QED
          BY <4>1, <4>2, Zenon
      <3>4. Cardinality(T) < Cardinality(1 .. k)
        BY <1>1, <3>2, <3>3
      <3> HIDE DEF T
      <3>5. \E i, j \in 1 .. k : i # j /\ order[i] = order[j]
        BY <3>1, <3>2, <3>3, <3>4, FS_PigeonHole
      <3> QED
        BY <2>2, <3>5
    <2>4. ASSUME NEW p \in S PROVE \E i \in 0 .. k - 1 : order[i + 1] = p
      <3>1. PICK j \in 1 .. k : order[j] = p
        BY <2>3
      <3>2. j - 1 \in 0 .. k - 1 /\ (j - 1) + 1 = j
        BY <1>1
      <3> QED
        BY <3>1, <3>2
    <2> QED
      BY <1>2, <2>2, <2>4 DEF k
  <1>4. CASE ~Shuffles
    <2>1. order = IdentitiesAt(c, l).ids
      BY <1>4 DEF Orders
    <2>2. IsPart(c) /\ Part[n] = Interface(c) /\ c.size = N
      BY HandelAssumption DEF IsPart, Nodes, Part, NewBinPartitioner
    <2>3. l \in Interface(c).levels \ {0}
      BY <2>2, PartOf
    <2>4. rangeLevel(c, l).err = "ok" /\ rangeLevel(c, l).min = b /\ rangeLevel(c, l).max = b + k
      BY <2>2, <2>3, InterfaceIs
    <2> HIDE DEF c, b, k
    <2>5. IdentitiesAt(c, l).ids = Identities(N, b, b + k).ids
      BY <2>2, <2>4 DEF IdentitiesAt
    <2>6. Identities(N, b, b + k).ids = [i \in 1 .. (b + k) - b |-> b + i - 1]
      BY <1>1 DEF Identities
    <2>7. order = [i \in 1 .. k |-> b + i - 1]
      <3>1. (b + k) - b = k
        BY <1>1
      <3> QED
        BY <2>1, <2>5, <2>6, <3>1
    <2>8. order \in [1 .. k -> S]
      BY <1>1, <2>7
    <2>9. ASSUME NEW p \in S PROVE \E i \in 0 .. k - 1 : order[i + 1] = p
      <3>1. p - b \in 0 .. k - 1 /\ (p - b) + 1 \in 1 .. k /\ b + ((p - b) + 1) - 1 = p
        BY <1>1
      <3> QED
        BY <2>7, <3>1
    <2> QED
      BY <1>2, <2>8, <2>9 DEF k
  <1> QED
    BY <1>3, <1>4, HandelAssumption

\* The remainder of a position that ran over the end at most once.
LEMMA Wrap ==
    ASSUME NEW k \in Nat, k > 0, NEW a \in Nat, a < 2 * k
    PROVE  a % k = IF a < k THEN a ELSE a - k
  OBVIOUS

\* From position pos to q: index i is now d back, d <= b if it was selected on the way.
Moved(k, pos, b, i, q, d) ==
    /\ q \in 0 .. k - 1
    /\ d \in 1 .. k
    /\ d <= b => (pos + (b - d)) % k = i
    /\ d > b => Ago(k, pos, i) = d - b

\* Moving the position by b selects b indices and puts the others b further back.
LEMMA AgoMoves ==
    ASSUME NEW k \in Nat, k > 0, NEW pos \in 0 .. k - 1, NEW b \in 1 .. k,
           NEW i \in 0 .. k - 1, NEW q, q = (pos + b) % k, NEW d, d = Ago(k, q, i)
    PROVE  Moved(k, pos, b, i, q, d)
  <1>1. q = IF pos + b < k THEN pos + b ELSE (pos + b) - k
    BY Wrap
  <1>2. q \in 0 .. k - 1
    BY <1>1
  <1>3. d \in 1 .. k
    BY <1>2 DEF Ago
  <1>4. d > b => Ago(k, pos, i) = d - b
    BY <1>1, <1>2 DEF Ago
  <1>5. ASSUME d <= b PROVE (pos + (b - d)) % k = i
    <2>1. /\ pos + (b - d) \in Nat /\ pos + (b - d) < 2 * k
          /\ i = IF pos + (b - d) < k THEN pos + (b - d) ELSE (pos + (b - d)) - k
      BY <1>1, <1>2, <1>5 DEF Ago
    <2> QED
      BY <2>1, Wrap
  <1> QED
    BY <1>2, <1>3, <1>4, <1>5 DEF Moved

\* A selection moves the position over the peers it contacts.
LEMMA SelectContacts ==
    ASSUME NEW n \in Online, NEW l \in LevelIds[n], NEW lvl, LevelOK(n, l, lvl),
           PlaceOK(n, l, lvl), NEW count \in Nat \ {0}
    PROVE  LET new == selectNextPeers(lvl, count)
               k   == Part[n].size[l]
           IN  /\ PlaceOK(n, l, new)
               /\ new.sendSigSize = lvl.sendSigSize
               /\ \A size, sent, sent2 :
                     /\ Contacted(k, lvl, size, sent)
                     /\ \A p \in PeersAt(n, l) :
                           sent2[p] = IF p \in nextPeers(lvl, count) THEN size ELSE sent[p]
                     => Contacted(k, new, size, sent2)
  <1> DEFINE new == selectNextPeers(lvl, count)
             k   == Part[n].size[l]
             b   == batch(lvl, count)
             pos == lvl.sendPos
             ct  == lvl.sendPeersCt
  <1>1. k \in Nat /\ k > 0
    BY PartOf DEF Online
  <1>2. /\ Len(lvl.nodes) = k /\ pos \in 0 .. k - 1 /\ ct \in Nat
        /\ lvl.nodes \in [1 .. k -> PeersAt(n, l)]
    BY DEF LevelOK, PlaceOK
  <1> HIDE DEF k
  <1>3. b \in Nat /\ b > 0 /\ b <= k
    BY <1>1, <1>2 DEF batch
  <1>4. new = [lvl EXCEPT !.sendPos = (pos + b) % k, !.sendPeersCt = ct + b]
    BY <1>2 DEF selectNextPeers
  <1> HIDE DEF b, new
  <1>5. /\ new.sendPos = (pos + b) % k /\ new.sendPeersCt = ct + b /\ new.nodes = lvl.nodes
        /\ new.sendSigSize = lvl.sendSigSize
    BY <1>4 DEF LevelOK
  <1>6. (pos + b) % k \in 0 .. k - 1
    <2>1. 0 \in 0 .. k - 1 /\ b \in 1 .. k /\ pos \in 0 .. k - 1
      BY <1>1, <1>2, <1>3
    <2> HIDE DEF pos
    <2>2. Moved(k, pos, b, 0, (pos + b) % k, Ago(k, (pos + b) % k, 0))
      BY <1>1, <2>1, AgoMoves
    <2> QED
      BY <2>2 DEF Moved
  <1>7. PlaceOK(n, l, new)
    <2>1. new.sendPos \in 0 .. k - 1 /\ ct + b \in Nat
      BY <1>1, <1>2, <1>3, <1>5, <1>6
    <2> QED
      BY <1>5, <2>1 DEF PlaceOK, k
  <1>8. ASSUME NEW size, NEW sent, NEW sent2, Contacted(k, lvl, size, sent),
               \A p \in PeersAt(n, l) :
                  sent2[p] = IF p \in nextPeers(lvl, count) THEN size ELSE sent[p]
        PROVE  Contacted(k, new, size, sent2)
    <2> SUFFICES ASSUME NEW i \in 0 .. k - 1, Ago(k, new.sendPos, i) <= ct + b
                 PROVE  sent2[lvl.nodes[i + 1]] = size
      BY <1>5 DEF Contacted
    <2> DEFINE p == lvl.nodes[i + 1]
               d == Ago(k, new.sendPos, i)
    <2>1. p \in PeersAt(n, l)
      BY <1>1, <1>2
    <2>2. sent2[p] = IF p \in nextPeers(lvl, count) THEN size ELSE sent[p]
      BY <1>8, <2>1
    <2>3. /\ d \in 1 .. k
          /\ d <= b => (pos + (b - d)) % k = i
          /\ d > b => Ago(k, pos, i) = d - b
      <3> DEFINE q == new.sendPos
      <3>1. b \in 1 .. k /\ q = (pos + b) % k /\ pos \in 0 .. k - 1
        BY <1>1, <1>2, <1>3, <1>5
      <3>2. d = Ago(k, q, i)
        OBVIOUS
      <3>3. k \in Nat /\ k > 0 /\ i \in 0 .. k - 1
        BY <1>1
      <3> HIDE DEF pos, d, q
      <3> QED
        <4>1. Moved(k, pos, b, i, q, d)
          BY <3>1, <3>2, <3>3, AgoMoves
        <4> QED
          BY <4>1 DEF Moved
    <2>4. CASE d <= b
      <3> HIDE DEF d
      <3>1. b - d \in 0 .. b - 1
        BY <1>3, <2>3, <2>4
      <3>2. (pos + (b - d)) % k = i
        BY <2>3, <2>4
      <3>3. p \in nextPeers(lvl, count)
        BY <1>2, <3>1, <3>2 DEF nextPeers, b
      <3> QED
        BY <2>2, <3>3
    <2>5. CASE d > b
      <3>1. Ago(k, pos, i) <= ct
        <4>1. d <= ct + b
          OBVIOUS
        <4> HIDE DEF d, pos, ct
        <4> QED
          BY <1>2, <1>3, <2>3, <2>5, <4>1
      <3>2. sent[p] = size
        BY <1>8, <3>1 DEF Contacted
      <3> HIDE DEF p
      <3> QED
        BY <2>2, <3>2 DEF p
    <2> QED
      BY <1>3, <2>3, <2>4, <2>5
  <1> QED
    BY <1>5, <1>7, <1>8 DEF new, k

\* The signature for a level's peers counts the signers of the levels below.
LEMMA SendSizeIs ==
    ASSUME NEW n \in Online, NEW s, StoreOK(n, s), NEW l \in LevelIds[n]
    PROVE  LET sigs == UpTo(s, l - 1)
           IN  /\ SendSize(n, s, l) \in Nat
               /\ SendSize(n, s, l) = Cardinality(UNION {sigs[k].sig.who : k \in DOMAIN sigs})
               /\ LevelSigs(Part[n], sigs)
  <1> DEFINE P    == Part[n]
             sigs == UpTo(s, l - 1)
             ms   == Combined(P, s, l - 1)
             f    == [k \in DOMAIN sigs |-> sigs[k].sig]
  <1>1. n \in Nodes
    BY DEF Online
  <1>2. /\ Contract(P) /\ l \in P.levels \ {0}
        /\ Sound(P, s) /\ OwnKept(s)
    BY <1>1, PartOf DEF StoreOK
  <1>3. ms.len \in Nat /\ ms.bits \in SUBSET (0 .. ms.len - 1)
    BY CombinedOK
  <1> HIDE DEF P
  <1>4. /\ P.invBase[l] \in Nat /\ LevelSigs(P, sigs)
        /\ Verifies(ms, P.invBase[l], P.invSize[l])
        /\ ms = combineSize(sigs, P.invSize[l], Offsets(P, sigs, P.invBase[l]))
    BY <1>2, CombinedIs, CombinedIsValid
  <1> HIDE DEF sigs, ms
  <1>5. ms.sig.who = {P.invBase[l] + i : i \in ms.bits}
    BY <1>4 DEF Verifies
  <1>6. Cardinality(ms.sig.who) = Cardinality(ms.bits) /\ Cardinality(ms.bits) \in Nat
    <2>1. Cardinality(ms.bits) \in Nat
      BY <1>3, BitsFinite, Zenon
    <2>2. Cardinality({P.invBase[l] + i : i \in ms.bits}) = Cardinality(ms.bits)
      BY <1>3, <1>4, ShiftCardinality
    <2> QED
      BY <1>5, <2>1, <2>2, Zenon
  <1>7. ms.sig.who = UNION {sigs[k].sig.who : k \in DOMAIN sigs}
    <2>1. ms.sig = CombineAll(f)
      BY <1>4 DEF combineSize, MS
    <2>2. {f[k].who : k \in DOMAIN f} = {sigs[k].sig.who : k \in DOMAIN sigs}
      OBVIOUS
    <2>3. CombineAll(f).who = UNION {f[k].who : k \in DOMAIN f}
      BY DEF CombineAll
    <2> QED
      BY <2>1, <2>2, <2>3
  <1> QED
    BY <1>4, <1>6, <1>7 DEF SendSize, card, ms, P, sigs

\* Storing a signature keeps the signature for a level's peers as large as it is,
\* or makes it larger; then the signature is of a level below that was not full.
LEMMA SendSizeGrows ==
    ASSUME NEW n \in Online, NEW s, StoreOK(n, s), NEW sp \in Valid(n), NEW t, t = Store(s, sp),
           NEW l \in LevelIds[n]
    PROVE  \/ SendSize(n, t, l) = SendSize(n, s, l)
           \/ /\ SendSize(n, t, l) > SendSize(n, s, l)
              /\ sp.level \in LevelIds[n] /\ sp.level < l /\ ~HasAll(n, s, sp.level)
  <1> DEFINE P == Part[n]
             v == sp.level
             f == UpTo(s, l - 1)
             g == UpTo(t, l - 1)
  <1>1. n \in Nodes
    BY DEF Online
  <1>2. /\ Good(P, v, sp) /\ v \in P.levels /\ v # 0 /\ v \in LevelIds[n]
        /\ Contract(P) /\ Sound(P, s) /\ OwnKept(s)
        /\ \A k \in P.levels : k \in Nat
        /\ l \in Nat /\ v \in Nat
    BY <1>1, ValidIsGood, PartOf, PartFacts DEF StoreOK
  <1>3. /\ DOMAIN t.m = DOMAIN s.m \cup {v}
        /\ \A k \in DOMAIN s.m \ {v} : t.m[k] = s.m[k]
        /\ Grows(s, t) /\ DOMAIN s.m \subseteq P.levels
    <2> HIDE DEF P, v
    <2> QED
      BY <1>2, StoreBits, StoreStep DEF Sound, MapsOK
  <1>4. /\ StoreOK(n, t)
        /\ HasAll(n, s, v) => HasAll(n, t, v)
    BY <1>2, StoredOK
  <1>5. /\ DOMAIN f = {k \in DOMAIN s.m : k <= l - 1} /\ \A k \in DOMAIN f : f[k] = s.m[k]
        /\ DOMAIN g = {k \in DOMAIN t.m : k <= l - 1} /\ \A k \in DOMAIN g : g[k] = t.m[k]
    BY DEF UpTo
  <1>6. CASE ~(v < l)
    <2>1. f = g
      <3>1. {k \in DOMAIN s.m : k <= l - 1} = {k \in DOMAIN t.m : k <= l - 1}
        BY <1>2, <1>3, <1>6
      <3>2. \A k \in {k \in DOMAIN s.m : k <= l - 1} : s.m[k] = t.m[k]
        BY <1>2, <1>3, <1>6
      <3> QED
        BY <3>1, <3>2 DEF UpTo
    <2> QED
      BY <2>1 DEF SendSize, Combined
  <1>7. CASE v < l
    <2>1. /\ SendSize(n, s, l) = Cardinality(UNION {f[k].sig.who : k \in DOMAIN f})
          /\ SendSize(n, t, l) = Cardinality(UNION {g[k].sig.who : k \in DOMAIN g})
          /\ LevelSigs(P, f) /\ LevelSigs(P, g)
      BY <1>4, SendSizeIs
    <2>2. /\ DOMAIN g = DOMAIN f \cup {v}
          /\ \A k \in DOMAIN f \ {v} : g[k] = f[k]
      BY <1>2, <1>3, <1>5, <1>7
    <2>3. /\ v \in DOMAIN f /\ g[v] # f[v] => card(g[v]) > card(f[v])
          /\ v \in DOMAIN f <=> v \in DOMAIN s.m
          /\ v \in DOMAIN f => f[v] = s.m[v] /\ g[v] = t.m[v]
      BY <1>2, <1>3, <1>5, <1>7, <2>2 DEF Grows
    <2> HIDE DEF P, v, f, g
    <2>4. \/ DOMAIN g = DOMAIN f /\ \A k \in DOMAIN f : g[k] = f[k]
          \/ Cardinality(UNION {g[k].sig.who : k \in DOMAIN g})
                > Cardinality(UNION {f[k].sig.who : k \in DOMAIN f})
      BY <1>2, <2>1, <2>2, <2>3, SignersGrow
    <2>5. CASE DOMAIN g = DOMAIN f /\ \A k \in DOMAIN f : g[k] = f[k]
      <3>1. {g[k].sig.who : k \in DOMAIN g} = {f[k].sig.who : k \in DOMAIN f}
        BY <2>5
      <3> QED
        BY <2>1, <3>1
    <2>6. CASE ~(DOMAIN g = DOMAIN f /\ \A k \in DOMAIN f : g[k] = f[k])
      <3>1. SendSize(n, t, l) > SendSize(n, s, l)
        BY <2>1, <2>4, <2>6
      <3>2. ~HasAll(n, s, v)
        <4> SUFFICES ASSUME HasAll(n, s, v) PROVE FALSE
          OBVIOUS
        <4>1. v \in DOMAIN s.m /\ card(s.m[v]) = P.size[v] /\ card(t.m[v]) = P.size[v]
          BY <1>4 DEF HasAll, HasBest, P
        <4>2. P.size[v] \in Nat
          BY <1>2, PartFacts
        <4>3. g[v] = f[v]
          BY <2>3, <4>1, <4>2
        <4> QED
          BY <2>2, <2>3, <2>6, <4>1, <4>3
      <3> QED
        BY <1>2, <1>7, <3>1, <3>2 DEF v
    <2> QED
      BY <2>5, <2>6
  <1> QED
    BY <1>6, <1>7

\* What sendUpdates does to the levels and to what was sent last.
LEMMA SendContacts ==
    ASSUME HandelInv, DOMAIN sentSize = Online, NEW n \in Online,
           NEW lvls, \A l \in LevelIds[n] : LevelOK(n, l, lvls[l]),
           NEW count, DOMAIN count \subseteq LevelIds[n],
           \A l \in DOMAIN count : count[l] \in Nat \ {0},
           NEW cur,
           \A l \in LevelIds[n] :
              ContactOK(n, l, lvls, cur, SendSize(n, store[n], l), sentSize[n][l]),
           sendUpdates(n, lvls, count)
    PROVE  /\ DOMAIN sentSize' = Online
           /\ \A m \in Online \ {n} : levels'[m] = levels[m] /\ sentSize'[m] = sentSize[m]
           /\ \A l \in LevelIds[n] :
                 ContactOK(n, l, levels'[n], cur, SendSize(n, store[n], l), sentSize'[n][l])
  <1> DEFINE new == [l \in LevelIds[n] |-> IF l \in DOMAIN count
                                           THEN selectNextPeers(lvls[l], count[l]) ELSE lvls[l]]
             to == [l \in DOMAIN count |-> nextPeers(lvls[l], count[l])]
             sent == [l \in LevelIds[n] |-> [p \in PeersAt(n, l) |->
                        IF l \in DOMAIN count /\ p \in to[l] THEN SendSize(n, store[n], l)
                        ELSE sentSize[n][l][p]]]
  <1>1. levels' = [levels EXCEPT ![n] = new] /\ DOMAIN levels = Online
    BY DEF sendUpdates, HandelInv, Domains
  <1>2. sentSize' = [sentSize EXCEPT ![n] = sent]
    BY DEF sendUpdates, packetFor, SendSize
  <1>3. /\ DOMAIN sentSize' = Online /\ levels'[n] = new /\ sentSize'[n] = sent
        /\ \A m \in Online \ {n} : levels'[m] = levels[m] /\ sentSize'[m] = sentSize[m]
    <2> HIDE DEF new, sent
    <2> QED
      BY <1>1, <1>2
  <1>4. ASSUME NEW l \in LevelIds[n]
        PROVE  new[l].rcvCompleted = lvls[l].rcvCompleted
    BY SelectOK
  <1>5. ASSUME NEW l \in LevelIds[n]
        PROVE  ContactOK(n, l, new, cur, SendSize(n, store[n], l), sent[l])
    <2> DEFINE size == SendSize(n, store[n], l)
               k    == Part[n].size[l]
    <2>1. ContactOK(n, l, lvls, cur, size, sentSize[n][l]) /\ LevelOK(n, l, lvls[l])
      OBVIOUS
    <2>2. CASE l \in DOMAIN count
      <3> DEFINE lvl == lvls[l]
                 c   == count[l]
      <3>1. new[l] = selectNextPeers(lvl, c) /\ c \in Nat \ {0} /\ PlaceOK(n, l, lvl)
        BY <2>1, <2>2 DEF ContactOK
      <3>2. \A p \in PeersAt(n, l) :
               sent[l][p] = IF p \in nextPeers(lvl, c) THEN size ELSE sentSize[n][l][p]
        BY <2>2
      <3> HIDE DEF new, sent, size, c, lvl
      <3>3. /\ PlaceOK(n, l, new[l]) /\ new[l].sendSigSize = lvl.sendSigSize
            /\ Contacted(k, lvl, size, sentSize[n][l]) => Contacted(k, new[l], size, sent[l])
        BY <2>1, <3>1, <3>2, SelectContacts, SMTT(30) DEF lvl
      <3>4. Pending(n, l, lvls, cur, size) => Pending(n, l, new, cur, size)
        BY <1>4, <3>3 DEF Pending, lvl
      <3> QED
        BY <2>1, <3>3, <3>4 DEF ContactOK, lvl, size
    <2>3. CASE l \notin DOMAIN count
      <3>1. new[l] = lvls[l] /\ \A p \in PeersAt(n, l) : sent[l][p] = sentSize[n][l][p]
        BY <2>3
      <3> HIDE DEF new, sent, size
      <3>2. Pending(n, l, lvls, cur, size) => Pending(n, l, new, cur, size)
        BY <1>4, <3>1 DEF Pending
      <3>3. \A i \in 0 .. k - 1 : lvls[l].nodes[i + 1] \in PeersAt(n, l)
        <4>1. k \in Nat /\ lvls[l].nodes \in [1 .. k -> PeersAt(n, l)]
          BY <2>1, PartOf DEF ContactOK, PlaceOK, Online
        <4> HIDE DEF k
        <4> QED
          BY <4>1
      <3>4. Contacted(k, lvls[l], size, sentSize[n][l]) => Contacted(k, new[l], size, sent[l])
        BY <3>1, <3>3 DEF Contacted
      <3> QED
        BY <2>1, <3>1, <3>2, <3>4 DEF ContactOK, size
    <2> QED
      BY <2>2, <2>3
  <1> HIDE DEF new, sent
  <1> QED
    BY <1>3, <1>5

\* A node's own step is looked at for that node alone.
LEMMA OneContact ==
    ASSUME ContactInv, NEW n \in Online, DOMAIN sentSize' = Online,
           \A m \in Online \ {n} : /\ levels'[m] = levels[m] /\ sentSize'[m] = sentSize[m]
                                   /\ current'[m] = current[m] /\ store'[m] = store[m],
           \A l \in LevelIds[n] : ContactOK(n, l, levels'[n], current'[n],
                                            SendSize(n, store'[n], l), sentSize'[n][l])
    PROVE  ContactInv'
  <1>1. ASSUME NEW m \in Online, NEW l \in LevelIds[m]
        PROVE  ContactOK(m, l, levels'[m], current'[m], SendSize(m, store'[m], l), sentSize'[m][l])
    <2>1. CASE m = n
      BY <2>1
    <2>2. CASE m # n
      BY <2>2 DEF ContactInv
    <2> QED
      BY <2>1, <2>2
  <1> QED
    BY <1>1 DEF ContactInv

\* Sending, by a step that does nothing else.
LEMMA SendKeepsContact ==
    ASSUME HandelInv, ContactInv, NEW n \in Online,
           NEW lvls, \A l \in LevelIds[n] : LevelOK(n, l, lvls[l]),
           NEW count, DOMAIN count \subseteq LevelIds[n],
           \A l \in DOMAIN count : count[l] \in Nat \ {0},
           \A l \in LevelIds[n] :
              ContactOK(n, l, lvls, current[n], SendSize(n, store[n], l), sentSize[n][l]),
           sendUpdates(n, lvls, count), UNCHANGED <<store, current>>
    PROVE  ContactInv'
  <1>1. DOMAIN sentSize = Online
    BY DEF ContactInv
  <1>2. /\ DOMAIN sentSize' = Online
        /\ \A m \in Online \ {n} : levels'[m] = levels[m] /\ sentSize'[m] = sentSize[m]
        /\ \A l \in LevelIds[n] :
              ContactOK(n, l, levels'[n], current[n], SendSize(n, store[n], l), sentSize'[n][l])
    BY <1>1, SendContacts
  <1> QED
    BY <1>2, OneContact

\* A tick of the periodic update goes on with the peers of the active levels.
LEMMA PeriodicUpdateContact ==
    ASSUME HandelInv, ContactInv, NEW n \in Online, periodicUpdate(n) PROVE ContactInv'
  <1> DEFINE count == [l \in {l \in LevelIds[n] : active(levels[n][l])} |-> UpdateCount]
  <1>1. sendUpdates(n, levels[n], count) /\ UNCHANGED <<store, current>>
    BY DEF periodicUpdate
  <1>2. \A l \in LevelIds[n] :
           /\ LevelOK(n, l, levels[n][l])
           /\ ContactOK(n, l, levels[n], current[n], SendSize(n, store[n], l), sentSize[n][l])
    BY DEF HandelInv, NodesOK, NodeOK, ContactInv
  <1>3. DOMAIN count \subseteq LevelIds[n] /\ \A l \in DOMAIN count : count[l] \in Nat \ {0}
    BY HandelAssumption
  <1> HIDE DEF count
  <1> QED
    BY <1>1, <1>2, <1>3, SendKeepsContact

\* The timeout starts a level with its first peers.
LEMMA StartLevelContact ==
    ASSUME HandelInv, ContactInv, NEW n \in Online, StartLevel(n) PROVE ContactInv'
  <1>1. UNCHANGED <<store, current>>
    BY DEF StartLevel
  <1>2. /\ DOMAIN levels[n] = LevelIds[n]
        /\ \A k \in LevelIds[n] :
           /\ LevelOK(n, k, levels[n][k])
           /\ ContactOK(n, k, levels[n], current[n], SendSize(n, store[n], k), sentSize[n][k])
    BY DEF HandelInv, NodesOK, NodeOK, ContactInv
  <1>3. PICK l \in LevelIds[n] :
           IF levels[n][l].sendStarted
           THEN UNCHANGED <<levels, packets, sentSize>>
           ELSE sendUpdates(n, [levels[n] EXCEPT ![l] = setStarted(@)], [k \in {l} |-> UpdateCount])
    BY DEF StartLevel
  <1>4. CASE UNCHANGED <<levels, packets, sentSize>>
    BY <1>1, <1>4 DEF ContactInv
  <1>5. CASE sendUpdates(n, [levels[n] EXCEPT ![l] = setStarted(@)], [k \in {l} |-> UpdateCount])
    <2> DEFINE lvls  == [levels[n] EXCEPT ![l] = setStarted(@)]
               count == [k \in {l} |-> UpdateCount]
    <2>1. ASSUME NEW k \in LevelIds[n]
          PROVE  /\ LevelOK(n, k, lvls[k])
                 /\ lvls[k].rcvCompleted = levels[n][k].rcvCompleted
                 /\ lvls[k].nodes = levels[n][k].nodes
                 /\ lvls[k].sendPos = levels[n][k].sendPos
                 /\ lvls[k].sendPeersCt = levels[n][k].sendPeersCt
                 /\ lvls[k].sendSigSize = levels[n][k].sendSigSize
      <3>1. CASE k = l
        <4>1. lvls[k] = setStarted(levels[n][k]) /\ LevelOK(n, k, levels[n][k])
          BY <1>2, <3>1
        <4> HIDE DEF lvls
        <4> QED
          BY <4>1 DEF setStarted, LevelOK
      <3>2. CASE k # l
        BY <1>2, <3>2
      <3> QED
        BY <3>1, <3>2
    <2>2. DOMAIN count \subseteq LevelIds[n] /\ \A k \in DOMAIN count : count[k] \in Nat \ {0}
      BY HandelAssumption
    <2> HIDE DEF lvls, count
    <2>3. ASSUME NEW k \in LevelIds[n]
          PROVE  ContactOK(n, k, lvls, current[n], SendSize(n, store[n], k), sentSize[n][k])
      <3>1. PlaceOK(n, k, levels[n][k]) => PlaceOK(n, k, lvls[k])
        BY <2>1 DEF PlaceOK
      <3>2. \A size, sent : Contacted(Part[n].size[k], levels[n][k], size, sent)
                               => Contacted(Part[n].size[k], lvls[k], size, sent)
        BY <2>1 DEF Contacted
      <3>3. \A cur, size : Pending(n, k, levels[n], cur, size) => Pending(n, k, lvls, cur, size)
        BY <2>1 DEF Pending
      <3> QED
        BY <1>2, <2>1, <3>1, <3>2, <3>3 DEF ContactOK
    <2> QED
      BY <1>1, <1>5, <2>1, <2>2, <2>3, SendKeepsContact DEF lvls, count
  <1> QED
    BY <1>3, <1>4, <1>5

\* A signature that enlarges what a level's peers are to be sent stays with the
\* actors until they run.
LEMMA StoreVerifiedContact ==
    ASSUME HandelInv, ContactInv, NEW n \in Online, StoreVerified(n) PROVE ContactInv'
  <1> DEFINE s  == store[n]
             sp == Head(verified[n])
             t  == Store(s, sp)
  <1>1. /\ StoreOK(n, s) /\ verified[n] \in Seq(Valid(n))
        /\ CompleteOK(n, s, levels[n], current[n])
        /\ DOMAIN store = Online /\ DOMAIN current = Online /\ DOMAIN sentSize = Online
    BY DEF HandelInv, NodesOK, NodeOK, Domains, ContactInv
  <1>2. /\ current[n] = <<>> /\ verified[n] # <<>>
        /\ current' = [current EXCEPT ![n] = <<sp>>]
        /\ store' = [store EXCEPT ![n] = t]
        /\ UNCHANGED <<levels, sentSize>>
    BY DEF StoreVerified
  <1>3. sp \in Valid(n)
    BY <1>1, <1>2
  <1> HIDE DEF s, sp, t
  <1>4. /\ store'[n] = t /\ current'[n] = <<sp>>
        /\ \A m \in Online \ {n} : current'[m] = current[m] /\ store'[m] = store[m]
    BY <1>1, <1>2
  <1>5. ASSUME NEW l \in LevelIds[n]
        PROVE  ContactOK(n, l, levels[n], <<sp>>, SendSize(n, t, l), sentSize[n][l])
    <2> DEFINE old == SendSize(n, s, l)
               new == SendSize(n, t, l)
    <2>1. /\ PlaceOK(n, l, levels[n][l]) /\ levels[n][l].sendSigSize <= old
          /\ Contacted(Part[n].size[l], levels[n][l], old, sentSize[n][l])
      BY <1>2 DEF ContactInv, ContactOK, Pending, s
    <2>2. \/ new = old
          \/ /\ new > old
             /\ sp.level \in LevelIds[n] /\ sp.level < l /\ ~HasAll(n, s, sp.level)
      BY <1>1, <1>3, SendSizeGrows DEF t
    <2>3. StoreOK(n, t)
      BY <1>1, <1>3, StoredOK DEF t
    <2>4. old \in Nat /\ new \in Nat /\ levels[n][l].sendSigSize \in Nat
      BY <1>1, <2>1, <2>3, SendSizeIs DEF PlaceOK
    <2> HIDE DEF old, new
    <2>5. CASE new = old
      BY <2>1, <2>5 DEF ContactOK, new
    <2>6. CASE new > old /\ sp.level \in LevelIds[n] /\ sp.level < l /\ ~HasAll(n, s, sp.level)
      <3>1. ~levels[n][sp.level].rcvCompleted
        BY <1>1, <2>6 DEF CompleteOK
      <3>2. levels[n][l].sendSigSize < new
        BY <2>1, <2>4, <2>6
      <3>3. <<sp>> # <<>> /\ <<sp>>[1] = sp
        OBVIOUS
      <3>4. Pending(n, l, levels[n], <<sp>>, new)
        BY <2>6, <3>1, <3>2, <3>3 DEF Pending
      <3>5. levels[n][l].sendSigSize <= new
        BY <2>4, <3>2
      <3> QED
        BY <2>1, <3>4, <3>5 DEF ContactOK, new
    <2> QED
      BY <2>2, <2>5, <2>6
  <1> QED
    BY <1>1, <1>2, <1>4, <1>5, OneContact

\* With a counter of zero nothing is said of any peer.
LEMMA NoneContacted ==
    ASSUME NEW k \in Nat, NEW lvl, lvl.sendPos \in 0 .. k - 1, lvl.sendPeersCt = 0,
           NEW size, NEW sent
    PROVE  Contacted(k, lvl, size, sent)
  <1> DEFINE pos == lvl.sendPos
  <1>1. pos \in 0 .. k - 1
    OBVIOUS
  <1> HIDE DEF pos
  <1>2. \A i \in 0 .. k - 1 : ~(Ago(k, pos, i) <= 0)
    BY <1>1 DEF Ago
  <1> QED
    BY <1>2 DEF Contacted, pos

\* updateSigToSend resets the counter when there is a larger signature to send.
LEMMA UpdateContacts ==
    ASSUME NEW n \in Online, NEW l \in LevelIds[n], NEW lvl, LevelOK(n, l, lvl),
           PlaceOK(n, l, lvl), NEW size \in Nat, lvl.sendSigSize <= size, NEW sent,
           Contacted(Part[n].size[l], lvl, size, sent) \/ lvl.sendSigSize < size
    PROVE  LET new == updateSigToSend(lvl, size)
           IN  /\ PlaceOK(n, l, new) /\ new.sendSigSize <= size
               /\ Contacted(Part[n].size[l], new, size, sent)
  <1> DEFINE new == updateSigToSend(lvl, size)
             sig == lvl.sendSigSize
  <1>1. sig \in Nat
    BY DEF PlaceOK
  <1>2. CASE sig >= size
    <2>1. new = lvl /\ ~(sig < size)
      BY <1>1, <1>2 DEF updateSigToSend
    <2> HIDE DEF new
    <2> QED
      BY <2>1 DEF new
  <1>3. CASE ~(sig >= size)
    <2>1. /\ new.nodes = lvl.nodes /\ new.sendPos = lvl.sendPos
          /\ new.sendPeersCt = 0 /\ new.sendSigSize = size
      BY <1>3 DEF updateSigToSend, LevelOK
    <2>2. Part[n].size[l] \in Nat
      BY PartOf DEF Online
    <2> HIDE DEF new
    <2>3. PlaceOK(n, l, new)
      BY <2>1 DEF PlaceOK
    <2>4. Contacted(Part[n].size[l], new, size, sent)
      BY <2>1, <2>2, <2>3, NoneContacted DEF PlaceOK
    <2> QED
      BY <2>1, <2>3, <2>4 DEF new
  <1> QED
    BY <1>2, <1>3

\* The actors give every level above the larger signature, unless the level of
\* the one they were called for was complete before.
LEMMA OnVerifiedSignatureContact ==
    ASSUME HandelInv, ContactInv, NEW n \in Online, OnVerifiedSignature(n) PROVE ContactInv'
  <1>1. /\ current[n] # <<>> /\ checkCompletedLevel(n, current[n][1])
        /\ current' = [current EXCEPT ![n] = <<>>] /\ store' = store
        /\ DOMAIN current = Online /\ DOMAIN levels[n] = LevelIds[n]
        /\ DOMAIN sentSize = Online
    BY DEF OnVerifiedSignature, HandelInv, NodesOK, NodeOK, Domains, ContactInv
  <1>2. PICK sp \in Valid(n) : current[n] = <<sp>>
    BY <1>1 DEF HandelInv, NodesOK, NodeOK, CurrentOK
  <1>3. current[n][1] = sp
    BY <1>2
  <1> DEFINE v == sp.level
             done == complete(levels[n][v], card(store[n].m[v]))
             rcvd == IF done THEN [levels[n] EXCEPT ![v].rcvCompleted = TRUE] ELSE levels[n]
             size(l) == card(Combined(Part[n], store[n], l - 1))
             above == {l \in LevelIds[n] : l > v}
             lvls  == [l \in LevelIds[n] |-> IF l \in above THEN updateSigToSend(rcvd[l], size(l))
                                             ELSE rcvd[l]]
             count == [l \in {l \in above : sendsAtOnce(rcvd[l], size(l))} |-> FastPath]
  <1>4. /\ v \in LevelIds[n] /\ v \in Nat
        /\ \A l \in LevelIds[n] : l \in Nat
    BY ValidIsGood, PartOf DEF Online
  <1>5. \A l \in LevelIds[n] :
           /\ LevelOK(n, l, levels[n][l])
           /\ ContactOK(n, l, levels[n], current[n], SendSize(n, store[n], l), sentSize[n][l])
    BY DEF HandelInv, NodesOK, NodeOK, ContactInv
  <1>6. current'[n] = <<>> /\ \A m \in Online \ {n} : current'[m] = current[m]
    BY <1>1
  <1>7. CASE levels[n][v].rcvCompleted
    <2>1. UNCHANGED <<levels, sentSize>>
      BY <1>1, <1>3, <1>7 DEF checkCompletedLevel
    <2>2. ASSUME NEW l \in LevelIds[n]
          PROVE  ContactOK(n, l, levels[n], <<>>, SendSize(n, store[n], l), sentSize[n][l])
      BY <1>3, <1>5, <1>7 DEF ContactOK, Pending
    <2> QED
      BY <1>1, <1>6, <2>1, <2>2, OneContact
  <1>8. CASE ~levels[n][v].rcvCompleted
    <2>1. sendUpdates(n, lvls, count)
      BY <1>1, <1>3, <1>8 DEF checkCompletedLevel
    <2>2. ASSUME NEW l \in LevelIds[n]
          PROVE  /\ LevelOK(n, l, rcvd[l])
                 /\ rcvd[l].nodes = levels[n][l].nodes
                 /\ rcvd[l].sendPos = levels[n][l].sendPos
                 /\ rcvd[l].sendPeersCt = levels[n][l].sendPeersCt
                 /\ rcvd[l].sendSigSize = levels[n][l].sendSigSize
      <3> HIDE DEF done
      <3>1. CASE ~done \/ l # v
        BY <1>1, <1>4, <1>5, <3>1
      <3>2. CASE done /\ l = v
        <4>1. rcvd[l] = [levels[n][l] EXCEPT !.rcvCompleted = TRUE] /\ LevelOK(n, l, levels[n][l])
          BY <1>1, <1>4, <1>5, <3>2
        <4> HIDE DEF rcvd
        <4> QED
          BY <4>1 DEF LevelOK
      <3> QED
        BY <3>1, <3>2
    <2>3. \A l \in LevelIds[n] : size(l) = SendSize(n, store[n], l)
      BY DEF SendSize
    <2>4. \A l \in LevelIds[n] : size(l) \in Nat
      <3>1. StoreOK(n, store[n])
        BY DEF HandelInv, NodesOK, NodeOK
      <3>2. \A l \in LevelIds[n] : SendSize(n, store[n], l) \in Nat
        BY <3>1, SendSizeIs
      <3> QED
        BY <2>3, <3>2
    <2>5. /\ DOMAIN count \subseteq LevelIds[n]
          /\ \A l \in DOMAIN count : count[l] \in Nat \ {0}
      BY HandelAssumption
    <2> HIDE DEF rcvd, size
    <2>6. ASSUME NEW l \in LevelIds[n]
          PROVE  /\ LevelOK(n, l, lvls[l])
                 /\ ContactOK(n, l, lvls, <<>>, size(l), sentSize[n][l])
      <3> DEFINE k   == Part[n].size[l]
                 old == levels[n][l]
      <3>1. /\ PlaceOK(n, l, old) /\ old.sendSigSize <= size(l)
            /\ Contacted(k, old, size(l), sentSize[n][l]) \/ (v < l /\ old.sendSigSize < size(l))
        BY <1>3, <1>5, <2>3, SMTT(30) DEF ContactOK, Pending
      <3>2. /\ PlaceOK(n, l, rcvd[l]) /\ rcvd[l].sendSigSize <= size(l)
            /\ \/ Contacted(k, rcvd[l], size(l), sentSize[n][l])
               \/ v < l /\ rcvd[l].sendSigSize < size(l)
        BY <2>2, <3>1 DEF PlaceOK, Contacted
      <3>3. CASE l \in above
        <4>1. lvls[l] = updateSigToSend(rcvd[l], size(l))
          BY <3>3
        <4> HIDE DEF lvls
        <4>2. LevelOK(n, l, lvls[l])
          BY <2>2, <4>1, UpdateOK
        <4>3. /\ PlaceOK(n, l, lvls[l]) /\ lvls[l].sendSigSize <= size(l)
              /\ Contacted(k, lvls[l], size(l), sentSize[n][l])
          BY <2>2, <2>4, <3>2, <4>1, UpdateContacts
        <4> QED
          BY <4>2, <4>3 DEF ContactOK
      <3>4. CASE l \notin above
        <4>1. lvls[l] = rcvd[l]
          BY <3>4
        <4>2. ~(v < l)
          BY <1>4, <3>4
        <4> HIDE DEF lvls
        <4> QED
          BY <2>2, <3>2, <4>1, <4>2 DEF ContactOK
      <3> QED
        BY <3>3, <3>4
    <2>7. \A l \in LevelIds[n] :
             ContactOK(n, l, lvls, <<>>, SendSize(n, store[n], l), sentSize[n][l])
      BY <2>3, <2>6
    <2> HIDE DEF lvls, count
    <2>8. /\ DOMAIN sentSize' = Online
          /\ \A m \in Online \ {n} : levels'[m] = levels[m] /\ sentSize'[m] = sentSize[m]
          /\ \A l \in LevelIds[n] :
                ContactOK(n, l, levels'[n], <<>>, SendSize(n, store[n], l), sentSize'[n][l])
      BY <1>1, <2>1, <2>5, <2>6, <2>7, SendContacts
    <2> QED
      BY <1>1, <1>6, <2>8, OneContact, SMTT(30)
  <1> QED
    BY <1>7, <1>8

\* At the start nothing was sent.
LEMMA InitContactInv == Init => ContactInv
  <1> SUFFICES ASSUME Init PROVE ContactInv
    OBVIOUS
  <1>1. HandelInv /\ DOMAIN sentSize = Online
    BY InitHandelInv DEF Init
  <1>2. ASSUME NEW n \in Online, NEW l \in LevelIds[n]
        PROVE  ContactOK(n, l, levels[n], current[n], SendSize(n, store[n], l), sentSize[n][l])
    <2> DEFINE lvl  == levels[n][l]
               size == SendSize(n, store[n], l)
               full == 1 + SumFunctionOnSet(Part[n].size, {k \in LevelIds[n] : k < l})
    <2>1. size \in Nat
      BY <1>1, SendSizeIs DEF HandelInv, NodesOK, NodeOK
    <2>2. n \in Nodes /\ Part[n].size[l] \in Nat /\ Part[n].size[l] > 0
      BY PartOf DEF Online
    <2>3. levels[n] \in NewLevels(n)
      BY DEF Init
    <2>4. PICK order : /\ \A k \in LevelIds[n] : order[k] \in Orders(n, k)
                       /\ levels[n] = createLevels(n, order)
      BY <2>3 DEF NewLevels
    <2>5. lvl \in {newLevel(order[l], full), setStarted(newLevel(order[l], full))}
      BY <2>4 DEF createLevels
    <2> HIDE DEF full, lvl
    <2>6. lvl.nodes = order[l] /\ lvl.sendPos = 0 /\ lvl.sendPeersCt = 0 /\ lvl.sendSigSize = 0
      BY <2>5 DEF newLevel, setStarted
    <2>7. PlaceOK(n, l, lvl)
      BY <2>2, <2>4, <2>6, OrderIs DEF PlaceOK
    <2>8. Contacted(Part[n].size[l], lvl, size, sentSize[n][l])
      BY <2>2, <2>6, <2>7, NoneContacted DEF PlaceOK
    <2>9. lvl.sendSigSize <= size
      <3> HIDE DEF size
      <3> QED
        BY <2>1, <2>6
    <2> QED
      BY <2>7, <2>8, <2>9 DEF ContactOK, lvl
  <1> QED
    BY <1>1, <1>2 DEF ContactInv

\* Every step keeps it; the network and the processing touch none of its parts.
LEMMA NextContactInv == HandelInv /\ ContactInv /\ [AnyNext]_vars => ContactInv'
  <1> SUFFICES ASSUME HandelInv, ContactInv, [AnyNext]_vars PROVE ContactInv'
    OBVIOUS
  <1>1. UNCHANGED <<store, levels, current, sentSize>> => ContactInv'
    BY DEF ContactInv
  <1>2. ASSUME NEW n \in Online, Deliver(n) \/ processStep(n) \/ Duplicate(n)
        PROVE  UNCHANGED <<store, levels, current, sentSize>>
    BY <1>2 DEF Deliver, processStep, Duplicate
  <1>3. Lose \/ UNCHANGED vars => UNCHANGED <<store, levels, current, sentSize>>
    BY DEF Lose, vars
  <1> QED
    BY <1>1, <1>2, <1>3, PeriodicUpdateContact, StartLevelContact, StoreVerifiedContact,
       OnVerifiedSignatureContact DEF AnyNext, Next, Step

\* A started level goes quiet (handel.go:526) only after every one of its peers
\* was sent the best signature there is for it.
THEOREM HandelQuiet == AnySpec => []QuietAfterAllContacted
  <1>1. HandelInv /\ ContactInv => QuietAfterAllContacted
    <2> SUFFICES ASSUME HandelInv, ContactInv, NEW n \in Online, NEW l \in LevelIds[n],
                        current[n] = <<>>, levels[n][l].sendStarted, ~active(levels[n][l]),
                        NEW p \in PeersAt(n, l)
                 PROVE  sentSize[n][l][p] = card(Combined(Part[n], store[n], l - 1))
      BY DEF QuietAfterAllContacted
    <2> DEFINE lvl == levels[n][l]
               k   == Part[n].size[l]
               pos == lvl.sendPos
    <2>1. /\ Contacted(k, lvl, SendSize(n, store[n], l), sentSize[n][l])
          /\ PlaceOK(n, l, lvl) /\ Len(lvl.nodes) = k
      BY DEF ContactInv, ContactOK, Pending, HandelInv, NodesOK, NodeOK, LevelOK
    <2>2. k \in Nat /\ pos \in 0 .. k - 1 /\ lvl.sendPeersCt \in Nat
      BY <2>1, PartOf DEF PlaceOK, Online
    <2>3. ~(lvl.sendPeersCt < k)
      BY <2>1 DEF active
    <2>4. PICK i \in 0 .. k - 1 : lvl.nodes[i + 1] = p
      BY <2>1 DEF PlaceOK
    <2>5. Ago(k, pos, i) <= lvl.sendPeersCt
      <3>1. Ago(k, pos, i) <= k /\ Ago(k, pos, i) \in Nat
        <4> HIDE DEF pos, k
        <4> QED
          BY <2>2, <2>4 DEF Ago
      <3> HIDE DEF k, lvl, pos
      <3> QED
        BY <2>2, <2>3, <3>1
    <2> QED
      BY <2>1, <2>4, <2>5 DEF Contacted, SendSize
  <1> QED
    BY <1>1, InitContactInv, NextContactInv, HandelInvariant, PTL DEF AnySpec

-----------------------------------------------------------------------------
(* What is sent is not lost *)

\* A node is a peer of its peers, at the same level, and what it sends them covers
\* the range they have for that level.
LEMMA PeerLevel ==
    ASSUME NEW n \in Nodes, NEW l \in LevelIds[n], NEW q \in PeersAt(n, l)
    PROVE  /\ q \in Nodes /\ l \in LevelIds[q] /\ n \in PeersAt(q, l)
           /\ Part[q].base[l] = Part[n].invBase[l] /\ Part[q].size[l] = Part[n].invSize[l]
           /\ IndexAtLevel(NewBinPartitioner(q, N), n, l).err = "ok"
  <1> DEFINE P == Part[n]
             Q == Part[q]
             c == NewBinPartitioner(q, N)
  <1>1. /\ N \in Nat \ {0} /\ Nodes = 0 .. N - 1
    BY HandelAssumption DEF Nodes
  <1>2. q \in Nodes
    <2>1. P.base[l] \in Nat /\ P.size[l] \in Nat /\ P.base[l] + P.size[l] <= N
      BY PartOf
    <2>2. q \in P.base[l] .. P.base[l] + P.size[l] - 1
      BY DEF PeersAt
    <2> HIDE DEF P
    <2> QED
      BY <1>1, <2>1, <2>2
  <1>3. /\ P = Interface(NewBinPartitioner(n, N)) /\ Q = Interface(c)
        /\ l \in P.levels \ {0} /\ LevelIds[q] = Q.levels \ {0}
    BY <1>2, PartOf DEF Part
  <1>4. q \in rangeOf(P, l)
    BY DEF PeersAt, rangeOf
  <1>5. IsPart(c)
    BY <1>1, <1>2 DEF IsPart
  <1> HIDE DEF P, Q, c
  <1>6. /\ l \in Q.levels \ {0} /\ Q.base[l] = P.invBase[l] /\ Q.size[l] = P.invSize[l]
        /\ n \in rangeOf(Q, l)
    BY <1>1, <1>2, <1>3, <1>4, PeersMutual DEF c
  <1>7. IndexAtLevel(c, n, l).err = "ok"
    <2>1. /\ rangeLevel(c, l).err = "ok"
          /\ rangeLevel(c, l).min = Q.base[l]
          /\ rangeLevel(c, l).max = Q.base[l] + Q.size[l]
      BY <1>3, <1>5, <1>6, InterfaceIs
    <2>2. n \in Ids(rangeLevel(c, l))
      <3>1. Ids(rangeLevel(c, l)) = Q.base[l] .. ((Q.base[l] + Q.size[l]) - 1)
        BY Zenon, <2>1 DEF Ids
      <3>2. Q.base[l] \in Nat /\ Q.size[l] \in Nat
        BY <1>2, <1>3, <1>6, PartOf DEF Q
      <3> QED
        BY <1>6, <3>1, <3>2 DEF rangeOf
    <2>3. IndexAtLevel(c, n, l) = [err |-> "ok", index |-> n - rangeLevel(c, l).min]
      BY <2>1, <2>2, Zenon DEF IndexAtLevel
    <2> QED
      BY <2>3
  <1>8. n \in PeersAt(q, l)
    BY <1>6 DEF PeersAt, rangeOf, Q
  <1> QED
    BY <1>2, <1>3, <1>6, <1>7, <1>8 DEF P, Q, c

\* Every other node is a peer at some level; those that a level's peers wait to
\* hear of are peers at the levels below it.
LEMMA PeersCover ==
    ASSUME NEW n \in Nodes, NEW j \in Nodes, j # n
    PROVE  /\ \E k \in LevelIds[n] : j \in PeersAt(n, k)
           /\ \A l \in LevelIds[n] : j \in inverseOf(Part[n], l) =>
                 \E k \in LevelIds[n] : k < l /\ j \in PeersAt(n, k)
  <1> DEFINE P == Part[n]
  <1>1. N \in Nat \ {0} /\ Nodes = 0 .. N - 1
    BY HandelAssumption DEF Nodes
  <1>2. P = Interface(NewBinPartitioner(n, N)) /\ LevelIds[n] = P.levels \ {0}
    BY PartOf DEF Part
  <1>3. \A k : rangeOf(P, k) = PeersAt(n, k)
    BY DEF rangeOf, PeersAt
  <1> HIDE DEF P
  <1>4. /\ \E k \in P.levels \ {0} : j \in rangeOf(P, k)
        /\ \A l \in P.levels \ {0} :
              j \in inverseOf(P, l) => \E k \in P.levels \ {0} : k < l /\ j \in rangeOf(P, k)
    BY <1>1, <1>2, LevelsCover
  <1> QED
    BY <1>2, <1>3, <1>4 DEF P

\* A message whose signature is valid at the node it is for and whose origin is a
\* peer of that node.
Fits(q, msg) ==
    /\ msg.origin \in Nodes /\ msg.level \in LevelIds[q]
    /\ parseMultiSig(msg) \in Valid(q)
    /\ IndexAtLevel(NewBinPartitioner(q, N), msg.origin, msg.level).err = "ok"

\* A packet with a signature of that size is on its way ...
InFlight(pks, q, l, size) ==
    \E p \in pks : /\ p.to = q /\ p.msg.level = l /\ Fits(q, p.msg)
                   /\ card(p.msg.ms) >= size

\* ... or was received, and waits, was verified or is surpassed in the store.
Queued(q, s, td, vd, l, size) ==
    \/ \E i \in DOMAIN td : td[i] \in Valid(q) /\ td[i].level = l /\ card(td[i].ms) >= size
    \/ \E i \in DOMAIN vd : vd[i].level = l /\ card(vd[i].ms) >= size
    \/ SizeAt(s, l) >= size

Reaches(q, l, size, pks, s, td, vd) ==
    InFlight(pks, q, l, size) \/ Queued(q, s, td, vd, l, size)

\* What a node sent last to a peer reaches it.
DeliveryInv ==
    \A n \in Online : \A l \in LevelIds[n] : \A q \in PeersAt(n, l) \cap Online :
        /\ sentSize[n][l][q] \in Nat
        /\ Reaches(q, l, sentSize[n][l][q], packets, store[q], todos[q], verified[q])

\* What a node sends to the peers of a level is valid for each of them.
LEMMA SentFits ==
    ASSUME NEW n \in Online, StoreOK(n, store[n]), NEW l \in LevelIds[n],
           NEW q \in PeersAt(n, l) \cap Online, NEW lvl
    PROVE  Fits(q, packetFor(n, l, lvl))
  <1> DEFINE ms  == Combined(Part[n], store[n], l - 1)
             msg == packetFor(n, l, lvl)
             sp  == parseMultiSig(msg)
             P   == Part[n]
             Q   == Part[q]
  <1>1. n \in Nodes /\ Online \subseteq 0 .. N - 1
    BY DEF Online, Nodes
  <1>2. /\ q \in Nodes /\ l \in LevelIds[q]
        /\ Q.base[l] = P.invBase[l] /\ Q.size[l] = P.invSize[l]
        /\ IndexAtLevel(NewBinPartitioner(q, N), n, l).err = "ok"
    BY <1>1, PeerLevel
  <1>3. /\ Contract(P) /\ l \in P.levels \ {0} /\ Sound(P, store[n]) /\ OwnKept(store[n])
        /\ Q.n = N
    BY <1>1, <1>2, PartOf DEF StoreOK
  <1>4. /\ ms.len \in Nat
        /\ ms \in [ len : Nat, bits : SUBSET (0 .. ms.len - 1),
                    sig : [who : SUBSET Online, once : BOOLEAN] ]
    BY CombinedOK
  <1>5. msg.origin = n /\ msg.level = l /\ msg.ms = ms
    BY DEF packetFor
  <1>6. sp = [ origin |-> n, level |-> l, ms |-> ms, isInd |-> FALSE, mappedIndex |-> 0 ]
    BY <1>5 DEF parseMultiSig
  <1> HIDE DEF P, Q, msg, sp
  <1>7. Verifies(ms, P.invBase[l], P.invSize[l])
    <2> HIDE DEF ms
    <2> QED
      BY <1>3, CombinedIsValid DEF ms, P
  <1> HIDE DEF ms
  <1>8. Verifies(ms, Q.base[l], Q.size[l])
    BY <1>2, <1>7
  <1>9. ms \in SigsOf(Q, Q.size[l]) /\ ms.sig.who \subseteq Online
    BY <1>1, <1>3, <1>4, <1>8 DEF SigsOf, Verifies
  <1>10. sp \in Parsed(q)
    BY <1>1, <1>2, <1>6, <1>9 DEF Parsed, Q
  <1>11. sp \in Valid(q)
    <2>1. verifySignature(Q, sp)
      BY <1>6, <1>8 DEF verifySignature
    <2> QED
      BY <1>10, <2>1 DEF Valid, Q
  <1> QED
    BY <1>1, <1>2, <1>5, <1>11 DEF Fits, msg, sp

\* What is in the sequences a and b is in c.
Joined(a, b, c) == /\ \A i \in DOMAIN a : \E k \in DOMAIN c : c[k] = a[i]
                   /\ \A i \in DOMAIN b : \E k \in DOMAIN c : c[k] = b[i]

\* What is in one of two sequences is in their concatenation.
LEMMA ConcatHas ==
    ASSUME NEW S, NEW a \in Seq(S), NEW b \in Seq(S)
    PROVE  Joined(a, b, a \o b)
  <1> DEFINE c == a \o b
  <1>1. /\ c \in Seq(S) /\ Len(c) = Len(a) + Len(b)
        /\ \A i \in 1 .. Len(a) + Len(b) : c[i] = IF i <= Len(a) THEN a[i] ELSE b[i - Len(a)]
    BY ConcatProperties
  <1>2. /\ DOMAIN a = 1 .. Len(a) /\ DOMAIN b = 1 .. Len(b)
        /\ Len(a) \in Nat /\ Len(b) \in Nat
    OBVIOUS
  <1> HIDE DEF c
  <1>3. DOMAIN c = 1 .. Len(a) + Len(b)
    BY <1>1
  <1>4. ASSUME NEW i \in DOMAIN a PROVE i \in DOMAIN c /\ c[i] = a[i]
    <2>1. i \in 1 .. Len(a) + Len(b) /\ i <= Len(a)
      BY <1>2
    <2> QED
      BY <1>1, <1>3, <2>1
  <1>5. ASSUME NEW i \in DOMAIN b PROVE Len(a) + i \in DOMAIN c /\ c[Len(a) + i] = b[i]
    <2>1. /\ Len(a) + i \in 1 .. Len(a) + Len(b) /\ ~(Len(a) + i <= Len(a))
          /\ (Len(a) + i) - Len(a) = i
      BY <1>2
    <2> QED
      BY <1>1, <1>3, <2>1
  <1> QED
    BY <1>4, <1>5 DEF c, Joined

\* A pass has kept a signature: it is the best so far or goes back to the queue.
Kept(v, x) == v.best = <<x>> \/ \E i \in DOMAIN v.newTodos : v.newTodos[i] = x

\* A pass keeps what it has kept, and a signature with a mark other than 0.
LEMMA ConsiderKeeps ==
    ASSUME NEW part, NEW st, NEW S, NEW v, PassOK(S, v), NEW sp \in S
    PROVE  LET w == consider(part, st, v, sp)
           IN  /\ \A x \in S : Kept(v, x) => Kept(w, x)
               /\ unsafeEvaluate(part, st, sp) # 0 => Kept(w, sp)
  <1> DEFINE mark == unsafeEvaluate(part, st, sp)
             next == [v EXCEPT !.i = @ + 1]
             behind == [next EXCEPT !.newTodos = Append(@, sp)]
             ahead == [next EXCEPT !.newTodos = @ \o v.best, !.best = <<sp>>, !.bestMark = mark]
             w == consider(part, st, v, sp)
  <1>1. /\ next.newTodos = v.newTodos /\ next.best = v.best
        /\ DOMAIN next = {"i", "newTodos", "best", "bestMark"}
        /\ v.newTodos \in Seq(S)
        /\ v.best = <<>> \/ \E x \in S : v.best = <<x>>
    BY DEF PassOK
  <1> HIDE DEF mark, next
  <1>2. w = IF mark = 0 THEN next ELSE IF mark <= v.bestMark THEN behind ELSE ahead
    BY DEF consider, mark, next
  <1>3. /\ behind.newTodos = Append(v.newTodos, sp) /\ behind.best = v.best
        /\ ahead.newTodos = v.newTodos \o v.best /\ ahead.best = <<sp>>
    BY <1>1
  <1> HIDE DEF behind, ahead, w
  <1>4. ASSUME NEW x \in S, Kept(v, x) PROVE Kept(next, x)
    BY <1>1, <1>4 DEF Kept
  <1>5. ASSUME NEW x \in S, Kept(v, x) PROVE Kept(behind, x)
    <2>1. CASE v.best = <<x>>
      BY <1>3, <2>1 DEF Kept
    <2>2. CASE \E i \in DOMAIN v.newTodos : v.newTodos[i] = x
      <3>1. PICK i \in DOMAIN v.newTodos : v.newTodos[i] = x
        BY <2>2
      <3>2. i \in DOMAIN behind.newTodos /\ behind.newTodos[i] = x
        BY <1>1, <1>3, <3>1
      <3> QED
        BY <3>2 DEF Kept
    <2> QED
      BY <1>5, <2>1, <2>2 DEF Kept
  <1>6. Kept(behind, sp)
    <2>1. /\ Len(v.newTodos) + 1 \in DOMAIN behind.newTodos
          /\ behind.newTodos[Len(v.newTodos) + 1] = sp
      BY <1>1, <1>3
    <2> QED
      BY <2>1 DEF Kept
  <1>7. ASSUME NEW x \in S, Kept(v, x) PROVE Kept(ahead, x)
    <2>1. CASE v.best = <<x>>
      <3>1. v.best \in Seq(S) /\ 1 \in DOMAIN v.best /\ v.best[1] = x
        BY <2>1
      <3>2. Joined(v.newTodos, v.best, ahead.newTodos)
        BY <1>1, <1>3, <3>1, ConcatHas
      <3> QED
        BY <3>1, <3>2 DEF Kept, Joined
    <2>2. CASE \E i \in DOMAIN v.newTodos : v.newTodos[i] = x
      <3>1. v.best \in Seq(S)
        <4>1. <<>> \in Seq(S) /\ \A y \in S : <<y>> \in Seq(S)
          OBVIOUS
        <4> QED
          BY <1>1, <4>1
      <3>2. Joined(v.newTodos, v.best, ahead.newTodos)
        BY <1>1, <1>3, <3>1, ConcatHas
      <3> QED
        BY <2>2, <3>2 DEF Kept, Joined
    <2> QED
      BY <1>7, <2>1, <2>2 DEF Kept
  <1>8. Kept(ahead, sp)
    BY <1>3 DEF Kept
  <1>9. (\A x \in S : Kept(v, x) => Kept(w, x)) /\ (mark # 0 => Kept(w, sp))
    BY <1>2, <1>4, <1>5, <1>6, <1>7, <1>8
  <1> QED
    BY <1>9 DEF w, mark

\* readTodos drops a signature only when its mark is 0.
LEMMA ReadTodosKeeps ==
    ASSUME NEW part, NEW st, NEW S, NEW td \in Seq(S), NEW j \in DOMAIN td,
           unsafeEvaluate(part, st, td[j]) # 0
    PROVE  Kept(readTodos(part, st, td), td[j])
  <1> DEFINE g == CHOOSE f : Passes(part, st, td, f)
             T == {i \in Nat : i <= Len(td) => PassOK(S, g[i]) /\ (j <= i => Kept(g[i], td[j]))}
  <1>1. Passes(part, st, td, g)
    BY PassesExist
  <1> HIDE DEF g
  <1>2. \A i \in 0 .. Len(td) :
           g[i] = IF i = 0 THEN NewPass ELSE consider(part, st, g[i - 1], td[i])
    BY <1>1 DEF Passes
  <1>3. /\ Len(td) \in Nat /\ j \in 1 .. Len(td) /\ td[j] \in S
        /\ \A i \in 1 .. Len(td) : td[i] \in S
    OBVIOUS
  <1>4. 0 \in T
    <2>1. PassOK(S, NewPass)
      BY DEF PassOK, NewPass
    <2>2. g[0] = NewPass
      BY <1>2, <1>3
    <2> QED
      BY <1>3, <2>1, <2>2
  <1>5. ASSUME NEW i \in Nat, i \in T PROVE i + 1 \in T
    <2> SUFFICES ASSUME i + 1 <= Len(td)
                 PROVE  PassOK(S, g[i + 1]) /\ (j <= i + 1 => Kept(g[i + 1], td[j]))
      OBVIOUS
    <2>1. i + 1 \in 0 .. Len(td) /\ i + 1 \in 1 .. Len(td) /\ i + 1 # 0 /\ (i + 1) - 1 = i
      BY <1>3
    <2>2. g[i + 1] = consider(part, st, g[i], td[i + 1])
      BY <1>2, <2>1
    <2>3. /\ PassOK(S, g[i]) /\ td[i + 1] \in S
          /\ j <= i => Kept(g[i], td[j])
      BY <1>3, <1>5, <2>1
    <2>4. PassOK(S, g[i + 1])
      BY <2>2, <2>3, ConsiderStep
    <2>5. /\ \A x \in S : Kept(g[i], x) => Kept(g[i + 1], x)
          /\ unsafeEvaluate(part, st, td[i + 1]) # 0 => Kept(g[i + 1], td[i + 1])
      BY <2>2, <2>3, ConsiderKeeps
    <2>6. CASE j = i + 1
      BY <2>4, <2>5, <2>6
    <2>7. CASE j # i + 1
      <3>1. j <= i + 1 => j <= i
        BY <1>3, <2>7
      <3> QED
        BY <1>3, <2>3, <2>4, <2>5, <3>1
    <2> QED
      BY <2>6, <2>7
  <1>6. Len(td) \in T
    <2> HIDE DEF T
    <2>1. Nat \subseteq T
      BY <1>4, <1>5, SetInduction
    <2> QED
      BY <1>3, <2>1
  <1>7. Kept(g[Len(td)], td[j])
    BY <1>3, <1>6
  <1>8. readTodos(part, st, td) = g[Len(td)]
    BY ReadTodosIs DEF g
  <1> QED
    BY <1>7, <1>8

\* The size of a level's best is a number, up to that of the level.
LEMMA SizeIs ==
    ASSUME NEW n \in Online, NEW s, StoreOK(n, s), NEW l \in LevelIds[n]
    PROVE  SizeAt(s, l) \in Nat
  <1> DEFINE P == Part[n]
  <1>1. P.size[l] \in Nat /\ l \in P.levels
    BY PartOf DEF Online
  <1>2. HasBest(s, l) => s.m[l].bits \in SUBSET (0 .. P.size[l] - 1)
    BY DEF StoreOK, Sound, MapsOK, SigsOf, HasBest
  <1> HIDE DEF P
  <1>3. CASE HasBest(s, l)
    <2>1. Cardinality(s.m[l].bits) \in Nat
      BY <1>1, <1>2, <1>3, BitsFinite, Zenon
    <2> QED
      BY <1>3, <2>1 DEF SizeAt, card
  <1>4. CASE ~HasBest(s, l)
    BY <1>4 DEF SizeAt
  <1> QED
    BY <1>3, <1>4

\* So is the size of a valid signature.
LEMMA ValidSize ==
    ASSUME NEW n \in Online, NEW sp \in Valid(n)
    PROVE  card(sp.ms) \in Nat /\ card(sp.ms) <= Part[n].size[sp.level]
  <1> DEFINE k == Part[n].size[sp.level]
  <1>1. k \in Nat
    BY ValidIsGood, PartOf DEF Online
  <1>2. sp.ms.bits \in SUBSET (0 .. k - 1)
    BY DEF Valid, Parsed, SigsOf
  <1> HIDE DEF k
  <1>3. Cardinality(sp.ms.bits) \in Nat /\ Cardinality(sp.ms.bits) <= k
    BY <1>1, <1>2, BitsFinite, Zenon
  <1> QED
    BY <1>3 DEF card, k

\* After a signature is stored its level is at least as large, and no level has
\* become smaller.
LEMMA StoredSize ==
    ASSUME NEW n \in Online, NEW s, StoreOK(n, s), NEW sp \in Valid(n), NEW t, t = Store(s, sp)
    PROVE  /\ SizeAt(t, sp.level) >= card(sp.ms)
           /\ \A l \in LevelIds[n] : SizeAt(t, l) \in Nat /\ SizeAt(t, l) >= SizeAt(s, l)
  <1> DEFINE P == Part[n]
             v == sp.level
             f == Cardinality(Final(s, v, sp))
             k == Cardinality(Current(s, v))
  <1>1. /\ Contract(P) /\ Sound(P, s) /\ n \in Nodes
        /\ Good(P, v, sp) /\ v \in P.levels /\ v \in LevelIds[n] /\ P.size[v] \in Nat
    BY ValidIsGood, PartOf DEF StoreOK, Online
  <1>2. StoreOK(n, t)
    BY StoredOK
  <1>3. \A l \in LevelIds[n] : SizeAt(s, l) \in Nat /\ SizeAt(t, l) \in Nat
    BY <1>2, SizeIs
  <1> HIDE DEF P
  <1>4. /\ f \in Nat /\ k \in Nat /\ SizeAt(s, v) = k
        /\ SizeAt(t, v) = IF f > k THEN f ELSE k
    <2> HIDE DEF v
    <2> QED
      BY <1>1, StoreGrowsByFinal
  <1>5. card(sp.ms) \in Nat /\ card(sp.ms) <= f
    <2>1. /\ Final(s, v, sp) \in SUBSET (0 .. P.size[v] - 1)
      <3> HIDE DEF v
      <3> QED
        BY <1>1, EvaluatedBits
    <2>2. IsFiniteSet(Final(s, v, sp))
      <3> HIDE DEF v
      <3> QED
        BY <1>1, <2>1, BitsFinite, Zenon
    <2>3. sp.ms.bits \in SUBSET Final(s, v, sp)
      BY DEF Final
    <2> HIDE DEF v
    <2>4. Cardinality(sp.ms.bits) <= f
      BY <2>2, <2>3, FS_Subset, Zenon
    <2> QED
      BY <2>4, ValidSize DEF card
  <1> HIDE DEF f, k
  <1>6. SizeAt(t, v) >= card(sp.ms) /\ SizeAt(t, v) >= SizeAt(s, v)
    BY <1>4, <1>5
  <1>7. ASSUME NEW l \in LevelIds[n], l # v PROVE SizeAt(t, l) = SizeAt(s, l)
    <2>1. DOMAIN t.m = DOMAIN s.m \cup {v} /\ \A i \in DOMAIN s.m \ {v} : t.m[i] = s.m[i]
      <3> HIDE DEF v
      <3> QED
        BY <1>1, StoreBits
    <2> QED
      BY <1>7, <2>1 DEF SizeAt, HasBest
  <1> HIDE DEF v
  <1>8. ASSUME NEW l \in LevelIds[n] PROVE SizeAt(t, l) >= SizeAt(s, l)
    <2>1. CASE l = v
      BY <1>6, <2>1
    <2>2. CASE l # v
      BY <1>3, <1>7, <2>2
    <2> QED
      BY <2>1, <2>2
  <1> QED
    BY <1>3, <1>6, <1>8 DEF v

\* The registries for which the constants of unsafeEvaluate leave no score of 0 to
\* a signature that adds to its level.
SmallRegistry == N <= 65536

\* A valid signature has mark 0 only when its level has as much already.
LEMMA MarkZero ==
    ASSUME SmallRegistry, NEW n \in Online, NEW s, StoreOK(n, s), NEW sp \in Valid(n),
           unsafeEvaluate(Part[n], s, sp) = 0
    PROVE  SizeAt(s, sp.level) >= card(sp.ms)
  <1> DEFINE P == Part[n]
             v == sp.level
             t == Store(s, sp)
             c == NewBinPartitioner(n, N)
  <1>1. /\ Contract(P) /\ Sound(P, s) /\ n \in Nodes
        /\ Good(P, v, sp) /\ v \in P.levels /\ v \in LevelIds[n]
    BY ValidIsGood, PartOf DEF StoreOK, Online
  <1>2. ScoresFit(P)
    <2>1. IsPart(c) /\ c.size = N /\ P = Interface(c)
      BY <1>1, HandelAssumption DEF IsPart, Nodes, NewBinPartitioner, Part
    <2>2. c.size <= 65536
      BY <2>1, SMT DEF SmallRegistry
    <2> HIDE DEF c, P
    <2> QED
      BY <2>1, <2>2, RegistriesFit, SMT
  <1>3. /\ SizeAt(s, v) \in Nat /\ SizeAt(t, v) \in Nat /\ card(sp.ms) \in Nat
        /\ SizeAt(t, v) >= card(sp.ms)
    BY <1>1, SizeIs, StoredSize, ValidSize
  <1> HIDE DEF P, v, t, c
  <1>4. ~(0 > 1)
    OBVIOUS
  <1>5. ~(SizeAt(t, v) > SizeAt(s, v))
    BY <1>1, <1>2, <1>4, ScorePredicts DEF P, t
  <1> QED
    BY <1>3, <1>5 DEF v

\* A valid signature is no larger than a complete level.
LEMMA CompleteSize ==
    ASSUME NEW n \in Online, NEW s, NEW sp \in Valid(n), HasAll(n, s, sp.level)
    PROVE  SizeAt(s, sp.level) >= card(sp.ms)
  <1>1. SizeAt(s, sp.level) = Part[n].size[sp.level]
    BY DEF HasAll, SizeAt
  <1>2. Part[n].size[sp.level] \in Nat
    BY ValidIsGood, PartOf DEF Online
  <1> QED
    BY <1>1, <1>2, ValidSize

\* What reaches a node goes on reaching it.
GoesOn(q) ==
    \A l \in LevelIds[q] : \A size \in Nat :
        Reaches(q, l, size, packets, store[q], todos[q], verified[q])
            => Reaches(q, l, size, packets', store'[q], todos'[q], verified'[q])

\* That is all there is to show of a step that sends nothing.
LEMMA GoesOnSuffices ==
    ASSUME DeliveryInv, UNCHANGED sentSize, \A q \in Online : GoesOn(q)
    PROVE  DeliveryInv'
  <1> SUFFICES ASSUME NEW n \in Online, NEW l \in LevelIds[n], NEW q \in PeersAt(n, l) \cap Online
               PROVE  /\ sentSize[n][l][q] \in Nat
                      /\ Reaches(q, l, sentSize[n][l][q], packets', store'[q], todos'[q],
                                 verified'[q])
    BY DEF DeliveryInv
  <1>1. l \in LevelIds[q]
    BY PeerLevel DEF Online
  <1>2. /\ sentSize[n][l][q] \in Nat
        /\ Reaches(q, l, sentSize[n][l][q], packets, store[q], todos[q], verified[q])
    BY DEF DeliveryInv
  <1> QED
    BY <1>1, <1>2 DEF GoesOn

\* A node that the step leaves alone, and whose packets stay.
LEMMA OthersGoOn ==
    ASSUME NEW q, store'[q] = store[q], todos'[q] = todos[q], verified'[q] = verified[q],
           \A p \in packets : p.to = q => p \in packets'
    PROVE  GoesOn(q)
  <1>1. \A l, size : InFlight(packets, q, l, size) => InFlight(packets', q, l, size)
    BY DEF InFlight
  <1> QED
    BY <1>1 DEF GoesOn, Reaches

\* Sending: the peers sent to have a packet on its way, the others keep theirs.
LEMMA SendDelivers ==
    ASSUME HandelInv, DeliveryInv, DOMAIN sentSize = Online, NEW n \in Online,
           NEW lvls, NEW count, DOMAIN count \subseteq LevelIds[n],
           sendUpdates(n, lvls, count), UNCHANGED <<store, todos, verified>>
    PROVE  DeliveryInv'
  <1> DEFINE to == [l \in DOMAIN count |-> nextPeers(lvls[l], count[l])]
             pk == [l \in DOMAIN count |-> packetFor(n, l, lvls[l])]
             sent == [l \in LevelIds[n] |-> [p \in PeersAt(n, l) |->
                        IF l \in DOMAIN count /\ p \in to[l] THEN SendSize(n, store[n], l)
                        ELSE sentSize[n][l][p]]]
  <1>1. /\ packets' = packets \cup
              UNION {{[to |-> p, msg |-> pk[l]] : p \in to[l] \cap Online} : l \in DOMAIN count}
    BY DEF sendUpdates
  <1>2. sentSize' = [sentSize EXCEPT ![n] = sent]
    BY DEF sendUpdates, packetFor, SendSize
  <1>3. sentSize'[n] = sent /\ \A m \in Online \ {n} : sentSize'[m] = sentSize[m]
    <2> HIDE DEF sent
    <2> QED
      BY <1>2
  <1>4. StoreOK(n, store[n])
    BY DEF HandelInv, NodesOK, NodeOK
  <1>5. ASSUME NEW l \in DOMAIN count, NEW q \in PeersAt(n, l) \cap Online, q \in to[l]
        PROVE  /\ SendSize(n, store[n], l) \in Nat
               /\ InFlight(packets', q, l, SendSize(n, store[n], l))
    <2> DEFINE p == [to |-> q, msg |-> pk[l]]
    <2>1. l \in LevelIds[n] /\ SendSize(n, store[n], l) \in Nat
      BY <1>4, SendSizeIs
    <2>2. pk[l] = packetFor(n, l, lvls[l])
      OBVIOUS
    <2>3. Fits(q, pk[l]) /\ pk[l].level = l /\ card(pk[l].ms) = SendSize(n, store[n], l)
      <3>1. Fits(q, pk[l])
        BY <1>4, <2>1, <2>2, SentFits
      <3> QED
        BY <3>1 DEF packetFor, SendSize
    <2> HIDE DEF pk, to
    <2>4. p \in packets'
      BY <1>1, <1>5
    <2>5. p.to = q /\ p.msg = pk[l]
      OBVIOUS
    <2> HIDE DEF p
    <2> QED
      BY <2>1, <2>3, <2>4, <2>5 DEF InFlight
  <1>6. \A q, l, size : InFlight(packets, q, l, size) => InFlight(packets', q, l, size)
    BY <1>1 DEF InFlight
  <1> SUFFICES ASSUME NEW m \in Online, NEW l \in LevelIds[m], NEW q \in PeersAt(m, l) \cap Online
               PROVE  /\ sentSize'[m][l][q] \in Nat
                      /\ Reaches(q, l, sentSize'[m][l][q], packets', store[q], todos[q],
                                 verified[q])
    BY DEF DeliveryInv
  <1>7. /\ sentSize[m][l][q] \in Nat
        /\ Reaches(q, l, sentSize[m][l][q], packets, store[q], todos[q], verified[q])
    BY DEF DeliveryInv
  <1>8. CASE sentSize'[m][l][q] = sentSize[m][l][q]
    BY <1>6, <1>7, <1>8 DEF Reaches
  <1>9. CASE sentSize'[m][l][q] # sentSize[m][l][q]
    <2>1. m = n
      BY <1>3, <1>9
    <2>2. sent[l][q] = IF l \in DOMAIN count /\ q \in to[l] THEN SendSize(n, store[n], l)
                       ELSE sentSize[n][l][q]
      BY <2>1
    <2> HIDE DEF sent, to
    <2>3. l \in DOMAIN count /\ q \in to[l] /\ sentSize'[m][l][q] = SendSize(n, store[n], l)
      BY <1>3, <1>9, <2>1, <2>2
    <2> QED
      BY <1>5, <2>1, <2>3 DEF Reaches
  <1> QED
    BY <1>8, <1>9

\* The queue after Add has what it had, and a multi-signature.
LEMMA EnqueueHas ==
    ASSUME NEW S, NEW td \in Seq(S), NEW sp \in S, NEW sn, NEW new, new = enqueue(sn, td, sp)
    PROVE  /\ new \in Seq(S)
           /\ \A i \in DOMAIN td : \E k \in DOMAIN new : new[k] = td[i]
           /\ ~sp.isInd => \E k \in DOMAIN new : new[k] = sp
  <1>1. /\ Append(td, sp) \in Seq(S)
        /\ \A i \in DOMAIN td : i \in DOMAIN Append(td, sp) /\ Append(td, sp)[i] = td[i]
        /\ Len(td) + 1 \in DOMAIN Append(td, sp) /\ Append(td, sp)[Len(td) + 1] = sp
    OBVIOUS
  <1>2. CASE Accept(sn, sp)
    <2>1. new = Append(td, sp)
      BY <1>2 DEF enqueue
    <2> QED
      BY <1>1, <2>1
  <1>3. CASE ~Accept(sn, sp)
    <2>1. new = td /\ sp.isInd
      BY <1>3 DEF enqueue, Accept
    <2> QED
      BY <2>1
  <1> QED
    BY <1>2, <1>3

\* A message that fits a node is well-formed for it.
LEMMA FitIsWellFormed ==
    ASSUME HandelInv, NEW n \in Online, NEW msg, Fits(n, msg)
    PROVE  WellFormed(n, msg)
  <1> DEFINE sp == parseMultiSig(msg)
             l  == msg.level
  <1>1. l \in LevelIds[n] /\ sp \in Valid(n) /\ sp.level = l /\ sp.ms = msg.ms
    BY DEF Fits, parseMultiSig
  <1> HIDE DEF sp
  <1>2. msg.ms.len = Part[n].size[l] /\ msg.ms.bits # {}
    BY <1>1 DEF Valid, verifySignature, Verifies
  <1>3. Len(levels[n][l].nodes) = Part[n].size[l]
    BY <1>1 DEF HandelInv, NodesOK, NodeOK, LevelOK
  <1> QED
    BY <1>1, <1>2, <1>3 DEF WellFormed, Fits

\* A packet that comes in, for the first time or again: its signature is queued,
\* unless the level is complete.
LEMMA NewPacketDelivers ==
    ASSUME HandelInv, DeliveryInv, NEW n \in Online, NEW p \in packets, p.to = n,
           NewPacket(n, p.msg), \A o \in packets : o # p => o \in packets',
           UNCHANGED <<store, levels, verified, sentSize>>
    PROVE  DeliveryInv'
  <1> DEFINE msg == p.msg
             td  == todos[n]
             new == todos'[n]
             good == WellFormed(n, msg) /\ ~levels[n][msg.level].rcvCompleted
  <1>1. PacketOK(msg) /\ td \in Seq(Parsed(n)) /\ DOMAIN todos = Online
    BY DEF HandelInv, PacketsOK, NodesOK, NodeOK, Domains
  <1>2. /\ \A m \in Online \ {n} : todos'[m] = todos[m]
        /\ \A i \in DOMAIN td : \E k \in DOMAIN new : new[k] = td[i]
        /\ good => \E k \in DOMAIN new : new[k] = parseMultiSig(msg)
    <2>1. CASE good
      <3> DEFINE multi == enqueue(seen[n], td, parseMultiSig(msg))
                 ind   == parseIndividualSig(n, msg)
                 both  == enqueue(seen[n], multi, ind)
      <3>1. parseMultiSig(msg) \in Parsed(n) /\ (msg.ind # <<>> => ind \in Parsed(n))
        BY <1>1, <2>1, ParsedOK
      <3>2. ~parseMultiSig(msg).isInd
        BY DEF parseMultiSig
      <3>3. /\ multi \in Seq(Parsed(n))
            /\ \A i \in DOMAIN td : \E k \in DOMAIN multi : multi[k] = td[i]
            /\ \E k \in DOMAIN multi : multi[k] = parseMultiSig(msg)
        <4> DEFINE sp == parseMultiSig(msg)
        <4> HIDE DEF sp, multi, td
        <4>1. multi = enqueue(seen[n], td, sp) /\ sp \in Parsed(n) /\ ~sp.isInd
          BY <3>1, <3>2, Zenon DEF multi, sp
        <4>2. /\ multi \in Seq(Parsed(n))
              /\ \A i \in DOMAIN td : \E k \in DOMAIN multi : multi[k] = td[i]
              /\ \E k \in DOMAIN multi : multi[k] = sp
          BY <1>1, <4>1, EnqueueHas
        <4> QED
          BY <4>2 DEF sp
      <3> HIDE DEF multi, ind, both
      <3>4. ASSUME msg.ind # <<>>
            PROVE  \A i \in DOMAIN multi : \E k \in DOMAIN both : both[k] = multi[i]
        <4>1. both = enqueue(seen[n], multi, ind) /\ ind \in Parsed(n)
          BY <3>1, <3>4, Zenon DEF both
        <4> QED
          BY <3>3, <4>1, EnqueueHas
      <3>5. todos' = [todos EXCEPT ![n] = IF msg.ind = <<>> THEN multi ELSE both]
        BY <2>1 DEF NewPacket, multi, ind, both
      <3>6. new = IF msg.ind = <<>> THEN multi ELSE both
        BY <1>1, <3>5
      <3>7. \A m \in Online \ {n} : todos'[m] = todos[m]
        BY <1>1, <3>5
      <3> HIDE DEF new, td
      <3>8. \A i \in DOMAIN multi : \E k \in DOMAIN new : new[k] = multi[i]
        BY <3>4, <3>6
      <3> QED
        BY <3>3, <3>7, <3>8
    <2>2. CASE ~good
      <3>1. todos' = todos
        BY <2>2 DEF NewPacket
      <3> QED
        BY <2>2, <3>1
    <2> QED
      BY <2>1, <2>2
  <1>3. \A q \in Online \ {n} : GoesOn(q)
    BY <1>2, OthersGoOn
  <1>4. GoesOn(n)
    <2> SUFFICES ASSUME NEW l \in LevelIds[n], NEW size \in Nat,
                        Reaches(n, l, size, packets, store[n], td, verified[n])
                 PROVE  Reaches(n, l, size, packets', store[n], new, verified[n])
      BY DEF GoesOn
    <2> HIDE DEF td, new
    <2>1. CASE Queued(n, store[n], td, verified[n], l, size)
      BY <1>2, <2>1 DEF Queued, Reaches
    <2>2. CASE InFlight(packets, n, l, size)
      <3>1. PICK o \in packets : /\ o.to = n /\ o.msg.level = l /\ Fits(n, o.msg)
                                 /\ card(o.msg.ms) >= size
        BY <2>2 DEF InFlight
      <3>2. CASE o # p
        BY <3>1, <3>2 DEF InFlight, Reaches
      <3>3. CASE o = p
        <4> DEFINE sp == parseMultiSig(msg)
        <4>1. Fits(n, msg) /\ msg.level = l /\ card(msg.ms) >= size
          BY <3>1, <3>3
        <4>2. sp \in Valid(n) /\ sp.level = l /\ sp.ms = msg.ms
          BY <4>1 DEF Fits, parseMultiSig
        <4>3. WellFormed(n, msg)
          BY <4>1, FitIsWellFormed
        <4> HIDE DEF sp
        <4>4. CASE good
          BY <1>2, <4>1, <4>2, <4>4 DEF Queued, Reaches, sp
        <4>5. CASE ~good
          <5>1. levels[n][l].rcvCompleted
            BY <4>1, <4>3, <4>5
          <5>2. HasAll(n, store[n], l)
            BY <5>1 DEF HandelInv, NodesOK, NodeOK, CompleteOK
          <5>3. SizeAt(store[n], l) >= card(msg.ms)
            BY <4>2, <5>2, CompleteSize
          <5>4. SizeAt(store[n], l) \in Nat /\ card(msg.ms) \in Nat
            BY <4>2, SizeIs, ValidSize DEF HandelInv, NodesOK, NodeOK
          <5>5. SizeAt(store[n], l) >= size
            BY <4>1, <5>3, <5>4
          <5> QED
            BY <5>5 DEF Queued, Reaches
        <4> QED
          BY <4>4, <4>5
      <3> QED
        BY <3>2, <3>3
    <2> QED
      BY <2>1, <2>2 DEF Reaches
  <1> QED
    BY <1>3, <1>4, GoesOnSuffices

\* A pass over the queue drops what the store surpasses and sends to the channel
\* the one it verifies.
LEMMA ProcessStepDelivers ==
    ASSUME SmallRegistry, HandelInv, DeliveryInv, NEW n \in Online, processStep(n)
    PROVE  DeliveryInv'
  <1> DEFINE r   == readTodos(Part[n], store[n], todos[n])
             td  == todos[n]
             vd  == verified[n]
             new == todos'[n]
             ver == verified'[n]
  <1>1. /\ td \in Seq(Parsed(n)) /\ vd \in Seq(Valid(n)) /\ StoreOK(n, store[n]) /\ Domains
    BY DEF HandelInv, NodesOK, NodeOK
  <1>2. PassOK(Parsed(n), r)
    BY <1>1, ReadTodos
  <1>3. \A j \in DOMAIN td : unsafeEvaluate(Part[n], store[n], td[j]) # 0 => Kept(r, td[j])
    BY <1>1, ReadTodosKeeps
  <1> HIDE DEF r
  <1>4. /\ todos' = [todos EXCEPT ![n] = r.newTodos]
        /\ verified' = IF r.best # <<>> /\ verifySignature(Part[n], r.best[1])
                       THEN [verified EXCEPT ![n] = @ \o r.best] ELSE verified
        /\ UNCHANGED <<store, packets, sentSize>>
    BY DEF processStep, r
  <1>5. /\ new = r.newTodos /\ \A m \in Online \ {n} : todos'[m] = todos[m]
        /\ \A m \in Online \ {n} : verified'[m] = verified[m]
    BY <1>1, <1>4 DEF Domains
  <1>6. /\ \A i \in DOMAIN vd : \E k \in DOMAIN ver : ver[k] = vd[i]
        /\ \A sp \in Valid(n) : r.best = <<sp>> => \E k \in DOMAIN ver : ver[k] = sp
    <2>1. CASE r.best # <<>> /\ verifySignature(Part[n], r.best[1])
      <3>1. PICK sp \in Parsed(n) : r.best = <<sp>>
        BY <1>2, <2>1 DEF PassOK
      <3>2. sp \in Valid(n) /\ <<sp>> \in Seq(Valid(n)) /\ 1 \in DOMAIN <<sp>> /\ <<sp>>[1] = sp
        BY <2>1, <3>1 DEF Valid
      <3>3. ver = vd \o <<sp>>
        BY <1>1, <1>4, <2>1, <3>1 DEF Domains
      <3>4. Joined(vd, <<sp>>, ver)
        BY <1>1, <3>2, <3>3, ConcatHas
      <3>5. \A x : r.best = <<x>> => x = sp
        BY <3>1
      <3> HIDE DEF ver, vd
      <3> QED
        BY <3>2, <3>4, <3>5 DEF Joined
    <2>2. CASE ~(r.best # <<>> /\ verifySignature(Part[n], r.best[1]))
      <3>1. ver = vd
        BY <1>4, <2>2
      <3>2. ASSUME NEW sp \in Valid(n), r.best = <<sp>> PROVE FALSE
        <4>1. r.best # <<>> /\ r.best[1] = sp
          BY <3>2
        <4> QED
          BY <2>2, <4>1 DEF Valid
      <3> QED
        BY <3>1, <3>2
    <2> QED
      BY <2>1, <2>2
  <1>7. \A q \in Online \ {n} : GoesOn(q)
    BY <1>4, <1>5, OthersGoOn
  <1>8. GoesOn(n)
    <2> SUFFICES ASSUME NEW l \in LevelIds[n], NEW size \in Nat,
                        Reaches(n, l, size, packets, store[n], td, vd)
                 PROVE  Reaches(n, l, size, packets, store[n], new, ver)
      BY <1>4 DEF GoesOn
    <2> HIDE DEF td, new, vd, ver
    <2>1. CASE InFlight(packets, n, l, size) \/ SizeAt(store[n], l) >= size
      BY <2>1 DEF Reaches, Queued
    <2>2. CASE \E i \in DOMAIN vd : vd[i].level = l /\ card(vd[i].ms) >= size
      BY <1>6, <2>2 DEF Reaches, Queued
    <2>3. CASE \E i \in DOMAIN td : td[i] \in Valid(n) /\ td[i].level = l /\ card(td[i].ms) >= size
      <3>1. PICK i \in DOMAIN td :
               td[i] \in Valid(n) /\ td[i].level = l /\ card(td[i].ms) >= size
        BY <2>3
      <3> DEFINE sp == td[i]
      <3> HIDE DEF sp
      <3>2. sp \in Valid(n) /\ sp.level = l /\ card(sp.ms) >= size
        BY <3>1 DEF sp
      <3>3. CASE unsafeEvaluate(Part[n], store[n], sp) = 0
        <4>1. SizeAt(store[n], l) >= card(sp.ms)
          BY <1>1, <3>2, <3>3, MarkZero
        <4>2. SizeAt(store[n], l) \in Nat /\ card(sp.ms) \in Nat
          BY <1>1, <3>2, SizeIs, ValidSize
        <4>3. SizeAt(store[n], l) >= size
          BY <3>2, <4>1, <4>2
        <4> QED
          BY <4>3 DEF Queued, Reaches
      <3>4. CASE unsafeEvaluate(Part[n], store[n], sp) # 0
        <4>1. Kept(r, sp)
          BY <1>3, <3>1, <3>4 DEF sp
        <4>2. CASE r.best = <<sp>>
          BY <1>6, <3>2, <4>2 DEF Reaches, Queued
        <4>3. CASE \E k \in DOMAIN new : new[k] = sp
          BY <3>2, <4>3 DEF Reaches, Queued
        <4> QED
          BY <1>5, <4>1, <4>2, <4>3 DEF Kept
      <3> QED
        BY <3>3, <3>4
    <2> QED
      BY <2>1, <2>2, <2>3 DEF Reaches, Queued
  <1>9. UNCHANGED sentSize
    BY <1>4
  <1> QED
    BY <1>7, <1>8, <1>9, GoesOnSuffices

\* What leaves the channel goes to the store.
LEMMA StoreVerifiedDelivers ==
    ASSUME HandelInv, DeliveryInv, NEW n \in Online, StoreVerified(n) PROVE DeliveryInv'
  <1> DEFINE s  == store[n]
             vd == verified[n]
             sp == Head(vd)
             t  == Store(s, sp)
  <1>1. vd \in Seq(Valid(n)) /\ StoreOK(n, s) /\ Domains
    BY DEF HandelInv, NodesOK, NodeOK
  <1>2. /\ vd # <<>>
        /\ verified' = [verified EXCEPT ![n] = Tail(@)]
        /\ store' = [store EXCEPT ![n] = t]
        /\ UNCHANGED <<todos, packets, sentSize>>
    BY DEF StoreVerified
  <1>3. /\ verified'[n] = Tail(vd) /\ store'[n] = t
        /\ \A m \in Online \ {n} : verified'[m] = verified[m] /\ store'[m] = store[m]
    BY <1>1, <1>2 DEF Domains
  <1>4. /\ sp \in Valid(n)
        /\ \A i \in DOMAIN vd : vd[i] = sp \/ \E k \in DOMAIN Tail(vd) : Tail(vd)[k] = vd[i]
    <2>1. sp \in Valid(n) /\ sp = vd[1]
      BY <1>1, <1>2
    <2>2. ASSUME NEW i \in DOMAIN vd, i # 1
          PROVE  i - 1 \in DOMAIN Tail(vd) /\ Tail(vd)[i - 1] = vd[i]
      BY <1>1, <1>2, <2>2
    <2> HIDE DEF vd, sp
    <2> QED
      BY <2>1, <2>2
  <1> HIDE DEF s, vd, sp, t
  <1>5. /\ SizeAt(t, sp.level) >= card(sp.ms)
        /\ \A l \in LevelIds[n] : SizeAt(t, l) \in Nat /\ SizeAt(t, l) >= SizeAt(s, l)
    BY <1>1, <1>4, StoredSize DEF t
  <1>6. \A q \in Online \ {n} : GoesOn(q)
    BY <1>2, <1>3, OthersGoOn
  <1>7. GoesOn(n)
    <2> SUFFICES ASSUME NEW l \in LevelIds[n], NEW size \in Nat,
                        Reaches(n, l, size, packets, s, todos[n], vd)
                 PROVE  Reaches(n, l, size, packets, t, todos[n], Tail(vd))
      BY <1>2, <1>3 DEF GoesOn, s, vd
    <2>1. CASE InFlight(packets, n, l, size)
      BY <2>1 DEF Reaches
    <2>2. CASE \E i \in DOMAIN todos[n] : /\ todos[n][i] \in Valid(n) /\ todos[n][i].level = l
                                          /\ card(todos[n][i].ms) >= size
      BY <2>2 DEF Reaches, Queued
    <2>3. CASE SizeAt(s, l) >= size
      <3>1. SizeAt(t, l) \in Nat /\ SizeAt(s, l) \in Nat /\ SizeAt(t, l) >= SizeAt(s, l)
        BY <1>1, <1>5, SizeIs
      <3>2. SizeAt(t, l) >= size
        BY <2>3, <3>1
      <3> QED
        BY <3>2 DEF Reaches, Queued
    <2>4. CASE \E i \in DOMAIN vd : vd[i].level = l /\ card(vd[i].ms) >= size
      <3>1. PICK i \in DOMAIN vd : vd[i].level = l /\ card(vd[i].ms) >= size
        BY <2>4
      <3>2. CASE vd[i] = sp
        <4>1. /\ SizeAt(t, l) >= card(sp.ms) /\ SizeAt(t, l) \in Nat /\ card(sp.ms) \in Nat
              /\ card(sp.ms) >= size
          BY <1>4, <1>5, <3>1, <3>2, ValidSize
        <4>2. SizeAt(t, l) >= size
          BY <4>1
        <4> QED
          BY <4>2 DEF Reaches, Queued
      <3>3. CASE \E k \in DOMAIN Tail(vd) : Tail(vd)[k] = vd[i]
        BY <3>1, <3>3 DEF Reaches, Queued
      <3> QED
        BY <1>4, <3>2, <3>3
    <2> QED
      BY <2>1, <2>2, <2>3, <2>4 DEF Reaches, Queued
  <1>8. UNCHANGED sentSize
    BY <1>2
  <1> QED
    BY <1>6, <1>7, <1>8, GoesOnSuffices

\* The steps of a network that loses nothing; a packet may come twice.
LosslessNext == Next \/ \E n \in Online : Duplicate(n)

\* Every such step keeps what was sent reaching its peer.
LEMMA NextDeliveryInv ==
    ASSUME SmallRegistry
    PROVE  HandelInv /\ ContactInv /\ DeliveryInv /\ [LosslessNext]_vars => DeliveryInv'
  <1> SUFFICES ASSUME HandelInv, ContactInv, DeliveryInv, [LosslessNext]_vars PROVE DeliveryInv'
    OBVIOUS
  <1>1. DOMAIN sentSize = Online
    BY DEF ContactInv
  <1>2. UNCHANGED <<store, todos, verified, packets, sentSize>> => DeliveryInv'
    BY DEF DeliveryInv
  <1>3. ASSUME NEW n \in Online, periodicUpdate(n) PROVE DeliveryInv'
    <2> DEFINE count == [l \in {l \in LevelIds[n] : active(levels[n][l])} |-> UpdateCount]
    <2>1. sendUpdates(n, levels[n], count) /\ UNCHANGED <<store, todos, verified>>
      BY <1>3 DEF periodicUpdate
    <2>2. DOMAIN count \subseteq LevelIds[n]
      OBVIOUS
    <2> HIDE DEF count
    <2> QED
      BY <1>1, <2>1, <2>2, SendDelivers
  <1>4. ASSUME NEW n \in Online, StartLevel(n) PROVE DeliveryInv'
    <2>1. UNCHANGED <<store, todos, verified>>
      BY <1>4 DEF StartLevel
    <2>2. PICK l \in LevelIds[n] :
             \/ UNCHANGED <<packets, sentSize>>
             \/ sendUpdates(n, [levels[n] EXCEPT ![l] = setStarted(@)], [k \in {l} |-> UpdateCount])
      BY <1>4 DEF StartLevel
    <2> DEFINE lvls  == [levels[n] EXCEPT ![l] = setStarted(@)]
               count == [k \in {l} |-> UpdateCount]
    <2>3. DOMAIN count \subseteq LevelIds[n]
      OBVIOUS
    <2> HIDE DEF lvls, count
    <2>4. UNCHANGED <<packets, sentSize>> \/ sendUpdates(n, lvls, count)
      BY <2>2 DEF lvls, count
    <2> QED
      BY <1>1, <1>2, <2>1, <2>3, <2>4, SendDelivers
  <1>5. ASSUME NEW n \in Online, OnVerifiedSignature(n) PROVE DeliveryInv'
    <2>1. UNCHANGED <<store, todos, verified>> /\ checkCompletedLevel(n, current[n][1])
      BY <1>5 DEF OnVerifiedSignature
    <2>2. \/ UNCHANGED <<packets, sentSize>>
          \/ \E lvls, count : DOMAIN count \subseteq LevelIds[n] /\ sendUpdates(n, lvls, count)
      <3> DEFINE v == current[n][1].level
                 done == complete(levels[n][v], card(store[n].m[v]))
                 rcvd == IF done THEN [levels[n] EXCEPT ![v].rcvCompleted = TRUE] ELSE levels[n]
                 size(l) == card(Combined(Part[n], store[n], l - 1))
                 above == {l \in LevelIds[n] : l > v}
                 lvls  == [l \in LevelIds[n] |-> IF l \in above
                                                 THEN updateSigToSend(rcvd[l], size(l)) ELSE rcvd[l]]
                 count == [l \in {l \in above : sendsAtOnce(rcvd[l], size(l))} |-> FastPath]
      <3>1. UNCHANGED <<packets, sentSize>> \/ sendUpdates(n, lvls, count)
        BY <2>1 DEF checkCompletedLevel
      <3>2. DOMAIN count \subseteq LevelIds[n]
        OBVIOUS
      <3> HIDE DEF lvls, count
      <3> QED
        BY <3>1, <3>2, ZenonT(30)
    <2> QED
      BY <1>1, <1>2, <2>1, <2>2, SendDelivers
  <1>6. ASSUME NEW n \in Online, Deliver(n) PROVE DeliveryInv'
    <2>1. PICK p \in packets : p.to = n /\ packets' = packets \ {p} /\ NewPacket(n, p.msg)
      BY <1>6 DEF Deliver
    <2>2. UNCHANGED <<store, levels, verified, sentSize>>
      BY <1>6 DEF Deliver
    <2> QED
      BY <2>1, <2>2, NewPacketDelivers
  <1>7. ASSUME NEW n \in Online, Duplicate(n) PROVE DeliveryInv'
    <2>1. PICK p \in packets : p.to = n /\ NewPacket(n, p.msg)
      BY <1>7 DEF Duplicate
    <2>2. UNCHANGED <<store, levels, verified, packets, sentSize>>
      BY <1>7 DEF Duplicate
    <2> QED
      BY <2>1, <2>2, NewPacketDelivers
  <1>8. UNCHANGED vars => UNCHANGED <<store, todos, verified, packets, sentSize>>
    BY DEF vars
  <1> QED
    BY <1>2, <1>3, <1>4, <1>5, <1>6, <1>7, <1>8, ProcessStepDelivers, StoreVerifiedDelivers
       DEF LosslessNext, Next, Step

\* At the start nothing was sent.
LEMMA InitDeliveryInv == Init => DeliveryInv
  <1> SUFFICES ASSUME Init, NEW n \in Online, NEW l \in LevelIds[n],
                      NEW q \in PeersAt(n, l) \cap Online
               PROVE  /\ sentSize[n][l][q] \in Nat
                      /\ Reaches(q, l, sentSize[n][l][q], packets, store[q], todos[q], verified[q])
    BY DEF DeliveryInv
  <1>1. sentSize[n][l][q] = 0
    BY DEF Init
  <1>2. l \in LevelIds[q]
    BY PeerLevel DEF Online
  <1>3. SizeAt(store[q], l) \in Nat
    BY <1>2, InitHandelInv, SizeIs DEF HandelInv, NodesOK, NodeOK
  <1>4. SizeAt(store[q], l) >= 0
    BY <1>3
  <1> QED
    BY <1>1, <1>4 DEF Reaches, Queued

-----------------------------------------------------------------------------
(* The levels that the timeout has started *)

\* How many levels come before a level.
Rank(n, l) == Cardinality({k \in LevelIds[n] : k < l})

\* The first levels, as many as the timeout has turned to, are started.
StartedInv ==
    /\ DOMAIN timeout = Online
    /\ \A n \in Online :
          /\ timeout[n] \in Nat
          /\ \A l \in LevelIds[n] : Rank(n, l) < timeout[n] => levels[n][l].sendStarted

\* No two levels have the same rank, and all have one below their number.
LEMMA Ranks ==
    ASSUME NEW n \in Nodes, NEW l \in LevelIds[n]
    PROVE  /\ Rank(n, l) \in Nat /\ Cardinality(LevelIds[n]) \in Nat
           /\ Rank(n, l) < Cardinality(LevelIds[n])
           /\ \A k \in LevelIds[n] : Rank(n, k) = Rank(n, l) => k = l
  <1> DEFINE S    == LevelIds[n]
             B(x) == {k \in S : k < x}
  <1>1. /\ \A x \in S : x \in Nat
        /\ Part[n].max \in Nat /\ \A x \in S : x <= Part[n].max
    <2>1. Contract(Part[n]) /\ S = Part[n].levels \ {0}
      BY PartOf
    <2> HIDE DEF S
    <2> QED
      BY <2>1 DEF Contract
  <1> HIDE DEF S
  <1>2. IsFiniteSet(S) /\ Cardinality(S) \in Nat
    <2>1. S \in SUBSET Nat
      BY <1>1
    <2>2. IsFiniteSet(S)
      BY <1>1, <2>1, FS_BoundedSetOfNaturals
    <2> QED
      BY <2>2, FS_CardinalityType
  <1>3. ASSUME NEW A \in SUBSET S, NEW x \in A
        PROVE  /\ Cardinality(B(x)) \in Nat /\ Cardinality(A) \in Nat
               /\ B(x) \subseteq A => Cardinality(B(x)) < Cardinality(A)
    <2>1. IsFiniteSet(A) /\ IsFiniteSet(B(x))
      BY <1>2, <1>3, FS_Subset
    <2>2. Cardinality(A) \in Nat /\ Cardinality(B(x)) \in Nat
      BY <2>1, FS_CardinalityType
    <2>3. x \notin B(x)
      BY <1>1
    <2>4. ASSUME B(x) \subseteq A PROVE Cardinality(B(x)) < Cardinality(A)
      <3> DEFINE b == B(x)
      <3>1. b \in SUBSET A /\ A # b
        BY <2>3, <2>4
      <3> HIDE DEF b
      <3>2. Cardinality(b) <= Cardinality(A) /\ Cardinality(b) # Cardinality(A)
        BY <2>1, <3>1, FS_Subset
      <3> QED
        BY <2>2, <3>2 DEF b
    <2> QED
      BY <2>2, <2>4
  <1>4. l \in S /\ S \in SUBSET S
    BY DEF S
  <1>5. Cardinality(B(l)) \in Nat /\ Cardinality(B(l)) < Cardinality(S)
    <2>1. B(l) \subseteq S
      OBVIOUS
    <2> QED
      BY <1>3, <1>4, <2>1
  <1>6. ASSUME NEW x \in S, NEW y \in S, x < y PROVE Cardinality(B(x)) # Cardinality(B(y))
    <2>1. x \in B(y) /\ B(y) \in SUBSET S
      BY <1>6
    <2>2. B(x) \subseteq B(y)
      BY <1>1, <1>6
    <2>3. /\ Cardinality(B(x)) \in Nat /\ Cardinality(B(y)) \in Nat
          /\ Cardinality(B(x)) < Cardinality(B(y))
      BY <1>3, <2>1, <2>2
    <2> QED
      BY <2>3
  <1>7. ASSUME NEW k \in S, Cardinality(B(k)) = Cardinality(B(l)) PROVE k = l
    <2>1. ~(k < l) /\ ~(l < k)
      BY <1>4, <1>6, <1>7
    <2>2. k \in Nat /\ l \in Nat
      BY <1>1, <1>4
    <2> QED
      BY <2>1, <2>2
  <1>8. \A x : Rank(n, x) = Cardinality(B(x))
    BY DEF Rank, S
  <1> HIDE DEF B
  <1> QED
    BY <1>2, <1>5, <1>7, <1>8 DEF S

\* A started level stays started.
StaysStarted(n, old, new) ==
    \A l \in LevelIds[n] : old[l].sendStarted => new[l].sendStarted

\* The operations on a level never undo the start.
LEMMA OperationsKeepStart ==
    ASSUME NEW n, NEW l, NEW lvl, LevelOK(n, l, lvl)
    PROVE  /\ setStarted(lvl).sendStarted
           /\ \A count : selectNextPeers(lvl, count).sendStarted = lvl.sendStarted
           /\ \A size : lvl.sendStarted => updateSigToSend(lvl, size).sendStarted
           /\ [lvl EXCEPT !.rcvCompleted = TRUE].sendStarted = lvl.sendStarted
  BY DEF LevelOK, setStarted, selectNextPeers, updateSigToSend

\* Sending keeps the levels started.
LEMMA SendKeepsStart ==
    ASSUME DOMAIN levels = Online, NEW n \in Online,
           NEW lvls, \A l \in LevelIds[n] : LevelOK(n, l, lvls[l]),
           NEW count, sendUpdates(n, lvls, count)
    PROVE  /\ StaysStarted(n, lvls, levels'[n])
           /\ \A m \in Online \ {n} : levels'[m] = levels[m]
  <1> DEFINE new == [l \in LevelIds[n] |-> IF l \in DOMAIN count
                                           THEN selectNextPeers(lvls[l], count[l]) ELSE lvls[l]]
  <1>1. levels' = [levels EXCEPT ![n] = new]
    BY DEF sendUpdates
  <1>2. StaysStarted(n, lvls, new)
    BY OperationsKeepStart DEF StaysStarted
  <1> HIDE DEF new
  <1> QED
    BY <1>1, <1>2

\* So do the actors.
LEMMA ActorsKeepStart ==
    ASSUME HandelInv, NEW n \in Online, OnVerifiedSignature(n)
    PROVE  /\ StaysStarted(n, levels[n], levels'[n])
           /\ \A m \in Online \ {n} : levels'[m] = levels[m]
  <1>1. /\ current[n] # <<>> /\ checkCompletedLevel(n, current[n][1])
        /\ DOMAIN levels = Online /\ DOMAIN levels[n] = LevelIds[n]
        /\ \A l \in LevelIds[n] : LevelOK(n, l, levels[n][l])
    BY DEF OnVerifiedSignature, HandelInv, NodesOK, NodeOK, Domains
  <1> DEFINE v == current[n][1].level
             done == complete(levels[n][v], card(store[n].m[v]))
             rcvd == IF done THEN [levels[n] EXCEPT ![v].rcvCompleted = TRUE] ELSE levels[n]
             size(l) == card(Combined(Part[n], store[n], l - 1))
             above == {l \in LevelIds[n] : l > v}
             lvls  == [l \in LevelIds[n] |-> IF l \in above THEN updateSigToSend(rcvd[l], size(l))
                                             ELSE rcvd[l]]
             count == [l \in {l \in above : sendsAtOnce(rcvd[l], size(l))} |-> FastPath]
  <1>2. CASE levels[n][v].rcvCompleted
    <2>1. levels' = levels
      BY <1>1, <1>2 DEF checkCompletedLevel
    <2> QED
      BY <2>1 DEF StaysStarted
  <1>3. CASE ~levels[n][v].rcvCompleted
    <2>1. sendUpdates(n, lvls, count)
      BY <1>1, <1>3 DEF checkCompletedLevel
    <2>2. ASSUME NEW l \in LevelIds[n]
          PROVE  LevelOK(n, l, rcvd[l]) /\ rcvd[l].sendStarted = levels[n][l].sendStarted
      <3> HIDE DEF done
      <3>1. CASE ~done \/ l # v
        BY <1>1, <3>1
      <3>2. CASE done /\ l = v
        <4>1. rcvd[l] = [levels[n][l] EXCEPT !.rcvCompleted = TRUE] /\ LevelOK(n, l, levels[n][l])
          BY <1>1, <3>2
        <4> HIDE DEF rcvd
        <4> QED
          BY <4>1 DEF LevelOK
      <3> QED
        BY <3>1, <3>2
    <2> HIDE DEF rcvd, size, above
    <2>3. ASSUME NEW l \in LevelIds[n]
          PROVE  LevelOK(n, l, lvls[l]) /\ (levels[n][l].sendStarted => lvls[l].sendStarted)
      <3>1. CASE l \in above
        <4>1. lvls[l] = updateSigToSend(rcvd[l], size(l))
          BY <3>1
        <4> HIDE DEF lvls
        <4> QED
          BY <2>2, <4>1, UpdateOK, OperationsKeepStart
      <3>2. CASE l \notin above
        <4>1. lvls[l] = rcvd[l]
          BY <3>2
        <4> HIDE DEF lvls
        <4> QED
          BY <2>2, <4>1
      <3> QED
        BY <3>1, <3>2
    <2> HIDE DEF lvls, count
    <2>4. /\ StaysStarted(n, lvls, levels'[n])
          /\ \A m \in Online \ {n} : levels'[m] = levels[m]
      BY <1>1, <2>1, <2>3, SendKeepsStart
    <2> QED
      BY <2>3, <2>4, ZenonT(30) DEF StaysStarted
  <1> QED
    BY <1>2, <1>3

\* Every step keeps the levels started and the timeout in step with them.
LEMMA NextStartedInv == HandelInv /\ StartedInv /\ [AnyNext]_vars => StartedInv'
  <1> SUFFICES ASSUME HandelInv, StartedInv, [AnyNext]_vars PROVE StartedInv'
    OBVIOUS
  <1>1. /\ DOMAIN levels = Online
        /\ \A n \in Online : /\ DOMAIN levels[n] = LevelIds[n]
                             /\ \A l \in LevelIds[n] : LevelOK(n, l, levels[n][l])
    BY DEF HandelInv, NodesOK, NodeOK, Domains
  <1>2. UNCHANGED <<levels, timeout>> => StartedInv'
    BY DEF StartedInv
  <1>3. ASSUME NEW n \in Online, UNCHANGED timeout, StaysStarted(n, levels[n], levels'[n]),
               \A m \in Online \ {n} : levels'[m] = levels[m]
        PROVE  StartedInv'
    <2> SUFFICES ASSUME NEW m \in Online, NEW l \in LevelIds[m], Rank(m, l) < timeout[m]
                 PROVE  levels'[m][l].sendStarted
      BY <1>3 DEF StartedInv
    <2>1. levels[m][l].sendStarted
      BY DEF StartedInv
    <2> QED
      BY <1>3, <2>1 DEF StaysStarted
  <1>4. ASSUME NEW n \in Online, periodicUpdate(n) PROVE StartedInv'
    <2> DEFINE count == [l \in {l \in LevelIds[n] : active(levels[n][l])} |-> UpdateCount]
    <2>1. sendUpdates(n, levels[n], count) /\ UNCHANGED timeout
      BY <1>4 DEF periodicUpdate
    <2> HIDE DEF count
    <2>2. /\ StaysStarted(n, levels[n], levels'[n])
          /\ \A m \in Online \ {n} : levels'[m] = levels[m]
      BY <1>1, <2>1, SendKeepsStart
    <2> QED
      BY <1>3, <2>1, <2>2
  <1>5. ASSUME NEW n \in Online, StartLevel(n) PROVE StartedInv'
    <2>1. /\ timeout' = [timeout EXCEPT ![n] = @ + 1] /\ DOMAIN timeout = Online
          /\ timeout[n] \in Nat
      BY <1>5 DEF StartLevel, StartedInv
    <2>2. PICK l \in LevelIds[n] :
             /\ Rank(n, l) = timeout[n]
             /\ IF levels[n][l].sendStarted
                THEN UNCHANGED <<levels, packets, sentSize>>
                ELSE sendUpdates(n, [levels[n] EXCEPT ![l] = setStarted(@)],
                                 [k \in {l} |-> UpdateCount])
      BY <1>5 DEF StartLevel, Rank
    <2>3. /\ StaysStarted(n, levels[n], levels'[n]) /\ levels'[n][l].sendStarted
          /\ \A m \in Online \ {n} : levels'[m] = levels[m]
      <3>1. CASE levels[n][l].sendStarted
        <4>1. levels' = levels
          BY <2>2, <3>1
        <4> QED
          BY <3>1, <4>1 DEF StaysStarted
      <3>2. CASE ~levels[n][l].sendStarted
        <4> DEFINE lvls  == [levels[n] EXCEPT ![l] = setStarted(@)]
                   count == [k \in {l} |-> UpdateCount]
        <4>1. sendUpdates(n, lvls, count)
          BY <2>2, <3>2
        <4>2. ASSUME NEW k \in LevelIds[n]
              PROVE  /\ LevelOK(n, k, lvls[k])
                     /\ levels[n][k].sendStarted => lvls[k].sendStarted
                     /\ k = l => lvls[k].sendStarted
          <5>1. CASE k = l
            <6>1. lvls[k] = setStarted(levels[n][k]) /\ LevelOK(n, k, levels[n][k])
              BY <1>1, <5>1
            <6> HIDE DEF lvls
            <6> QED
              BY <6>1, SetStartedOK, OperationsKeepStart
          <5>2. CASE k # l
            BY <1>1, <5>2
          <5> QED
            BY <5>1, <5>2
        <4> HIDE DEF lvls, count
        <4>3. /\ StaysStarted(n, lvls, levels'[n])
              /\ \A m \in Online \ {n} : levels'[m] = levels[m]
          BY <1>1, <4>1, <4>2, SendKeepsStart
        <4> QED
          BY <4>2, <4>3 DEF StaysStarted
      <3> QED
        BY <3>1, <3>2
    <2>4. DOMAIN timeout' = Online /\ \A m \in Online : timeout'[m] \in Nat
      BY <2>1 DEF StartedInv
    <2>5. ASSUME NEW m \in Online, NEW k \in LevelIds[m], Rank(m, k) < timeout'[m]
          PROVE  levels'[m][k].sendStarted
      <3>1. CASE m # n
        <4>1. timeout'[m] = timeout[m] /\ levels'[m] = levels[m]
          BY <2>1, <2>3, <3>1
        <4> QED
          BY <2>5, <4>1 DEF StartedInv
      <3>2. CASE m = n
        <4>1. timeout'[n] = timeout[n] + 1
          BY <2>1
        <4>2. n \in Nodes /\ Rank(n, k) \in Nat /\ (Rank(n, k) = Rank(n, l) => k = l)
          BY <3>2, Ranks DEF Online
        <4>3. Rank(n, k) < timeout[n] \/ k = l
          BY <2>1, <2>2, <2>5, <3>2, <4>1, <4>2
        <4>4. CASE k = l
          BY <2>3, <3>2, <4>4
        <4>5. CASE Rank(n, k) < timeout[n]
          BY <2>3, <3>2, <4>5 DEF StartedInv, StaysStarted
        <4> QED
          BY <4>3, <4>4, <4>5
      <3> QED
        BY <3>1, <3>2
    <2> QED
      BY <2>4, <2>5 DEF StartedInv
  <1>6. ASSUME NEW n \in Online, OnVerifiedSignature(n) PROVE StartedInv'
    <2>1. UNCHANGED timeout
      BY <1>6 DEF OnVerifiedSignature
    <2>2. /\ StaysStarted(n, levels[n], levels'[n])
          /\ \A m \in Online \ {n} : levels'[m] = levels[m]
      BY <1>6, ActorsKeepStart
    <2> QED
      BY <1>3, <2>1, <2>2
  <1>7. ASSUME NEW n \in Online,
               Deliver(n) \/ processStep(n) \/ StoreVerified(n) \/ Duplicate(n)
        PROVE  UNCHANGED <<levels, timeout>>
    BY <1>7 DEF Deliver, processStep, StoreVerified, Duplicate
  <1>8. Lose \/ UNCHANGED vars => UNCHANGED <<levels, timeout>>
    BY DEF Lose, vars
  <1> QED
    BY <1>2, <1>4, <1>5, <1>6, <1>7, <1>8 DEF AnyNext, Next, Step

\* At the start the timeout has turned to no level.
LEMMA InitStartedInv == Init => StartedInv
  <1> SUFFICES ASSUME Init PROVE StartedInv
    OBVIOUS
  <1>1. DOMAIN timeout = Online /\ \A n \in Online : timeout[n] = 0
    BY DEF Init
  <1>2. \A n \in Online : \A l \in LevelIds[n] : ~(Rank(n, l) < 0)
    BY Ranks DEF Online
  <1> QED
    BY <1>1, <1>2 DEF StartedInv

-----------------------------------------------------------------------------
(* The protocol at rest *)

\* The signers a node has at a level are online peers of that level, as many as
\* the size of its best.
LEMMA SignersAre ==
    ASSUME NEW n \in Online, NEW s, StoreOK(n, s), NEW l \in LevelIds[n], HasBest(s, l)
    PROVE  /\ s.m[l].sig.who \subseteq Online \cap PeersAt(n, l)
           /\ Cardinality(s.m[l].sig.who) = SizeAt(s, l)
  <1> DEFINE P == Part[n]
             ms == s.m[l]
  <1>1. Contract(P) /\ Sound(P, s) /\ OwnKept(s) /\ l \in DOMAIN s.m
    BY PartOf DEF StoreOK, Online, HasBest
  <1>2. P.base[l] \in Nat /\ P.size[l] \in Nat
    BY PartOf DEF Online
  <1>3. ms.sig.who \subseteq Online
    BY <1>1 DEF StoreOK
  <1> HIDE DEF P
  <1>4. LevelSigs(P, s.m)
    BY <1>1, FullSignatureIs
  <1>5. ms.sig.who \subseteq P.base[l] .. P.base[l] + P.size[l] - 1
    BY <1>1, <1>4, SignersInRange
  <1>6. ms.bits \in SUBSET (0 .. P.size[l] - 1) /\ ms.sig.who = {P.base[l] + i : i \in ms.bits}
    BY <1>1, <1>4 DEF LevelSigs, SigsOf, Verifies
  <1> HIDE DEF ms
  <1>7. Cardinality(ms.sig.who) = Cardinality(ms.bits)
    BY <1>2, <1>6, ShiftCardinality
  <1> QED
    BY <1>3, <1>5, <1>7 DEF SizeAt, card, PeersAt, ms, P

\* A node has the contributions of all online peers of a level.
HasPeers(n, l) == \A j \in Online \cap PeersAt(n, l) :
                      HasBest(store[n], l) /\ j \in store[n].m[l].sig.who

\* When a node has those of all levels below a level, it has for the peers of that
\* level as many as these may have of the node's side.
LEMMA SendsAll ==
    ASSUME NEW n \in Online, StoreOK(n, store[n]), NEW l \in LevelIds[n],
           \A k \in LevelIds[n] : k < l => HasPeers(n, k),
           NEW q \in PeersAt(n, l)
    PROVE  /\ IsFiniteSet(Online \cap PeersAt(q, l))
           /\ SendSize(n, store[n], l) >= Cardinality(Online \cap PeersAt(q, l))
  <1> DEFINE s    == store[n]
             sigs == UpTo(s, l - 1)
             all  == UNION {sigs[k].sig.who : k \in DOMAIN sigs}
             W    == Online \cap PeersAt(q, l)
             P    == Part[n]
  <1>1. /\ n \in Nodes /\ Online \subseteq 0 .. N - 1 /\ N \in Nat /\ l \in Nat /\ l # 0
        /\ \A k \in LevelIds[n] : k \in Nat /\ k # 0
    BY PartOf, HandelAssumption DEF Online, Nodes
  <1>2. PeersAt(q, l) = inverseOf(P, l)
    BY <1>1, PeerLevel DEF PeersAt, inverseOf
  <1>3. /\ SendSize(n, s, l) \in Nat /\ SendSize(n, s, l) = Cardinality(all)
    BY SendSizeIs
  <1>4. DOMAIN sigs = {k \in DOMAIN s.m : k <= l - 1} /\ \A k \in DOMAIN sigs : sigs[k] = s.m[k]
    BY DEF UpTo
  <1>5. all \subseteq Online
    BY <1>4 DEF StoreOK
  <1>6. W \subseteq all
    <2> SUFFICES ASSUME NEW j \in W PROVE \E k \in DOMAIN sigs : j \in sigs[k].sig.who
      OBVIOUS
    <2>1. j \in Nodes /\ j \in Online /\ j \in inverseOf(P, l)
      BY <1>2 DEF Online
    <2> HIDE DEF W, all, sigs
    <2>2. CASE j = n
      <3>1. /\ Contract(P) /\ P.base[0] = n /\ P.size[0] = 1 /\ Sound(P, s) /\ 0 \in DOMAIN s.m
        BY <1>1, PartOf DEF StoreOK, OwnKept
      <3>2. s.m[0] \in SigsOf(P, 1) /\ Verifies(s.m[0], n, 1)
        BY <3>1 DEF Sound, MapsOK
      <3>3. 0 \in s.m[0].bits
        BY <3>2 DEF SigsOf, Verifies
      <3>4. n + 0 \in s.m[0].sig.who /\ n + 0 = n
        BY <1>1, <3>2, <3>3 DEF Verifies, Nodes
      <3>5. 0 \in DOMAIN sigs
        BY <1>1, <1>4, <3>1
      <3> QED
        BY <1>4, <2>2, <3>4, <3>5
    <2>3. CASE j # n
      <3>1. PICK k \in LevelIds[n] : k < l /\ j \in PeersAt(n, k)
        BY <1>1, <2>1, <2>3, PeersCover
      <3>2. HasBest(s, k) /\ j \in s.m[k].sig.who
        BY <2>1, <3>1 DEF HasPeers
      <3>3. k \in DOMAIN sigs
        BY <1>1, <1>4, <3>1, <3>2 DEF HasBest
      <3> QED
        BY <1>4, <3>2, <3>3
    <2> QED
      BY <2>2, <2>3
  <1> HIDE DEF all, W, sigs
  <1>7. IsFiniteSet(all)
    <2>1. IsFiniteSet(0 .. N - 1)
      BY <1>1, FS_Interval
    <2>2. all \in SUBSET (0 .. N - 1)
      BY <1>1, <1>5
    <2> QED
      BY <2>1, <2>2, FS_Subset
  <1>8. IsFiniteSet(W) /\ Cardinality(W) <= Cardinality(all)
    BY <1>6, <1>7, FS_Subset
  <1>9. Cardinality(W) \in Nat
    BY <1>8, FS_CardinalityType
  <1>10. SendSize(n, s, l) >= Cardinality(W)
    BY <1>3, <1>8, <1>9
  <1> QED
    BY <1>8, <1>10 DEF W, s

\* At rest, what a peer was sent last is in its store.
LEMMA RestIsDelivered ==
    ASSUME LinearTimeout, HandelInv, QuietAfterAllContacted, DeliveryInv, StartedInv, Quiescent,
           NEW n \in Online, NEW l \in LevelIds[n], NEW q \in PeersAt(n, l) \cap Online
    PROVE  SizeAt(store[q], l) >= SendSize(n, store[n], l)
  <1>1. levels[n][l].sendStarted
    <2>1. timeout[n] = Cardinality(LevelIds[n])
      BY DEF Quiescent
    <2>2. Rank(n, l) < timeout[n]
      BY <2>1, Ranks DEF Online
    <2> QED
      BY <2>2 DEF StartedInv
  <1>2. sentSize[n][l][q] = SendSize(n, store[n], l)
    BY <1>1 DEF Quiescent, QuietAfterAllContacted, SendSize
  <1>3. packets = {} /\ todos[q] = <<>> /\ verified[q] = <<>>
    BY DEF Quiescent
  <1>4. Reaches(q, l, sentSize[n][l][q], {}, store[q], <<>>, <<>>)
    BY <1>3 DEF DeliveryInv
  <1>5. DOMAIN <<>> = {}
    OBVIOUS
  <1> QED
    BY <1>2, <1>4, <1>5 DEF Reaches, InFlight, Queued

\* At rest, a node has the contributions of all online peers, level by level: a
\* peer has sent those of its side of the registry once it had them.
LEMMA RestHasPeers ==
    ASSUME LinearTimeout, HandelInv, QuietAfterAllContacted, DeliveryInv, StartedInv, Quiescent
    PROVE  \A q \in Online : \A l \in LevelIds[q] : HasPeers(q, l)
  <1> DEFINE Upto(i) == \A q \in Online : \A l \in LevelIds[q] : l <= i => HasPeers(q, l)
             T == {i \in Nat : Upto(i)}
  <1>1. \A n \in Online : \A l \in LevelIds[n] : l \in Nat /\ l > 0
    BY PartOf DEF Online
  <1>2. 0 \in T
    BY <1>1
  <1>3. ASSUME NEW i \in Nat, i \in T PROVE i + 1 \in T
    <2> SUFFICES ASSUME NEW q \in Online, NEW l \in LevelIds[q], l <= i + 1
                 PROVE  HasPeers(q, l)
      OBVIOUS
    <2>1. CASE l <= i
      BY <1>3, <2>1
    <2>2. CASE Online \cap PeersAt(q, l) = {}
      BY <2>2 DEF HasPeers
    <2>3. CASE ~(l <= i) /\ Online \cap PeersAt(q, l) # {}
      <3> DEFINE W == Online \cap PeersAt(q, l)
                 s == store[q]
      <3>1. PICK n \in W : TRUE
        BY <2>3
      <3>2. l \in LevelIds[n] /\ q \in PeersAt(n, l) /\ n \in Online
        BY <3>1, PeerLevel DEF Online
      <3>3. StoreOK(n, store[n]) /\ StoreOK(q, s)
        BY <3>2 DEF HandelInv, NodesOK, NodeOK
      <3>4. \A k \in LevelIds[n] : k < l => HasPeers(n, k)
        <4>1. \A k \in LevelIds[n] : k < l => k <= i
          BY <1>1, <3>2
        <4> QED
          BY <1>3, <3>2, <4>1
      <3>5. IsFiniteSet(W) /\ SendSize(n, store[n], l) >= Cardinality(W)
        BY <3>2, <3>3, <3>4, SendsAll
      <3>6. SizeAt(s, l) >= SendSize(n, store[n], l)
        BY <3>2, RestIsDelivered
      <3>7. /\ SizeAt(s, l) \in Nat /\ SendSize(n, store[n], l) \in Nat
            /\ Cardinality(W) \in Nat
        BY <3>2, <3>3, <3>5, SizeIs, SendSizeIs, FS_CardinalityType
      <3>8. SizeAt(s, l) >= Cardinality(W)
        BY <3>5, <3>6, <3>7
      <3>9. HasBest(s, l)
        <4>1. Cardinality(W) # 0
          BY <3>1, <3>5, FS_EmptySet
        <4>2. SizeAt(s, l) # 0
          BY <3>7, <3>8, <4>1
        <4> QED
          BY <4>2 DEF SizeAt
      <3>10. s.m[l].sig.who \subseteq W /\ Cardinality(s.m[l].sig.who) = SizeAt(s, l)
        BY <3>3, <3>9, SignersAre
      <3> DEFINE who == s.m[l].sig.who
      <3> HIDE DEF W, who, s
      <3>11. Cardinality(who) <= Cardinality(W) /\ (Cardinality(W) = Cardinality(who) => W = who)
        BY <3>5, <3>10, FS_Subset DEF who
      <3>12. Cardinality(W) = Cardinality(who)
        BY <3>7, <3>8, <3>10, <3>11 DEF who
      <3> QED
        BY <3>9, <3>11, <3>12 DEF HasPeers, W, who, s
    <2> QED
      BY <2>1, <2>2, <2>3
  <1>4. Nat \subseteq T
    <2> HIDE DEF T
    <2> QED
      BY <1>2, <1>3, SetInduction
  <1> SUFFICES ASSUME NEW q \in Online, NEW l \in LevelIds[q] PROVE HasPeers(q, l)
    OBVIOUS
  <1>5. l \in Nat /\ l <= l
    BY <1>1
  <1> QED
    BY <1>4, <1>5

\* The timeout is there to start every level, the online nodes reach the threshold
\* and are more than one, since a signature is put out when one of another node
\* was verified (handel.go:274).
CanAggregate == /\ SmallRegistry /\ LinearTimeout
                /\ Cardinality(Online) >= Contributions /\ Online # {}
                /\ \A n \in Online : Online # {n}

\* At rest, every node has put out the contributions of all online nodes.
LEMMA RestIsAggregated ==
    ASSUME CanAggregate, HandelInv, QuietAfterAllContacted, OutputUpToDate, DeliveryInv, StartedInv
    PROVE  RestsOnlyWhenAggregated
  <1> SUFFICES ASSUME Quiescent, NEW n \in Online PROVE best[n].bits = Online
    BY DEF RestsOnlyWhenAggregated, AllAggregated
  <1> DEFINE s    == store[n]
             full == FullSignature(Part[n], s)
  <1>1. \A l \in LevelIds[n] : HasPeers(n, l)
    BY RestHasPeers DEF CanAggregate
  <1>2. StoreOK(n, s)
    BY DEF HandelInv, NodesOK, NodeOK
  <1>3. /\ full.bits \subseteq Online /\ n \in full.bits
    BY <1>2, FullOK
  <1>4. full.bits = UNION {s.m[k].sig.who : k \in DOMAIN s.m}
    BY <1>2, PartOf, FullSignatureBits DEF StoreOK, Online
  <1> HIDE DEF full, s
  <1>5. ASSUME NEW j \in Online, j # n
        PROVE  \E k \in DOMAIN s.m : k # 0 /\ j \in s.m[k].sig.who
    <2>1. PICK k \in LevelIds[n] : j \in PeersAt(n, k)
      BY <1>5, PeersCover DEF Online
    <2>2. k # 0
      BY PartOf DEF Online
    <2> QED
      BY <1>1, <1>5, <2>1, <2>2 DEF HasPeers, HasBest, s
  <1>6. full.bits = Online
    BY <1>3, <1>4, <1>5
  <1>7. DOMAIN s.m # {0}
    <2>1. PICK j \in Online : j # n
      BY DEF CanAggregate
    <2> QED
      BY <1>5, <2>1
  <1>8. card(full) >= Contributions
    BY <1>6 DEF card, CanAggregate
  <1>9. best[n] = full
    BY <1>7, <1>8 DEF Quiescent, OutputUpToDate, full, s
  <1> QED
    BY <1>6, <1>9

\* The behaviours of Handel over a network that loses nothing.
LosslessSpec == Init /\ [][LosslessNext]_vars

\* Over a network that loses nothing, in whatever order packets, verifications and
\* timeouts come, and however often a packet does, the protocol comes to rest only
\* when every online node has put out the contributions of all of them.
THEOREM HandelRests == ASSUME CanAggregate
                       PROVE  /\ LosslessSpec => []RestsOnlyWhenAggregated
                              /\ Spec => []RestsOnlyWhenAggregated
  <1>1. SmallRegistry
    BY DEF CanAggregate
  <1>2. [LosslessNext]_vars => [AnyNext]_vars
    BY DEF LosslessNext, AnyNext
  <1>3. LosslessSpec => AnySpec
    BY <1>2, PTL DEF LosslessSpec, AnySpec
  <1>4. Init /\ [][LosslessNext]_vars => [](HandelInv /\ ContactInv /\ DeliveryInv /\ StartedInv)
    <2>1. Init => HandelInv /\ ContactInv /\ DeliveryInv /\ StartedInv
      BY InitHandelInv, InitContactInv, InitDeliveryInv, InitStartedInv
    <2>2. HandelInv /\ ContactInv /\ DeliveryInv /\ StartedInv /\ [LosslessNext]_vars
             => (HandelInv /\ ContactInv /\ DeliveryInv /\ StartedInv)'
      BY <1>1, <1>2, NextHandelInv, NextContactInv, NextDeliveryInv, NextStartedInv
    <2> QED
      BY <2>1, <2>2, PTL
  <1>5. HandelInv /\ QuietAfterAllContacted /\ OutputUpToDate /\ DeliveryInv /\ StartedInv
           => RestsOnlyWhenAggregated
    BY RestIsAggregated
  <1>6. LosslessSpec => []RestsOnlyWhenAggregated
    BY <1>3, <1>4, <1>5, HandelQuiet, HandelOutput, PTL DEF LosslessSpec
  <1>7. [Next]_vars => [LosslessNext]_vars
    BY DEF LosslessNext
  <1>8. Spec => LosslessSpec
    BY <1>7, PTL DEF Spec, LosslessSpec
  <1> QED
    BY <1>6, <1>8, PTL

\* Over a network that loses some packets, only a loss can make it rest before.
THEOREM HandelRestsUnlessLost == ASSUME CanAggregate
                                 PROVE  FSpec => [](lost \/ RestsOnlyWhenAggregated)
  <1> DEFINE Inv == HandelInv /\ ContactInv /\ StartedInv /\ (lost \/ DeliveryInv)
  <1>1. SmallRegistry
    BY DEF CanAggregate
  <1>2. FInit => Inv
    BY InitHandelInv, InitContactInv, InitDeliveryInv, InitStartedInv DEF FInit
  <1>3. Inv /\ [FNext]_<<vars, faults, lost>> => Inv'
    <2> SUFFICES ASSUME Inv, [FNext]_<<vars, faults, lost>> PROVE Inv'
      OBVIOUS
    <2>1. [AnyNext]_vars
      BY DEF FNext, Fault, AnyNext
    <2>2. HandelInv' /\ ContactInv' /\ StartedInv'
      BY <2>1, NextHandelInv, NextContactInv, NextStartedInv
    <2>3. lost' \/ (lost' = lost /\ [LosslessNext]_vars)
      BY DEF FNext, Fault, LosslessNext
    <2>4. CASE lost'
      BY <2>2, <2>4
    <2>5. CASE lost' = lost /\ [LosslessNext]_vars
      <3>1. DeliveryInv => DeliveryInv'
        BY <1>1, <2>5, NextDeliveryInv
      <3>2. lost \/ DeliveryInv
        OBVIOUS
      <3>3. lost' \/ DeliveryInv'
        BY <2>5, <3>1, <3>2
      <3> QED
        BY <2>2, <3>3
    <2> QED
      BY <2>3, <2>4, <2>5
  <1>4. FSpec => []Inv
    BY <1>2, <1>3, PTL DEF FSpec
  <1>5. Inv /\ QuietAfterAllContacted /\ OutputUpToDate => lost \/ RestsOnlyWhenAggregated
    BY RestIsAggregated
  <1> QED
    BY <1>4, <1>5, AnyNetwork, HandelQuiet, HandelOutput, PTL
=============================================================================

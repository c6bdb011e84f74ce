--------------------------- MODULE NetworkProofs ---------------------------
(***************************************************************************)
(* Proofs about what a simulation's processes exchange packets with.       *)
(* The transports, for any packets, peers and calls and any capacities of  *)
(* the channels: the goroutines of the UDP network pass one permission     *)
(* round and are one queue, and each dial of the QUIC session manager is   *)
(* answered to the call that started it.                                   *)
(* The synchronisation, for any number of processes and nodes, any         *)
(* allocation of the nodes to the processes and any share that suffices,   *)
(* whatever packets are lost: it implements a barrier, and races on the    *)
(* map of addresses only with a straggler.                                 *)
(***************************************************************************)
EXTENDS Transport, Sync, NodeLemmas, SequenceTheorems

-----------------------------------------------------------------------------
(* The UDP network *)

Datagram == UPacket \cup {Empty, Garbage}
Decoded  == UPacket \cup {Empty}

\* A goroutine that holds a packet at the places of `holding`, and is elsewhere
\* at those of `free`.
Goroutine(g, free, holding, S) == /\ g.pc \in free \cup holding
                                  /\ g.pc \in holding => g.p \in S

UTypes ==
    /\ sock \in Seq(Datagram) /\ newPacket \in Seq(Decoded)
    /\ pendings \in Seq(UPacket) /\ process \in Seq(UPacket) /\ heard \in Seq(UPacket)
    /\ ready \in Seq({TRUE}) /\ loopReady \in BOOLEAN /\ registered \in BOOLEAN
    /\ Goroutine(handler, {"check", "decode", "ended"}, {"put"}, Decoded)
    /\ Goroutine(loop, {"select", "ended"}, {"send"}, UPacket)
    /\ Goroutine(dispatcher, {"ready", "select", "ended"}, {"listeners", "call"}, UPacket)
    /\ dispatcher.pc = "call" => registered

UInv == UTypes /\ OneToken

-----------------------------------------------------------------------------
\* A step of the transport is a step of the UDP network or none for it.
LEMMA UDPSteps == [TNext]_tvars => [UNext]_uvars
  BY DEF TNext, tvars, NewNetwork, UDP, QUIC

\* The one permission is at first on its way through the dispatcher.
LEMMA InitUInv == TInit => UInv
  <1> SUFFICES ASSUME TInit PROVE UInv
    OBVIOUS
  <1>1. UTypes
    BY EmptySeq DEF TInit, UInit, UTypes, Goroutine, at
  <1>2. OneToken
    BY EmptySeq DEF TInit, UInit, OneToken, one, at
  <1> QED
    BY <1>1, <1>2 DEF UInv

\* The closure send, called by a loop that selects: it takes the first packet of
\* the list if the dispatcher is ready, and loses none.
LEMMA TrySend ==
    ASSUME NEW pend \in Seq(UPacket), NEW r \in BOOLEAN, loop.pc = "select", trySend(pend, r)
    PROVE  /\ Goroutine(loop, {"select", "ended"}, {"send"}, UPacket)'
           /\ pendings' \in Seq(UPacket)
           /\ loopReady' = r /\ (loop'.pc = "send" => r)
           /\ held(loop, {"send"})' \o pendings' = pend
  <1> USE DEF trySend, Goroutine, held, with
  <1>1. CASE pend # <<>> /\ r
    <2>1. Head(pend) \in UPacket /\ Tail(pend) \in Seq(UPacket) /\ pend = <<Head(pend)>> \o Tail(pend)
      BY <1>1, HeadTailProperties
    <2>2. loop' = with("send", Head(pend)) /\ pendings' = Tail(pend) /\ loopReady' = r
      BY <1>1
    <2>3. held(loop, {"send"})' = <<Head(pend)>>
      BY <2>2
    <2> QED
      BY <1>1, <2>1, <2>2, <2>3
  <1>2. CASE ~(pend # <<>> /\ r)
    <2>1. loop' = loop /\ pendings' = pend
      BY <1>2
    <2> QED
      BY <1>2, <2>1, ConcatEmptySeq
  <1> QED
    BY <1>1, <1>2

\* The permission that is in the channel ready is nowhere else.
LEMMA ReadyToken ==
    ASSUME UInv, ready # <<>>
    PROVE  /\ loopReady = FALSE /\ dispatcher.pc \notin {"ready", "listeners", "call"}
           /\ Len(process) = 0 /\ Len(ready) = 1
  <1>1. Len(ready) \in Nat \ {0} /\ Len(process) \in Nat /\ loopReady \in BOOLEAN
    BY EmptySeq, LenProperties DEF UInv, UTypes
  <1>2. (IF loopReady THEN 1 ELSE 0)
           + (IF dispatcher.pc \in {"ready", "listeners", "call"} THEN 1 ELSE 0)
           + Len(process) + Len(ready) = 1
    BY DEF UInv, OneToken, one
  <1>3. ~loopReady /\ dispatcher.pc \notin {"ready", "listeners", "call"}
    <2>1. CASE loopReady
      BY <1>1, <1>2, <2>1
    <2>2. CASE dispatcher.pc \in {"ready", "listeners", "call"}
      BY <1>1, <1>2, <2>2
    <2> QED
      BY <2>1, <2>2
  <1>4. Len(process) = 0 /\ Len(ready) = 1
    <2>1. 0 + 0 + Len(process) + Len(ready) = 1
      BY <1>2, <1>3, Zenon
    <2>2. Len(ready) \in Nat /\ Len(ready) # 0 /\ Len(process) \in Nat
      BY <1>1
    <2>3. ASSUME NEW a \in Nat, NEW b \in Nat, b # 0, 0 + 0 + a + b = 1
          PROVE  a = 0 /\ b = 1
      BY <2>3
    <2> QED
      BY <2>1, <2>2, <2>3, Zenon
  <1> QED
    BY <1>1, <1>3, <1>4

\* Handler, loop and dispatcher, Send and Stop preserve the invariant.
LEMMA NextUInv == UInv /\ [UNext]_uvars => UInv'
  <1> SUFFICES ASSUME UInv, [UNext]_uvars PROVE UInv'
    OBVIOUS
  <1> USE DEF UInv, UTypes, Goroutine, uvars, hvars, wire, lvars, dvars, avars, at, with, Decoded
  <1>1. CASE URegisterListener \/ UStop \/ HandelLocks \/ USend
    <2>1. UTypes'
      BY <1>1, ZenonT(30) DEF URegisterListener, UStop, HandelLocks, USend
    <2>2. OneToken'
      BY <1>1 DEF URegisterListener, UStop, HandelLocks, USend, OneToken
    <2> QED
      BY <2>1, <2>2
  <1>2. CASE Arrive
    BY <1>2 DEF Arrive, OneToken, one, Datagram
  <1>3. CASE CheckQuit
    BY <1>3 DEF CheckQuit, OneToken, one
  <1>4. CASE Decode
    <2>1. UTypes'
      <3>1. CASE uquit /\ handler' = at("check") /\ UNCHANGED sock
        BY <1>4, <3>1 DEF Decode
      <3>2. CASE /\ sock # <<>> /\ sock' = Tail(sock)
                 /\ handler' = IF Head(sock) = Garbage THEN at("check")
                               ELSE with("put", Head(sock))
        <4>1. Head(sock) \in Datagram /\ Tail(sock) \in Seq(Datagram)
          BY <3>2, HeadTailProperties
        <4> QED
          BY <1>4, <3>2, <4>1 DEF Decode, Datagram
      <3> QED
        BY <1>4, <3>1, <3>2 DEF Decode
    <2>2. OneToken'
      BY <1>4 DEF Decode, OneToken
    <2> QED
      BY <2>1, <2>2
  <1>5. CASE PutPacket
    BY <1>5 DEF PutPacket, OneToken, one
  <1>6. CASE LoopNewPacket
    <2> DEFINE pend == Append(pendings, Head(newPacket))
    <2>1. Head(newPacket) \in Decoded /\ Tail(newPacket) \in Seq(Decoded)
      BY <1>6, HeadTailProperties DEF LoopNewPacket
    <2>2. CASE Head(newPacket) = Empty
      BY <1>6, <2>1, <2>2 DEF LoopNewPacket, OneToken
    <2>3. CASE Head(newPacket) # Empty
      <3>1. trySend(pend, loopReady)
        BY <1>6, <2>3 DEF LoopNewPacket, pushBack
      <3>2. Head(newPacket) \in UPacket
        BY <2>1, <2>3
      <3>3. pend \in Seq(UPacket)
        BY <3>2, AppendProperties
      <3> HIDE DEF pend
      <3>4. UTypes'
        BY <1>6, <2>1, <3>1, <3>3, TrySend DEF LoopNewPacket
      <3>5. OneToken'
        BY <1>6, <3>1, <3>3, TrySend DEF LoopNewPacket, OneToken
      <3> QED
        BY <3>4, <3>5
    <2> QED
      BY <2>2, <2>3
  <1>7. CASE LoopReady
    <2>1. loop.pc = "select" /\ trySend(pendings, TRUE)
      BY <1>7 DEF LoopReady
    <2>2. ready' \in Seq({TRUE}) /\ Len(ready') = Len(ready) - 1
      BY <1>7, HeadTailProperties DEF LoopReady
    <2>3. UTypes'
      BY <1>7, <2>1, <2>2, TrySend DEF LoopReady
    <2>4. OneToken'
      <3>1. Len(ready') = 0 /\ loopReady' = TRUE
        <4>1. Len(ready) = 1
          BY <1>7, ReadyToken DEF LoopReady
        <4> QED
          BY <2>1, <2>2, <4>1 DEF trySend
      <3>2. dispatcher.pc \notin {"ready", "listeners", "call"} /\ Len(process) = 0
        BY <1>7, ReadyToken DEF LoopReady
      <3>3. UNCHANGED <<dispatcher, process>>
        BY <1>7 DEF LoopReady
      <3> QED
        BY <3>1, <3>2, <3>3 DEF OneToken, one
    <2> QED
      BY <2>3, <2>4
  <1>8. CASE LoopDone
    BY <1>8 DEF LoopDone, OneToken, one
  <1>9. CASE LoopSend
    <2>1. process' \in Seq(UPacket) /\ Len(process') = Len(process) + 1
      BY <1>9, AppendProperties DEF LoopSend
    <2>2. UTypes'
      BY <1>9, <2>1 DEF LoopSend
    <2>3. OneToken'
      BY <1>9, <2>1 DEF LoopSend, OneToken, one
    <2> QED
      BY <2>2, <2>3
  <1>10. CASE DispatchReady
    BY <1>10 DEF DispatchReady, OneToken, one
  <1>11. CASE DispatchSelect
    BY <1>11 DEF DispatchSelect, OneToken, one
  <1>12. CASE getListeners
    BY <1>12 DEF getListeners, OneToken, one
  <1>13. CASE Dispatch
    BY <1>13 DEF Dispatch, OneToken, one
  <1>14. CASE UNCHANGED uvars
    BY <1>14 DEF OneToken, one
  <1> QED
    BY <1>1, <1>2, <1>3, <1>4, <1>5, <1>6, <1>7, <1>8, <1>9, <1>10, <1>11, <1>12, <1>13, <1>14
       DEF UNext, handlerStep, loopStep, dispatchStep

\* The inductive invariant of the UDP network: every packet that a goroutine, a
\* channel or the pending list holds is one that was decoded (UTypes), and exactly
\* one of loop, dispatcher and the channels between them has the permission to
\* dispatch (OneToken).
THEOREM UDPInvariant == TSpec => []UInv
  BY InitUInv, NextUInv, UDPSteps, PTL DEF TSpec

\* The goroutines of the UDP network pass one permission to dispatch round, over
\* channels that are never full when they send (net.go:159, 197, 206).
THEOREM UDPOneToken == TSpec => []OneToken
  BY UDPInvariant, PTL DEF UInv

-----------------------------------------------------------------------------
(* The UDP network is a queue *)

\* The packets with a multi-signature among the first 0, 1, ... of a sequence.
Picked(s, g) ==
    g = [i \in 0 .. Len(s) |-> IF i = 0 THEN <<>>
                               ELSE IF s[i] = Empty THEN g[i - 1] ELSE Append(g[i - 1], s[i])]

\* What a packet adds to them.
add(p) == IF p = Empty THEN <<>> ELSE <<p>>

\* nonEmpty is the last entry of that table.
LEMMA NonEmptyIs ==
    ASSUME NEW s
    PROVE  nonEmpty(s) = (CHOOSE g : Picked(s, g))[Len(s)]
  BY DEF nonEmpty, Picked

\* There is such a table.
LEMMA PickedExists ==
    ASSUME NEW s \in Seq(Decoded)
    PROVE  Picked(s, CHOOSE g : Picked(s, g))
  <1> DEFINE b == Len(s)
             step(v, i) == IF s[i] = Empty THEN v ELSE Append(v, s[i])
             Partial(g, k) == /\ g = [i \in 0 .. k |-> g[i]]
                              /\ g[0] = <<>>
                              /\ \A i \in 1 .. k : g[i] = step(g[i - 1], i)
             T == {k \in Nat : k <= b => \E g : Partial(g, k)}
  <1>1. b \in Nat
    OBVIOUS
  <1>2. 0 \in T
    <2> DEFINE g == [i \in 0 .. 0 |-> <<>>]
    <2>1. g = [i \in 0 .. 0 |-> g[i]] /\ g[0] = <<>> /\ 1 .. 0 = {}
      OBVIOUS
    <2> HIDE DEF g, step
    <2>2. Partial(g, 0)
      BY <2>1
    <2> QED
      BY <2>2
  <1>3. ASSUME NEW k \in Nat, k \in T PROVE k + 1 \in T
    <2> SUFFICES ASSUME k + 1 <= b PROVE \E g : Partial(g, k + 1)
      OBVIOUS
    <2> HIDE DEF step
    <2>1. PICK g : Partial(g, k)
      BY <1>1, <1>3
    <2> DEFINE h == [i \in 0 .. k + 1 |-> IF i = k + 1 THEN step(g[k], k + 1) ELSE g[i]]
    <2>2. h = [i \in 0 .. k + 1 |-> h[i]] /\ h[0] = g[0] /\ h[k + 1] = step(g[k], k + 1)
      OBVIOUS
    <2>3. \A i \in 0 .. k : h[i] = g[i]
      OBVIOUS
    <2>4. ASSUME NEW i \in 1 .. k + 1 PROVE h[i] = step(h[i - 1], i)
      <3> HIDE DEF h
      <3>1. CASE i = k + 1
        <4>1. i - 1 = k /\ k \in 0 .. k
          BY <3>1
        <4>2. h[i - 1] = g[k]
          BY <2>3, <4>1
        <4> QED
          BY <2>2, <3>1, <4>2
      <3>2. CASE i # k + 1
        <4>1. i \in 1 .. k /\ i \in 0 .. k /\ i - 1 \in 0 .. k
          BY <2>4, <3>2
        <4>2. g[i] = step(g[i - 1], i)
          BY <2>1, <4>1
        <4> QED
          BY <2>3, <4>1, <4>2
      <3> QED
        BY <3>1, <3>2
    <2>5. Partial(h, k + 1)
      <3> HIDE DEF h
      <3> QED
        BY <2>1, <2>2, <2>4
    <2> QED
      BY <2>5
  <1>4. b \in T
    <2> HIDE DEF T
    <2>1. Nat \subseteq T
      BY <1>2, <1>3, SetInduction
    <2> QED
      BY <1>1, <2>1
  <1>5. PICK g : Partial(g, b)
    BY <1>1, <1>4
  <1>6. Picked(s, g)
    <2>1. \A i \in 0 .. b : g[i] = IF i = 0 THEN <<>> ELSE step(g[i - 1], i)
      <3> TAKE i \in 0 .. b
      <3> HIDE DEF step
      <3>1. i # 0 => i \in 1 .. b
        BY <1>1
      <3> QED
        BY <1>5, <3>1
    <2>2. g = [i \in 0 .. b |-> IF i = 0 THEN <<>> ELSE step(g[i - 1], i)]
      <3>1. g = [i \in 0 .. b |-> g[i]]
        BY <1>5
      <3> HIDE DEF step
      <3> QED
        BY <2>1, <3>1
    <2> QED
      BY <2>2 DEF Picked
  <1> QED
    BY <1>6

\* The entries of the table: each adds to the one before it.
LEMMA PickedSteps ==
    ASSUME NEW s \in Seq(Decoded), NEW g, Picked(s, g)
    PROVE  /\ g[0] = <<>>
           /\ \A i \in Nat : i <= Len(s) => g[i] \in Seq(UPacket)
           /\ \A i \in 1 .. Len(s) : g[i] = g[i - 1] \o add(s[i])
  <1>1. Len(s) \in Nat /\ \A i \in 1 .. Len(s) : s[i] \in Decoded
    OBVIOUS
  <1>2. g = [i \in 0 .. Len(s) |-> IF i = 0 THEN <<>>
                                   ELSE IF s[i] = Empty THEN g[i - 1] ELSE Append(g[i - 1], s[i])]
    BY DEF Picked
  <1>3. g[0] = <<>>
    <2>1. 0 \in 0 .. Len(s)
      BY <1>1
    <2> QED
      BY <1>2, <2>1, Zenon
  <1>4. \A i \in 1 .. Len(s) : g[i] = IF s[i] = Empty THEN g[i - 1] ELSE Append(g[i - 1], s[i])
    <2> TAKE i \in 1 .. Len(s)
    <2>1. i \in 0 .. Len(s) /\ i # 0
      BY <1>1
    <2> QED
      BY <1>2, <2>1, Zenon
  <1> DEFINE T == {i \in Nat : i <= Len(s) => g[i] \in Seq(UPacket)}
  <1>5. Nat \subseteq T
    <2>1. 0 \in T
      <3>1. <<>> \in Seq(UPacket)
        OBVIOUS
      <3>2. g[0] \in Seq(UPacket)
        BY <1>3, <3>1, Zenon
      <3> QED
        BY <3>2
    <2>2. ASSUME NEW i \in Nat, i \in T PROVE i + 1 \in T
      <3> SUFFICES ASSUME i + 1 <= Len(s) PROVE g[i + 1] \in Seq(UPacket)
        OBVIOUS
      <3>1. i + 1 \in 1 .. Len(s) /\ (i + 1) - 1 = i /\ g[i] \in Seq(UPacket)
        BY <1>1, <2>2
      <3>2. s[i + 1] = Empty \/ s[i + 1] \in UPacket
        BY <1>1, <3>1 DEF Decoded
      <3>3. g[i + 1] = IF s[i + 1] = Empty THEN g[i] ELSE Append(g[i], s[i + 1])
        BY <1>4, <3>1
      <3> QED
        BY <3>1, <3>2, <3>3
    <2> HIDE DEF T
    <2> QED
      BY <2>1, <2>2, SetInduction
  <1>6. ASSUME NEW i \in 1 .. Len(s) PROVE g[i] = g[i - 1] \o add(s[i])
    <2>1. g[i - 1] \in Seq(UPacket)
      BY <1>1, <1>5
    <2>2. g[i - 1] \o <<>> = g[i - 1]
      BY <2>1
    <2>3. Append(g[i - 1], s[i]) = g[i - 1] \o <<s[i]>>
      BY <2>1, SMTT(30)
    <2>4. CASE s[i] = Empty
      BY <1>4, <2>2, <2>4 DEF add
    <2>5. CASE s[i] # Empty
      BY <1>4, <2>3, <2>5 DEF add
    <2> QED
      BY <2>4, <2>5
  <1> QED
    BY <1>3, <1>5, <1>6

\* Concatenation is associative, and the empty sequence neutral.
LEMMA Concat ==
    ASSUME NEW S
    PROVE  /\ \A a, b, c \in Seq(S) : (a \o b) \o c = a \o (b \o c)
           /\ \A a \in Seq(S) : a \o <<>> = a /\ <<>> \o a = a
           /\ \A a, b \in Seq(S) : a \o b \in Seq(S)
           /\ \A a \in Seq(S), x \in S : Append(a, x) = a \o <<x>> /\ <<x>> \in Seq(S)
  OBVIOUS

\* nonEmpty of nothing, of one packet, of a sequence that grows at its end, and
\* of one that loses its head.
LEMMA NonEmpty ==
    ASSUME NEW s \in Seq(Decoded)
    PROVE  /\ nonEmpty(<<>>) = <<>> /\ nonEmpty(s) \in Seq(UPacket)
           /\ \A p \in Decoded : /\ add(p) \in Seq(UPacket)
                                 /\ nonEmpty(<<p>>) = add(p)
                                 /\ nonEmpty(Append(s, p)) = nonEmpty(s) \o add(p)
           /\ s # <<>> => nonEmpty(s) = add(Head(s)) \o nonEmpty(Tail(s))
  <1>1. <<>> \in Seq(Decoded) /\ Len(<<>>) = 0 /\ Len(s) \in Nat
    OBVIOUS
  <1>0. ASSUME NEW z \in Seq(Decoded)
        PROVE  \E g : /\ g[0] = <<>> /\ nonEmpty(z) = g[Len(z)]
                      /\ \A i \in Nat : i <= Len(z) => g[i] \in Seq(UPacket)
                      /\ \A i \in 1 .. Len(z) : g[i] = g[i - 1] \o add(z[i])
    <2> DEFINE g == CHOOSE h : Picked(z, h)
    <2>1. Picked(z, g) /\ nonEmpty(z) = g[Len(z)]
      BY PickedExists, NonEmptyIs
    <2> HIDE DEF g
    <2>2. /\ g[0] = <<>>
          /\ \A i \in Nat : i <= Len(z) => g[i] \in Seq(UPacket)
          /\ \A i \in 1 .. Len(z) : g[i] = g[i - 1] \o add(z[i])
      BY <2>1, PickedSteps
    <2> QED
      BY <2>1, <2>2
  <1>2. nonEmpty(<<>>) = <<>>
    BY <1>0, <1>1
  <1>3. nonEmpty(s) \in Seq(UPacket)
    <2>1. PICK g : /\ nonEmpty(s) = g[Len(s)]
                   /\ \A i \in Nat : i <= Len(s) => g[i] \in Seq(UPacket)
      BY <1>0
    <2>2. g[Len(s)] \in Seq(UPacket)
      BY <1>1, <2>1
    <2> QED
      BY <2>1, <2>2, Zenon
  <1>4. ASSUME NEW p \in Decoded PROVE add(p) \in Seq(UPacket)
    BY DEF add, Decoded
  <1>5. ASSUME NEW z \in Seq(Decoded), NEW p \in Decoded
        PROVE  nonEmpty(Append(z, p)) = nonEmpty(z) \o add(p)
    <2> DEFINE t == Append(z, p)
    <2>1. /\ t \in Seq(Decoded) /\ Len(t) = Len(z) + 1 /\ Len(z) \in Nat /\ t[Len(z) + 1] = p
          /\ \A i \in 1 .. Len(z) : t[i] = z[i]
      OBVIOUS
    <2> HIDE DEF t
    <2>2. PICK g : /\ g[0] = <<>> /\ nonEmpty(z) = g[Len(z)]
                   /\ \A i \in 1 .. Len(z) : g[i] = g[i - 1] \o add(z[i])
      BY <1>0
    <2>3. PICK k : /\ k[0] = <<>> /\ nonEmpty(t) = k[Len(t)]
                   /\ \A i \in 1 .. Len(t) : k[i] = k[i - 1] \o add(t[i])
      BY <1>0, <2>1
    <2> DEFINE T == {i \in Nat : i <= Len(z) => k[i] = g[i]}
    <2>4. Nat \subseteq T
      <3>1. 0 \in T
        BY <2>2, <2>3
      <3>2. ASSUME NEW i \in Nat, i \in T PROVE i + 1 \in T
        <4> SUFFICES ASSUME i + 1 <= Len(z) PROVE k[i + 1] = g[i + 1]
          OBVIOUS
        <4>1. /\ i + 1 \in 1 .. Len(z) /\ i + 1 \in 1 .. Len(t) /\ (i + 1) - 1 = i
              /\ k[i] = g[i] /\ t[i + 1] = z[i + 1]
          BY <2>1, <3>2
        <4> QED
          BY <2>2, <2>3, <4>1
      <3> HIDE DEF T
      <3> QED
        BY <3>1, <3>2, SetInduction
    <2>5. k[Len(z)] = g[Len(z)]
      BY <2>1, <2>4
    <2>6. k[Len(t)] = k[Len(z)] \o add(p)
      <3>1. Len(t) \in 1 .. Len(t) /\ Len(t) - 1 = Len(z) /\ t[Len(t)] = p
        BY <2>1
      <3> QED
        BY <2>3, <3>1
    <2> QED
      BY <2>2, <2>3, <2>5, <2>6 DEF t
  <1>6. ASSUME NEW p \in Decoded PROVE nonEmpty(<<p>>) = add(p)
    <2>1. <<p>> = Append(<<>>, p)
      OBVIOUS
    <2>2. <<>> \o add(p) = add(p)
      BY <1>4, Concat
    <2> QED
      BY <1>1, <1>2, <1>5, <2>1, <2>2
  <1>7. ASSUME s # <<>> PROVE nonEmpty(s) = add(Head(s)) \o nonEmpty(Tail(s))
    <2> DEFINE t == Tail(s)
               a == add(Head(s))
    <2>1. /\ t \in Seq(Decoded) /\ Len(s) = Len(t) + 1 /\ Len(t) \in Nat
          /\ Head(s) = s[1] /\ Head(s) \in Decoded
          /\ \A i \in 1 .. Len(t) : t[i] = s[i + 1] /\ t[i] \in Decoded
      BY <1>7
    <2>2. a \in Seq(UPacket)
      BY <1>4, <2>1
    <2>3. PICK k : /\ k[0] = <<>> /\ nonEmpty(s) = k[Len(s)]
                   /\ \A i \in 1 .. Len(s) : k[i] = k[i - 1] \o add(s[i])
      BY <1>0
    <2> HIDE DEF t
    <2>4. PICK g : /\ g[0] = <<>> /\ nonEmpty(t) = g[Len(t)]
                   /\ \A i \in Nat : i <= Len(t) => g[i] \in Seq(UPacket)
                   /\ \A i \in 1 .. Len(t) : g[i] = g[i - 1] \o add(t[i])
      BY <1>0, <2>1
    <2> DEFINE T == {i \in Nat : i <= Len(t) => k[i + 1] = a \o g[i]}
    <2>8. a = add(Head(s))
      OBVIOUS
    <2> HIDE DEF a
    <2>5. Nat \subseteq T
      <3>1. 0 \in T
        <4>1. 1 \in 1 .. Len(s) /\ 1 - 1 = 0 /\ 0 + 1 = 1
          BY <2>1
        <4>2. k[1] = <<>> \o a
          BY <2>1, <2>3, <2>8, <4>1
        <4>3. <<>> \o a = a \o <<>>
          BY <2>2, Concat
        <4> QED
          BY <2>4, <4>1, <4>2, <4>3
      <3>2. ASSUME NEW i \in Nat, i \in T PROVE i + 1 \in T
        <4> SUFFICES ASSUME i + 1 <= Len(t) PROVE k[(i + 1) + 1] = a \o g[i + 1]
          OBVIOUS
        <4>1. /\ i + 1 \in 1 .. Len(t) /\ (i + 1) + 1 \in 1 .. Len(s)
              /\ (i + 1) - 1 = i /\ ((i + 1) + 1) - 1 = i + 1
              /\ k[i + 1] = a \o g[i] /\ t[i + 1] = s[(i + 1) + 1] /\ t[i + 1] \in Decoded
              /\ g[i] \in Seq(UPacket)
          BY <2>1, <2>4, <3>2, SMTT(30)
        <4>2. k[(i + 1) + 1] = (a \o g[i]) \o add(t[i + 1])
          BY <2>3, <4>1
        <4>3. g[i + 1] = g[i] \o add(t[i + 1])
          BY <2>4, <4>1
        <4>4. add(t[i + 1]) \in Seq(UPacket)
          BY <1>4, <4>1
        <4>5. (a \o g[i]) \o add(t[i + 1]) = a \o (g[i] \o add(t[i + 1]))
          <5>1. \A x, y, z \in Seq(UPacket) : (x \o y) \o z = x \o (y \o z)
            BY Concat
          <5> QED
            BY <2>2, <4>1, <4>4, <5>1, Zenon
        <4> QED
          BY <4>2, <4>3, <4>5
      <3> HIDE DEF T
      <3> QED
        BY <3>1, <3>2, SetInduction
    <2>6. k[Len(t) + 1] = a \o g[Len(t)]
      BY <2>1, <2>5
    <2> QED
      BY <2>1, <2>3, <2>4, <2>6 DEF t, a
  <1> QED
    BY <1>2, <1>3, <1>4, <1>5, <1>6, <1>7

\* The places where packets are, from the listener to the socket; process and
\* pendings lie between them.
AtDispatcher == held(dispatcher, {"listeners", "call"})
AtLoop       == held(loop, {"send"})
Queued       == nonEmpty(newPacket)
AtHandler    == nonEmpty(held(handler, {"put"}))

\* Packets in a row, and that two rows are the same.
Row(a, b, c, d, e, f) == a \o b \o c \o d \o e \o f
Same(q, r) == q = r

\* How one of them moves to the next place: from the third to the second, from
\* the second to the first, from the first out of the row.
LEMMA Moves ==
    ASSUME NEW S, NEW a \in Seq(S), NEW b \in Seq(S), NEW c \in Seq(S), NEW d \in Seq(S),
           NEW e \in Seq(S), NEW f \in Seq(S), NEW x \in S
    PROVE  /\ Same(Row(a, b \o <<x>>, <<>>, d, e, f), Row(a, b, <<x>>, d, e, f))
           /\ Same(Row(<<>>, <<x>> \o b, c, d, e, f), Row(<<x>>, b, c, d, e, f))
           /\ ~Same(Row(<<x>>, b, c, d, e, f), <<>>)
           /\ Same(Head(Row(<<x>>, b, c, d, e, f)), x)
           /\ Same(Tail(Row(<<x>>, b, c, d, e, f)), Row(<<>>, b, c, d, e, f))
  <1> DEFINE Assoc(u, v, w) == Same((u \o v) \o w, u \o (v \o w))
  <1>1. <<x>> \in Seq(S) /\ <<>> \in Seq(S)
    OBVIOUS
  <1>2. \A u, v, w \in Seq(S) : Assoc(u, v, w)
    BY Concat DEF Same
  <1> HIDE DEF Assoc
  <1>3. \A u, v \in Seq(S) : u \o v \in Seq(S)
    BY Concat
  <1>4. \A u \in Seq(S) : Same(u \o <<>>, u) /\ Same(<<>> \o u, u)
    BY Concat DEF Same
  <1>5. a \o (b \o <<x>>) \o <<>> = a \o b \o <<x>>
    <2>1. Same((a \o (b \o <<x>>)) \o <<>>, a \o (b \o <<x>>))
      BY <1>1, <1>3, <1>4, Zenon
    <2>2. Assoc(a, b, <<x>>)
      BY <1>1, <1>2, Zenon
    <2> QED
      BY <2>1, <2>2, Zenon DEF Assoc, Same
  <1>6. <<>> \o (<<x>> \o b) = <<x>> \o b
    <2>1. Same(<<>> \o (<<x>> \o b), <<x>> \o b)
      BY <1>1, <1>3, <1>4, Zenon
    <2> QED
      BY <2>1, Zenon DEF Same
  <1>7. <<x>> \o b \o c \o d \o e \o f = <<x>> \o (b \o c \o d \o e \o f)
    <2>1. PICK p \in Seq(S) : p = b \o c
      BY <1>3, Zenon
    <2>2. PICK q \in Seq(S) : q = p \o d
      BY <1>3, Zenon
    <2>3. PICK r \in Seq(S) : r = q \o e
      BY <1>3, Zenon
    <2>4. /\ Assoc(<<x>>, b, c) /\ Assoc(<<x>>, p, d) /\ Assoc(<<x>>, q, e)
          /\ Assoc(<<x>>, r, f)
      BY <1>1, <1>2, Zenon
    <2>5. <<x>> \o b \o c = <<x>> \o p /\ <<x>> \o p \o d = <<x>> \o q
      BY <2>1, <2>2, <2>4, Zenon DEF Assoc, Same
    <2>6. <<x>> \o q \o e = <<x>> \o r /\ <<x>> \o r \o f = <<x>> \o (r \o f)
      BY <2>3, <2>4, Zenon DEF Assoc, Same
    <2> QED
      BY <2>1, <2>2, <2>3, <2>5, <2>6, Zenon
  <1>8. <<>> \o b \o c \o d \o e \o f = b \o c \o d \o e \o f
    <2>1. Same(<<>> \o b, b)
      BY <1>4, Zenon
    <2> QED
      BY <2>1, Zenon DEF Same
  <1>9. b \o c \o d \o e \o f \in Seq(S)
    BY <1>3, Zenon
  <1>10. ASSUME NEW r \in Seq(S)
         PROVE  <<x>> \o r # <<>> /\ Head(<<x>> \o r) = x /\ Tail(<<x>> \o r) = r
    BY <1>1, HeadTailProperties
  <1>11. LET q == <<x>> \o b \o c \o d \o e \o f
         IN  /\ q # <<>> /\ Head(q) = x
             /\ Tail(q) = <<>> \o b \o c \o d \o e \o f
    BY <1>7, <1>8, <1>9, <1>10, Zenon
  <1> QED
    BY <1>5, <1>6, <1>11, Zenon DEF Row, Same

\* And how it gets into the fourth place, or past it into the third, ...
LEMMA Enters ==
    ASSUME NEW S, NEW a \in Seq(S), NEW b \in Seq(S), NEW c \in Seq(S), NEW d \in Seq(S),
           NEW e \in Seq(S), NEW f \in Seq(S), NEW g \in Seq(S)
    PROVE  /\ Same(Row(a, b, c, d \o g, e, f), Row(a, b, c, d, g \o e, f))
           /\ Same(c \o d, g) => Same(Row(a, b, c, d, e, f), Row(a, b, <<>>, g, e, f))
  <1> DEFINE Assoc(u, v, w) == (u \o v) \o w = u \o (v \o w)
  <1>1. \A u, v, w \in Seq(S) : Assoc(u, v, w)
    BY Concat
  <1> HIDE DEF Assoc
  <1>2. \A u, v \in Seq(S) : u \o v \in Seq(S)
    BY Concat
  <1>3. \A u \in Seq(S) : u \o <<>> = u
    BY Concat
  <1>4. PICK p \in Seq(S) : p = a \o b
    BY <1>2, Zenon
  <1>5. PICK q \in Seq(S) : q = p \o c
    BY <1>2, Zenon
  <1>6. PICK r \in Seq(S) : r = q \o d
    BY <1>2, Zenon
  <1>7. c \o d = g => p \o c \o d = p \o <<>> \o g
    <2>1. Assoc(p, c, d)
      BY <1>1, Zenon
    <2>2. p \o <<>> = p
      BY <1>3, Zenon
    <2> QED
      BY <2>1, <2>2, Zenon DEF Assoc
  <1>8. q \o (d \o g) \o e = q \o d \o (g \o e)
    <2>1. Assoc(q, d, g) /\ Assoc(r, g, e)
      BY <1>1, Zenon
    <2>2. q \o (d \o g) = r \o g
      BY <1>6, <2>1, Zenon DEF Assoc
    <2> QED
      BY <1>6, <2>1, <2>2, Zenon DEF Assoc
  <1> QED
    BY <1>4, <1>5, <1>6, <1>7, <1>8, Zenon DEF Row, Same

\* ... from the sixth place into the fifth, and into the sixth.
LEMMA Joins ==
    ASSUME NEW S, NEW a \in Seq(S), NEW b \in Seq(S), NEW c \in Seq(S), NEW d \in Seq(S),
           NEW e \in Seq(S)
    PROVE  /\ \A g \in Seq(S) : Same(Row(a, b, c, d, e \o g, <<>>), Row(a, b, c, d, e, g))
           /\ \A x \in S : Same(Row(a, b, c, d, e, <<x>>), Append(Row(a, b, c, d, e, <<>>), x))
  <1> DEFINE Assoc(u, v, w) == (u \o v) \o w = u \o (v \o w)
  <1>1. \A u, v, w \in Seq(S) : Assoc(u, v, w)
    BY Concat
  <1> HIDE DEF Assoc
  <1>2. \A u, v \in Seq(S) : u \o v \in Seq(S)
    BY Concat
  <1>3. /\ \A u \in Seq(S) : u \o <<>> = u
        /\ \A u \in Seq(S), x \in S : Append(u, x) = u \o <<x>>
    BY Concat
  <1>4. PICK r \in Seq(S) : r = a \o b \o c \o d
    BY <1>2, Zenon
  <1>5. ASSUME NEW g \in Seq(S) PROVE r \o (e \o g) \o <<>> = r \o e \o g
    <2>1. r \o (e \o g) = r \o e \o g
      <3>1. Assoc(r, e, g)
        BY <1>1, Zenon
      <3> QED
        BY <3>1, Zenon DEF Assoc
    <2>2. r \o (e \o g) \in Seq(S)
      BY <1>2, Zenon
    <2> QED
      BY <1>3, <2>1, <2>2, Zenon
  <1>6. ASSUME NEW x \in S PROVE r \o e \o <<x>> = Append(r \o e \o <<>>, x)
    BY <1>2, <1>3, Zenon
  <1> QED
    BY <1>4, <1>5, <1>6, Zenon DEF Row, Same

\* What lies where.
LEMMA Places ==
    ASSUME UInv
    PROVE  /\ AtDispatcher \in Seq(UPacket) /\ AtLoop \in Seq(UPacket)
           /\ Queued \in Seq(UPacket) /\ AtHandler \in Seq(UPacket)
           /\ process \in Seq(UPacket) /\ pendings \in Seq(UPacket)
  <1>1. /\ Goroutine(handler, {"check", "decode", "ended"}, {"put"}, Decoded)
        /\ Goroutine(loop, {"select", "ended"}, {"send"}, UPacket)
        /\ Goroutine(dispatcher, {"ready", "select", "ended"}, {"listeners", "call"}, UPacket)
        /\ newPacket \in Seq(Decoded) /\ process \in Seq(UPacket) /\ pendings \in Seq(UPacket)
    BY DEF UInv, UTypes
  <1>2. AtDispatcher \in Seq(UPacket) /\ AtLoop \in Seq(UPacket)
    BY <1>1 DEF AtDispatcher, AtLoop, held, Goroutine
  <1>3. held(handler, {"put"}) \in Seq(Decoded)
    BY <1>1 DEF held, Goroutine
  <1>4. Queued \in Seq(UPacket) /\ AtHandler \in Seq(UPacket)
    BY <1>1, <1>3, NonEmpty DEF Queued, AtHandler
  <1> QED
    BY <1>1, <1>2, <1>4

\* The packets on their way are a row.
LEMMA InFlightRow ==
    /\ InFlight = Row(AtDispatcher, process, AtLoop, pendings, Queued, AtHandler)
    /\ InFlight' = Row(AtDispatcher', process', AtLoop', pendings', Queued', AtHandler')
  BY DEF InFlight, Row, AtDispatcher, AtLoop, Queued, AtHandler

\* A place whose goroutine or channel does not change holds what it held.
LEMMA SamePlaces ==
    /\ dispatcher' = dispatcher => AtDispatcher' = AtDispatcher
    /\ loop' = loop => AtLoop' = AtLoop
    /\ newPacket' = newPacket => Queued' = Queued
    /\ handler' = handler => AtHandler' = AtHandler
  BY DEF AtDispatcher, AtLoop, Queued, AtHandler

\* Nothing is on its way at first.
LEMMA QueueInit == TInit => Queue!Init
  <1> SUFFICES ASSUME TInit PROVE Queue!Init
    OBVIOUS
  <1>1. AtDispatcher = <<>> /\ AtLoop = <<>> /\ Queued = <<>> /\ AtHandler = <<>>
    <2>1. held(handler, {"put"}) = <<>> /\ newPacket = <<>>
      BY DEF TInit, UInit, held, at
    <2>2. nonEmpty(<<>>) = <<>>
      BY NonEmpty, EmptySeq
    <2> QED
      BY <2>1, <2>2 DEF TInit, UInit, held, at, AtDispatcher, AtLoop, Queued, AtHandler
  <1>2. InFlight = <<>>
    BY <1>1, InFlightRow DEF TInit, UInit, Row
  <1> QED
    BY <1>2 DEF TInit, UInit, Queue!Init

\* The handler takes a packet in, and puts it into the channel.
LEMMA HandlerQueue ==
    ASSUME UInv, handlerStep
    PROVE  Queue!Next \/ UNCHANGED Queue!vars
  <1>1. UNCHANGED <<dispatcher, process, loop, pendings, heard, registered, uquit>>
    BY DEF handlerStep, CheckQuit, Decode, PutPacket, wire, lvars, dvars, avars
  <1>2. AtDispatcher' = AtDispatcher /\ AtLoop' = AtLoop
    BY <1>1, SamePlaces
  <1>3. PICK a \in Seq(UPacket), b \in Seq(UPacket), c \in Seq(UPacket), d \in Seq(UPacket),
             e \in Seq(UPacket) :
          a = AtDispatcher /\ b = process /\ c = AtLoop /\ d = pendings /\ e = Queued
    BY Places
  <1>4. /\ InFlight = Row(a, b, c, d, e, AtHandler)
        /\ InFlight' = Row(a, b, c, d, Queued', AtHandler')
    BY <1>1, <1>2, <1>3, InFlightRow, Zenon
  <1>5. nonEmpty(<<>>) = <<>> /\ \A p \in Decoded : nonEmpty(<<p>>) = add(p)
    BY NonEmpty, EmptySeq
  <1>6. handler.pc # "put" => AtHandler = <<>>
    BY <1>5 DEF AtHandler, held
  <1>7. handler'.pc # "put" => AtHandler' = <<>>
    BY <1>5 DEF AtHandler, held
  <1>8. ASSUME AtHandler' = AtHandler, Queued' = Queued PROVE UNCHANGED Queue!vars
    BY <1>1, <1>3, <1>4, <1>8 DEF Queue!vars
  <1>9. CASE CheckQuit
    <2>1. newPacket' = newPacket /\ handler.pc # "put" /\ handler'.pc # "put"
      BY <1>9 DEF CheckQuit, at
    <2> QED
      BY <1>6, <1>7, <1>8, <2>1, SamePlaces
  <1>10. CASE Decode
    <2>1. newPacket' = newPacket /\ AtHandler = <<>> /\ Queued' = Queued
      BY <1>6, <1>10, SamePlaces DEF Decode
    <2>2. CASE handler'.pc # "put"
      BY <1>7, <1>8, <2>1, <2>2
    <2>3. CASE handler'.pc = "put"
      <3>1. sock # <<>> /\ Head(sock) # Garbage /\ handler' = with("put", Head(sock))
        BY <1>10, <2>3 DEF Decode, at, with
      <3>2. Head(sock) \in Datagram
        BY <3>1, HeadTailProperties DEF UInv, UTypes
      <3>3. PICK p \in Decoded : handler' = with("put", p)
        BY <3>1, <3>2 DEF Datagram, Decoded
      <3>4. AtHandler' = add(p)
        BY <1>5, <3>3 DEF AtHandler, held, with
      <3>5. CASE p = Empty
        BY <1>8, <2>1, <3>4, <3>5 DEF add
      <3>6. CASE p # Empty
        <4>1. p \in UPacket /\ AtHandler' = <<p>>
          BY <3>4, <3>6 DEF add, Decoded
        <4>2. Row(a, b, c, d, e, <<p>>) = Append(Row(a, b, c, d, e, <<>>), p)
          <5>1. Same(Row(a, b, c, d, e, <<p>>), Append(Row(a, b, c, d, e, <<>>), p))
            BY <4>1, Joins, Zenon
          <5> QED
            BY <5>1, Zenon DEF Same
        <4>3. InFlight' = Append(InFlight, p)
          BY <1>3, <1>4, <2>1, <4>1, <4>2, Zenon
        <4> QED
          BY <1>1, <4>1, <4>3 DEF Queue!Next, Queue!Accept
      <3> QED
        BY <3>5, <3>6
    <2> QED
      BY <2>2, <2>3
  <1>11. CASE PutPacket
    <2>1. /\ handler.pc = "put" /\ handler'.pc # "put"
          /\ newPacket' = Append(newPacket, handler.p) /\ handler.p \in Decoded
          /\ newPacket \in Seq(Decoded)
      BY <1>11 DEF PutPacket, at, UInv, UTypes, Goroutine
    <2>2. PICK g \in Seq(UPacket) : g = add(handler.p)
      BY <2>1, NonEmpty
    <2>3. AtHandler = g /\ AtHandler' = <<>>
      BY <1>5, <1>7, <2>1, <2>2 DEF AtHandler, held
    <2>4. Queued' = e \o g
      BY <1>3, <2>1, <2>2, NonEmpty DEF Queued
    <2>5. Same(Row(a, b, c, d, e \o g, <<>>), Row(a, b, c, d, e, g))
      BY Joins, Zenon
    <2>6. InFlight' = InFlight
      BY <1>4, <2>3, <2>4, <2>5, Zenon DEF Same
    <2> QED
      BY <1>1, <2>6 DEF Queue!vars
  <1> QED
    BY <1>9, <1>10, <1>11 DEF handlerStep

\* The loop passes packets on, from its channel to its list, and from there to
\* the dispatcher's channel.
LEMMA LoopQueue ==
    ASSUME UInv, loopStep
    PROVE  UNCHANGED Queue!vars
  <1>1. UNCHANGED <<dispatcher, handler, heard, registered, uquit>>
    BY DEF loopStep, LoopNewPacket, LoopReady, LoopDone, LoopSend, hvars, wire, dvars, avars
  <1>2. AtDispatcher' = AtDispatcher /\ AtHandler' = AtHandler
    BY <1>1, SamePlaces
  <1>3. PICK a \in Seq(UPacket), b \in Seq(UPacket), d \in Seq(UPacket), f \in Seq(UPacket) :
          a = AtDispatcher /\ b = process /\ d = pendings /\ f = AtHandler
    BY Places
  <1>4. Queued \in Seq(UPacket) /\ <<>> \in Seq(UPacket)
    BY Places, EmptySeq
  <1>5. /\ InFlight = Row(a, b, AtLoop, d, Queued, f)
        /\ InFlight' = Row(a, process', AtLoop', pendings', Queued', f)
    BY <1>2, <1>3, InFlightRow, Zenon
  <1>6. SUFFICES InFlight' = InFlight
    BY <1>1 DEF Queue!vars
  <1>7. ASSUME NEW pend \in Seq(UPacket), NEW r \in BOOLEAN, loop.pc = "select",
               trySend(pend, r), NEW e \in Seq(UPacket)
        PROVE  Row(a, b, AtLoop', pendings', e, f) = Row(a, b, <<>>, pend, e, f)
    <2>1. /\ pendings' \in Seq(UPacket) /\ AtLoop' \o pendings' = pend
          /\ Goroutine(loop, {"select", "ended"}, {"send"}, UPacket)'
      BY <1>7, TrySend DEF AtLoop
    <2>2. AtLoop' \in Seq(UPacket)
      BY <2>1 DEF AtLoop, held, Goroutine
    <2>3. PICK x \in Seq(UPacket), y \in Seq(UPacket) : x = AtLoop' /\ y = pendings'
      BY <2>1, <2>2
    <2>4. Same(x \o y, pend) => Same(Row(a, b, x, y, e, f), Row(a, b, <<>>, pend, e, f))
      BY Enters, Zenon
    <2> QED
      BY <2>1, <2>3, <2>4, Zenon DEF Same
  <1>8. loop.pc # "send" => AtLoop = <<>>
    BY DEF AtLoop, held
  <1>9. CASE LoopNewPacket
    <2>1. /\ process' = process /\ loop.pc = "select" /\ newPacket # <<>>
          /\ newPacket' = Tail(newPacket) /\ newPacket \in Seq(Decoded) /\ loopReady \in BOOLEAN
      BY <1>9 DEF LoopNewPacket, UInv, UTypes
    <2>2. PICK h \in Decoded : h = Head(newPacket)
      BY <2>1, HeadTailProperties
    <2>3. Queued = add(h) \o Queued' /\ newPacket' \in Seq(Decoded)
      BY <2>1, <2>2, NonEmpty, HeadTailProperties DEF Queued
    <2>4. PICK e \in Seq(UPacket) : e = Queued'
      BY <2>3, NonEmpty DEF Queued
    <2>5. CASE h = Empty
      <3>1. loop' = loop /\ pendings' = pendings
        BY <1>9, <2>2, <2>5 DEF LoopNewPacket, lvars
      <3>2. add(h) \o e = e
        BY <2>5, ConcatEmptySeq DEF add
      <3> QED
        BY <1>3, <1>5, <2>1, <2>3, <2>4, <3>1, <3>2, SamePlaces, Zenon
    <2>6. CASE h # Empty
      <3> DEFINE g == <<h>>
      <3>1. g \in Seq(UPacket) /\ add(h) = g /\ h \in UPacket
        BY <2>6 DEF add, Decoded
      <3>2. trySend(Append(pendings, h), loopReady)
        BY <1>9, <2>2, <2>6 DEF LoopNewPacket, pushBack
      <3>3. Append(pendings, h) = d \o g /\ d \o g \in Seq(UPacket)
        BY <1>3, <3>1, Concat
      <3> HIDE DEF g
      <3>4. Row(a, b, AtLoop', pendings', e, f) = Row(a, b, <<>>, d \o g, e, f)
        BY <1>7, <2>1, <3>2, <3>3
      <3>5. Same(Row(a, b, <<>>, d \o g, e, f), Row(a, b, <<>>, d, g \o e, f))
        BY <1>4, <3>1, Enters, Zenon
      <3>6. AtLoop = <<>> /\ Queued = g \o e /\ process' = b
        BY <1>3, <1>8, <2>1, <2>3, <2>4, <3>1
      <3> QED
        BY <1>5, <2>4, <3>4, <3>5, <3>6, Zenon DEF Same
    <2> QED
      BY <2>5, <2>6
  <1>10. CASE LoopReady
    <2>1. process' = b /\ newPacket' = newPacket /\ loop.pc = "select" /\ trySend(d, TRUE)
      BY <1>3, <1>10 DEF LoopReady
    <2>2. PICK e \in Seq(UPacket) : e = Queued /\ e = Queued'
      BY <1>4, <2>1, SamePlaces
    <2>3. Row(a, b, AtLoop', pendings', e, f) = Row(a, b, <<>>, d, e, f)
      BY <1>7, <2>1
    <2>4. AtLoop = <<>>
      BY <1>8, <2>1
    <2> QED
      BY <1>5, <2>1, <2>2, <2>3, <2>4, Zenon
  <1>11. CASE LoopDone
    <2>1. /\ process' = b /\ pendings' = d /\ newPacket' = newPacket
          /\ loop.pc # "send" /\ loop'.pc # "send"
      BY <1>3, <1>11 DEF LoopDone, at
    <2>2. AtLoop = <<>> /\ AtLoop' = <<>> /\ Queued' = Queued
      BY <2>1, SamePlaces DEF AtLoop, held
    <2> QED
      BY <1>5, <2>1, <2>2, Zenon
  <1>12. CASE LoopSend
    <2>1. /\ process' = Append(b, loop.p) /\ pendings' = d /\ newPacket' = newPacket
          /\ loop.pc = "send" /\ loop'.pc # "send" /\ loop.p \in UPacket
      BY <1>3, <1>12 DEF LoopSend, at, UInv, UTypes, Goroutine
    <2>2. PICK x \in UPacket : x = loop.p
      BY <2>1
    <2>3. AtLoop = <<x>> /\ AtLoop' = <<>> /\ Queued' = Queued
      BY <2>1, <2>2, SamePlaces DEF AtLoop, held
    <2>4. process' = b \o <<x>>
      BY <2>1, <2>2, Concat
    <2>5. PICK e \in Seq(UPacket) : e = Queued
      BY <1>4
    <2>6. Same(Row(a, b \o <<x>>, <<>>, d, e, f), Row(a, b, <<x>>, d, e, f))
      BY <1>4, Moves, Zenon
    <2> QED
      BY <1>5, <2>1, <2>3, <2>4, <2>5, <2>6, Zenon DEF Same
  <1> QED
    BY <1>9, <1>10, <1>11, <1>12 DEF loopStep

\* The dispatcher takes the first packet and gives it to the listener, if there
\* is one.
LEMMA DispatchQueue ==
    ASSUME UInv, dispatchStep
    PROVE  Queue!Next \/ UNCHANGED Queue!vars
  <1>1. UNCHANGED <<loop, pendings, newPacket, handler, registered, uquit>>
    BY DEF dispatchStep, DispatchReady, DispatchSelect, getListeners, Dispatch, hvars, wire,
           lvars, avars
  <1>2. AtLoop' = AtLoop /\ Queued' = Queued /\ AtHandler' = AtHandler
    BY <1>1, SamePlaces
  <1>3. PICK b \in Seq(UPacket), c \in Seq(UPacket), d \in Seq(UPacket), e \in Seq(UPacket),
             f \in Seq(UPacket) :
          b = process /\ c = AtLoop /\ d = pendings /\ e = Queued /\ f = AtHandler
    BY Places
  <1>4. /\ InFlight = Row(AtDispatcher, b, c, d, e, f)
        /\ InFlight' = Row(AtDispatcher', process', c, d, e, f)
    BY <1>1, <1>2, <1>3, InFlightRow, Zenon
  <1>5. ASSUME AtDispatcher' = AtDispatcher, process' = process, heard' = heard
        PROVE  UNCHANGED Queue!vars
    BY <1>1, <1>3, <1>4, <1>5 DEF Queue!vars
  <1>6. <<>> \in Seq(UPacket)
    BY EmptySeq
  <1>7. CASE DispatchReady
    <2>1. AtDispatcher = <<>> /\ AtDispatcher' = <<>> /\ process' = process /\ heard' = heard
      BY <1>7 DEF DispatchReady, AtDispatcher, held, at
    <2> QED
      BY <1>5, <2>1
  <1>8. CASE DispatchSelect
    <2>1. AtDispatcher = <<>> /\ heard' = heard
      BY <1>8 DEF DispatchSelect, AtDispatcher, held
    <2>2. CASE dispatcher' = at("ended") /\ process' = process
      <3>1. AtDispatcher' = <<>>
        BY <2>2 DEF AtDispatcher, held, at
      <3> QED
        BY <1>5, <2>1, <2>2, <3>1
    <2>3. CASE /\ process # <<>> /\ process' = Tail(process)
               /\ dispatcher' = with("listeners", Head(process))
      <3>1. PICK x \in UPacket, t \in Seq(UPacket) :
              x = Head(process) /\ t = Tail(process) /\ process = <<x>> \o t
        <4>1. /\ Head(process) \in UPacket /\ Tail(process) \in Seq(UPacket)
              /\ process = <<Head(process)>> \o Tail(process)
          BY <1>3, <2>3, HeadTailProperties
        <4> QED
          BY <4>1, Zenon
      <3>2. AtDispatcher' = <<x>> /\ process' = t
        BY <2>3, <3>1 DEF AtDispatcher, held, with
      <3>3. Same(Row(<<>>, <<x>> \o t, c, d, e, f), Row(<<x>>, t, c, d, e, f))
        BY <1>6, Moves, Zenon
      <3>4. InFlight' = InFlight
        BY <1>3, <1>4, <2>1, <3>1, <3>2, <3>3, Zenon DEF Same
      <3> QED
        BY <1>1, <2>1, <3>4 DEF Queue!vars
    <2> QED
      BY <1>8, <2>2, <2>3 DEF DispatchSelect
  <1>9. ASSUME dispatcher.pc \in {"listeners", "call"}, AtDispatcher' = <<>>, process' = process,
               heard' = IF registered THEN Append(heard, dispatcher.p) ELSE heard
        PROVE  Queue!Next
    <2>1. PICK x \in UPacket : x = dispatcher.p
      BY <1>9 DEF UInv, UTypes, Goroutine
    <2>2. AtDispatcher = <<x>>
      BY <1>9, <2>1 DEF AtDispatcher, held
    <2>3. /\ ~Same(Row(<<x>>, b, c, d, e, f), <<>>)
          /\ Same(Head(Row(<<x>>, b, c, d, e, f)), x)
          /\ Same(Tail(Row(<<x>>, b, c, d, e, f)), Row(<<>>, b, c, d, e, f))
      BY <1>6, Moves, Zenon
    <2>4. InFlight # <<>> /\ Head(InFlight) = x /\ InFlight' = Tail(InFlight)
      BY <1>3, <1>4, <1>9, <2>2, <2>3, Zenon DEF Same
    <2> QED
      BY <1>1, <1>9, <2>1, <2>4 DEF Queue!Next, Queue!Deliver
  <1>10. CASE getListeners
    <2>1. dispatcher.pc = "listeners" /\ process' = process /\ heard' = heard
      BY <1>10 DEF getListeners
    <2>2. CASE registered
      <3>1. dispatcher' = with("call", dispatcher.p)
        BY <1>10, <2>2 DEF getListeners
      <3>2. AtDispatcher' = AtDispatcher
        BY <2>1, <3>1 DEF AtDispatcher, held, with
      <3> QED
        BY <1>5, <2>1, <3>2
    <2>3. CASE ~registered
      <3>1. AtDispatcher' = <<>>
        BY <1>10, <2>3 DEF getListeners, AtDispatcher, held, at
      <3> QED
        BY <1>9, <2>1, <2>3, <3>1
    <2> QED
      BY <2>2, <2>3
  <1>11. CASE Dispatch
    <2>1. /\ dispatcher.pc = "call" /\ process' = process /\ AtDispatcher' = <<>>
          /\ heard' = Append(heard, dispatcher.p)
      BY <1>11 DEF Dispatch, AtDispatcher, held, at
    <2>2. registered
      BY <2>1 DEF UInv, UTypes
    <2> QED
      BY <1>9, <2>1, <2>2
  <1> QED
    BY <1>7, <1>8, <1>10, <1>11 DEF dispatchStep

\* A step of the UDP network is a step of the queue, or changes nothing of it.
LEMMA QueueStep == UInv /\ [UNext]_uvars => [Queue!Next]_(Queue!vars)
  <1> SUFFICES ASSUME UInv, [UNext]_uvars PROVE Queue!Next \/ UNCHANGED Queue!vars
    OBVIOUS
  <1> USE DEF uvars, hvars, lvars, dvars, avars
  <1>1. ASSUME UNCHANGED <<dispatcher, process, loop, pendings, newPacket, handler>>
        PROVE  InFlight' = InFlight
    BY <1>1, SamePlaces, InFlightRow
  <1>2. CASE URegisterListener
    BY <1>1, <1>2 DEF URegisterListener, Queue!Next, Queue!Register
  <1>3. CASE UStop
    BY <1>1, <1>3 DEF UStop, Queue!Next, Queue!Stop
  <1>4. CASE Arrive \/ HandelLocks \/ USend \/ UNCHANGED uvars
    BY <1>1, <1>4 DEF Arrive, HandelLocks, USend, Queue!vars
  <1>5. CASE handlerStep
    BY <1>5, HandlerQueue
  <1>6. CASE loopStep
    BY <1>6, LoopQueue
  <1>7. CASE dispatchStep
    BY <1>7, DispatchQueue
  <1> QED
    BY <1>2, <1>3, <1>4, <1>5, <1>6, <1>7 DEF UNext

\* The three goroutines of the UDP network, their two channels and the loop's list
\* are one queue, for any packets and any capacities: a packet that was decoded
\* and has a multi-signature is given to the listener at most once, in the order
\* of arrival and none before it is skipped (net.go:124-209).  This is the safety
\* part of UDPIsQueue.
THEOREM UDPImplementsQueue == TSpec => Queue!Safety
  <1>1. UInv /\ [TNext]_tvars => [Queue!Next]_(Queue!vars)
    BY QueueStep, UDPSteps
  <1> QED
    BY <1>1, QueueInit, UDPInvariant, PTL DEF TSpec, Queue!Safety

-----------------------------------------------------------------------------
(* The QUIC session manager *)

Result == [id : Peer, res : {"session", "error"}]

QTypes ==
    /\ call \in [Call -> [pc : {"new", "enqueue", "receive", "returned", "ended"},
                          peer : Peer \cup {NoPeer},
                          res : {"none", "waiting", "session", "error"}]]
    /\ identities \in Seq(Call) /\ out \in Seq(Result)
    /\ chanMap \in [Peer -> Call \cup {NoCall}] /\ dials \in [Peer -> Nat]
    /\ manager \in [pc : {"select", "notify"}, call : Call \cup {NoCall},
                    id : Peer \cup {NoPeer}, res : {"none", "waiting", "session", "error"}]

\* A call that waits on its channel.
Waits(c) == call[c].pc = "receive" /\ call[c].peer \in Peer

\* The calls in the manager's channel wait, are there once, and are not
\* otherwise known to the manager.
QueuedOK ==
    /\ \A c \in Call : call[c].pc = "enqueue" => call[c].peer \in Peer
    /\ \A i \in 1 .. Len(identities) :
          /\ Waits(identities[i]) /\ identities[i] # manager.call
          /\ \A p \in Peer : chanMap[p] # identities[i]
          /\ \A j \in 1 .. Len(identities) : i # j => identities[i] # identities[j]

\* A manager that is about to answer answers a call that waits: with a result the
\* one that is in the map, and else one that is not.
ManagerOK ==
    \/ manager = Selecting
    \/ /\ manager.pc = "notify" /\ manager.call \in Call /\ manager.id \in Peer
       /\ Waits(manager.call) /\ call[manager.call].peer = manager.id
       /\ IF manager.res = "waiting" THEN chanMap[manager.id] # manager.call
          ELSE chanMap[manager.id] = manager.call

\* The call in the map for a peer waits for that peer.
MapOK == \A p \in Peer : chanMap[p] # NoCall => Waits(chanMap[p]) /\ call[chanMap[p]].peer = p

\* The dials of a peer that have not been answered.
InOut(s, p) == {i \in 1 .. Len(s) : s[i].id = p}
Answering(p) == IF manager.id = p /\ manager.res # "waiting" THEN 1 ELSE 0
CountOK == \A p \in Peer : dials[p] + Cardinality(InOut(out, p)) + Answering(p)
                               = IF chanMap[p] = NoCall THEN 0 ELSE 1

QInv == QTypes /\ QueuedOK /\ ManagerOK /\ MapOK /\ CountOK

-----------------------------------------------------------------------------
\* A step of the transport is a step of the QUIC network or none for it.
LEMMA QUICSteps == [TNext]_tvars => [SendSide \/ AcceptSide]_qvars
  BY DEF TNext, tvars, NewNetwork, UDP, QUIC

\* The results of a peer in a channel can be counted, ...
LEMMA CountType ==
    ASSUME NEW s \in Seq(Result), NEW p \in Peer
    PROVE  IsFiniteSet(InOut(s, p)) /\ Cardinality(InOut(s, p)) \in Nat
  <1>1. Len(s) \in Nat
    BY LenProperties
  <1>2. IsFiniteSet(1 .. Len(s))
    BY <1>1, FS_Interval
  <1>3. InOut(s, p) \subseteq 1 .. Len(s)
    BY DEF InOut
  <1>4. IsFiniteSet(InOut(s, p))
    BY <1>2, <1>3, FS_Subset
  <1> QED
    BY <1>4, FS_CardinalityType

\* ... they are one more after one of the peer was put in, ...
LEMMA CountAppend ==
    ASSUME NEW s \in Seq(Result), NEW r \in Result, NEW p \in Peer
    PROVE  /\ r.id = p => Cardinality(InOut(Append(s, r), p)) = Cardinality(InOut(s, p)) + 1
           /\ r.id # p => InOut(Append(s, r), p) = InOut(s, p)
  <1>1. Len(s) \in Nat
    BY LenProperties
  <1>2. Len(s) + 1 \notin InOut(s, p)
    BY <1>1 DEF InOut
  <1>3. ASSUME r.id = p PROVE InOut(Append(s, r), p) = InOut(s, p) \cup {Len(s) + 1}
    BY <1>1, <1>3, AppendProperties DEF InOut
  <1>4. ASSUME r.id = p
        PROVE  Cardinality(InOut(Append(s, r), p)) = Cardinality(InOut(s, p)) + 1
    <2>1. IsFiniteSet(InOut(s, p))
      BY CountType
    <2> QED
      BY <1>2, <1>3, <1>4, <2>1, FS_AddElement
  <1>5. ASSUME r.id # p PROVE InOut(Append(s, r), p) = InOut(s, p)
    BY <1>1, <1>5, AppendProperties DEF InOut
  <1> QED
    BY <1>4, <1>5

\* ... and one less after one of the peer was taken out.
LEMMA CountTail ==
    ASSUME NEW s \in Seq(Result), s # <<>>, NEW p \in Peer
    PROVE  /\ Head(s).id = p => Cardinality(InOut(s, p)) = Cardinality(InOut(Tail(s), p)) + 1
           /\ Head(s).id # p => Cardinality(InOut(s, p)) = Cardinality(InOut(Tail(s), p))
  <1> DEFINE t == Tail(s)
             A == InOut(t, p)
             shifted == {i + 1 : i \in A}
             f == [i \in A |-> i + 1]
  <1>1. /\ Len(s) \in Nat \ {0} /\ Len(t) = Len(s) - 1 /\ t \in Seq(Result)
        /\ \A i \in 1 .. Len(t) : t[i] = s[i + 1]
    BY EmptySeq, HeadTailProperties
  <1>2. IsFiniteSet(A)
    BY <1>1, CountType
  <1>3. A \subseteq 1 .. Len(t)
    BY DEF InOut
  <1>4. f \in Bijection(A, shifted)
    <2>1. A \subseteq Nat
      BY <1>1, <1>3
    <2> HIDE DEF A
    <2>2. f \in [A -> shifted]
      OBVIOUS
    <2>3. \A i, j \in A : f[i] = f[j] => i = j
      BY <2>1
    <2>4. \A y \in shifted : \E i \in A : f[i] = y
      OBVIOUS
    <2> HIDE DEF f, shifted
    <2> QED
      BY <2>2, <2>3, <2>4 DEF Bijection, Injection, Surjection, IsInjective
  <1>5. IsFiniteSet(shifted) /\ Cardinality(shifted) = Cardinality(A)
    <2> HIDE DEF A, f, shifted
    <2> QED
      BY <1>2, <1>4, FS_Bijection DEF ExistsBijection
  <1>6. InOut(s, p) = shifted \cup {i \in {1} : Head(s).id = p}
    <2>1. Head(s) = s[1]
      OBVIOUS
    <2>2. ASSUME NEW i \in 2 .. Len(s) PROVE i \in InOut(s, p) <=> i - 1 \in InOut(t, p)
      BY <1>1 DEF InOut
    <2>3. InOut(s, p) \subseteq 1 .. Len(s) /\ shifted \subseteq 2 .. Len(s)
      BY <1>1 DEF InOut
    <2>4. \A i \in 2 .. Len(s) : i \in shifted <=> i - 1 \in InOut(t, p)
      BY <1>1 DEF InOut
    <2>5. 1 \in InOut(s, p) <=> Head(s).id = p
      BY <1>1, <2>1 DEF InOut
    <2> QED
      BY <1>1, <2>2, <2>3, <2>4, <2>5
  <1>7. 1 \notin shifted
    BY <1>1 DEF InOut
  <1> HIDE DEF A, f, shifted
  <1>8. CASE Head(s).id = p
    <2>1. InOut(s, p) = shifted \cup {1}
      BY <1>6, <1>8
    <2>2. Cardinality(InOut(s, p)) = Cardinality(shifted) + 1
      BY <1>5, <1>7, <2>1, FS_AddElement
    <2> QED
      BY <1>5, <1>8, <2>2 DEF A
  <1>9. CASE Head(s).id # p
    <2>1. InOut(s, p) = shifted
      BY <1>6, <1>9
    <2> QED
      BY <1>5, <1>9, <2>1 DEF A
  <1> QED
    BY <1>8, <1>9

\* A new session manager has no call and no dial.
LEMMA InitQInv == TInit => QInv
  <1> SUFFICES ASSUME TInit PROVE QInv
    OBVIOUS
  <1> USE QUICAssumption DEF TInit, QInit, Selecting
  <1>1. QTypes
    BY EmptySeq DEF QTypes
  <1>2. QueuedOK /\ ManagerOK /\ MapOK
    BY EmptySeq DEF QueuedOK, ManagerOK, MapOK
  <1>3. CountOK
    <2> SUFFICES ASSUME NEW p \in Peer
                 PROVE  dials[p] + Cardinality(InOut(out, p)) + Answering(p) = 0
      BY DEF CountOK
    <2>1. InOut(out, p) = {}
      BY EmptySeq DEF InOut
    <2>2. Cardinality(InOut(out, p)) = 0
      BY <2>1, FS_EmptySet
    <2>3. dials[p] = 0 /\ Answering(p) = 0
      BY DEF Answering
    <2> QED
      BY <2>2, <2>3
  <1> QED
    BY <1>1, <1>2, <1>3 DEF QInv

CallState == [pc : {"new", "enqueue", "receive", "returned", "ended"},
              peer : Peer \cup {NoPeer}, res : {"none", "waiting", "session", "error"}]

\* A step of a call that does not wait.
LEMMA CallQInv ==
    ASSUME QInv, NEW c \in Call, Dial(c) \/ send(c) \/ \E p \in Peer : QSend(c, p)
    PROVE  QInv'
  <1> USE QUICAssumption
  <1>0. QTypes /\ QueuedOK /\ ManagerOK /\ MapOK /\ CountOK
    BY DEF QInv
  <1>1. UNCHANGED <<out, chanMap, manager, dials>> /\ call[c].pc # "receive"
    BY DEF Dial, send, QSend
  <1>2. CountOK'
    BY <1>0, <1>1 DEF CountOK, Answering, InOut
  <1>3. /\ call' \in [Call -> CallState] /\ \A d \in Call : d # c => call'[d] = call[d]
        /\ call'[c].pc \in {"enqueue", "receive"} => call'[c].peer \in Peer
    <2>1. call \in [Call -> CallState]
      BY <1>0 DEF QTypes, CallState
    <2>2. CASE Dial(c)
      BY <1>0, <2>1, <2>2 DEF Dial, CallState, QueuedOK
    <2>3. CASE send(c)
      BY <2>1, <2>3 DEF send, CallState
    <2>4. ASSUME NEW p \in Peer, QSend(c, p)
          PROVE  /\ call' \in [Call -> CallState] /\ \A d \in Call : d # c => call'[d] = call[d]
                 /\ call'[c].pc \in {"enqueue", "receive"} => call'[c].peer \in Peer
      <3> DEFINE g == [call EXCEPT ![c].pc = "enqueue"]
      <3>1. call' = [g EXCEPT ![c].peer = p]
        BY <2>4 DEF QSend
      <3>2. g \in [Call -> CallState] /\ \A d \in Call : d # c => g[d] = call[d]
        BY <2>1 DEF CallState
      <3> HIDE DEF g
      <3>3. call'[c] = [g[c] EXCEPT !.peer = p] /\ \A d \in Call : d # c => call'[d] = g[d]
        BY <3>1, <3>2
      <3>4. [g[c] EXCEPT !.peer = p] \in CallState /\ [g[c] EXCEPT !.peer = p].peer = p
        <4>1. g[c] \in CallState
          BY <3>2
        <4> QED
          BY <4>1 DEF CallState
      <3>5. call' \in [Call -> CallState]
        BY <3>1, <3>2, <3>4
      <3> QED
        BY <3>2, <3>3, <3>4, <3>5
    <2> QED
      BY <2>2, <2>3, <2>4
  <1>4. identities \in Seq(Call) /\ identities' \in Seq(Call)
    <2>1. identities \in Seq(Call)
      BY <1>0 DEF QTypes
    <2>2. CASE Dial(c)
      BY <2>1, <2>2, AppendProperties DEF Dial
    <2> QED
      BY <2>1, <2>2 DEF send, QSend
  <1>5. QTypes'
    BY <1>0, <1>1, <1>3, <1>4 DEF QTypes, CallState
  <1>6. \A d \in Call : Waits(d) => d # c /\ Waits(d)' /\ call'[d] = call[d]
    BY <1>1, <1>3 DEF Waits
  <1>7. MapOK'
    BY <1>0, <1>1, <1>3, <1>6 DEF MapOK, QTypes
  <1>8. ManagerOK'
    BY <1>0, <1>1, <1>3, <1>6 DEF ManagerOK
  <1>9. QueuedOK'
    <2>1. \A d \in Call : call'[d].pc = "enqueue" => call'[d].peer \in Peer
      BY <1>0, <1>3 DEF QueuedOK
    <2>2. CASE UNCHANGED identities
      <3>1. \A i \in 1 .. Len(identities) : identities[i] \in Call
        BY <1>4
      <3> QED
        BY <1>0, <1>1, <1>6, <2>1, <2>2, <3>1 DEF QueuedOK
    <2>3. CASE Dial(c)
      <3>1. Waits(c)'
        <4>1. call'[c].pc = "receive"
          BY <1>0, <2>3 DEF Dial, QTypes
        <4> QED
          BY <1>3, <4>1 DEF Waits
      <3>2. c # manager.call /\ \A p \in Peer : chanMap[p] # c
        BY <1>0, <1>6 DEF ManagerOK, MapOK, Selecting
      <3>3. \A i \in 1 .. Len(identities) : identities[i] # c /\ identities[i] \in Call
        BY <1>0, <1>4, <1>6 DEF QueuedOK
      <3>4. /\ Len(identities) \in Nat /\ Len(identities') = Len(identities) + 1
            /\ identities'[Len(identities) + 1] = c
            /\ \A i \in 1 .. Len(identities) : identities'[i] = identities[i]
        BY <1>4, <2>3, LenProperties, AppendProperties DEF Dial
      <3>5. \A i \in 1 .. Len(identities') :
               i = Len(identities) + 1 \/ i \in 1 .. Len(identities)
        BY <3>4
      <3>6. \A i \in 1 .. Len(identities) :
               /\ Waits(identities[i]) /\ identities[i] # manager.call
               /\ \A p \in Peer : chanMap[p] # identities[i]
               /\ \A j \in 1 .. Len(identities) : i # j => identities[i] # identities[j]
        BY <1>0 DEF QueuedOK
      <3>7. ASSUME NEW i \in 1 .. Len(identities')
            PROVE  /\ Waits(identities[i])' /\ identities'[i] # manager.call
                   /\ \A p \in Peer : chanMap[p] # identities'[i]
        <4>1. CASE i = Len(identities) + 1
          BY <3>1, <3>2, <3>4, <4>1
        <4>2. CASE i \in 1 .. Len(identities)
          BY <1>6, <3>3, <3>4, <3>6, <4>2
        <4> QED
          BY <3>5, <4>1, <4>2
      <3>8. ASSUME NEW i \in 1 .. Len(identities'), NEW j \in 1 .. Len(identities'), i # j
            PROVE  identities'[i] # identities'[j]
        BY <3>3, <3>4, <3>5, <3>6, <3>8
      <3> QED
        BY <1>1, <2>1, <3>7, <3>8 DEF QueuedOK
    <2> QED
      BY <2>2, <2>3 DEF send, QSend
  <1> QED
    BY <1>2, <1>5, <1>7, <1>8, <1>9 DEF QInv

\* The manager takes a call out of its channel.
LEMMA TakenCall ==
    ASSUME QInv, identities # <<>>, identities' = Tail(identities)
    PROVE  /\ Head(identities) \in Call /\ Waits(Head(identities))
           /\ \A p \in Peer : chanMap[p] # Head(identities)
           /\ identities' \in Seq(Call)
           /\ \A i \in 1 .. Len(identities') :
                 identities'[i] = identities[i + 1] /\ i + 1 \in 1 .. Len(identities)
           /\ \A i \in 1 .. Len(identities') : identities'[i] # Head(identities)
  <1> USE DEF QInv, QTypes
  <1>1. /\ Head(identities) = identities[1] /\ 1 \in 1 .. Len(identities)
        /\ Head(identities) \in Call /\ identities' \in Seq(Call)
        /\ Len(identities') = Len(identities) - 1 /\ Len(identities) \in Nat
        /\ \A i \in 1 .. Len(identities') : identities'[i] = identities[i + 1]
    BY EmptySeq, HeadTailProperties, LenProperties
  <1>2. \A i \in 1 .. Len(identities') : i + 1 \in 1 .. Len(identities) /\ i + 1 # 1
    BY <1>1
  <1> QED
    BY <1>1, <1>2 DEF QueuedOK

\* The calls left in the channel are as before, for a manager that answers the one
\* it took, or that has it in the map.
LEMMA QueuedTail ==
    ASSUME QInv, identities # <<>>, identities' = Tail(identities), UNCHANGED call,
           manager'.call \in {Head(identities), NoCall},
           \A p \in Peer : chanMap'[p] \in {chanMap[p], Head(identities)}
    PROVE  QueuedOK'
  <1>1. QueuedOK
    BY DEF QInv
  <1>2. \A c \in Call : call'[c].pc = "enqueue" => call'[c].peer \in Peer
    BY <1>1 DEF QueuedOK
  <1>3. ASSUME NEW i \in 1 .. Len(identities')
        PROVE  /\ identities'[i] = identities[i + 1] /\ i + 1 \in 1 .. Len(identities)
               /\ identities'[i] # Head(identities) /\ identities'[i] \in Call
    <2>1. identities' \in Seq(Call)
      BY TakenCall
    <2> QED
      BY <1>3, <2>1, TakenCall
  <1>4. ASSUME NEW i \in 1 .. Len(identities')
        PROVE  /\ Waits(identities[i])' /\ identities'[i] # manager'.call
               /\ \A p \in Peer : chanMap'[p] # identities'[i]
    <2>1. Waits(identities[i + 1]) /\ \A p \in Peer : chanMap[p] # identities[i + 1]
      BY <1>1, <1>3 DEF QueuedOK
    <2>2. identities'[i] # NoCall
      BY <1>3, QUICAssumption
    <2> QED
      BY <1>3, <2>1, <2>2 DEF Waits
  <1>5. ASSUME NEW i \in 1 .. Len(identities'), NEW j \in 1 .. Len(identities'), i # j
        PROVE  identities'[i] # identities'[j]
    <2>1. i + 1 # j + 1
      BY <1>5, TakenCall
    <2> QED
      BY <1>1, <1>3, <2>1 DEF QueuedOK
  <1> QED
    BY <1>2, <1>4, <1>5 DEF QueuedOK

\* The manager takes a call: it starts a dial, or tells the caller that one is
\* under way.
LEMMA UpdateCallQInv == QInv /\ updateCall => QInv'
  <1> SUFFICES ASSUME QInv, updateCall PROVE QInv'
    OBVIOUS
  <1> DEFINE c == Head(identities)
             p == call[c].peer
  <1>0. QTypes /\ QueuedOK /\ ManagerOK /\ MapOK /\ CountOK
    BY DEF QInv
  <1>1. identities # <<>> /\ identities' = Tail(identities) /\ UNCHANGED <<call, out>>
    BY DEF updateCall
  <1>2. /\ c \in Call /\ Waits(c) /\ identities' \in Seq(Call)
        /\ \A q \in Peer : chanMap[q] # c
    BY <1>1, TakenCall
  <1>3. p \in Peer
    BY <1>2 DEF Waits
  <1>4. manager = Selecting
    BY <1>0 DEF updateCall, ManagerOK
  <1>5. Answering(p) = 0 /\ \A q \in Peer : Answering(q) = 0
    BY <1>3, <1>4, QUICAssumption DEF Answering, Selecting
  <1>6. CASE chanMap[p] # NoCall
    <2>1. manager' = notify(c, p, "waiting") /\ UNCHANGED <<chanMap, dials>>
      BY <1>6 DEF updateCall
    <2>2. QTypes'
      BY <1>0, <1>1, <1>2, <1>3, <2>1 DEF QTypes, notify
    <2>3. QueuedOK'
      BY <1>1, <2>1, QueuedTail DEF notify
    <2>4. ManagerOK'
      BY <1>1, <1>2, <1>3, <2>1 DEF ManagerOK, notify, Waits
    <2>5. MapOK'
      BY <1>0, <1>1, <2>1 DEF MapOK, Waits
    <2>6. CountOK'
      <3>1. \A q \in Peer : Answering(q)' = 0
        BY <2>1 DEF Answering, notify
      <3> QED
        BY <1>0, <1>1, <1>5, <2>1, <3>1 DEF CountOK, InOut
    <2> QED
      BY <2>2, <2>3, <2>4, <2>5, <2>6 DEF QInv
  <1>7. CASE chanMap[p] = NoCall
    <2>1. /\ chanMap' = [chanMap EXCEPT ![p] = c] /\ dials' = [dials EXCEPT ![p] = @ + 1]
          /\ manager' = manager
      BY <1>7 DEF updateCall
    <2>2. QTypes'
      BY <1>0, <1>1, <1>2, <1>3, <2>1 DEF QTypes
    <2>3. QueuedOK'
      <3>1. \A q \in Peer : chanMap'[q] \in {chanMap[q], c}
        BY <1>0, <2>1 DEF QTypes
      <3> QED
        BY <1>1, <1>4, <2>1, <3>1, QueuedTail DEF Selecting
    <2>4. ManagerOK'
      BY <1>4, <2>1 DEF ManagerOK, Selecting
    <2>5. MapOK'
      BY <1>0, <1>1, <1>2, <1>3, <2>1 DEF MapOK, Waits, QTypes
    <2>6. CountOK'
      <3> SUFFICES ASSUME NEW q \in Peer
                   PROVE  dials'[q] + Cardinality(InOut(out, q)) + Answering(q)'
                             = IF chanMap'[q] = NoCall THEN 0 ELSE 1
        BY <1>1 DEF CountOK, InOut
      <3>1. Answering(q)' = 0 /\ Answering(q) = 0
        BY <1>5, <2>1 DEF Answering
      <3>2. dials[q] \in Nat /\ Cardinality(InOut(out, q)) \in Nat
        BY <1>0, CountType DEF QTypes
      <3>3. dials[q] + Cardinality(InOut(out, q)) + 0 = IF chanMap[q] = NoCall THEN 0 ELSE 1
        BY <1>0, <3>1 DEF CountOK
      <3>4. CASE q = p
        <4>1. dials'[q] = dials[q] + 1 /\ chanMap'[q] # NoCall
          BY <1>0, <1>2, <2>1, <3>4, QUICAssumption DEF QTypes
        <4>2. dials[q] + Cardinality(InOut(out, q)) + 0 = 0
          BY <1>7, <3>3, <3>4
        <4> QED
          BY <3>1, <3>2, <4>1, <4>2
      <3>5. CASE q # p
        <4>1. dials'[q] = dials[q] /\ chanMap'[q] = chanMap[q]
          BY <1>0, <2>1, <3>5 DEF QTypes
        <4> QED
          BY <3>1, <3>3, <4>1
      <3> QED
        BY <3>4, <3>5
    <2> QED
      BY <2>2, <2>3, <2>4, <2>5, <2>6 DEF QInv
  <1> QED
    BY <1>6, <1>7

\* The call that waits for the result of a dial is in the map.
LEMMA ResultHasCall ==
    ASSUME QInv, out # <<>>
    PROVE  /\ Head(out) \in Result /\ Tail(out) \in Seq(Result)
           /\ chanMap[Head(out).id] \in Call
  <1> DEFINE p == Head(out).id
  <1>1. /\ out \in Seq(Result) /\ Head(out) \in Result /\ Tail(out) \in Seq(Result)
    BY HeadTailProperties DEF QInv, QTypes
  <1>2. p \in Peer
    BY <1>1 DEF Result
  <1>3. dials[p] \in Nat /\ Answering(p) \in Nat
    BY <1>2 DEF QInv, QTypes, Answering
  <1>4. Cardinality(InOut(out, p)) = Cardinality(InOut(Tail(out), p)) + 1
    BY <1>1, <1>2, CountTail
  <1>5. Cardinality(InOut(Tail(out), p)) \in Nat
    BY <1>1, <1>2, CountType
  <1>6. dials[p] + Cardinality(InOut(out, p)) + Answering(p)
           = IF chanMap[p] = NoCall THEN 0 ELSE 1
    BY <1>2 DEF QInv, CountOK
  <1>7. dials[p] + Cardinality(InOut(out, p)) + Answering(p) # 0
    BY <1>3, <1>4, <1>5
  <1>8. chanMap[p] # NoCall
    BY <1>6, <1>7
  <1> QED
    BY <1>1, <1>2, <1>8 DEF QInv, QTypes

\* The manager takes the result of a dial.
LEMMA UpdateResultQInv == QInv /\ updateResult => QInv'
  <1> SUFFICES ASSUME QInv, updateResult PROVE QInv'
    OBVIOUS
  <1> DEFINE r == Head(out)
             p == Head(out).id
  <1>0. QTypes /\ QueuedOK /\ ManagerOK /\ MapOK /\ CountOK
    BY DEF QInv
  <1>1. /\ out # <<>> /\ out' = Tail(out) /\ manager' = notify(chanMap[p], p, r.res)
        /\ UNCHANGED <<call, identities, chanMap, dials>>
    BY DEF updateResult
  <1>2. r \in Result /\ out' \in Seq(Result) /\ chanMap[p] \in Call
    BY <1>1, ResultHasCall
  <1>3. p \in Peer /\ r.res \in {"session", "error"}
    BY <1>2 DEF Result
  <1>4. manager = Selecting
    BY <1>0 DEF updateResult, ManagerOK
  <1>5. QTypes'
    BY <1>0, <1>1, <1>2, <1>3 DEF QTypes, notify
  <1>6. QueuedOK'
    BY <1>0, <1>1, <1>3 DEF QueuedOK, notify, Waits
  <1>7. ManagerOK'
    <2>1. Waits(chanMap[p]) /\ call[chanMap[p]].peer = p
      BY <1>0, <1>2, <1>3, QUICAssumption DEF MapOK
    <2> QED
      BY <1>1, <1>2, <1>3, <2>1 DEF ManagerOK, notify, Waits
  <1>8. MapOK'
    BY <1>0, <1>1 DEF MapOK, Waits
  <1>9. CountOK'
    <2> SUFFICES ASSUME NEW q \in Peer
                 PROVE  dials[q] + Cardinality(InOut(Tail(out), q)) + Answering(q)'
                           = IF chanMap[q] = NoCall THEN 0 ELSE 1
      BY <1>1 DEF CountOK, InOut
    <2>1. Answering(q) = 0 /\ dials[q] \in Nat /\ Cardinality(InOut(Tail(out), q)) \in Nat
      BY <1>0, <1>1, <1>2, <1>4, CountType, QUICAssumption DEF QTypes, Answering, Selecting
    <2>2. dials[q] + Cardinality(InOut(out, q)) + 0 = IF chanMap[q] = NoCall THEN 0 ELSE 1
      BY <1>0, <2>1 DEF CountOK
    <2>3. CASE q = p
      <3>1. Answering(q)' = 1
        BY <1>1, <1>3, <2>3 DEF Answering, notify
      <3>2. Cardinality(InOut(out, q)) = Cardinality(InOut(Tail(out), q)) + 1
        BY <1>0, <1>1, <2>3, CountTail DEF QTypes
      <3> QED
        BY <2>1, <2>2, <3>1, <3>2
    <2>4. CASE q # p
      <3>1. Answering(q)' = 0
        BY <1>1, <2>4 DEF Answering, notify
      <3>2. Cardinality(InOut(out, q)) = Cardinality(InOut(Tail(out), q))
        BY <1>0, <1>1, <2>4, CountTail DEF QTypes
      <3> QED
        BY <2>2, <3>1, <3>2
    <2> QED
      BY <2>3, <2>4
  <1> QED
    BY <1>5, <1>6, <1>7, <1>8, <1>9 DEF QInv

\* The manager answers a call, and after a result forgets it.
LEMMA NotifyQInv == QInv /\ Notify => QInv'
  <1> SUFFICES ASSUME QInv, Notify PROVE QInv'
    OBVIOUS
  <1> DEFINE c == manager.call
             p == manager.id
  <1>0. QTypes /\ QueuedOK /\ ManagerOK /\ MapOK /\ CountOK
    BY DEF QInv
  <1>1. /\ call' = [call EXCEPT ![c].pc = "returned", ![c].res = manager.res]
        /\ chanMap' = updated(manager) /\ manager' = Selecting
        /\ UNCHANGED <<identities, out, dials>>
    BY DEF Notify
  <1>2. /\ c \in Call /\ p \in Peer /\ Waits(c) /\ call[c].peer = p
        /\ manager.res = "waiting" => chanMap[p] # c
        /\ manager.res # "waiting" => chanMap[p] = c
    BY <1>0 DEF Notify, ManagerOK, Selecting
  <1>3. /\ call' \in [Call -> CallState] /\ call'[c].pc = "returned"
        /\ \A d \in Call : d # c => call'[d] = call[d]
    <2> DEFINE g == [call EXCEPT ![c].pc = "returned"]
    <2>1. manager.res \in {"none", "waiting", "session", "error"}
      BY <1>0 DEF QTypes
    <2>2. call' = [g EXCEPT ![c].res = manager.res]
      BY <1>1
    <2>3. /\ g \in [Call -> CallState] /\ g[c].pc = "returned"
          /\ \A d \in Call : d # c => g[d] = call[d]
      BY <1>0, <1>2, ZenonT(30) DEF QTypes, CallState
    <2> QED
      BY <1>2, <2>1, <2>2, <2>3 DEF CallState
  <1>4. /\ chanMap' \in [Peer -> Call \cup {NoCall}]
        /\ \A q \in Peer : q # p \/ manager.res = "waiting" => chanMap'[q] = chanMap[q]
        /\ manager.res # "waiting" => chanMap'[p] = NoCall
    BY <1>0, <1>1, <1>2 DEF QTypes, updated
  <1>5. \A q \in Peer : chanMap'[q] # NoCall => chanMap'[q] = chanMap[q] /\ chanMap'[q] # c
    <2> SUFFICES ASSUME NEW q \in Peer, chanMap'[q] # NoCall
                 PROVE  chanMap'[q] = chanMap[q] /\ chanMap'[q] # c
      OBVIOUS
    <2>1. chanMap'[q] = chanMap[q]
      BY <1>2, <1>4
    <2>2. ASSUME chanMap[q] = c PROVE FALSE
      <3>1. call[c].peer = q
        BY <1>0, <1>2, <2>2, QUICAssumption DEF MapOK
      <3>2. q = p /\ manager.res = "waiting"
        BY <1>2, <1>4, <3>1
      <3> QED
        BY <1>2, <2>2, <3>2
    <2> QED
      BY <2>1, <2>2
  <1>6. QTypes'
    <2>1. manager' \in [pc : {"select", "notify"}, call : Call \cup {NoCall},
                        id : Peer \cup {NoPeer}, res : {"none", "waiting", "session", "error"}]
      BY <1>1 DEF Selecting
    <2> QED
      BY <1>0, <1>1, <1>3, <1>4, <2>1 DEF QTypes, CallState
  <1>7. QueuedOK'
    <2>1. \A d \in Call : call'[d].pc = "enqueue" => call'[d].peer \in Peer
      BY <1>0, <1>3 DEF QueuedOK
    <2>2. ASSUME NEW i \in 1 .. Len(identities)
          PROVE  /\ Waits(identities[i])' /\ identities[i] # manager'.call
                 /\ \A q \in Peer : chanMap'[q] # identities[i]
      <3>1. /\ identities[i] \in Call /\ Waits(identities[i]) /\ identities[i] # c
            /\ \A q \in Peer : chanMap[q] # identities[i]
        BY <1>0 DEF QTypes, QueuedOK
      <3>2. Waits(identities[i])'
        BY <1>1, <1>3, <3>1 DEF Waits
      <3>3. identities[i] # manager'.call
        BY <1>1, <3>1, QUICAssumption DEF Selecting
      <3>4. \A q \in Peer : chanMap'[q] # identities[i]
        BY <1>5, <3>1, QUICAssumption
      <3> QED
        BY <3>2, <3>3, <3>4
    <2> QED
      BY <1>0, <1>1, <2>1, <2>2 DEF QueuedOK
  <1>8. ManagerOK'
    BY <1>1 DEF ManagerOK, Selecting
  <1>9. MapOK'
    <2> SUFFICES ASSUME NEW q \in Peer, chanMap'[q] # NoCall
                 PROVE  Waits(chanMap[q])' /\ call'[chanMap'[q]].peer = q
      BY DEF MapOK
    <2>1. chanMap'[q] = chanMap[q] /\ chanMap'[q] # c /\ chanMap'[q] \in Call
      BY <1>4, <1>5
    <2>2. Waits(chanMap[q]) /\ call[chanMap[q]].peer = q
      BY <1>0, <2>1 DEF MapOK
    <2> QED
      BY <1>3, <2>1, <2>2 DEF Waits
  <1>10. CountOK'
    <2> SUFFICES ASSUME NEW q \in Peer
                 PROVE  dials[q] + Cardinality(InOut(out, q)) + Answering(q)'
                           = IF chanMap'[q] = NoCall THEN 0 ELSE 1
      BY <1>1 DEF CountOK, InOut
    <2>1. Answering(q)' = 0 /\ dials[q] \in Nat /\ Cardinality(InOut(out, q)) \in Nat
      BY <1>0, <1>1, CountType, QUICAssumption DEF QTypes, Answering, Selecting
    <2>2. dials[q] + Cardinality(InOut(out, q)) + Answering(q)
             = IF chanMap[q] = NoCall THEN 0 ELSE 1
      BY <1>0 DEF CountOK
    <2>3. CASE q # p \/ manager.res = "waiting"
      <3>1. Answering(q) = 0 /\ chanMap'[q] = chanMap[q]
        BY <1>4, <2>3 DEF Answering
      <3> QED
        BY <2>1, <2>2, <3>1
    <2>4. CASE q = p /\ manager.res # "waiting"
      <3>1. Answering(q) = 1 /\ chanMap'[q] = NoCall /\ chanMap[q] # NoCall
        BY <1>2, <1>4, <2>4, QUICAssumption DEF Answering
      <3>2. dials[q] + Cardinality(InOut(out, q)) + 1 = 1
        BY <2>2, <3>1
      <3> QED
        BY <2>1, <3>1, <3>2
    <2> QED
      BY <2>3, <2>4
  <1> QED
    BY <1>6, <1>7, <1>8, <1>9, <1>10 DEF QInv

\* A dial ends and puts its result into the manager's channel.
LEMMA StartDialQInv == ASSUME QInv, NEW p \in Peer, startDial(p) PROVE QInv'
  <1>0. QTypes /\ QueuedOK /\ ManagerOK /\ MapOK /\ CountOK
    BY DEF QInv
  <1>1. PICK res \in {"session", "error"} : out' = Append(out, [id |-> p, res |-> res])
    BY DEF startDial
  <1> DEFINE r == [id |-> p, res |-> res]
  <1>2. r \in Result /\ out \in Seq(Result) /\ r.id = p
    BY <1>0 DEF QTypes, Result
  <1>3. /\ dials[p] > 0 /\ dials' = [dials EXCEPT ![p] = @ - 1]
        /\ UNCHANGED <<call, identities, chanMap, manager>>
    BY DEF startDial
  <1>4. out' \in Seq(Result)
    BY <1>1, <1>2, AppendProperties
  <1>5. dials' \in [Peer -> Nat]
    BY <1>0, <1>3 DEF QTypes
  <1>6. QTypes'
    BY <1>0, <1>3, <1>4, <1>5 DEF QTypes
  <1>7. QueuedOK' /\ ManagerOK' /\ MapOK'
    BY <1>0, <1>3 DEF QueuedOK, ManagerOK, MapOK, Waits
  <1>8. CountOK'
    <2> SUFFICES ASSUME NEW q \in Peer
                 PROVE  dials'[q] + Cardinality(InOut(Append(out, r), q)) + Answering(q)
                           = IF chanMap[q] = NoCall THEN 0 ELSE 1
      BY <1>1, <1>3 DEF CountOK, InOut, Answering
    <2> HIDE DEF r
    <2>1. dials[q] \in Nat /\ Cardinality(InOut(out, q)) \in Nat /\ Answering(q) \in Nat
      BY <1>0, <1>2, CountType DEF QTypes, Answering
    <2>2. dials[q] + Cardinality(InOut(out, q)) + Answering(q)
             = IF chanMap[q] = NoCall THEN 0 ELSE 1
      BY <1>0 DEF CountOK
    <2>3. CASE q = p
      <3>1. dials'[q] = dials[q] - 1
        BY <1>0, <1>3, <2>3 DEF QTypes
      <3>2. Cardinality(InOut(Append(out, r), q)) = Cardinality(InOut(out, q)) + 1
        BY <1>2, <2>3, CountAppend
      <3> QED
        BY <2>1, <2>2, <3>1, <3>2
    <2>4. CASE q # p
      <3>1. dials'[q] = dials[q]
        BY <1>0, <1>3, <2>4 DEF QTypes
      <3>2. InOut(Append(out, r), q) = InOut(out, q)
        BY <1>2, <2>4, CountAppend
      <3> QED
        BY <2>2, <3>1, <3>2
    <2> QED
      BY <2>3, <2>4
  <1> QED
    BY <1>6, <1>7, <1>8 DEF QInv

\* Every step of callers, manager, dials and accepting side preserves the invariant.
LEMMA NextQInv == QInv /\ [SendSide \/ AcceptSide]_qvars => QInv'
  <1> SUFFICES ASSUME QInv, [SendSide \/ AcceptSide]_qvars PROVE QInv'
    OBVIOUS
  <1>1. CASE SendSide
    BY <1>1, CallQInv, UpdateCallQInv, UpdateResultQInv, NotifyQInv, StartDialQInv
       DEF SendSide, update
  <1>2. CASE AcceptSide \/ UNCHANGED qvars
    <2>1. UNCHANGED sendVars
      BY <1>2 DEF AcceptSide, QRegisterListener, QStop, PeerConnects, AcceptSession,
                  handleSession, qvars
    <2> QED
      BY <2>1 DEF sendVars, QInv, QTypes, QueuedOK, ManagerOK, MapOK, CountOK, Waits, InOut,
                  Answering
  <1> QED
    BY <1>1, <1>2

\* The inductive invariant of the session manager: calls in its channel wait and are
\* known nowhere else (QueuedOK), it answers only a call that waits (ManagerOK,
\* MapOK), and the dials, results and answers of a peer add up to one if a call is in
\* the map for it and to none otherwise (CountOK).
THEOREM QUICInvariant == TSpec => []QInv
  BY InitQInv, NextQInv, QUICSteps, PTL DEF TSpec

\* Each dial of the session manager is answered once, to the call that started it
\* and that still waits for it, whatever calls for the same peer come and go
\* (sessionmanager.go:86).
THEOREM QUICOneDial == TSpec => []OneDialPerPeer
  <1>1. QInv => OneDialPerPeer
    <2> SUFFICES ASSUME QInv, NEW p \in Peer
                 PROVE  /\ Unanswered(p) = IF chanMap[p] = NoCall THEN 0 ELSE 1
                        /\ chanMap[p] # NoCall =>
                              /\ call[chanMap[p]].pc = "receive" /\ call[chanMap[p]].peer = p
                              /\ \A i \in 1 .. Len(identities) : identities[i] # chanMap[p]
                              /\ manager.id = p => manager.call = chanMap[p]
                                                     \/ manager.res = "waiting"
      BY DEF OneDialPerPeer
    <2>1. Unanswered(p) = IF chanMap[p] = NoCall THEN 0 ELSE 1
      BY DEF QInv, CountOK, Unanswered, InOut, Answering
    <2>2. chanMap[p] # NoCall => call[chanMap[p]].pc = "receive" /\ call[chanMap[p]].peer = p
      BY DEF QInv, MapOK, Waits
    <2>3. \A i \in 1 .. Len(identities) : identities[i] # chanMap[p]
      BY DEF QInv, QueuedOK
    <2>4. manager.id = p => manager.call = chanMap[p] \/ manager.res = "waiting"
      BY QUICAssumption DEF QInv, ManagerOK, Selecting
    <2> QED
      BY <2>1, <2>2, <2>3, <2>4
  <1> QED
    BY <1>1, QUICInvariant, PTL

-----------------------------------------------------------------------------
(* The synchronisation *)

Message == [IDs : SUBSET ID, Address : Slave]
MasterState == [readys : SUBSET ID, addresses : SUBSET Slave, done : BOOLEAN,
                fullDone : BOOLEAN, loop : {"none", "idle", "reads", "ended"}]

\* What never changes: the nodes are spread over the slaves.
ParamsOK == /\ ids \in [Slave -> SUBSET ID]
            /\ \A i \in ID : \E m \in Slave : i \in ids[m]
            /\ \A m, k \in Slave : m # k => ids[m] \cap ids[k] = {}
            /\ exp = Cardinality(ID) /\ probExp \in Nat /\ probExp <= exp

TypesOK == /\ master \in MasterState /\ slaveDone \subseteq Slave
           /\ signals \subseteq Message /\ toMaster \subseteq Message /\ toSlave \subseteq Slave
           /\ signalled \subseteq ID

\* A message says what was signalled, for nodes of its sender.
MessagesOK == \A msg \in signals \cup toMaster :
                  msg.IDs \subseteq signalled /\ msg.IDs \subseteq ids[msg.Address]

\* The master knows of no node that was not signalled, and knows the address of
\* each process from which it heard of one.
MasterOK == /\ master.readys \subseteq signalled
            /\ \A i \in master.readys : \E m \in master.addresses : i \in ids[m]

\* Nothing is answered before enough nodes are ready.
AnswersOK == /\ master.done => Cardinality(master.readys) >= probExp
             /\ master.loop # "none" \/ toSlave # {} \/ slaveDone # {} => master.done

\* The inductive invariant.
SyncInv == ParamsOK /\ TypesOK /\ MessagesOK /\ MasterOK /\ AnswersOK

-----------------------------------------------------------------------------
\* The share of the nodes that suffices is a number of nodes, at most all.
LEMMA ShareBound ==
    ASSUME NEW n \in Nat, NEW p \in Permille
    PROVE  share(n, p) \in Nat /\ share(n, p) <= n
  <1>1. n * p \in Nat /\ n * p <= n * 1000
    <2>1. p \in 1 .. 1000
      BY SyncAssumption
    <2> QED
      BY <2>1
  <1> QED
    BY <1>1 DEF share

\* Subsets of the nodes are finite, and no larger than the sets they lie in.
LEMMA SubsetOfID ==
    ASSUME NEW S, S \subseteq ID, NEW T, T \subseteq S
    PROVE  /\ Cardinality(S) \in Nat /\ Cardinality(T) \in Nat
           /\ Cardinality(T) <= Cardinality(S)
           /\ Cardinality(T) = Cardinality(S) => T = S
  <1>1. IsFiniteSet(S)
    BY SyncAssumption, FS_Subset
  <1>2. IsFiniteSet(T)
    BY <1>1, FS_Subset
  <1> QED
    BY <1>1, <1>2, FS_Subset, FS_CardinalityType

\* A new synchronisation knows of nobody.
LEMMA InitSyncInv == Init => SyncInv
  <1> SUFFICES ASSUME Init PROVE SyncInv
    OBVIOUS
  <1>1. Cardinality(ID) \in Nat
    BY SubsetOfID
  <1>2. probExp \in Nat /\ probExp <= exp
    <2>1. PICK p \in Permille : probExp = share(Cardinality(ID), p)
      BY DEF Init, NewSyncMaster
    <2>2. exp = Cardinality(ID)
      BY DEF Init, NewSyncMaster
    <2>3. share(Cardinality(ID), p) \in Nat /\ share(Cardinality(ID), p) <= Cardinality(ID)
      BY <1>1, ShareBound, Zenon
    <2> QED
      BY <2>1, <2>2, <2>3
  <1>3. ParamsOK
    BY <1>2 DEF Init, NewSyncMaster, NewSyncSlave, ParamsOK
  <1>4. TypesOK /\ MessagesOK /\ MasterOK /\ AnswersOK
    BY DEF Init, NewSyncMaster, NewSyncSlave, newState, TypesOK, MasterState, MessagesOK,
           MasterOK, AnswersOK
  <1> QED
    BY <1>3, <1>4 DEF SyncInv

\* Signalling, of all nodes of a slave or of one.
LEMMA SignalStep ==
    ASSUME SyncInv, NEW m \in Slave, NEW IDs \in SUBSET ids[m], signal(m, IDs)
    PROVE  SyncInv'
  <1> DEFINE msg == [IDs |-> IDs, Address |-> m]
  <1>1. msg \in Message
    BY DEF SyncInv, ParamsOK, Message
  <1>2. ParamsOK'
    BY DEF signal, SyncInv, ParamsOK, params
  <1>3. TypesOK'
    BY <1>1 DEF signal, SyncInv, ParamsOK, TypesOK, params
  <1>4. MessagesOK'
    BY <1>1 DEF signal, SyncInv, MessagesOK, params
  <1>5. MasterOK' /\ AnswersOK'
    BY DEF signal, SyncInv, MasterOK, AnswersOK, params
  <1> QED
    BY <1>2, <1>3, <1>4, <1>5 DEF SyncInv

\* What a message makes of the master.
LEMMA NewMessageIs ==
    ASSUME SyncInv, NEW msg \in toMaster
    PROVE  /\ newMessage(msg) \in MasterState
           /\ newMessage(msg).readys = master.readys \cup msg.IDs
           /\ newMessage(msg).addresses = master.addresses \cup {msg.Address}
           /\ master.done => newMessage(msg).done
           /\ newMessage(msg).loop # "none" => newMessage(msg).done
           /\ newMessage(msg).done => Cardinality(newMessage(msg).readys) >= probExp
  <1> DEFINE readys == master.readys \cup msg.IDs
             n == Cardinality(readys)
             stored == [master EXCEPT !.readys = readys, !.addresses = @ \cup {msg.Address}]
  <1>1. msg \in Message /\ master \in MasterState
    BY DEF SyncInv, TypesOK
  <1>2. readys \in SUBSET ID /\ stored \in MasterState
    BY <1>1 DEF Message, MasterState
  <1>3. /\ n \in Nat /\ Cardinality(master.readys) <= n
        /\ Cardinality(master.readys) \in Nat
    BY <1>2, SubsetOfID
  <1>4. exp \in Nat /\ probExp \in Nat /\ probExp <= exp
    BY SubsetOfID DEF SyncInv, ParamsOK
  <1>5. enough(n) <=> n >= probExp
    BY <1>3, <1>4 DEF enough
  <1>6. master.done => n >= probExp
    BY <1>3, <1>4 DEF SyncInv, AnswersOK
  <1>7. CASE enough(n)
    BY <1>1, <1>2, <1>3, <1>4, <1>5, <1>7 DEF newMessage, MasterState
  <1>8. CASE ~enough(n)
    <2>1. newMessage(msg) = stored
      BY <1>8 DEF newMessage
    <2>2. ~master.done
      BY <1>5, <1>6, <1>8
    <2> QED
      BY <1>1, <1>2, <2>1, <2>2 DEF MasterState, SyncInv, AnswersOK
  <1> QED
    BY <1>7, <1>8

\* The master takes in a message (newMessage, sync.go:72).
LEMMA NewPacketStep ==
    ASSUME SyncInv, NEW m \in Slave, NewPacket(m)
    PROVE  SyncInv'
  <1>1. PICK msg \in toMaster : /\ msg.Address = m
                                /\ toMaster' = toMaster \ {msg} /\ master' = newMessage(msg)
    BY DEF NewPacket
  <1>2. msg \in Message /\ msg.IDs \subseteq signalled /\ msg.IDs \subseteq ids[msg.Address]
    BY DEF SyncInv, TypesOK, MessagesOK
  <1>3. ParamsOK'
    BY DEF NewPacket, SyncInv, ParamsOK, params
  <1>4. TypesOK'
    BY <1>1, NewMessageIs DEF NewPacket, SyncInv, TypesOK
  <1>5. MessagesOK'
    BY <1>1 DEF NewPacket, SyncInv, MessagesOK, params
  <1>6. MasterOK'
    BY <1>1, <1>2, NewMessageIs DEF NewPacket, SyncInv, MasterOK, params
  <1>7. AnswersOK'
    BY <1>1, NewMessageIs DEF NewPacket, SyncInv, AnswersOK, params
  <1> QED
    BY <1>3, <1>4, <1>5, <1>6, <1>7 DEF SyncInv

\* Every step of master, slaves and network preserves the invariant.
LEMMA NextSyncInv == SyncInv /\ [Next]_vars => SyncInv'
  <1> SUFFICES ASSUME SyncInv, [Next]_vars PROVE SyncInv'
    OBVIOUS
  <1> USE DEF SyncInv, ParamsOK, params
  <1>1. ASSUME NEW m \in Slave, SignalAll(m) PROVE SyncInv'
    BY <1>1, SignalStep DEF SignalAll
  <1>2. ASSUME NEW m \in Slave, NEW id \in ids[m], Signal(m, id) PROVE SyncInv'
    BY <1>2, SignalStep DEF Signal
  <1>3. ASSUME NEW m \in Slave, Repeat(m) PROVE SyncInv'
    BY <1>3 DEF Repeat, TypesOK, MessagesOK, MasterOK, AnswersOK
  <1>4. ASSUME NEW m \in Slave, SignalEnds(m) PROVE SyncInv'
    BY <1>4 DEF SignalEnds, TypesOK, MessagesOK, MasterOK, AnswersOK
  <1>5. ASSUME NEW m \in Slave, SlaveNewPacket(m) PROVE SyncInv'
    BY <1>5 DEF SlaveNewPacket, TypesOK, MessagesOK, MasterOK, AnswersOK
  <1>6. ASSUME NEW m \in Slave, NewPacket(m) PROVE SyncInv'
    BY <1>6, NewPacketStep
  <1>7. CASE sendLoop
    BY <1>7 DEF sendLoop, TypesOK, MasterState, MessagesOK, MasterOK, AnswersOK
  <1>8. CASE SendLoopEnds
    BY <1>8 DEF SendLoopEnds, TypesOK, MasterState, MessagesOK, MasterOK, AnswersOK
  <1>9. CASE Lose
    BY <1>9 DEF Lose, TypesOK, MessagesOK, MasterOK, AnswersOK
  <1>10. CASE UNCHANGED vars
    BY <1>10 DEF vars, TypesOK, MessagesOK, MasterOK, AnswersOK
  <1> QED
    BY <1>1, <1>2, <1>3, <1>4, <1>5, <1>6, <1>7, <1>8, <1>9, <1>10 DEF Next

\* The inductive invariant holds in all reachable states.
THEOREM SyncInvariant == Spec => []SyncInv
  BY InitSyncInv, NextSyncInv, PTL DEF Spec

-----------------------------------------------------------------------------
(* The refinement of Barrier *)

\* Barrier counts with the same operator.
LEMMA SameCardinality ==
    ASSUME NEW S
    PROVE  TheBarrier!Cardinality(S) = Cardinality(S)
  BY DEF TheBarrier!Cardinality, Cardinality

\* Initially nobody has passed the barrier.
LEMMA InitIsBarrierInit == Init => TheBarrier!BInit
  <1> SUFFICES ASSUME Init PROVE TheBarrier!BInit
    OBVIOUS
  <1>1. probExp \in Nat
    BY InitSyncInv DEF SyncInv, ParamsOK
  <1> QED
    BY <1>1 DEF Init, NewSyncMaster, NewSyncSlave, newState, TheBarrier!BInit

\* When the master is done, or somebody got an answer, enough nodes have
\* signalled: what a member of the barrier needs to be released.
LEMMA DoneMeansSignalled ==
    ASSUME SyncInv, master.done
    PROVE  Cardinality(signalled) >= probExp
  <1>1. master.readys \subseteq signalled /\ signalled \subseteq ID
    BY DEF SyncInv, MasterOK, TypesOK
  <1>2. Cardinality(master.readys) >= probExp /\ probExp \in Nat
    BY DEF SyncInv, AnswersOK, ParamsOK
  <1> QED
    BY <1>1, <1>2, SubsetOfID

\* Every step is one of the barrier's, or none for it.
LEMMA NextIsBarrierNext ==
    ASSUME SyncInv, SyncInv', [Next]_vars
    PROVE  [TheBarrier!BNext]_(TheBarrier!bvars)
  <1> DEFINE released == slaveDone \cup (IF master.done THEN {Master} ELSE {})
             Quiet == UNCHANGED <<probExp, signalled, slaveDone>> /\ master'.done = master.done
  <1> USE DEF params
  <1>1. Quiet => UNCHANGED TheBarrier!bvars
    BY DEF TheBarrier!bvars
  <1>2. ASSUME NEW m \in Slave, NEW IDs \in SUBSET ids[m], signal(m, IDs)
        PROVE  TheBarrier!BNext
    <2>1. IDs \in SUBSET ID
      BY DEF SyncInv, ParamsOK
    <2>2. TheBarrier!Signal(IDs)
      BY <1>2 DEF signal, TheBarrier!Signal
    <2> QED
      BY <2>1, <2>2 DEF TheBarrier!BNext
  <1>3. ASSUME NEW m \in Slave, SignalAll(m) \/ \E id \in ids[m] : Signal(m, id)
        PROVE  TheBarrier!BNext
    BY <1>2, <1>3 DEF SignalAll, Signal, SyncInv, ParamsOK
  <1>4. ASSUME NEW m \in Slave, SlaveNewPacket(m)
        PROVE  TheBarrier!BNext \/ Quiet
    <2>1. CASE m \in slaveDone
      BY <1>4, <2>1 DEF SlaveNewPacket
    <2>2. CASE m \notin slaveDone
      <3>1. master.done
        BY <1>4 DEF SlaveNewPacket, SyncInv, AnswersOK
      <3>2. m \notin released /\ m \in Slave \cup {Master}
        BY <2>2, SyncAssumption
      <3>3. released' = released \cup {m}
        BY <1>4 DEF SlaveNewPacket
      <3>4. TheBarrier!Release(m)
        BY <1>4, <3>1, <3>2, <3>3, DoneMeansSignalled, SameCardinality
           DEF SlaveNewPacket, TheBarrier!Release
      <3> QED
        BY <3>2, <3>4 DEF TheBarrier!BNext
    <2> QED
      BY <2>1, <2>2
  <1>5. ASSUME NEW m \in Slave, NewPacket(m)
        PROVE  TheBarrier!BNext \/ Quiet
    <2>1. master.done => master'.done
      BY <1>5, NewMessageIs DEF NewPacket
    <2>2. master.done \in BOOLEAN /\ master'.done \in BOOLEAN
      BY DEF SyncInv, TypesOK, MasterState
    <2>3. CASE master'.done = master.done
      BY <1>5, <2>3 DEF NewPacket
    <2>4. CASE ~master.done /\ master'.done
      <3>1. (Cardinality(signalled) >= probExp)'
        <4>1. /\ master'.readys \subseteq signalled' /\ signalled' \subseteq ID
              /\ Cardinality(master'.readys) >= probExp' /\ probExp' \in Nat
          BY <2>4 DEF SyncInv, MasterOK, TypesOK, AnswersOK, ParamsOK
        <4> QED
          BY <4>1, SubsetOfID
      <3>2. Cardinality(signalled) >= probExp
        BY <1>5, <3>1 DEF NewPacket
      <3>3. Master \notin released /\ released' = released \cup {Master}
        BY <1>5, <2>4, SyncAssumption DEF NewPacket, SyncInv, TypesOK
      <3>4. TheBarrier!Release(Master)
        BY <1>5, <3>2, <3>3, SameCardinality DEF NewPacket, TheBarrier!Release
      <3> QED
        BY <3>4 DEF TheBarrier!BNext
    <2> QED
      BY <2>1, <2>2, <2>3, <2>4
  <1>6. ASSUME NEW m \in Slave, Repeat(m) \/ SignalEnds(m)
        PROVE  Quiet
    BY <1>6 DEF Repeat, SignalEnds
  <1>7. sendLoop \/ SendLoopEnds \/ Lose \/ UNCHANGED vars => Quiet
    BY DEF sendLoop, SendLoopEnds, Lose, vars, SyncInv, TypesOK, MasterState
  <1> QED
    BY <1>1, <1>3, <1>4, <1>5, <1>6, <1>7 DEF Next

\* The exchange of repeated signals and answers over a network that may lose any
\* of them implements the barrier (sync.go:92-105, 271-282): no process and no
\* platform goes on before the required share of the nodes has signalled.
THEOREM SyncImplementsBarrier == Spec => SyncIsBarrier
  BY InitIsBarrierInit, NextIsBarrierNext, SyncInvariant, PTL
     DEF Spec, SyncIsBarrier, TheBarrier!BSpec

-----------------------------------------------------------------------------
(* The race *)

\* When all nodes are needed and all processes have one, the master that answers
\* has heard from all processes.
LEMMA AllAddressesKnown ==
    ASSUME SyncInv, master.done, ~(probExp < exp), \A m \in Slave : ids[m] # {}
    PROVE  master.addresses = Slave
  <1>1. master.readys \subseteq ID /\ master.addresses \subseteq Slave
    BY DEF SyncInv, TypesOK, MasterState
  <1>2. Cardinality(master.readys) = Cardinality(ID)
    BY <1>1, SubsetOfID DEF SyncInv, AnswersOK, ParamsOK
  <1>3. master.readys = ID
    BY <1>1, <1>2, SubsetOfID
  <1>4. ASSUME NEW m \in Slave PROVE m \in master.addresses
    <2>1. PICK i \in ids[m] : TRUE
      OBVIOUS
    <2>2. i \in ID
      BY DEF SyncInv, ParamsOK
    <2>3. PICK k \in master.addresses : i \in ids[k]
      BY <1>3, <2>2 DEF SyncInv, MasterOK
    <2> QED
      BY <1>1, <2>3 DEF SyncInv, ParamsOK
  <1> QED
    BY <1>1, <1>4

\* The map of addresses is written during a sendLoop only by a message of a slave
\* that the master had not heard of when it had enough.
LEMMA NextRace == SyncInv /\ RaceNeedsStraggler /\ [Next]_vars => RaceNeedsStraggler'
  <1> SUFFICES ASSUME SyncInv, RaceNeedsStraggler, [Next]_vars PROVE RaceNeedsStraggler'
    OBVIOUS
  <1> USE DEF RaceNeedsStraggler, params
  <1>1. UNCHANGED <<ids, exp, probExp, raced>> => RaceNeedsStraggler'
    OBVIOUS
  <1>2. ASSUME NEW m \in Slave, NewPacket(m) PROVE RaceNeedsStraggler'
    <2>1. UNCHANGED <<ids, exp, probExp>>
      BY <1>2 DEF NewPacket
    <2>2. raced' => master.loop = "reads" /\ m \notin master.addresses
      BY <1>2 DEF NewPacket
    <2>3. master.loop = "reads" => master.done
      BY DEF SyncInv, AnswersOK
    <2> QED
      BY <2>1, <2>2, <2>3, AllAddressesKnown
  <1>3. ASSUME NEW m \in Slave, \/ SignalAll(m) \/ Repeat(m) \/ SignalEnds(m)
                                \/ SlaveNewPacket(m) \/ \E id \in ids[m] : Signal(m, id)
        PROVE  UNCHANGED <<ids, exp, probExp, raced>>
    BY <1>3 DEF SignalAll, Repeat, SignalEnds, SlaveNewPacket, Signal, signal
  <1>4. sendLoop \/ SendLoopEnds \/ Lose \/ UNCHANGED vars
           => UNCHANGED <<ids, exp, probExp, raced>>
    BY DEF sendLoop, SendLoopEnds, Lose, vars
  <1> QED
    BY <1>1, <1>2, <1>3, <1>4 DEF Next

\* The unprotected iteration over the map of addresses (sync.go:133) meets a new
\* one only where fewer nodes than all suffice, or a process has none.
THEOREM SyncRace == Spec => []RaceNeedsStraggler
  <1>1. Init => RaceNeedsStraggler
    BY DEF Init, RaceNeedsStraggler
  <1> QED
    BY <1>1, NextRace, SyncInvariant, PTL DEF Spec
=============================================================================

---------------------------- MODULE GossipProofs ----------------------------
(***************************************************************************)
(* Proofs about the aggregator of the gossip baseline, for any registry,   *)
(* threshold and set of invalid signatures: what it gives out is valid,    *)
(* and nothing goes wrong in it before it has given something out.         *)
(***************************************************************************)
EXTENDS Gossip, SequenceTheorems, FiniteSetTheorems, TLAPS

TypesOK ==
    /\ aggAndVerify \in BOOLEAN /\ next \in Seq(Origin) /\ packets \in Seq(Origin)
    /\ isReady \in BOOLEAN /\ newPacket \in [buf : Seq(Origin), closed : BOOLEAN]
    /\ procReady \in Nat /\ accBs \subseteq Origin /\ rcvd \in Nat /\ verifiers \in Nat
    /\ incoming \in [pc : {"init", "select", "take", "output", "close", "ready", "ended"},
                     p : Origin \cup {Nil}]
    /\ outputs \in Nat /\ done \in BOOLEAN /\ locked \in BOOLEAN

\* As long as done is open the packets taken are those of peers; it is only closed
\* by verifyPacket, and the lock only matters when the whole aggregate is verified.
DoneOK == /\ ~done => reading /\ ~newPacket.closed
          /\ incoming.pc = "take" => incoming.p \in Origin \/ done
          /\ done \/ incoming.pc \in {"output", "close"} => ~aggAndVerify
          /\ verifiers > 0 \/ locked => aggAndVerify

\* As long as done is open; and until something was given out, which leaves it open.
BeforeOK ==
    /\ ~done => OnePacketAtATime /\ incoming.pc # "ended" /\ (crashed => app = "timedOut")
    /\ outputs = 0 => /\ ~done /\ ~locked /\ out = <<>> /\ incoming.pc # "close"
                      /\ app \notin {"got", "ended"}

\* The aggregate holds the origins of its bitset, each once, and rcvd counts them;
\* a signature that is verified first is valid.
AccOK == /\ accSig = [who |-> accBs, once |-> TRUE] /\ rcvd = Cardinality(accBs)
         /\ ~aggAndVerify => accBs \cap bad = {}

\* Whoever is about to give out the aggregate may, now and until it does.
DispatchOK == /\ incoming.pc = "output" \/ verifiers > 0 \/ locked => rcvd >= Threshold
              /\ locked => accBs \cap bad = {}

Valid(ms) == /\ ms.sig.once /\ ms.sig.who \cap bad = {} /\ Cardinality(ms.sig.who) >= Threshold
             /\ ms.bits \in {Shared, ms.sig.who}

\* Until done is closed the bitset that is shared has not grown since it was given out.
Fresh(ms) == ms.bits = Shared /\ ~done => incoming.pc = "close" /\ ms.sig.who = accBs

GivenOK == /\ out = <<>> \/ \E ms : out = <<ms>> /\ Valid(ms) /\ Fresh(ms)
           /\ app \in {"got", "ended"} => Valid(final) /\ Fresh(final)

Inv == TypesOK /\ DoneOK /\ BeforeOK /\ AccOK /\ DispatchOK /\ GivenOK

-----------------------------------------------------------------------------
\* A new aggregator has no packet, no signature, and open channels.
LEMMA InitInv == Init => Inv
  <1> SUFFICES ASSUME Init PROVE Inv
    OBVIOUS
  <1> USE DEF Init
  <1>1. TypesOK
    BY EmptySeq DEF TypesOK, at
  <1>2. DoneOK
    BY DEF DoneOK, at
  <1>3. BeforeOK
    BY EmptySeq DEF BeforeOK, OnePacketAtATime, at
  <1>4. AccOK
    BY FS_EmptySet DEF AccOK, NoSig
  <1>5. DispatchOK /\ GivenOK
    BY DEF DispatchOK, GivenOK, at
  <1> QED
    BY <1>1, <1>2, <1>3, <1>4, <1>5 DEF Inv

\* A new contribution is counted.
LEMMA AddCounts ==
    ASSUME TypesOK, AccOK, NEW p \in Origin, p \notin accBs, add(p)
    PROVE  /\ accBs' = accBs \cup {p} /\ accSig' = [who |-> accBs', once |-> TRUE]
           /\ accBs' \subseteq Origin /\ rcvd' = Cardinality(accBs') /\ rcvd' = rcvd + 1
  <1>1. /\ accBs' = accBs \cup {p} /\ accBs' \subseteq Origin /\ rcvd' = rcvd + 1
        /\ accSig' = [who |-> accBs', once |-> TRUE]
    BY DEF add, TypesOK, AccOK
  <1>2. IsFiniteSet(accBs)
    BY GossipAssumption, FS_Subset DEF TypesOK
  <1>3. Cardinality(accBs') = Cardinality(accBs) + 1
    BY <1>1, <1>2, FS_AddElement
  <1> QED
    BY <1>1, <1>3 DEF AccOK

\* Receiving: the other nodes and readNexts.
LEMMA ReaderInv ==
    ASSUME Inv, ~crashed,
           readNexts \/ \E o \in Origin : NewPacket(o) \/ OtherIsDone(o)
    PROVE  Inv'
  <1>0. TypesOK /\ DoneOK /\ BeforeOK /\ AccOK /\ DispatchOK /\ GivenOK
    BY DEF Inv
  <1>1. /\ UNCHANGED <<aggAndVerify, bad, incoming, acc, disp, appl, crashed>>
        /\ UNCHANGED <<accSig, accBs, rcvd, verifiers, locked, out, outputs, done, app, final>>
    BY DEF readNexts, ReadNext, ReadProcReady, ReadDone, NewPacket, OtherIsDone, env, acc, disp, appl
  <1>2. AccOK' /\ DispatchOK' /\ GivenOK'
    BY <1>0, <1>1 DEF AccOK, DispatchOK, GivenOK, Valid, Fresh
  <1>3. ASSUME NEW ps \in Seq(Origin), sendNext(ps)
        PROVE  /\ packets' \in Seq(Origin) /\ isReady' \in BOOLEAN
               /\ newPacket' \in [buf : Seq(Origin), closed : BOOLEAN]
               /\ newPacket'.closed = newPacket.closed
               /\ Len(newPacket'.buf) + (IF isReady' THEN 1 ELSE 0) = Len(newPacket.buf) + 1
               /\ ps # <<>> => isReady' = FALSE
    <2>1. CASE ps = <<>>
      <3>1. packets' = ps /\ isReady' = TRUE /\ newPacket' = newPacket
        BY <1>3, <2>1 DEF sendNext
      <3>2. Len(newPacket'.buf) + (IF isReady' THEN 1 ELSE 0) = Len(newPacket.buf) + 1
        BY <3>1
      <3> QED
        BY <1>0, <2>1, <3>1, <3>2 DEF TypesOK
    <2>2. CASE ps # <<>>
      <3>1. /\ packets' = Tail(ps) /\ isReady' = FALSE
            /\ newPacket' = [newPacket EXCEPT !.buf = Append(@, Head(ps))]
        BY <1>3, <2>2 DEF sendNext
      <3>2. Head(ps) \in Origin /\ Tail(ps) \in Seq(Origin)
        BY <2>2, HeadTailProperties
      <3>3. newPacket.buf \in Seq(Origin) /\ Len(newPacket.buf) \in Nat
        BY <1>0, LenProperties DEF TypesOK
      <3>4. /\ Append(newPacket.buf, Head(ps)) \in Seq(Origin)
            /\ Len(Append(newPacket.buf, Head(ps))) = Len(newPacket.buf) + 1
        BY <3>2, <3>3, AppendProperties
      <3>5. newPacket'.buf = Append(newPacket.buf, Head(ps)) /\ newPacket'.closed = newPacket.closed
        BY <1>0, <3>1 DEF TypesOK
      <3>6. newPacket' \in [buf : Seq(Origin), closed : BOOLEAN]
        BY <1>0, <3>1, <3>4 DEF TypesOK
      <3>7. Len(newPacket'.buf) + (IF isReady' THEN 1 ELSE 0) = Len(newPacket.buf) + 1
        BY <3>1, <3>3, <3>4, <3>5
      <3> QED
        BY <3>1, <3>2, <3>5, <3>6, <3>7
    <2> QED
      BY <2>1, <2>2
  <1> DEFINE Busy == IF incoming.pc # "select" THEN 1 ELSE 0
             Flag == IF isReady THEN 1 ELSE 0
             n == Len(newPacket.buf)
  <1>4. n \in Nat /\ Busy \in Nat /\ Flag \in Nat /\ procReady \in Nat
    BY <1>0, LenProperties DEF TypesOK
  <1>5. /\ OnePacketAtATime <=> procReady + n + Flag + Busy = 1
        /\ OnePacketAtATime' <=> procReady' + n' + Flag' + Busy' = 1
    BY DEF OnePacketAtATime
  <1>6. Busy' = Busy
    BY <1>1
  <1>7. TypesOK' /\ DoneOK' /\ (~done => procReady' + n' + Flag' = procReady + n + Flag
                                         \/ procReady + n + Flag + Busy # 1)
    <2>1. ASSUME NEW o \in Origin, NewPacket(o) \/ OtherIsDone(o)
          PROVE  TypesOK' /\ DoneOK' /\ procReady' + n' + Flag' = procReady + n + Flag
      <3>1. UNCHANGED <<packets, isReady, reading, newPacket, procReady>>
        BY <2>1 DEF NewPacket, OtherIsDone, reader
      <3>2. next' \in Seq(Origin)
        <4>1. next \in Seq(Origin) /\ (next' = next \/ next' = Append(next, o))
          BY <1>0, <2>1 DEF NewPacket, OtherIsDone, reader, TypesOK
        <4> QED
          BY <4>1, AppendProperties
      <3> QED
        BY <1>0, <1>1, <3>1, <3>2 DEF TypesOK, DoneOK
    <2>2. CASE ReadNext
      <3>1. Head(next) \in Origin /\ next' \in Seq(Origin) /\ UNCHANGED <<reading, procReady>>
        BY <1>0, <2>2, HeadTailProperties DEF ReadNext, TypesOK
      <3> DEFINE ps == Append(packets, Head(next))
      <3>2. ps \in Seq(Origin) /\ ps # <<>>
        BY <1>0, <3>1, AppendProperties, EmptySeq DEF TypesOK
      <3> HIDE DEF ps
      <3>3. CASE isReady
        <4>1. sendNext(ps)
          BY <2>2, <3>3 DEF ReadNext, ps
        <4>2. TypesOK' /\ DoneOK'
          BY <1>0, <1>1, <1>3, <3>1, <3>2, <4>1 DEF TypesOK, DoneOK
        <4>3. Flag = 1 /\ Flag' = 0 /\ n' + Flag' = n + 1
          BY <1>3, <3>2, <3>3, <4>1
        <4>4. n' \in Nat
          BY <1>3, <3>2, <4>1, LenProperties
        <4>5. procReady' + n' + Flag' = procReady + n + Flag
          <5>1. procReady' = procReady
            BY <3>1
          <5>2. ASSUME NEW a \in Nat, NEW b \in Nat, NEW d \in Nat, b + 0 = d + 1
                PROVE  a + b + 0 = a + d + 1
            BY <5>2
          <5> HIDE DEF n, Flag, Busy
          <5> QED
            BY <1>4, <4>3, <4>4, <5>1, <5>2, Zenon
        <4> QED
          BY <4>2, <4>5
      <3>4. CASE ~isReady
        <4>1. packets' = ps /\ UNCHANGED <<isReady, newPacket>>
          BY <2>2, <3>4 DEF ReadNext, ps
        <4> QED
          BY <1>0, <1>1, <3>1, <3>2, <4>1 DEF TypesOK, DoneOK
      <3> QED
        BY <3>3, <3>4
    <2>3. CASE ReadProcReady
      <3>1. /\ procReady > 0 /\ procReady' = procReady - 1 /\ sendNext(packets)
            /\ UNCHANGED <<next, reading>>
        BY <2>3 DEF ReadProcReady
      <3>2. packets \in Seq(Origin)
        BY <1>0 DEF TypesOK
      <3>3. TypesOK' /\ DoneOK'
        <4>1. procReady' \in Nat
          BY <1>4, <3>1
        <4>2. /\ packets' \in Seq(Origin) /\ isReady' \in BOOLEAN
              /\ newPacket' \in [buf : Seq(Origin), closed : BOOLEAN]
              /\ newPacket'.closed = newPacket.closed
          BY <1>3, <3>1, <3>2
        <4>3. TypesOK'
          BY <1>0, <1>1, <3>1, <4>1, <4>2 DEF TypesOK
        <4>4. DoneOK'
          BY <1>0, <1>1, <3>1, <4>2 DEF DoneOK
        <4> QED
          BY <4>3, <4>4
      <3>4. n' + Flag' = n + 1
        BY <1>3, <3>1, <3>2
      <3>5. n' \in Nat /\ Flag' \in Nat
        BY <1>3, <3>1, <3>2, LenProperties
      <3> HIDE DEF n, Flag, Busy
      <3>6. Flag = 0 \/ procReady + n + Flag + Busy # 1
        BY <1>4, <3>1
      <3>7. procReady' + n' + Flag' = procReady + n
        <4>1. PICK m \in Nat, f \in Nat : m = n' /\ f = Flag'
          BY <3>5
        <4>2. m + f = n + 1 /\ procReady' = procReady - 1 /\ n \in Nat /\ procReady \in Nat
          BY <1>4, <3>1, <3>4, <4>1, Zenon
        <4>3. procReady' + m + f = procReady + n
          BY <4>2
        <4> QED
          BY <4>1, <4>3, Zenon
      <3>8. procReady' + n' + Flag' = procReady + n + Flag \/ procReady + n + Flag + Busy # 1
        BY <1>4, <3>6, <3>7
      <3> QED
        BY <3>3, <3>8
    <2>4. CASE ReadDone
      <3>1. /\ done /\ newPacket' = [newPacket EXCEPT !.closed = TRUE]
            /\ UNCHANGED <<next, packets, isReady, procReady>>
        BY <2>4 DEF ReadDone
      <3>2. newPacket' \in [buf : Seq(Origin), closed : BOOLEAN]
        BY <1>0, <3>1 DEF TypesOK
      <3> QED
        BY <1>0, <1>1, <3>1, <3>2 DEF TypesOK, DoneOK
    <2> QED
      BY <2>1, <2>2, <2>3, <2>4 DEF readNexts
  <1>8. BeforeOK'
    <2>1. ASSUME ~done PROVE OnePacketAtATime'
      <3>1. procReady + n + Flag + Busy = 1
        BY <1>0, <1>5, <2>1 DEF BeforeOK
      <3>2. procReady' + n' + Flag' = procReady + n + Flag
        BY <1>7, <2>1, <3>1
      <3>3. procReady' + n' + Flag' + Busy' = 1
        BY <1>6, <3>1, <3>2
      <3> QED
        BY <1>5, <3>3
    <2> QED
      BY <1>0, <1>1, <2>1 DEF BeforeOK
  <1> QED
    BY <1>2, <1>7, <1>8 DEF Inv

\* Taking a packet, and asking for the next one.
LEMMA SelectInv == Inv /\ ~crashed /\ (Select \/ PutReady) => Inv'
  <1> SUFFICES ASSUME Inv, ~crashed, Select \/ PutReady PROVE Inv'
    OBVIOUS
  <1>0. TypesOK /\ DoneOK /\ BeforeOK /\ AccOK /\ DispatchOK /\ GivenOK
    BY DEF Inv
  <1>1. UNCHANGED <<aggAndVerify, bad, next, packets, isReady, reading, accSig, accBs, rcvd,
                    verifiers, locked, out, outputs, done, app, final, crashed>>
    BY DEF Select, PutReady, env, reader, acc, disp, appl
  <1>2. newPacket.buf \in Seq(Origin) /\ Len(newPacket.buf) \in Nat /\ procReady \in Nat
    BY <1>0, LenProperties DEF TypesOK
  <1>3. AccOK' /\ GivenOK'
    <2>1. incoming.pc # "close"
      BY DEF Select, PutReady
    <2> QED
      BY <1>0, <1>1, <2>1 DEF AccOK, GivenOK, Valid, Fresh
  <1>4. CASE PutReady
    <2>1. /\ incoming.pc \in {"init", "ready"} /\ procReady = 0 /\ procReady' = 1
          /\ incoming' = at("select") /\ newPacket' = newPacket
      BY <1>4 DEF PutReady
    <2>2. TypesOK' /\ DoneOK' /\ DispatchOK'
      BY <1>0, <1>1, <2>1 DEF TypesOK, DoneOK, DispatchOK, at
    <2>3. OnePacketAtATime => OnePacketAtATime'
      <3>1. PICK f \in Nat : f = (IF isReady THEN 1 ELSE 0)
        OBVIOUS
      <3>2. (IF isReady' THEN 1 ELSE 0) = f /\ incoming'.pc = "select" /\ incoming.pc # "select"
        BY <1>1, <2>1, <3>1 DEF at
      <3>3. OnePacketAtATime => procReady + Len(newPacket.buf) + f + 1 = 1
        BY <3>1, <3>2, Zenon DEF OnePacketAtATime
      <3>4. procReady' + Len(newPacket'.buf) + f + 0 = 1 => OnePacketAtATime'
        BY <3>2, Zenon DEF OnePacketAtATime
      <3>5. procReady + Len(newPacket.buf) + f + 1 = 1
               => procReady' + Len(newPacket'.buf) + f + 0 = 1
        BY <1>2, <2>1
      <3> QED
        BY <3>3, <3>4, <3>5
    <2>4. BeforeOK'
      BY <1>0, <1>1, <2>1, <2>3 DEF BeforeOK, at
    <2> QED
      BY <1>3, <2>2, <2>4 DEF Inv
  <1>5. CASE Select /\ newPacket.buf # <<>> /\ newPacket' = [newPacket EXCEPT !.buf = Tail(@)]
             /\ incoming' = [pc |-> "take", p |-> Head(newPacket.buf)]
    <2>1. /\ Head(newPacket.buf) \in Origin /\ Tail(newPacket.buf) \in Seq(Origin)
          /\ Len(Tail(newPacket.buf)) = Len(newPacket.buf) - 1
      BY <1>2, <1>5, HeadTailProperties
    <2>2. /\ newPacket' \in [buf : Seq(Origin), closed : BOOLEAN]
          /\ newPacket'.closed = newPacket.closed /\ newPacket'.buf = Tail(newPacket.buf)
      BY <1>0, <1>5, <2>1 DEF TypesOK
    <2>3. procReady' = procReady /\ incoming.pc = "select"
      BY <1>5 DEF Select
    <2>4. TypesOK' /\ DoneOK' /\ DispatchOK'
      <3>1. TypesOK'
        BY <1>0, <1>1, <1>5, <2>1, <2>2, <2>3 DEF TypesOK
      <3>2. DoneOK' /\ DispatchOK'
        BY <1>0, <1>1, <1>5, <2>1, <2>2 DEF DoneOK, DispatchOK
      <3> QED
        BY <3>1, <3>2
    <2>5. OnePacketAtATime => OnePacketAtATime'
      <3>1. Len(newPacket'.buf) = Len(newPacket.buf) - 1
        BY <2>1, <2>2
      <3>2. PICK f \in Nat : f = (IF isReady THEN 1 ELSE 0)
        OBVIOUS
      <3>3. (IF isReady' THEN 1 ELSE 0) = f /\ incoming'.pc # "select"
        BY <1>1, <1>5, <3>2
      <3>4. OnePacketAtATime => procReady + Len(newPacket.buf) + f + 0 = 1
        BY <2>3, <3>2, Zenon DEF OnePacketAtATime
      <3>5. procReady' + Len(newPacket'.buf) + f + 1 = 1 => OnePacketAtATime'
        BY <3>3, Zenon DEF OnePacketAtATime
      <3>6. procReady + Len(newPacket.buf) + f + 0 = 1
               => procReady' + Len(newPacket'.buf) + f + 1 = 1
        BY <1>2, <2>3, <3>1
      <3> QED
        BY <3>4, <3>5, <3>6
    <2>6. BeforeOK'
      BY <1>0, <1>1, <1>5, <2>5 DEF BeforeOK
    <2> QED
      BY <1>3, <2>4, <2>6 DEF Inv
  <1>6. CASE Select /\ newPacket' = newPacket /\ done
             /\ incoming' \in {at("ended"), [pc |-> "take", p |-> Nil]}
    <2>1. procReady' = procReady
      BY <1>6 DEF Select
    <2>2. TypesOK' /\ DoneOK' /\ DispatchOK'
      BY <1>0, <1>1, <1>6, <2>1 DEF TypesOK, DoneOK, DispatchOK, at
    <2>3. BeforeOK'
      BY <1>0, <1>1, <1>6 DEF BeforeOK
    <2> QED
      BY <1>3, <2>2, <2>3 DEF Inv
  <1>7. newPacket.closed => done
    BY <1>0 DEF DoneOK
  <1> QED
    BY <1>4, <1>5, <1>6, <1>7 DEF Select

\* What a packet that was taken may change.
LEMMA TakeInv ==
    ASSUME Inv, incoming.pc = "take",
           UNCHANGED <<aggAndVerify, bad, next, packets, isReady, reading, newPacket, procReady,
                       locked, out, outputs, done, app, final>>,
           UNCHANGED crashed \/ done,
           incoming' \in {incoming, at("ready"), at("output")},
           accBs' \subseteq Origin, rcvd' \in Nat, verifiers' \in Nat, AccOK', DispatchOK',
           incoming'.pc = "output" => ~aggAndVerify, verifiers' = verifiers \/ aggAndVerify
    PROVE  Inv'
  <1>0. TypesOK /\ DoneOK /\ BeforeOK /\ AccOK /\ DispatchOK /\ GivenOK
    BY DEF Inv
  <1>1. incoming'.pc \in {"take", "ready", "output"} /\ incoming.p \in Origin \cup {Nil}
    BY <1>0 DEF at, TypesOK
  <1>2. TypesOK'
    BY <1>0, <1>1 DEF TypesOK, at
  <1>3. DoneOK'
    BY <1>0, <1>1 DEF DoneOK, at
  <1>4. OnePacketAtATime' <=> OnePacketAtATime
    BY <1>1 DEF OnePacketAtATime
  <1>5. BeforeOK'
    BY <1>0, <1>1, <1>4 DEF BeforeOK
  <1>6. GivenOK'
    BY <1>0 DEF GivenOK, Valid, Fresh
  <1> QED
    BY <1>2, <1>3, <1>5, <1>6 DEF Inv

\* verifyPacket, which takes a packet, verifies it alone and counts it, and gives
\* out the aggregate when it has enough (aggregator.go:224).
LEMMA VerifyPacketInv == Inv /\ ~crashed /\ verifyPacket => Inv'
  <1> SUFFICES ASSUME Inv, ~crashed, verifyPacket PROVE Inv'
    OBVIOUS
  <1> DEFINE p == incoming.p
  <1>0. TypesOK /\ DoneOK /\ BeforeOK /\ AccOK /\ DispatchOK /\ GivenOK
    BY DEF Inv
  <1>1. /\ UNCHANGED <<aggAndVerify, bad, next, packets, isReady, reading, newPacket, procReady,
                       verifiers, locked, out, outputs, done, app, final>>
        /\ incoming.pc = "take" /\ aggAndVerify = FALSE
    BY <1>0 DEF verifyPacket, env, reader, disp, appl, TypesOK
  <1>2. CASE UNCHANGED <<acc, crashed>> /\ incoming' = after(p)
    <2>1. /\ accBs' = accBs /\ rcvd' = rcvd /\ accSig' = accSig /\ crashed' = crashed
          /\ incoming' = at("ready")
      BY <1>2 DEF acc, after
    <2>2. AccOK' /\ DispatchOK' /\ accBs' \subseteq Origin /\ rcvd' \in Nat /\ verifiers' \in Nat
      BY <1>0, <1>1, <2>1 DEF AccOK, DispatchOK, TypesOK, at
    <2>3. incoming'.pc # "output"
      BY <2>1 DEF at
    <2> QED
      BY <1>1, <2>1, <2>2, <2>3, TakeInv
  <1>3. CASE ~Known(p) /\ p = Nil /\ crashed' = TRUE /\ UNCHANGED <<incoming, acc>>
    <2>1. /\ accBs' = accBs /\ rcvd' = rcvd /\ accSig' = accSig /\ incoming' = incoming
      BY <1>3 DEF acc
    <2>2. done
      BY <1>0, <1>1, <1>3, GossipAssumption DEF DoneOK
    <2>3. AccOK' /\ DispatchOK' /\ accBs' \subseteq Origin /\ rcvd' \in Nat /\ verifiers' \in Nat
      BY <1>0, <1>1, <2>1 DEF AccOK, DispatchOK, TypesOK
    <2>4. incoming'.pc # "output"
      BY <1>1, <2>1
    <2> QED
      BY <1>1, <2>1, <2>2, <2>3, <2>4, TakeInv
  <1>4. CASE /\ ~Known(p) /\ p # Nil /\ p \notin bad /\ add(p) /\ UNCHANGED crashed
             /\ incoming' = IF enough(rcvd') THEN at("output") ELSE after(p)
    <2>1. p \in Origin /\ p \notin accBs
      BY <1>0, <1>4 DEF TypesOK, Known
    <2>2. /\ accBs' = accBs \cup {p} /\ accSig' = [who |-> accBs', once |-> TRUE]
          /\ accBs' \subseteq Origin /\ rcvd' = Cardinality(accBs') /\ rcvd' = rcvd + 1
      BY <1>0, <1>4, <2>1, AddCounts
    <2>3. rcvd \in Nat /\ rcvd' \in Nat /\ verifiers' \in Nat /\ Threshold \in Nat
      BY <1>0, <1>1, <2>2, GossipAssumption DEF TypesOK
    <2>4. AccOK'
      BY <1>0, <1>1, <1>4, <2>2 DEF AccOK
    <2>5. /\ incoming' \in {at("ready"), at("output")}
          /\ incoming'.pc = "output" => rcvd' >= Threshold
      BY <1>4 DEF after, at, enough
    <2>6. DispatchOK'
      <3>1. (locked => accBs \cap bad = {}) /\ (aggAndVerify = FALSE => accBs \cap bad = {})
        BY <1>0 DEF DispatchOK, AccOK
      <3>2. (locked => accBs \cap bad = {})'
        BY <1>1, <1>4, <2>2, <3>1
      <3>3. verifiers > 0 \/ locked => rcvd' >= Threshold
        BY <1>0, <2>2, <2>3 DEF DispatchOK
      <3> QED
        BY <1>1, <2>5, <3>2, <3>3 DEF DispatchOK
    <2> QED
      BY <1>1, <1>4, <2>2, <2>3, <2>4, <2>5, <2>6, TakeInv
  <1> QED
    BY <1>2, <1>3, <1>4 DEF verifyPacket, panics

\* The aggregate is given out by handleIncoming, or done is closed.
LEMMA OutputInv == Inv /\ ~crashed /\ verifyPacketOutput => Inv'
  <1> SUFFICES ASSUME Inv, ~crashed, verifyPacketOutput PROVE Inv'
    OBVIOUS
  <1>0. TypesOK /\ DoneOK /\ BeforeOK /\ AccOK /\ DispatchOK /\ GivenOK
    BY DEF Inv
  <1>1. UNCHANGED <<aggAndVerify, bad, next, packets, isReady, reading, newPacket, procReady,
                    accSig, accBs, rcvd, verifiers, locked, app, final>>
    BY DEF verifyPacketOutput, env, reader, acc, appl
  <1>2. AccOK'
    BY <1>0, <1>1 DEF AccOK
  <1>3. CASE /\ incoming.pc = "output" /\ out = <<>>
             /\ out' = <<[sig |-> accSig, bits |-> Shared]>> /\ outputs' = outputs + 1
             /\ incoming' = at("close") /\ UNCHANGED <<done, crashed>>
    <2>1. TypesOK' /\ DoneOK' /\ DispatchOK'
      BY <1>0, <1>1, <1>3 DEF TypesOK, DoneOK, DispatchOK, at
    <2>2. BeforeOK'
      <3>1. outputs' # 0
        BY <1>0, <1>3 DEF TypesOK
      <3>2. OnePacketAtATime' <=> OnePacketAtATime
        BY <1>1, <1>3 DEF OnePacketAtATime, at
      <3> QED
        BY <1>0, <1>1, <1>3, <3>1, <3>2 DEF BeforeOK, at
    <2>3. Valid([sig |-> accSig, bits |-> Shared])
      <3>1. aggAndVerify = FALSE /\ rcvd >= Threshold
        BY <1>0, <1>3 DEF DoneOK, DispatchOK, TypesOK
      <3>2. /\ accSig.once /\ accSig.who = accBs /\ accBs \cap bad = {}
            /\ Cardinality(accBs) >= Threshold
        BY <1>0, <3>1 DEF AccOK
      <3> QED
        BY <3>2 DEF Valid
    <2>4. Fresh([sig |-> accSig, bits |-> Shared])'
      BY <1>0, <1>1, <1>3 DEF Fresh, AccOK, at
    <2>5. Valid([sig |-> accSig, bits |-> Shared])'
      BY <1>1, <2>3 DEF Valid
    <2>6. app' \in {"got", "ended"} => Valid(final)' /\ Fresh(final)'
      BY <1>0, <1>1, <1>3 DEF GivenOK, Valid, Fresh
    <2>7. GivenOK'
      BY <1>1, <1>3, <2>4, <2>5, <2>6 DEF GivenOK
    <2> QED
      BY <1>2, <2>1, <2>2, <2>7 DEF Inv
  <1>4. CASE /\ incoming.pc = "close" /\ done' = TRUE
             /\ incoming' = at("ready") /\ UNCHANGED <<out, outputs>>
    <2>1. outputs # 0
      BY <1>0, <1>4 DEF BeforeOK
    <2>2. TypesOK' /\ DoneOK' /\ DispatchOK'
      BY <1>0, <1>1, <1>4 DEF TypesOK, DoneOK, DispatchOK, at
    <2>3. BeforeOK' /\ GivenOK'
      BY <1>0, <1>1, <1>4, <2>1 DEF BeforeOK, GivenOK, Valid, Fresh
    <2> QED
      BY <1>2, <2>2, <2>3 DEF Inv
  <1> QED
    BY <1>3, <1>4 DEF verifyPacketOutput

\* aggregate, which counts a packet unverified and starts a goroutine when it has
\* enough (aggregator.go:167).
LEMMA AggregateInv == Inv /\ ~crashed /\ aggregate => Inv'
  <1> SUFFICES ASSUME Inv, ~crashed, aggregate PROVE Inv'
    OBVIOUS
  <1> DEFINE p == incoming.p
  <1>0. TypesOK /\ DoneOK /\ BeforeOK /\ AccOK /\ DispatchOK /\ GivenOK
    BY DEF Inv
  <1>1. /\ UNCHANGED <<aggAndVerify, bad, next, packets, isReady, reading, newPacket, procReady,
                       locked, out, outputs, done, app, final, crashed>>
        /\ incoming.pc = "take" /\ aggAndVerify = TRUE /\ incoming' = at("ready")
    BY <1>0 DEF aggregate, env, reader, appl, after, TypesOK
  <1>2. p \in Origin
    BY <1>0, <1>1, Zenon DEF DoneOK
  <1>3. CASE UNCHANGED <<acc, verifiers>>
    <2>1. accBs' = accBs /\ rcvd' = rcvd /\ accSig' = accSig /\ verifiers' = verifiers
      BY <1>3 DEF acc
    <2>2. AccOK' /\ DispatchOK' /\ accBs' \subseteq Origin /\ rcvd' \in Nat /\ verifiers' \in Nat
      BY <1>0, <1>1, <2>1 DEF AccOK, DispatchOK, TypesOK, at
    <2>3. incoming'.pc # "output"
      BY <1>1 DEF at
    <2> QED
      BY <1>1, <2>2, <2>3, TakeInv
  <1>4. CASE /\ ~Known(p) /\ ~locked /\ add(p)
             /\ verifiers' = IF enough(rcvd') THEN verifiers + 1 ELSE verifiers
    <2>1. p \notin accBs
      BY <1>2, <1>4, GossipAssumption DEF Known
    <2>2. /\ accBs' = accBs \cup {p} /\ accSig' = [who |-> accBs', once |-> TRUE]
          /\ accBs' \subseteq Origin /\ rcvd' = Cardinality(accBs') /\ rcvd' = rcvd + 1
      BY <1>0, <1>2, <1>4, <2>1, AddCounts
    <2>3. rcvd \in Nat /\ rcvd' \in Nat /\ verifiers \in Nat /\ verifiers' \in Nat /\ Threshold \in Nat
      BY <1>0, <1>4, <2>2, GossipAssumption DEF TypesOK
    <2>4. AccOK'
      BY <1>1, <2>2 DEF AccOK
    <2>5. DispatchOK'
      <3>1. verifiers' > 0 => rcvd' >= Threshold
        BY <1>0, <1>4, <2>2, <2>3 DEF DispatchOK, enough
      <3> QED
        BY <1>1, <1>4, <3>1 DEF DispatchOK, at
    <2>6. incoming'.pc # "output"
      BY <1>1 DEF at
    <2> QED
      BY <1>1, <2>2, <2>3, <2>4, <2>5, <2>6, TakeInv
  <1> QED
    BY <1>3, <1>4 DEF aggregate

\* verifyAndDispatch, the goroutine that verifies the whole aggregate and gives it
\* out if it is valid (aggregator.go:197).
LEMMA DispatchInv == Inv /\ ~crashed /\ verifyAndDispatch => Inv'
  <1> SUFFICES ASSUME Inv, ~crashed, verifyAndDispatch PROVE Inv'
    OBVIOUS
  <1> DEFINE ms == [sig |-> accSig, bits |-> accBs]
  <1>0. TypesOK /\ DoneOK /\ BeforeOK /\ AccOK /\ DispatchOK /\ GivenOK
    BY DEF Inv
  <1>1. UNCHANGED <<aggAndVerify, bad, next, packets, isReady, reading, newPacket, procReady,
                    incoming, accSig, accBs, rcvd, done, app, final, crashed>>
    BY DEF verifyAndDispatch, env, reader, acc, appl
  <1>2. AccOK'
    BY <1>0, <1>1 DEF AccOK
  <1>3. verifiers > 0 \/ locked
    BY DEF verifyAndDispatch
  <1>4. /\ verifiers' \in Nat /\ (verifiers' > 0 => verifiers > 0) /\ locked' \in BOOLEAN
        /\ outputs' \in Nat
    <2>1. verifiers \in Nat /\ outputs \in Nat /\ locked \in BOOLEAN
      BY <1>0 DEF TypesOK
    <2>2. verifiers' \in Nat /\ (verifiers' > 0 => verifiers > 0)
      BY <2>1 DEF verifyAndDispatch
    <2>3. outputs' \in Nat
      BY <2>1 DEF verifyAndDispatch
    <2>4. locked' = locked \/ locked' = TRUE \/ locked' = FALSE
      BY DEF verifyAndDispatch
    <2> QED
      BY <2>1, <2>2, <2>3, <2>4
  <1>5. TypesOK' /\ DoneOK'
    BY <1>0, <1>1, <1>3, <1>4 DEF TypesOK, DoneOK
  <1>6. locked' => rcvd >= Threshold /\ accBs \cap bad = {}
    BY <1>0 DEF verifyAndDispatch, aggregateVerifies, DispatchOK, AccOK
  <1>7. DispatchOK'
    BY <1>0, <1>1, <1>4, <1>6 DEF DispatchOK
  <1>8. CASE out' = <<ms>> /\ outputs' = outputs + 1
    <2>1. rcvd >= Threshold /\ accBs \cap bad = {}
      BY <1>0, <1>8 DEF verifyAndDispatch, aggregateVerifies, DispatchOK, AccOK, TypesOK
    <2>2. accSig.once /\ accSig.who = accBs /\ Cardinality(accBs) >= Threshold
      BY <1>0, <2>1 DEF AccOK
    <2>3. Valid(ms)
      BY <2>1, <2>2 DEF Valid
    <2>4. GivenOK'
      <3>1. accBs # Shared
        BY <1>0, GossipAssumption DEF TypesOK, Shared
      <3>2. Valid(ms)' /\ Fresh(ms)'
        BY <1>1, <2>3, <3>1 DEF Valid, Fresh
      <3>3. app' \in {"got", "ended"} => Valid(final)' /\ Fresh(final)'
        BY <1>0, <1>1 DEF GivenOK, Valid, Fresh
      <3>4. out' = <<ms'>>
        BY <1>1, <1>8
      <3> QED
        BY <3>2, <3>3, <3>4 DEF GivenOK
    <2>5. BeforeOK'
      <3>1. outputs' # 0
        BY <1>0, <1>8 DEF TypesOK
      <3>2. OnePacketAtATime' <=> OnePacketAtATime
        BY <1>1 DEF OnePacketAtATime
      <3> QED
        BY <1>0, <1>1, <3>1, <3>2 DEF BeforeOK
    <2> QED
      BY <1>2, <1>5, <1>7, <2>4, <2>5 DEF Inv
  <1>9. CASE UNCHANGED <<out, outputs>>
    <2>1. GivenOK'
      BY <1>0, <1>1, <1>9 DEF GivenOK, Valid, Fresh
    <2>2. outputs = 0 => ~locked'
      BY <1>0 DEF verifyAndDispatch, BeforeOK
    <2>3. OnePacketAtATime' <=> OnePacketAtATime
      BY <1>1 DEF OnePacketAtATime
    <2>4. BeforeOK'
      BY <1>0, <1>1, <1>9, <2>2, <2>3 DEF BeforeOK
    <2> QED
      BY <1>2, <1>5, <1>7, <2>1, <2>4 DEF Inv
  <1> QED
    BY <1>8, <1>9 DEF verifyAndDispatch

\* The application, which receives, times out, or verifies what it received.
LEMMA RunInv == Inv /\ ~crashed /\ (RunReceives \/ RunTimeout \/ RunVerifies) => Inv'
  <1> SUFFICES ASSUME Inv, ~crashed, RunReceives \/ RunTimeout \/ RunVerifies PROVE Inv'
    OBVIOUS
  <1>0. TypesOK /\ DoneOK /\ BeforeOK /\ AccOK /\ DispatchOK /\ GivenOK
    BY DEF Inv
  <1>1. UNCHANGED <<aggAndVerify, bad, next, packets, isReady, reading, newPacket, procReady,
                    incoming, accSig, accBs, rcvd, verifiers, locked, outputs, done>>
    BY DEF RunReceives, RunTimeout, RunVerifies, env, reader, acc, disp
  <1>2. TypesOK' /\ DoneOK' /\ AccOK' /\ DispatchOK'
    BY <1>0, <1>1 DEF TypesOK, DoneOK, AccOK, DispatchOK
  <1>3. OnePacketAtATime' <=> OnePacketAtATime
    BY <1>1 DEF OnePacketAtATime
  <1>4. CASE RunReceives
    <2>1. PICK ms : out = <<ms>> /\ Valid(ms) /\ Fresh(ms)
      BY <1>0, <1>4 DEF RunReceives, GivenOK
    <2>2. Head(out) = ms
      BY <2>1
    <2>3. out' = <<>> /\ final' = ms /\ UNCHANGED crashed
      BY <1>4, <2>2 DEF RunReceives
    <2>4. BeforeOK'
      BY <1>0, <1>1, <1>3, <1>4, <2>3 DEF BeforeOK, RunReceives
    <2>5. GivenOK'
      BY <1>1, <2>1, <2>3 DEF GivenOK, Valid, Fresh
    <2> QED
      BY <1>2, <2>4, <2>5 DEF Inv
  <1>5. CASE RunTimeout
    <2>1. out' = out /\ app' = "timedOut"
      BY <1>5 DEF RunTimeout, disp
    <2>2. BeforeOK'
      BY <1>0, <1>1, <1>3, <2>1 DEF BeforeOK
    <2>3. GivenOK'
      BY <1>0, <1>1, <2>1 DEF GivenOK, Valid, Fresh
    <2> QED
      BY <1>2, <2>2, <2>3 DEF Inv
  <1>6. CASE RunVerifies
    <2>1. UNCHANGED <<out, final>> /\ app = "got" /\ app' = "ended"
      BY <1>6 DEF RunVerifies, disp
    <2>2. GivenOK'
      BY <1>0, <1>1, <2>1 DEF GivenOK, Valid, Fresh
    <2>3. ~done => ~crashed'
      <3> SUFFICES ASSUME ~done PROVE ~crashed'
        OBVIOUS
      <3>1. Valid(final) /\ Fresh(final)
        BY <1>0, <2>1 DEF GivenOK
      <3>2. final.sig.who = bitsOf(final)
        BY <3>1 DEF Valid, Fresh, bitsOf
      <3>3. final.sig.once /\ final.sig.who \cap bad = {}
        BY <3>1 DEF Valid
      <3> QED
        BY <1>6, <3>2, <3>3 DEF RunVerifies
    <2>4. BeforeOK'
      BY <1>0, <1>1, <1>3, <2>1, <2>3 DEF BeforeOK
    <2> QED
      BY <1>2, <2>2, <2>4 DEF Inv
  <1> QED
    BY <1>4, <1>5, <1>6

\* The inductive invariant: as long as done is open packets come one at a time and
\* nothing but the timeout panics, and until something is given out it is open and
\* nobody holds the lock (BeforeOK); the aggregate is the sum of
\* the distinct origins it counts (AccOK); and whoever is about to give it out has
\* enough of them (DispatchOK), in both ways to verify of aggregator.go.
THEOREM GossipInvariant == Spec => []Inv
  <1>1. Inv /\ UNCHANGED vars => Inv'
    BY DEF vars, env, reader, acc, disp, appl, Inv, TypesOK, DoneOK, BeforeOK, AccOK, DispatchOK,
           GivenOK, Valid, Fresh, OnePacketAtATime
  <1>2. Inv /\ [Next]_vars => Inv'
    BY <1>1, ReaderInv, SelectInv, VerifyPacketInv, OutputInv, AggregateInv, DispatchInv, RunInv
       DEF Next, handleIncoming
  <1> QED
    BY <1>2, InitInv, PTL DEF Spec

\* The aggregator does not fail before it has given out a signature and closed done:
\* until then its two loops hand over packets one by one (aggregator.go:128, 152, 168)
\* and the only panic is the application's timeout (p2p/main.go:124).
THEOREM GossipTrouble == Spec => []TroubleOnlyAfterOutput
  <1>1. Inv => TroubleOnlyAfterOutput
    BY DEF Inv, TypesOK, DoneOK, BeforeOK, TroubleOnlyAfterOutput
  <1> QED
    BY <1>1, GossipInvariant, PTL

\* What is given out has Threshold valid contributions, each counted once, in both
\* modes of verification (aggregator.go:216, 262).
THEOREM GossipGivenOut == Spec => []GivenOutIsValid
  <1>1. Inv => GivenOutIsValid
    <2> SUFFICES ASSUME Inv,
                        NEW ms \in {out[i] : i \in 1 .. Len(out)}
                                      \cup (IF app \in {"got", "ended"} THEN {final} ELSE {})
                 PROVE  Valid(ms)
      BY DEF GivenOutIsValid, Valid
    <2>1. ASSUME NEW i \in 1 .. Len(out) PROVE Valid(out[i])
      <3>1. CASE out = <<>>
        BY <2>1, <3>1
      <3>2. ASSUME NEW m, out = <<m>>, Valid(m) PROVE Valid(out[i])
        <4>1. Len(out) = 1 /\ out[1] = m
          BY <3>2
        <4>2. i = 1
          BY <2>1, <4>1
        <4> QED
          BY <3>2, <4>1, <4>2
      <3> QED
        BY <3>1, <3>2 DEF Inv, GivenOK
    <2>2. app \in {"got", "ended"} => Valid(final)
      BY DEF Inv, GivenOK
    <2> QED
      BY <2>1, <2>2
  <1> QED
    BY <1>1, GossipInvariant, PTL
=============================================================================

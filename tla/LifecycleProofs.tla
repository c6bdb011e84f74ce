-------------------------- MODULE LifecycleProofs --------------------------
(***************************************************************************)
(* Proofs about Start, Stop and the goroutines of one node, for any number *)
(* of levels and signatures and any capacity of the channel of verified    *)
(* signatures: nothing is sent on the closed channel to the application,   *)
(* and what the loops still do after Stop is bounded.                      *)
(***************************************************************************)
EXTENDS Lifecycle, TLAPS

TypesOK ==
    /\ h \in {"new", "started", "stopped"}
    /\ sigs \in Nat /\ queue \in Nat /\ pill \in BOOLEAN
    /\ procLoop \in {"off", "reading", "verifying", "publishing", "ended"}
    /\ verified \in [len : Nat, closed : BOOLEAN] /\ out \in [len : Nat, closed : BOOLEAN]
    /\ consumer \in {"off", "waiting", "acting", "ended"}
    /\ ticker \in [on : BOOLEAN, tick : BOOLEAN]
    /\ updateLoop \in {"off", "waiting", "updating", "ended"}
    /\ timeoutStart \in {"off", "spawned", "ended"}
    /\ timeout \in [started : BOOLEAN, on : BOOLEAN, tick : BOOLEAN, done : BOOLEAN]
    /\ linearLoop \in {"off", "starting", "selecting", "ended"}
    /\ idx \in Nat /\ lateUpdates \in Nat /\ lateStarts \in Nat /\ sentOnClosed \in BOOLEAN

\* Stop closes the channel to the application under the lock that newBest takes
\* as well, and sets done: that is why newBest finds it open.
OutOK == (out.closed <=> h = "stopped") /\ ~sentOnClosed

One(b) == IF b THEN 1 ELSE 0

\* The periodic updates that may still come after Stop: the one that waits for the
\* lock and the tick that is left.
UpdatesOK == /\ h # "stopped" => lateUpdates = 0
             /\ h = "stopped" => /\ ~ticker.on
                                 /\ lateUpdates + One(updateLoop = "updating")
                                       + One(ticker.tick) <= 2

\* The level starts that may still come after the timeout was told to end.
StartsOK == /\ h # "stopped" => lateStarts = 0 /\ ~timeout.done
            /\ h = "new" => timeoutStart = "off"
            /\ timeout.started => timeoutStart = "ended"
            /\ timeout.done => /\ timeout.started /\ ~timeout.on
                               /\ lateStarts + One(linearLoop = "starting")
                                     + One(timeout.tick) <= 2

Inv == TypesOK /\ OutOK /\ UpdatesOK /\ StartsOK

-----------------------------------------------------------------------------
\* Nothing runs before Start.
LEMMA InitInv == Init => Inv
  <1> SUFFICES ASSUME Init PROVE Inv
    OBVIOUS
  <1>1. TypesOK
    BY DEF Init, TypesOK
  <1>2. OutOK /\ UpdatesOK /\ StartsOK
    BY DEF Init, OutOK, UpdatesOK, StartsOK
  <1> QED
    BY <1>1, <1>2 DEF Inv

\* Every goroutine stays at one of its places, and the counters are numbers.
LEMMA NextTypes == TypesOK /\ [Next]_vars => TypesOK'
  <1> SUFFICES ASSUME TypesOK, [Next]_vars PROVE TypesOK'
    OBVIOUS
  <1> USE DEF TypesOK, procVars, consVars, updateVars, timeoutVars
  <1>1. CASE Start \/ NewPacket \/ verifySignature \/ periodicUpdate \/ StartLevel
    BY <1>1 DEF Start, NewPacket, verifySignature, periodicUpdate, StartLevel
  <1>2. CASE Stop
    <2>1. timeout' \in [started : BOOLEAN, on : BOOLEAN, tick : BOOLEAN, done : BOOLEAN]
      BY <1>2 DEF Stop, timeoutStop
    <2>2. ticker' \in [on : BOOLEAN, tick : BOOLEAN]
      BY <1>2 DEF Stop
    <2>3. out' \in [len : Nat, closed : BOOLEAN]
      BY <1>2 DEF Stop
    <2> QED
      BY <1>2, <2>1, <2>2, <2>3 DEF Stop
  <1>3. CASE readTodos
    <2>1. verified' \in [len : Nat, closed : BOOLEAN]
      BY <1>3 DEF readTodos
    <2>2. queue' \in Nat /\ procLoop' \in {"reading", "verifying", "ended"}
      BY <1>3 DEF readTodos
    <2> QED
      BY <1>3, <2>1, <2>2 DEF readTodos
  <1>4. CASE verifyAndPublish
    BY <1>4 DEF verifyAndPublish
  <1>5. CASE Store
    BY <1>5 DEF Store
  <1>6. CASE OnVerifiedSignature
    <2>1. out' \in [len : Nat, closed : BOOLEAN] /\ sentOnClosed' \in BOOLEAN
      BY <1>6 DEF OnVerifiedSignature, newBest
    <2> QED
      BY <1>6, <2>1 DEF OnVerifiedSignature
  <1>7. CASE TickerFires \/ TakeTick
    <2>1. ticker' \in [on : BOOLEAN, tick : BOOLEAN]
      BY <1>7 DEF TickerFires, TakeTick
    <2> QED
      BY <1>7, <2>1 DEF TickerFires, TakeTick
  <1>8. CASE TimeoutStart \/ TimeoutFires
    <2>1. timeout' \in [started : BOOLEAN, on : BOOLEAN, tick : BOOLEAN, done : BOOLEAN]
      BY <1>8 DEF TimeoutStart, TimeoutFires
    <2> QED
      BY <1>8, <2>1 DEF TimeoutStart, TimeoutFires, LoopAt
  <1>9. CASE Select
    <2>1. timeout' \in [started : BOOLEAN, on : BOOLEAN, tick : BOOLEAN, done : BOOLEAN]
      BY <1>9 DEF Select
    <2> QED
      BY <1>9, <2>1 DEF Select, LoopAt
  <1>10. CASE UNCHANGED vars
    BY <1>10 DEF vars
  <1> QED
    BY <1>1, <1>2, <1>3, <1>4, <1>5, <1>6, <1>7, <1>8, <1>9, <1>10 DEF Next

\* Only Stop closes the channel to the application, and newBest sends before it.
LEMMA NextOut == TypesOK /\ OutOK /\ [Next]_vars => OutOK'
  <1> SUFFICES ASSUME TypesOK, OutOK, [Next]_vars PROVE OutOK'
    OBVIOUS
  <1> USE DEF OutOK, procVars, consVars, updateVars, timeoutVars
  <1>1. CASE Start \/ NewPacket \/ readTodos \/ verifySignature \/ verifyAndPublish \/ Store
             \/ TickerFires \/ TakeTick \/ periodicUpdate
             \/ TimeoutStart \/ TimeoutFires \/ StartLevel \/ Select \/ UNCHANGED vars
    BY <1>1 DEF Start, NewPacket, readTodos, verifySignature, verifyAndPublish, Store,
                TickerFires, TakeTick, periodicUpdate, TimeoutStart, TimeoutFires, StartLevel,
                Select, vars
  <1>2. CASE Stop
    BY <1>2 DEF Stop, TypesOK
  <1>3. CASE OnVerifiedSignature
    BY <1>3 DEF OnVerifiedSignature, newBest, TypesOK
  <1> QED
    BY <1>1, <1>2, <1>3 DEF Next

\* A stopped ticker yields no tick: each late update uses up what was left.
LEMMA NextUpdates == TypesOK /\ UpdatesOK /\ [Next]_vars => UpdatesOK'
  <1> SUFFICES ASSUME TypesOK, UpdatesOK, [Next]_vars PROVE UpdatesOK'
    OBVIOUS
  <1> USE DEF UpdatesOK, One, procVars, consVars, updateVars, timeoutVars
  <1>1. CASE Start
    BY <1>1 DEF Start, TypesOK
  <1>2. CASE Stop
    BY <1>2 DEF Stop, TypesOK
  <1>3. CASE TickerFires
    BY <1>3 DEF TickerFires, TypesOK
  <1>4. CASE TakeTick
    BY <1>4 DEF TakeTick, TypesOK
  <1>5. CASE periodicUpdate
    BY <1>5 DEF periodicUpdate, TypesOK
  <1>6. CASE NewPacket \/ readTodos \/ verifySignature \/ verifyAndPublish \/ Store
             \/ OnVerifiedSignature \/ TimeoutStart \/ TimeoutFires \/ StartLevel \/ Select
             \/ UNCHANGED vars
    BY <1>6 DEF NewPacket, readTodos, verifySignature, verifyAndPublish, Store,
                OnVerifiedSignature, TimeoutStart, TimeoutFires, StartLevel, Select, vars
  <1> QED
    BY <1>1, <1>2, <1>3, <1>4, <1>5, <1>6 DEF Next

\* The same for the timeout that was told to end, whose loop may have a tick left.
LEMMA NextStarts == TypesOK /\ StartsOK /\ [Next]_vars => StartsOK'
  <1> SUFFICES ASSUME TypesOK, StartsOK, [Next]_vars PROVE StartsOK'
    OBVIOUS
  <1> USE DEF StartsOK, One, procVars, consVars, updateVars, timeoutVars
  <1>1. CASE Start
    BY <1>1 DEF Start, TypesOK
  <1>2. CASE Stop
    BY <1>2 DEF Stop, timeoutStop, TypesOK
  <1>3. CASE TimeoutStart
    BY <1>3 DEF TimeoutStart, LoopAt, TypesOK
  <1>4. CASE TimeoutFires
    BY <1>4 DEF TimeoutFires, TypesOK
  <1>5. CASE StartLevel
    BY <1>5 DEF StartLevel, TypesOK
  <1>6. CASE Select
    BY <1>6 DEF Select, LoopAt, TypesOK
  <1>7. CASE NewPacket \/ readTodos \/ verifySignature \/ verifyAndPublish \/ Store
             \/ OnVerifiedSignature \/ TickerFires \/ TakeTick \/ periodicUpdate
             \/ UNCHANGED vars
    BY <1>7 DEF NewPacket, readTodos, verifySignature, verifyAndPublish, Store,
                OnVerifiedSignature, TickerFires, TakeTick, periodicUpdate, vars
  <1> QED
    BY <1>1, <1>2, <1>3, <1>4, <1>5, <1>6, <1>7 DEF Next

\* The inductive invariant: the out channel is closed exactly when the node is
\* stopped (OutOK), and the updates and level starts that happened late, with those
\* that are still due, are at most two (UpdatesOK, StartsOK).
THEOREM LifecycleInvariant == Spec => []Inv
  <1>1. Inv /\ [Next]_vars => Inv'
    BY NextTypes, NextOut, NextUpdates, NextStarts DEF Inv
  <1> QED
    BY <1>1, InitInv, PTL DEF Spec

\* A verified signature that is in the pipeline when Stop closes the channel to the
\* application is not sent on it (handel.go:278).
THEOREM LifecycleClosedOut == Spec => []NeverSendsOnClosedOut
  <1>1. Inv => NeverSendsOnClosedOut
    BY DEF Inv, OutOK, NeverSendsOnClosedOut
  <1> QED
    BY <1>1, LifecycleInvariant, PTL

\* At most two periodic updates come after Stop, and at most two level starts after
\* the timeout was told to end (timeout.go:81), however many levels there are.
THEOREM LifecycleLittleAfterStop == Spec => []LittleAfterStop
  <1>1. Inv => LittleAfterStop
    BY DEF Inv, TypesOK, UpdatesOK, StartsOK, LittleAfterStop, One
  <1> QED
    BY <1>1, LifecycleInvariant, PTL
=============================================================================

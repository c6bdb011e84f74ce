----------------------------- MODULE Lifecycle -----------------------------
(***************************************************************************)
(* Start and Stop of one Handel node and the goroutines they race with     *)
(* (handel.go, processing.go, timeout.go): the processing loop,            *)
(* rangeOnVerified, timeout.Start and linearLevels, and periodicLoop.      *)
(* Signatures are only counted here.  A goroutine that Start has spawned   *)
(* may make its first step arbitrarily late, so spawned and running are    *)
(* one state.  A time.Ticker puts ticks in a channel of capacity 1 and     *)
(* drops those that do not fit; stopping it neither empties nor closes the *)
(* channel.                                                                *)
(***************************************************************************)
EXTENDS Integers

CONSTANTS
    NLevels,            \* the number of levels the timeout starts
    MaxSigs,            \* bound on the signatures that come in
    ChanCap             \* capacity of the channel of verified signatures

ASSUME LifecycleAssumption == NLevels \in Nat /\ MaxSigs \in Nat /\ ChanCap \in Nat \ {0}

VARIABLES
    h,                  \* "new", "started", "stopped" (done is TRUE)
    sigs, queue, pill,  \* signatures received, those in todos, the death pill
    procLoop,           \* "off", "reading", "verifying", "publishing",
                        \* "ended"
    verified,           \* the channel of verified signatures: [len, closed]
    consumer,           \* rangeOnVerified: "off", "waiting", "acting", "ended"
    out,                \* the channel to the application: [len, closed]
    ticker,             \* of the periodic update: [on, tick]
    updateLoop,         \* periodicLoop: "off", "waiting", "updating", "ended"
    timeoutStart,       \* the goroutine of timeout.Start: "off", "spawned", "ended"
    timeout,            \* linearTimeout: [started, on, tick, done]
    linearLoop,         \* linearLevels: "off", "starting", "selecting", "ended"
    idx,                \* its index
    lateUpdates, lateStarts, sentOnClosed
                        \* history: periodic updates and level starts after
                        \* Stop, and a send on the closed channel out

procVars    == <<sigs, queue, pill, procLoop>>
consVars    == <<verified, consumer, out, sentOnClosed>>
updateVars  == <<ticker, updateLoop, lateUpdates>>
timeoutVars == <<timeoutStart, timeout, linearLoop, idx, lateStarts>>
vars == <<h, procVars, consVars, updateVars, timeoutVars>>

Init ==
    /\ h = "new"
    /\ sigs = 0 /\ queue = 0 /\ pill = FALSE /\ procLoop = "off"
    /\ verified = [len |-> 0, closed |-> FALSE] /\ consumer = "off"
    /\ out = [len |-> 0, closed |-> FALSE]
    /\ ticker = [on |-> TRUE, tick |-> FALSE] /\ updateLoop = "off"
    /\ timeoutStart = "off"
    /\ timeout = [started |-> FALSE, on |-> FALSE, tick |-> FALSE, done |-> FALSE]
    /\ linearLoop = "off" /\ idx = 0
    /\ lateUpdates = 0 /\ lateStarts = 0 /\ sentOnClosed = FALSE

-----------------------------------------------------------------------------
(* Calls of the application and of the network, under Handel's lock *)

Start == /\ h = "new"
         /\ h' = "started"
         /\ procLoop' = "reading" /\ consumer' = "waiting"
         /\ timeoutStart' = "spawned" /\ updateLoop' = "waiting"
         /\ UNCHANGED <<sigs, queue, pill, verified, out, sentOnClosed, ticker, lateUpdates,
                        timeout, linearLoop, idx, lateStarts>>

\* Mutant: the loop is not told.
timeoutStopTicker == IF timeout.started THEN [timeout EXCEPT !.on = FALSE] ELSE timeout

\* linearTimeout.Stop does nothing before linearTimeout.Start has run.
timeoutStop == IF timeout.started THEN [timeout EXCEPT !.on = FALSE, !.done = TRUE] ELSE timeout

\* Mutant: the ticker of the periodic update goes on.
StopKeepsTicker ==
        /\ h = "started"
        /\ timeout' = timeoutStop
        /\ pill' = TRUE
        /\ h' = "stopped"
        /\ out' = [out EXCEPT !.closed = TRUE]
        /\ UNCHANGED <<sigs, queue, procLoop, verified, consumer, sentOnClosed, ticker,
                       updateLoop, lateUpdates, timeoutStart, linearLoop, idx, lateStarts>>

Stop == /\ h = "started"
        /\ ticker' = [ticker EXCEPT !.on = FALSE]
        /\ timeout' = timeoutStop
        /\ pill' = TRUE
        /\ h' = "stopped"
        /\ out' = [out EXCEPT !.closed = TRUE]
        /\ UNCHANGED <<sigs, queue, procLoop, verified, consumer, sentOnClosed, updateLoop,
                       lateUpdates, timeoutStart, linearLoop, idx, lateStarts>>

NewPacket == /\ h # "stopped" /\ sigs < MaxSigs
             /\ sigs' = sigs + 1 /\ queue' = queue + 1
             /\ UNCHANGED <<h, pill, procLoop, consVars, updateVars, timeoutVars>>

-----------------------------------------------------------------------------
(* processLoop and rangeOnVerified *)

\* The pill ends the loop; else a signature is picked or all are discarded.
readTodos ==
    /\ procLoop = "reading"
    /\ \/ /\ pill
          /\ procLoop' = "ended"
          /\ verified' = [verified EXCEPT !.closed = TRUE]
          /\ UNCHANGED queue
       \/ /\ ~pill /\ queue > 0
          /\ \/ queue' = queue - 1 /\ procLoop' = "verifying"
             \/ queue' = 0 /\ UNCHANGED procLoop
          /\ UNCHANGED verified
    /\ UNCHANGED <<h, sigs, pill, consumer, out, sentOnClosed, updateVars, timeoutVars>>

\* The signature verifies or not ...
verifySignature ==
    /\ procLoop = "verifying"
    /\ procLoop' \in {"publishing", "reading"}
    /\ UNCHANGED <<h, sigs, queue, pill, consVars, updateVars, timeoutVars>>

\* ... and is then sent, which blocks on a full channel.
verifyAndPublish ==
    /\ procLoop = "publishing" /\ verified.len < ChanCap
    /\ procLoop' = "reading"
    /\ verified' = [verified EXCEPT !.len = @ + 1]
    /\ UNCHANGED <<h, sigs, queue, pill, consumer, out, sentOnClosed, updateVars, timeoutVars>>

Store == /\ consumer = "waiting"
         /\ IF verified.len > 0
            THEN consumer' = "acting" /\ verified' = [verified EXCEPT !.len = @ - 1]
            ELSE verified.closed /\ consumer' = "ended" /\ UNCHANGED verified
         /\ UNCHANGED <<h, procVars, out, sentOnClosed, updateVars, timeoutVars>>

\* Mutant: done is not checked.
newBestUnchecked == /\ out' = [out EXCEPT !.len = @ + 1]
                    /\ sentOnClosed' = (sentOnClosed \/ out.closed)

\* newBest of checkFinalSignature.
newBest == IF h = "stopped" THEN UNCHANGED <<out, sentOnClosed>>
           ELSE /\ out' = [out EXCEPT !.len = @ + 1]
                /\ sentOnClosed' = (sentOnClosed \/ out.closed)

\* The actors: the full signature is a new best one or not.
OnVerifiedSignature ==
    /\ consumer = "acting"
    /\ consumer' = "waiting"
    /\ newBest \/ UNCHANGED <<out, sentOnClosed>>
    /\ UNCHANGED <<h, procVars, verified, updateVars, timeoutVars>>

-----------------------------------------------------------------------------
(* periodicLoop *)

TickerFires == /\ ticker.on /\ ~ticker.tick
               /\ ticker' = [ticker EXCEPT !.tick = TRUE]
               /\ UNCHANGED <<h, procVars, consVars, updateLoop, lateUpdates, timeoutVars>>

\* range over the ticker's channel, which is never closed.
TakeTick == /\ updateLoop = "waiting" /\ ticker.tick
            /\ ticker' = [ticker EXCEPT !.tick = FALSE]
            /\ updateLoop' = "updating"
            /\ UNCHANGED <<h, procVars, consVars, lateUpdates, timeoutVars>>

periodicUpdate == /\ updateLoop = "updating"
                  /\ updateLoop' = "waiting"
                  /\ lateUpdates' = IF h = "stopped" THEN lateUpdates + 1 ELSE lateUpdates
                  /\ UNCHANGED <<h, procVars, consVars, ticker, timeoutVars>>

-----------------------------------------------------------------------------
(* linearTimeout *)

LoopAt(i) == IF i < NLevels THEN "starting" ELSE "ended"

TimeoutStart == /\ timeoutStart = "spawned"
                /\ timeoutStart' = "ended"
                /\ timeout' = [timeout EXCEPT !.started = TRUE, !.on = TRUE]
                /\ linearLoop' = LoopAt(0)
                /\ UNCHANGED <<h, procVars, consVars, updateVars, idx, lateStarts>>

TimeoutFires == /\ timeout.on /\ ~timeout.tick
                /\ timeout' = [timeout EXCEPT !.tick = TRUE]
                /\ UNCHANGED <<h, procVars, consVars, updateVars, timeoutStart, linearLoop, idx,
                               lateStarts>>

StartLevel == /\ linearLoop = "starting"
              /\ linearLoop' = "selecting"
              /\ lateStarts' = IF h = "stopped" THEN lateStarts + 1 ELSE lateStarts
              /\ UNCHANGED <<h, procVars, consVars, updateVars, timeoutStart, timeout, idx>>

\* select takes any of the cases that are ready.
Select == /\ linearLoop = "selecting"
          /\ \/ /\ timeout.tick
                /\ timeout' = [timeout EXCEPT !.tick = FALSE]
                /\ idx' = idx + 1
                /\ linearLoop' = LoopAt(idx + 1)
             \/ /\ timeout.done
                /\ linearLoop' = "ended"
                /\ UNCHANGED <<timeout, idx>>
          /\ UNCHANGED <<h, procVars, consVars, updateVars, timeoutStart, lateStarts>>

-----------------------------------------------------------------------------
Next == \/ Start \/ Stop \/ NewPacket
        \/ readTodos \/ verifySignature \/ verifyAndPublish
        \/ Store \/ OnVerifiedSignature
        \/ TickerFires \/ TakeTick \/ periodicUpdate
        \/ TimeoutStart \/ TimeoutFires \/ StartLevel \/ Select

\* Goroutines are scheduled and tickers fire; nobody has to call Start or Stop.
Fairness == /\ WF_vars(readTodos) /\ WF_vars(verifySignature) /\ WF_vars(verifyAndPublish)
            /\ WF_vars(Store) /\ WF_vars(OnVerifiedSignature)
            /\ WF_vars(TickerFires) /\ WF_vars(TakeTick) /\ WF_vars(periodicUpdate)
            /\ WF_vars(TimeoutStart) /\ WF_vars(TimeoutFires)
            /\ WF_vars(StartLevel) /\ WF_vars(Select)

Spec == Init /\ [][Next]_vars /\ Fairness

-----------------------------------------------------------------------------
(* Properties *)

\* A verified signature that is still in the pipeline when Stop closes the out
\* channel is never sent on it (handel.go:278): that would be a panic.
NeverSendsOnClosedOut == ~sentOnClosed

\* Stop does not wait for the loops it stops, and little comes after it: one
\* periodic update may be waiting for the lock and one tick be left in the
\* ticker's channel; and, if linearTimeout.Start came before Stop, one level start
\* may be waiting for the lock and one more follow if select prefers a tick to
\* done (timeout.go:81).
LittleAfterStop == lateUpdates <= 2 /\ (timeout.done => lateStarts <= 2)

\* Stop ends the processing, the verified signatures and the timeout, also when
\* it overtakes timeout.Start.
StopEndsRoutines ==
    h = "stopped" ~> (procLoop = "ended" /\ consumer = "ended" /\ linearLoop = "ended")
=============================================================================

-------------------------- MODULE SimulationProofs --------------------------
(***************************************************************************)
(* Proofs about the runs of a simulation, for any number of processes,     *)
(* nodes and runs, any allocation, any share that suffices at a barrier,   *)
(* and both platforms.                                                     *)
(***************************************************************************)
EXTENDS Simulation, FiniteSetTheorems, TLAPS

\* What never changes.
ParamsOK == /\ total \in Nat /\ 0 .. total - 1 \subseteq ID
            /\ exp = Cardinality(active) /\ probExp \in Nat
            /\ plat \in {"localhost", "aws"}

Before == {"none", "waitStart"}
ProcPlaces == {"none", "waitStart", "running", "waitEnd", "ok", "err", "killed"}
NodePlaces == {"none", "run", "enough", "recorded", "signalled"}
MonPlaces == {"none", "new", "listening", "unbound", "stoppedFirst", "leaked", "stopped"}

TypesOK ==
    /\ idx \in Run /\ reports \in Nat /\ counted \in Nat /\ trouble \in BOOLEAN
    /\ ctl \in {"start", "waitStart", "waitEnd", "waitAll", "header", "values", "stop", "returned",
                "panic", "timedOut", "finished"}
    /\ launch \subseteq Run \X Proc /\ proc \in [Proc -> ProcPlaces] /\ of \in [Proc -> Run]
    /\ node \in [ID -> NodePlaces] /\ leftover \subseteq Run
    /\ mon \in [Run -> MonPlaces] /\ stopping \subseteq Run /\ buffer \subseteq Run
    /\ stats \in [Run -> SUBSET Run] /\ collected \subseteq Run /\ rows \in [Run -> SUBSET Run]
    /\ sent \subseteq active /\ stale \in [Run -> SUBSET active]

\* Nodes run in processes that have passed START.
NodesOK == \A id \in ID : node[id] # "none" => id \in active /\ proc[procOf(id)] \notin Before

\* The runs of the processes: those of localhost are all of the current one.
GenOK == /\ \A p \in Proc : of[p] <= idx
         /\ \A p \in Proc : \A r \in Run : <<r, p>> \in launch => r <= idx
         /\ plat = "localhost" =>
               /\ leftover # {} => trouble
               /\ \A p \in Proc : proc[p] \in running => of[p] = idx
               /\ \A p \in Proc : \A r \in Run : <<r, p>> \in launch => r = idx /\ proc[p] = "none"
         /\ plat = "aws" => leftover = {}
         /\ \A p \in Proc : proc[p] # "none" => <<of[p], p>> \notin launch
         /\ ctl = "start" => launch = {} /\ \A p \in Proc : proc[p] = "none"

\* Which nodes of the current run have recorded their measures.
SentOK == \A id \in active :
              LET p == procOf(id)
              IN  /\ id \in sent => <<idx, p>> \notin launch
                  /\ of[p] = idx /\ proc[p] \in running => (id \in sent <=> recorded(id))

\* Whose end was heard has recorded, or was heard from another run; nobody goes on
\* before enough were.
past == {"waitAll", "header", "values", "stop", "returned"}
EndOK == /\ ended \subseteq sent \cup stale[idx]
         /\ plat = "localhost" => \A r \in Run : stale[r] = {}
         /\ \A p \in Proc : proc[p] = "ok" /\ of[p] = idx => Cardinality(ended) >= probExp
         /\ ctl \in past /\ ~trouble => Cardinality(ended) >= probExp

\* Unless one failed, the processes that ended and the reports of them are as many.
CountOK == plat = "localhost" =>
              /\ \A p \in Proc : proc[p] = "err" => trouble
              /\ (\A p \in Proc : proc[p] # "err")
                    => reports + counted = Cardinality({p \in Proc : proc[p] = "ok"})

\* The monitor of a run is stopped once, at the end of the run or later; the socket
\* that is bound first has an empty buffer.
early == {"waitStart", "waitEnd", "waitAll"} \cup (IF plat = "aws" THEN {"header", "values"} ELSE {})
late == {"stop", "returned"} \cup (IF plat = "aws" THEN {} ELSE {"header", "values"})
MonOK == /\ \A r \in Run : r > idx \/ (r = idx /\ ctl = "start")
                              => mon[r] = "none" /\ stats[r] = {} /\ r \notin stopping
         /\ ctl \in early => idx \notin stopping /\ mon[idx] \in {"new", "listening", "unbound"}
         /\ ctl = "waitAll" => plat = "localhost"
         /\ \A r \in stopping : mon[r] \in {"new", "listening", "unbound"}
         /\ \A r \in Run : (r < idx \/ (r = idx /\ ctl \in late)) /\ mon[r] \in {"new", "listening"}
                              => r \in stopping
         /\ plat = "aws" => /\ stopping \subseteq {idx}
                            /\ stopping # {} => ctl \in {"stop", "panic"}
                            /\ \A r \in Run : mon[r] \notin {"stoppedFirst", "leaked"}
         /\ ~portTaken => buffer = {}

\* Nothing that could still send a measure is left of an earlier run that nothing
\* disturbed and whose master heard of no other run.
clean == ~trouble /\ (plat = "localhost" \/ probExp = exp)
LeftOK == clean => \A p \in Proc : \A r \in Run : r < idx /\ stale[r] = {} =>
                      /\ <<r, p>> \in launch => ids(p) = {}
                      /\ of[p] = r /\ proc[p] \in running => \A id \in ids(p) : recorded(id)

\* The measures of runs that nothing disturbed.
Proper(S, r) == \A m \in S : m = r \/ (m < r /\ stale[m] # {})
RowsOK == clean => /\ mon[idx] = "listening" => Proper(buffer, idx)
                   /\ Proper(stats[idx], idx)
                   /\ ctl = "values" => Proper(collected, idx)
                   /\ \A r \in Run : Proper(rows[r], r)

Inv == /\ ParamsOK /\ TypesOK /\ NodesOK /\ GenOK /\ SentOK /\ EndOK /\ CountOK /\ CleanFinish
       /\ MonOK /\ LeftOK /\ RowsOK

-----------------------------------------------------------------------------
\* The barrier's cardinality is that of FiniteSets.
LEMMA SameCardinality == ASSUME NEW S PROVE END!Cardinality(S) = Cardinality(S)
  BY DEF END!Cardinality, Cardinality

\* The nodes online are finitely many, and as many as all of them means all.
LEMMA ActiveFinite ==
    ASSUME total \in Nat
    PROVE  /\ IsFiniteSet(active) /\ Cardinality(active) \in Nat
           /\ \A S \in SUBSET active : /\ IsFiniteSet(S) /\ Cardinality(S) \in Nat
                                       /\ Cardinality(S) <= Cardinality(active)
                                       /\ Cardinality(S) >= Cardinality(active) => S = active
  <1>1. IsFiniteSet(0 .. total - 1)
    BY FS_Interval
  <1>2. IsFiniteSet(active)
    BY <1>1, FS_Subset DEF active
  <1>3. Cardinality(active) \in Nat
    BY <1>2, FS_CardinalityType
  <1>4. ASSUME NEW S \in SUBSET active
        PROVE  /\ IsFiniteSet(S) /\ Cardinality(S) \in Nat
               /\ Cardinality(S) <= Cardinality(active)
               /\ Cardinality(S) >= Cardinality(active) => S = active
    <2>1. IsFiniteSet(S) /\ Cardinality(S) <= Cardinality(active)
          /\ (Cardinality(S) = Cardinality(active) => S = active)
      BY <1>2, FS_Subset
    <2>2. Cardinality(S) \in Nat
      BY <2>1, FS_CardinalityType
    <2> QED
      BY <1>3, <2>1, <2>2
  <1> QED
    BY <1>2, <1>3, <1>4

\* The nodes are spread over the processes.
LEMMA ProcOf ==
    ASSUME ParamsOK
    PROVE  /\ procs \in Nat \ {0}
           /\ \A id \in active : id \in Nat /\ id \in ID /\ procOf(id) \in Proc
           /\ \A p \in Proc : \A id \in ids(p) : id \in active /\ procOf(id) = p
  <1>1. procs \in Nat
    BY SimulationAssumption, FS_CardinalityType DEF procs
  <1>2. procs # 0
    BY SimulationAssumption, <1>1
  <1>3. \A id \in active : id \in Nat /\ id \in ID
    BY DEF ParamsOK, active
  <1>4. \A id \in Nat : id % procs \in 0 .. procs - 1
    BY <1>1, <1>2
  <1> QED
    BY <1>1, <1>2, <1>3, <1>4, SimulationAssumption DEF procOf, platformOf, ids, ActiveOn, active

\* Nothing runs before the first Start of the platform.
LEMMA InitInv == Init => Inv
  <1> SUFFICES ASSUME Init PROVE Inv
    OBVIOUS
  <1>1. PICK c \in Nodes : /\ total = c[1] /\ exp = c[1] - c[2]
                           /\ \E a \in Allocators : off \in Allocations(a, c[1], procs, c[2])
                           /\ \E s \in Permille : probExp = (exp * s + 999) \div 1000
    BY DEF Init
  <1>0. total = c[1] /\ exp = c[1] - c[2]
    BY <1>1
  <1>2. /\ c[1] \in Nat /\ c[2] \in Nat /\ c[2] < c[1] /\ 0 .. c[1] - 1 \subseteq ID
    BY SimulationAssumption
  <1>3. off \subseteq 0 .. total - 1 /\ Cardinality(off) = c[2]
    BY <1>1 DEF Allocations, verifyAllocation
  <1>4. Cardinality(active) = exp
    <2>1. IsFiniteSet(0 .. total - 1) /\ Cardinality(0 .. total - 1) = total
      <3>1. 0 \in Int /\ total - 1 \in Int /\ 0 <= total - 1 /\ total - 1 - 0 + 1 = total
        BY <1>1, <1>2
      <3> QED
        BY <3>1, FS_Interval
    <2>2. IsFiniteSet(off)
      BY <1>3, <2>1, FS_Subset
    <2>3. Cardinality((0 .. total - 1) \ off)
             = Cardinality(0 .. total - 1) - Cardinality((0 .. total - 1) \cap off)
      BY <2>1, FS_Difference
    <2>4. (0 .. total - 1) \cap off = off
      BY <1>3
    <2> QED
      BY <1>0, <1>3, <2>1, <2>3, <2>4 DEF active
  <1>5. probExp \in Nat
    <2>1. PICK s \in Permille : probExp = (exp * s + 999) \div 1000
      BY <1>1
    <2>2. s \in Nat /\ exp \in Nat
      <3>1. s \in Nat
        BY SimulationAssumption
      <3> QED
        BY <1>0, <1>2, <3>1
    <2>3. exp * s + 999 \in Nat
      BY <2>2
    <2> QED
      BY <2>1, <2>3
  <1>6. ParamsOK
    <2>1. plat \in {"localhost", "aws"}
      BY SimulationAssumption DEF Init
    <2>2. total \in Nat /\ 0 .. total - 1 \subseteq ID
      BY <1>0, <1>2
    <2> QED
      BY <1>4, <1>5, <2>1, <2>2 DEF ParamsOK
  <1>7. TypesOK
    <2>1. /\ idx \in Run /\ reports \in Nat /\ counted \in Nat /\ stopping \subseteq Run
          /\ leftover \subseteq Run /\ launch \subseteq Run \X Proc /\ sent \subseteq active
      BY SimulationAssumption DEF Init, Run
    <2>2. proc \in [Proc -> ProcPlaces] /\ node \in [ID -> NodePlaces] /\ mon \in [Run -> MonPlaces]
      BY DEF Init, ProcPlaces, NodePlaces, MonPlaces
    <2>3. /\ stats \in [Run -> SUBSET Run] /\ collected \subseteq Run /\ rows \in [Run -> SUBSET Run]
          /\ buffer \subseteq Run /\ stale \in [Run -> SUBSET active]
      BY DEF Init
    <2>4. trouble \in BOOLEAN
      <3>1. trouble = FALSE
        BY DEF Init
      <3> QED
        BY <3>1
    <2>5. ctl \in {"start", "waitStart", "waitEnd", "waitAll", "header", "values", "stop", "returned",
                   "panic", "timedOut", "finished"}
      BY DEF Init
    <2>6. of \in [Proc -> Run]
      BY SimulationAssumption DEF Init, Run
    <2> QED
      BY <2>1, <2>2, <2>3, <2>4, <2>5, <2>6, Zenon DEF TypesOK
  <1>8. NodesOK /\ CleanFinish
    BY DEF Init, NodesOK, CleanFinish
  <1>9. CountOK
    <2>1. {p \in Proc : proc[p] = "ok"} = {}
      BY DEF Init
    <2>2. reports + counted = 0
      BY DEF Init
    <2>3. Cardinality({p \in Proc : proc[p] = "ok"}) = 0
      BY <2>1, FS_EmptySet
    <2> QED
      BY <2>2, <2>3 DEF Init, CountOK
  <1>10. MonOK
    <2>1. /\ \A r \in Run : mon[r] = "none" /\ stats[r] = {}
          /\ stopping = {} /\ buffer = {} /\ ctl = "start"
      BY DEF Init, Run
    <2> QED
      BY <2>1 DEF MonOK, early
  <1>11. GenOK /\ SentOK /\ LeftOK
    <2>1. /\ \A p \in Proc : of[p] = 0 /\ proc[p] = "none"
          /\ launch = {} /\ leftover = {} /\ sent = {} /\ idx = 0
      BY DEF Init
    <2>2. GenOK
      BY <2>1 DEF GenOK, running, Init
    <2>3. \A id \in active : procOf(id) \in Proc
      BY <1>6, ProcOf
    <2>4. SentOK
      BY <2>1, <2>3 DEF SentOK, running
    <2>5. \A r \in Run : ~(r < idx)
      BY <2>1 DEF Run
    <2>6. LeftOK
      BY <2>5 DEF LeftOK
    <2> QED
      BY <2>2, <2>4, <2>6
  <1>12. EndOK
    BY DEF Init, EndOK, past
  <1>13. RowsOK
    BY <1>7 DEF Init, RowsOK, TypesOK, Proper
  <1> QED
    BY <1>6, <1>7, <1>8, <1>9, <1>10, <1>11, <1>12, <1>13 DEF Inv

\* The parameters of a simulation never change.
LEMMA Constant ==
    ASSUME [Next]_vars
    PROVE  /\ UNCHANGED <<plat, total, off, exp, probExp>> /\ UNCHANGED active
           /\ \A p : ids(p)' = ids(p)
  <1> USE DEF vars, svars, platv, startv, endv
  <1>1. UNCHANGED <<plat, total, off, exp, probExp>>
    <2>1. CASE platform \/ monitor \/ LeftoverRecords \/ UNCHANGED vars
      BY <2>1 DEF platform, Start, WaitStart, WaitEnd, WaitTimeout, WaitBinaries, Collect,
             WriteValues, RunTimeout, Cleanup, monitor, Listen, Stop, handleConnection,
             LeftoverRecords, START!Release, END!Release
    <2>2. ASSUME NEW p \in Proc, process(p) PROVE UNCHANGED <<plat, total, off, exp, probExp>>
      BY <2>2 DEF process, StartCommand, StartCommandFails, RepeatStart, PassStart, ProcTimeout,
             NodesDone, PassEnd, START!Signal, START!Release, END!Release
    <2>3. ASSUME NEW id \in ID, handel(id) PROVE UNCHANGED <<plat, total, off, exp, probExp>>
      BY <2>3 DEF handel, FinalSignature, Record, SignalEnd, RepeatEnd, hear, END!Signal
    <2> QED
      BY <2>1, <2>2, <2>3 DEF Next
  <1> QED
    BY <1>1 DEF active, ids

\* Trouble is not forgotten.
LEMMA TroubleStays == ASSUME [Next]_vars, trouble PROVE trouble'
  <1>1. CASE platform \/ monitor \/ LeftoverRecords \/ UNCHANGED vars
    BY <1>1 DEF platform, Start, WaitStart, WaitEnd, WaitTimeout, WaitBinaries, Collect,
           WriteValues, RunTimeout, Cleanup, monitor, Listen, Stop, handleConnection,
           LeftoverRecords, vars
  <1>2. ASSUME NEW p \in Proc, process(p) PROVE trouble'
    BY <1>2 DEF process, StartCommand, StartCommandFails, RepeatStart, PassStart, ProcTimeout,
                NodesDone, PassEnd, exit
  <1>3. ASSUME NEW id \in ID, handel(id) PROVE trouble'
    BY <1>3 DEF handel, FinalSignature, Record, SignalEnd, RepeatEnd
  <1> QED
    BY <1>1, <1>2, <1>3 DEF Next

\* The steps that leave the processes and the barrier END alone.
quiet == \/ WaitStart \/ WaitEnd \/ WaitTimeout \/ WaitBinaries \/ Collect \/ WriteValues
         \/ RunTimeout \/ monitor \/ LeftoverRecords \/ UNCHANGED vars
LEMMA QuietStep ==
    ASSUME quiet PROVE UNCHANGED <<idx, launch, proc, of, node, leftover, ended, sent, stale>>
  BY DEF quiet, WaitStart, WaitEnd, WaitTimeout, WaitBinaries, Collect, WriteValues, RunTimeout,
         monitor, Listen, Stop, handleConnection, LeftoverRecords, vars, svars, endv, procv, histv,
         END!Release

\* Every step is one of five kinds.
LEMMA StepKinds ==
    ASSUME [Next]_vars
    PROVE  \/ quiet \/ Start \/ Cleanup
           \/ \E p \in Proc : process(p)
           \/ \E id \in ID : handel(id)
  BY DEF Next, platform, quiet

\* The start of the first run, or of the next one.
LEMMA StartStep ==
    ASSUME TypesOK, Start
    PROVE  /\ idx' \in Run
           /\ (ctl = "start" /\ idx' = idx) \/ (ctl = "returned" /\ idx' = idx + 1)
  <1>1. (ctl = "start" /\ idx' = idx) \/ (ctl = "returned" /\ idx' = idx + 1 /\ idx + 1 < Runs)
    BY DEF Start, nextRun
  <1>2. idx \in Run /\ Runs \in Nat
    BY SimulationAssumption DEF TypesOK
  <1> QED
    BY <1>1, <1>2 DEF Run

-----------------------------------------------------------------------------
(* What a step of a process does to it: it starts, does not start, passes     *)
(* START, goes on, or exits.                                                  *)

Starts(r, p) == /\ <<r, p>> \in launch /\ launch' = launch \ {<<r, p>>}
                /\ proc'[p] = "waitStart" /\ of'[p] = r
                /\ \A id \in ids(p) : node'[id] = "none"
                /\ UNCHANGED <<reports, trouble>>
Fails(r, p) == /\ <<r, p>> \in launch /\ launch' = launch \ {<<r, p>>} /\ node' = node
               /\ IF plat = "localhost" THEN proc'[p] = "err" /\ of'[p] = r /\ trouble'
                  ELSE UNCHANGED <<proc, of, trouble>>
Passes(p) == /\ UNCHANGED <<launch, of, reports, trouble>>
             /\ proc[p] = "waitStart" /\ proc'[p] = "running"
             /\ \A id \in ids(p) : node'[id] = "run"
GoesOn(p) == /\ UNCHANGED <<launch, of, node, reports, trouble>>
             /\ \/ proc[p] = "running" /\ proc'[p] = "waitEnd"
                \/ proc[p] = "waitStart" /\ proc'[p] = "waitStart"
Exits(p) == /\ UNCHANGED <<launch, of>> /\ proc[p] \in running
            /\ \A id \in ids(p) : node'[id] = "none"
            /\ \/ proc'[p] = "err" /\ (plat = "localhost" => trouble')
               \/ /\ proc'[p] = "ok" /\ Cardinality(ended) >= probExp /\ trouble' = trouble
                  /\ reports' = IF plat = "aws" THEN reports ELSE reports + 1

\* What it leaves alone.
Alone(p) == /\ UNCHANGED <<idx, counted, leftover, mon, stopping, buffer, stats, collected, rows>>
            /\ UNCHANGED <<sent, stale, ended>>
            /\ ctl' \in {ctl, "panic"}
            /\ \A q \in Proc : q # p => proc'[q] = proc[q] /\ of'[q] = of[q]
            /\ \A id \in ID : id \notin ids(p) => node'[id] = node[id]

LEMMA ProcessStep ==
    ASSUME ParamsOK, TypesOK, NEW p \in Proc, process(p)
    PROVE  /\ Alone(p)
           /\ \/ \E r \in Run : Starts(r, p) \/ Fails(r, p)
              \/ Passes(p) \/ GoesOn(p) \/ Exits(p)
  <1> USE DEF svars, platv, startv, endv, procv, monv, filev, histv
  <1>0. /\ \A q \in Proc : proc[q] \in ProcPlaces /\ DOMAIN proc = Proc /\ DOMAIN of = Proc
        /\ \A id \in ids(p) : id \in ID
    BY ProcOf DEF TypesOK
  <1>1. ASSUME NEW r \in Run, StartCommand(r, p) PROVE Alone(p) /\ Starts(r, p)
    <2>1. UNCHANGED <<probExp, ended>>
      BY <1>1 DEF StartCommand, START!Signal
    <2> QED
      BY <1>0, <1>1, <2>1 DEF StartCommand, without, Alone, Starts
  <1>2. ASSUME NEW r \in Run, StartCommandFails(r, p) PROVE Alone(p) /\ Fails(r, p)
    BY <1>0, <1>2 DEF StartCommandFails, Alone, Fails
  <1>3. CASE RepeatStart(p) \/ NodesDone(p)
    BY <1>0, <1>3 DEF RepeatStart, NodesDone, Alone, GoesOn
  <1>4. CASE PassStart(p)
    BY <1>0, <1>4 DEF PassStart, Alone, Passes
  <1>5. CASE ProcTimeout(p)
    <2>1. /\ proc[p] \in running /\ proc'[p] = "err" /\ (plat = "localhost" => trouble')
          /\ UNCHANGED <<launch, of>>
      BY <1>0, <1>5 DEF ProcTimeout, exit, running
    <2>2. node' = without(p)
      BY <1>5 DEF ProcTimeout, exit
    <2>3. Alone(p)
      BY <1>0, <1>5, <2>2 DEF ProcTimeout, exit, Alone, without
    <2> QED
      BY <1>0, <2>1, <2>2, <2>3 DEF Exits, without
  <1>6. CASE PassEnd(p)
    <2>1. /\ proc[p] \in running /\ proc'[p] = "ok" /\ UNCHANGED <<launch, of, ended>>
      BY <1>0, <1>6 DEF PassEnd, exit, running, END!Release
    <2>2. node' = without(p)
      BY <1>6 DEF PassEnd, exit
    <2>3. Alone(p)
      BY <1>0, <1>6, <2>1, <2>2 DEF PassEnd, exit, Alone, without
    <2>4. Cardinality(ended) >= probExp
      BY <1>6, SameCardinality DEF PassEnd, END!Release
    <2>5. reports' = reports + (IF plat = "aws" THEN 0 ELSE 1)
      BY <1>6 DEF PassEnd, exit, reported
    <2>6. reports' = IF plat = "aws" THEN reports ELSE reports + 1
      BY <2>5 DEF TypesOK
    <2>7. trouble' = trouble
      <3>1. trouble' = (trouble \/ (plat = "localhost" /\ "ok" = "err")) /\ trouble \in BOOLEAN
        BY <1>6 DEF PassEnd, exit, TypesOK
      <3>2. "ok" # "err"
        OBVIOUS
      <3> QED
        BY <3>1, <3>2
    <2> QED
      BY <1>0, <2>1, <2>2, <2>3, <2>4, <2>6, <2>7 DEF Exits, without
  <1> QED
    BY <1>1, <1>2, <1>3, <1>4, <1>5, <1>6 DEF process

-----------------------------------------------------------------------------
(* What a step of a node does: it has its signature, records, or signals.     *)

Finishes(id) == /\ node[id] = "run" /\ node'[id] = "enough" /\ UNCHANGED <<buffer, sent, stale, ended>>
Records(id) == /\ node[id] = "enough" /\ node'[id] = "recorded" /\ UNCHANGED <<stale, ended>>
               /\ buffer' = buffer \/ (portTaken /\ buffer' = buffer \cup {of[procOf(id)]})
               /\ sent' = IF of[procOf(id)] # idx THEN sent ELSE sent \cup {id}
Signals(id) == /\ node[id] \in {"recorded", "signalled"} /\ node'[id] = "signalled"
               /\ UNCHANGED <<buffer, sent>>
               /\ \/ UNCHANGED <<ended, stale>>
                  \/ /\ ended' = ended \cup {id}
                     /\ stale' = IF of[procOf(id)] # idx THEN [stale EXCEPT ![idx] = @ \cup {id}]
                                 ELSE stale

LEMMA HandelStep ==
    ASSUME ParamsOK, TypesOK, NodesOK, NEW id \in ID, handel(id)
    PROVE  /\ UNCHANGED <<idx, ctl, launch, proc, of, reports, counted, leftover, mon, stopping>>
           /\ UNCHANGED <<stats, collected, rows, trouble>>
           /\ id \in active /\ proc[procOf(id)] \in running
           /\ \A i \in ID : i # id => node'[i] = node[i]
           /\ Finishes(id) \/ Records(id) \/ Signals(id)
  <1> USE DEF svars, platv, startv, endv, procv, monv, filev, histv
  <1>1. CASE FinalSignature(id)
    <2>1. Finishes(id) /\ \A i \in ID : i # id => node'[i] = node[i]
      BY <1>1 DEF FinalSignature, Finishes, TypesOK
    <2> QED
      BY <1>1, <2>1 DEF FinalSignature, NodesOK, alive
  <1>2. CASE Record(id)
    <2>1. Records(id) /\ \A i \in ID : i # id => node'[i] = node[i]
      <3>1. buffer' = buffer \/ (portTaken /\ buffer' = buffer \cup {of[procOf(id)]})
        BY <1>2 DEF Record, send
      <3> QED
        BY <1>2, <3>1 DEF Record, Records, foreign, TypesOK
    <2> QED
      BY <1>2, <2>1 DEF Record, NodesOK, alive
  <1>3. CASE SignalEnd(id)
    <2>1. node[id] = "recorded" /\ node'[id] = "signalled" /\ \A i \in ID : i # id => node'[i] = node[i]
      BY <1>3 DEF SignalEnd, TypesOK
    <2>2. Signals(id)
      BY <1>3, <2>1 DEF SignalEnd, Signals, hear, foreign, END!Signal
    <2> QED
      BY <1>3, <2>1, <2>2 DEF SignalEnd, NodesOK, alive
  <1>4. CASE RepeatEnd(id)
    BY <1>4 DEF RepeatEnd, Signals, hear, foreign, END!Signal, NodesOK, alive, TypesOK
  <1> QED
    BY <1>1, <1>2, <1>3, <1>4 DEF handel

-----------------------------------------------------------------------------
\* Every part of the simulation stays at one of its places.
LEMMA NextTypes == ASSUME ParamsOK, TypesOK, NodesOK, [Next]_vars PROVE TypesOK'
  <1> USE DEF svars, platv, startv, endv, procv, monv, filev, histv
  <1> DEFINE Ctl == {"start", "waitStart", "waitEnd", "waitAll", "header", "values", "stop",
                     "returned", "panic", "timedOut", "finished"}
  <1>0. UNCHANGED active
    BY Constant
  <1>1. CASE Start
    <2>1. mon' \in [Run -> MonPlaces]
      BY <1>1 DEF Start, TypesOK, MonPlaces
    <2>2. proc' \in [Proc -> ProcPlaces] /\ node' \in [ID -> NodePlaces]
      BY <1>1 DEF Start, TypesOK, ProcPlaces, NodePlaces
    <2>3. launch' \subseteq Run \X Proc /\ leftover' \subseteq Run /\ idx' \in Run
      <3>1. idx' \in Run
        BY <1>1, StartStep
      <3> QED
        BY <1>1, <3>1 DEF Start, TypesOK
    <2>4. /\ UNCHANGED <<of, stopping, buffer, stats, collected, rows, stale, trouble>> /\ ctl' = "waitStart"
          /\ reports' = 0 /\ counted' = 0 /\ sent' = {}
      BY <1>1 DEF Start
    <2> QED
      BY <1>0, <2>1, <2>2, <2>3, <2>4 DEF TypesOK
  <1>2. CASE Cleanup
    <2>1. proc' \in [Proc -> ProcPlaces] /\ ctl' = "finished"
      BY <1>2 DEF Cleanup, TypesOK, ProcPlaces
    <2> QED
      BY <1>0, <1>2, <2>1 DEF Cleanup, TypesOK
  <1>3. CASE quiet
    <2>1. UNCHANGED <<idx, launch, proc, of, node, leftover, sent, stale>>
      BY <1>3, QuietStep
    <2>2. reports' \in Nat /\ counted' \in Nat /\ ctl' \in Ctl
      <3>1. reports \in Nat /\ counted \in Nat /\ ctl \in Ctl
        BY DEF TypesOK
      <3> QED
        BY <1>3, <3>1 DEF quiet, WaitStart, WaitEnd, WaitTimeout, WaitBinaries, Collect, WriteValues,
              RunTimeout, monitor, Listen, Stop, handleConnection, LeftoverRecords, vars
    <2>3. trouble' \in BOOLEAN
      <3>1. trouble' = trouble \/ trouble' = TRUE
        BY <1>3 DEF quiet, WaitStart, WaitEnd, WaitTimeout, WaitBinaries, Collect, WriteValues,
              RunTimeout, monitor, Listen, Stop, handleConnection, LeftoverRecords, vars
      <3> QED
        BY <3>1 DEF TypesOK
    <2>4. mon' \in [Run -> MonPlaces] /\ stopping' \subseteq Run
      BY <1>3 DEF quiet, WaitStart, WaitEnd, WaitTimeout, WaitBinaries, Collect, WriteValues,
            RunTimeout, monitor, Listen, Stop, stopped, handleConnection, LeftoverRecords, vars,
            TypesOK, MonPlaces
    <2>5. buffer' \subseteq Run /\ stats' \in [Run -> SUBSET Run]
      <3>1. ASSUME NEW r \in Run, handleConnection(r)
            PROVE  buffer' \subseteq Run /\ stats' \in [Run -> SUBSET Run]
        BY <3>1 DEF handleConnection, TypesOK
      <3>2. CASE LeftoverRecords
        BY <3>2 DEF LeftoverRecords, send, TypesOK
      <3> QED
        BY <1>3, <3>1, <3>2 DEF quiet, WaitStart, WaitEnd, WaitTimeout, WaitBinaries, Collect,
              WriteValues, RunTimeout, monitor, Listen, Stop, vars, TypesOK
    <2>6. collected' \subseteq Run /\ rows' \in [Run -> SUBSET Run]
      BY <1>3 DEF quiet, WaitStart, WaitEnd, WaitTimeout, WaitBinaries, Collect, WriteValues,
            RunTimeout, monitor, Listen, Stop, handleConnection, LeftoverRecords, vars, TypesOK
    <2> QED
      BY <1>0, <2>1, <2>2, <2>3, <2>4, <2>5, <2>6 DEF TypesOK
  <1>4. ASSUME NEW p \in Proc, process(p) PROVE TypesOK'
    <2>1. Alone(p)
      BY <1>4, ProcessStep
    <2>2. launch' \subseteq Run \X Proc
      BY <1>4 DEF process, StartCommand, StartCommandFails, RepeatStart, PassStart, ProcTimeout,
                  NodesDone, PassEnd, TypesOK
    <2>3. proc' \in [Proc -> ProcPlaces] /\ of' \in [Proc -> Run]
      BY <1>4 DEF process, StartCommand, StartCommandFails, RepeatStart, PassStart, ProcTimeout,
                  NodesDone, PassEnd, exit, TypesOK, ProcPlaces
    <2>4. node' \in [ID -> NodePlaces]
      BY <1>4 DEF process, StartCommand, StartCommandFails, RepeatStart, PassStart, ProcTimeout,
                  NodesDone, PassEnd, exit, without, TypesOK, NodePlaces
    <2>5. reports' \in Nat
      <3>1. reported("ok") \in Nat /\ reported("err") \in Nat /\ reports \in Nat
        BY DEF reported, TypesOK
      <3>2. reports' \in {reports, reports + 1, reports + reported("ok"), reports + reported("err")}
        BY <1>4 DEF process, StartCommand, StartCommandFails, RepeatStart, PassStart, ProcTimeout,
                    NodesDone, PassEnd, exit
      <3> QED
        BY <3>1, <3>2
    <2>6. trouble' \in BOOLEAN
      <3>1. trouble \in BOOLEAN
        BY DEF TypesOK
      <3> QED
        BY <1>4, <3>1, ZenonT(30) DEF process, StartCommand, StartCommandFails, RepeatStart, PassStart,
              ProcTimeout, NodesDone, PassEnd, exit
    <2> QED
      BY <1>0, <2>1, <2>2, <2>3, <2>4, <2>5, <2>6 DEF Alone, TypesOK
  <1>5. ASSUME NEW id \in ID, handel(id) PROVE TypesOK'
    <2>1. /\ UNCHANGED <<idx, ctl, launch, proc, of, reports, counted, leftover, mon, stopping>>
          /\ UNCHANGED <<stats, collected, rows, trouble>> /\ id \in active
      BY <1>5, HandelStep
    <2>2. node' \in [ID -> NodePlaces]
      BY <1>5 DEF handel, FinalSignature, Record, SignalEnd, RepeatEnd, TypesOK, NodePlaces
    <2>3. procOf(id) \in Proc
      BY <2>1, ProcOf
    <2>4. /\ buffer' \subseteq Run /\ sent' \subseteq active /\ stale' \in [Run -> SUBSET active]
      BY <1>5, <2>1, <2>3, HandelStep DEF Finishes, Records, Signals, TypesOK
    <2> QED
      BY <1>0, <2>1, <2>2, <2>4 DEF TypesOK
  <1> QED
    BY <1>1, <1>2, <1>3, <1>4, <1>5, StepKinds

\* The nodes of a process start with it.
LEMMA NodesStep == ASSUME ParamsOK, TypesOK, NodesOK, GenOK, [Next]_vars PROVE NodesOK'
  <1> USE DEF svars, platv, startv, endv, procv, monv, filev, histv
  <1>0. UNCHANGED active /\ \A id : procOf(id)' = procOf(id)
    BY Constant DEF procOf
  <1>1. \A id \in active : procOf(id) \in Proc
    BY ProcOf
  <1>2. CASE UNCHANGED <<proc, node>>
    BY <1>0, <1>2 DEF NodesOK
  <1>3. CASE Start
    BY <1>2, <1>3 DEF Start, NodesOK
  <1>4. CASE Cleanup
    <2>1. node' = node /\ \A q \in Proc : proc'[q] \in Before => proc[q] \in Before
      BY <1>4 DEF Cleanup, Before
    <2> QED
      BY <1>0, <1>1, <2>1 DEF NodesOK
  <1>5. ASSUME NEW p \in Proc, process(p) PROVE NodesOK'
    <2>1. Alone(p) /\ ((\E r \in Run : Starts(r, p) \/ Fails(r, p)) \/ Passes(p) \/ GoesOn(p) \/ Exits(p))
      BY <1>5, ProcessStep
    <2>2. /\ \A q \in Proc : q # p => proc'[q] = proc[q]
          /\ \A id \in ID : id \notin ids(p) => node'[id] = node[id]
      BY <2>1 DEF Alone
    <2>3. \A id \in active : procOf(id) = p => id \in ids(p)
      BY DEF active, ids, ActiveOn, procOf
    <2>4. \A id \in ids(p) : id \in active /\ procOf(id) = p
      BY ProcOf
    <2>5. ASSUME NEW id \in ids(p), node'[id] # "none" PROVE proc'[p] \notin Before
      <3>1. CASE Passes(p) \/ Exits(p) \/ \E r \in Run : Starts(r, p)
        BY <2>5, <3>1 DEF Passes, Exits, Starts, Before
      <3>2. ASSUME NEW r \in Run, Fails(r, p) PROVE proc'[p] \notin Before
        <4>1. node[id] # "none" /\ id \in ID
          BY <2>4, <2>5, <3>2, ProcOf DEF Fails
        <4> QED
          BY <2>4, <3>2, <4>1 DEF Fails, NodesOK, Before
      <3>3. CASE GoesOn(p)
        BY <2>4, <2>5, <3>3, ProcOf DEF GoesOn, NodesOK, Before
      <3> QED
        BY <2>1, <3>1, <3>2, <3>3
    <2>6. ASSUME NEW id \in ID, id \notin ids(p), node'[id] # "none"
          PROVE  id \in active /\ proc'[procOf(id)] \notin Before
      BY <1>1, <2>2, <2>3, <2>6 DEF NodesOK
    <2> QED
      BY <1>0, <2>4, <2>5, <2>6 DEF NodesOK
  <1>6. ASSUME NEW id \in ID, handel(id) PROVE NodesOK'
    <2>1. /\ proc' = proc /\ id \in active /\ proc[procOf(id)] \in running
          /\ \A i \in ID : i # id => node'[i] = node[i]
          /\ node[id] # "none"
      BY <1>6, HandelStep DEF Finishes, Records, Signals
    <2> QED
      BY <1>0, <2>1 DEF NodesOK
  <1> QED
    BY <1>2, <1>3, <1>4, <1>5, <1>6, StepKinds, QuietStep

\* A process is of no later run than the current one; on localhost of that one.
LEMMA GenStep ==
    ASSUME ParamsOK, TypesOK, NodesOK, GenOK, CountOK, CleanFinish, [Next]_vars PROVE GenOK'
  <1> USE DEF svars, platv, startv, endv, procv, monv, filev, histv
  <1>0. /\ UNCHANGED plat /\ (trouble => trouble') /\ idx \in Int /\ \A r \in Run : r \in Int
        /\ plat = "localhost" \/ plat = "aws"
    BY Constant, TroubleStays DEF TypesOK, Run, ParamsOK
  <1>1. ASSUME UNCHANGED <<idx, launch, proc, of, leftover>>, ctl' = "start" => ctl = "start"
        PROVE  GenOK'
    BY <1>0, <1>1 DEF GenOK
  <1>2. CASE Start
    <2>0. (ctl = "start" /\ idx' = idx) \/ (ctl = "returned" /\ idx' = idx + 1)
      BY <1>2, StartStep
    <2>1. idx' \in Run /\ idx <= idx' /\ (ctl = "start" \/ ctl = "returned") /\ ctl' = "waitStart"
      <3>1. idx' \in Run /\ ctl' = "waitStart"
        BY <1>2, StartStep DEF Start
      <3> QED
        BY <1>0, <2>0, <3>1
    <2>2. of' = of /\ \A p \in Proc : of[p] \in Int
      BY <1>0, <1>2 DEF Start, TypesOK
    <2>3. CASE plat = "localhost"
      <3>1. launch' = {idx'} \X Proc /\ \A p \in Proc : proc'[p] = "none"
        BY <1>2, <2>3 DEF Start
      <3>2. ASSUME leftover' # {} PROVE trouble'
        <4>1. CASE leftover # {}
          BY <1>0, <2>3, <4>1 DEF GenOK
        <4>2. CASE leftover = {}
          <5>1. PICK p \in Proc : unfinished(p)
            BY <1>2, <2>3, <3>2, <4>2 DEF Start
          <5>2. proc[p] # "ok"
            BY <2>3, <5>1 DEF unfinished, GenOK, TypesOK, running
          <5>3. CASE ctl = "returned"
            BY <1>0, <2>3, <5>2, <5>3 DEF CleanFinish, CountOK
          <5>4. CASE ctl = "start"
            BY <5>1, <5>4 DEF unfinished, GenOK, running
          <5> QED
            BY <2>1, <5>3, <5>4
        <4> QED
          BY <4>1, <4>2
      <3> QED
        BY <1>0, <2>1, <2>2, <2>3, <3>1, <3>2 DEF GenOK, running
    <2>4. CASE plat = "aws"
      <3>1. launch' = launch \cup ({idx'} \X Proc) /\ leftover' = leftover /\ proc' = proc
        BY <1>2, <2>4 DEF Start
      <3>2. \A p \in Proc : of'[p] <= idx'
        BY <1>0, <2>1, <2>2 DEF GenOK, Run
      <3>3. \A p \in Proc : \A r \in Run : <<r, p>> \in launch' => r <= idx'
        BY <1>0, <2>1, <3>1 DEF GenOK, Run
      <3>4. ASSUME NEW p \in Proc, proc[p] # "none" PROVE <<of[p], p>> \notin launch'
        <4>1. idx' = idx + 1
          BY <2>0, <3>4 DEF GenOK
        <4>2. of[p] # idx'
          BY <1>0, <2>2, <4>1 DEF GenOK
        <4> QED
          BY <3>1, <3>4, <4>2 DEF GenOK
      <3> QED
        BY <1>0, <2>1, <2>2, <2>4, <3>1, <3>2, <3>3, <3>4 DEF GenOK
    <2> QED
      BY <1>0, <2>3, <2>4
  <1>3. CASE Cleanup
    <2>1. /\ UNCHANGED <<idx, launch, of, leftover>>
          /\ \A p \in Proc : proc'[p] = proc[p] \/ (proc[p] \in running /\ proc'[p] = "killed")
      BY <1>3 DEF Cleanup
    <2>2. ctl' # "start"
      BY <1>3 DEF Cleanup
    <2> QED
      BY <1>0, <2>1, <2>2 DEF GenOK, running
  <1>4. ASSUME NEW p \in Proc, process(p) PROVE GenOK'
    <2>1. Alone(p) /\ ((\E r \in Run : Starts(r, p) \/ Fails(r, p)) \/ Passes(p) \/ GoesOn(p) \/ Exits(p))
      BY <1>4, ProcessStep
    <2>2. /\ UNCHANGED <<idx, leftover>>
          /\ \A q \in Proc : q # p => proc'[q] = proc[q] /\ of'[q] = of[q]
          /\ ctl' # "start"
      BY <2>1 DEF Alone, Starts, Fails, Passes, GoesOn, Exits, running, GenOK
    <2>3. ASSUME NEW r \in Run, Starts(r, p) PROVE GenOK'
      <3>1. /\ <<r, p>> \in launch /\ launch' = launch \ {<<r, p>>}
            /\ proc'[p] = "waitStart" /\ of'[p] = r
        BY <2>3 DEF Starts
      <3>2. \A q \in Proc : of'[q] <= idx
        BY <2>2, <3>1 DEF GenOK
      <3>3. CASE plat = "localhost"
        <4>1. r = idx /\ \A s \in Run : s # r => <<s, p>> \notin launch
          BY <3>1, <3>3 DEF GenOK
        <4> QED
          BY <1>0, <2>2, <3>1, <3>2, <3>3, <4>1 DEF GenOK
      <3>4. CASE plat = "aws"
        BY <1>0, <2>2, <3>1, <3>2, <3>4 DEF GenOK
      <3> QED
        BY <1>0, <3>3, <3>4
    <2>4. ASSUME NEW r \in Run, Fails(r, p) PROVE GenOK'
      <3>1. <<r, p>> \in launch /\ launch' = launch \ {<<r, p>>}
        BY <2>4 DEF Fails
      <3>2. CASE plat = "localhost"
        <4>1. proc'[p] = "err" /\ of'[p] = r
          BY <2>4, <3>2 DEF Fails
        <4>2. r = idx /\ \A s \in Run : s # r => <<s, p>> \notin launch
          BY <3>1, <3>2 DEF GenOK
        <4>3. \A q \in Proc : of'[q] <= idx
          BY <1>0, <2>2, <4>1, <4>2 DEF GenOK
        <4> QED
          BY <1>0, <2>2, <3>1, <3>2, <4>1, <4>2, <4>3 DEF GenOK, running
      <3>3. CASE plat = "aws"
        <4>1. UNCHANGED <<proc, of>>
          BY <2>4, <3>3 DEF Fails
        <4> QED
          BY <1>0, <2>2, <3>1, <3>3, <4>1 DEF GenOK
      <3> QED
        BY <1>0, <3>2, <3>3
    <2>5. CASE Passes(p) \/ GoesOn(p) \/ Exits(p)
      <3>1. UNCHANGED <<launch, of>> /\ proc[p] \in running /\ proc[p] # "none"
        BY <2>5 DEF Passes, GoesOn, Exits, running
      <3> QED
        BY <1>0, <2>2, <3>1 DEF GenOK
    <2> QED
      BY <2>1, <2>3, <2>4, <2>5
  <1>5. ASSUME NEW id \in ID, handel(id) PROVE GenOK'
    BY <1>1, <1>5, HandelStep
  <1>6. CASE quiet
    <2>1. ctl' = "start" => ctl = "start"
      BY <1>6 DEF quiet, WaitStart, WaitEnd, WaitTimeout, WaitBinaries, Collect, WriteValues,
            RunTimeout, monitor, Listen, Stop, handleConnection, LeftoverRecords, vars
    <2> QED
      BY <1>1, <1>6, <2>1, QuietStep
  <1> QED
    BY <1>2, <1>3, <1>4, <1>5, <1>6, StepKinds

\* Who has recorded in the current run.
LEMMA SentStep ==
    ASSUME ParamsOK, TypesOK, NodesOK, GenOK, SentOK, [Next]_vars PROVE SentOK'
  <1> USE DEF svars, platv, startv, endv, procv, monv, filev, histv
  <1>0. /\ UNCHANGED active /\ idx \in Int /\ \A id : procOf(id)' = procOf(id)
        /\ \A id \in active : procOf(id) \in Proc /\ id \in ID
    BY Constant, ProcOf DEF TypesOK, Run, procOf
  <1>1. CASE UNCHANGED <<idx, launch, proc, of, node, sent>>
    BY <1>0, <1>1 DEF SentOK, recorded
  <1>2. CASE Start
    <2>1. /\ sent' = {} /\ of' = of /\ \A p \in Proc : proc'[p] = "none" \/ proc'[p] = proc[p]
      BY <1>2 DEF Start
    <2>2. (ctl = "start" /\ idx' = idx) \/ (ctl = "returned" /\ idx' = idx + 1)
      BY <1>2, StartStep
    <2>3. CASE idx' = idx + 1
      <3>1. \A p \in Proc : of[p] # idx + 1
        BY <1>0 DEF GenOK, TypesOK, Run
      <3> QED
        BY <1>0, <2>1, <2>3, <3>1 DEF SentOK
    <2>4. CASE ctl = "start" /\ idx' = idx
      <3>1. \A p \in Proc : proc[p] = "none"
        BY <2>4 DEF GenOK
      <3> QED
        BY <1>0, <2>1, <3>1 DEF SentOK, running
    <2> QED
      BY <2>2, <2>3, <2>4
  <1>3. CASE Cleanup
    <2>1. /\ UNCHANGED <<idx, launch, of, node, sent>>
          /\ \A p \in Proc : proc'[p] = proc[p] \/ proc'[p] = "killed"
      BY <1>3 DEF Cleanup
    <2> QED
      BY <1>0, <2>1 DEF SentOK, recorded, running
  <1>4. ASSUME NEW p \in Proc, process(p) PROVE SentOK'
    <2>1. Alone(p) /\ ((\E r \in Run : Starts(r, p) \/ Fails(r, p)) \/ Passes(p) \/ GoesOn(p) \/ Exits(p))
      BY <1>4, ProcessStep
    <2>2. /\ UNCHANGED <<idx, sent>>
          /\ \A q \in Proc : q # p => proc'[q] = proc[q] /\ of'[q] = of[q]
          /\ \A id \in ID : id \notin ids(p) => node'[id] = node[id]
      BY <2>1 DEF Alone
    <2>3. launch' \subseteq launch
      BY <2>1 DEF Starts, Fails, Passes, GoesOn, Exits
    <2> SUFFICES ASSUME NEW id \in active
                 PROVE  LET q == procOf(id)
                        IN  /\ id \in sent' => <<idx', q>> \notin launch'
                            /\ of'[q] = idx' /\ proc'[q] \in running => (id \in sent' <=> recorded(id)')
      BY <1>0 DEF SentOK
    <2>4. id \in sent => <<idx, procOf(id)>> \notin launch'
      BY <2>3 DEF SentOK
    <2>5. CASE procOf(id) # p
      <3>1. id \notin ids(p)
        BY <2>5, ProcOf
      <3>2. /\ node'[id] = node[id] /\ proc'[procOf(id)] = proc[procOf(id)]
            /\ of'[procOf(id)] = of[procOf(id)]
        BY <1>0, <2>2, <2>5, <3>1
      <3> QED
        BY <2>2, <2>4, <3>2 DEF SentOK, recorded
    <2>6. CASE procOf(id) = p
      <3>0. id \in ids(p)
        BY <2>6 DEF active, ids, ActiveOn, procOf
      <3>1. ASSUME NEW r \in Run, Starts(r, p), of'[p] = idx PROVE id \notin sent /\ ~recorded(id)'
        BY <1>0, <2>6, <3>0, <3>1 DEF Starts, SentOK, recorded
      <3>2. ASSUME NEW r \in Run, Fails(r, p), of'[p] = idx, proc'[p] \in running
            PROVE  id \in sent <=> recorded(id)'
        <4>1. node' = node /\ UNCHANGED <<proc, of>>
          BY <3>2 DEF Fails, running
        <4> QED
          BY <2>6, <3>2, <4>1 DEF SentOK, recorded
      <3>3. ASSUME Passes(p), of'[p] = idx PROVE id \in sent <=> recorded(id)'
        <4>1. of[p] = idx /\ proc[p] \in running /\ proc[p] \in Before /\ node'[id] = "run"
          BY <3>0, <3>3 DEF Passes, running, Before
        <4>2. node[id] = "none"
          BY <1>0, <2>6, <4>1 DEF NodesOK
        <4> QED
          BY <2>6, <4>1, <4>2 DEF SentOK, recorded
      <3>4. ASSUME GoesOn(p), of'[p] = idx PROVE id \in sent <=> recorded(id)'
        BY <2>6, <3>4 DEF GoesOn, SentOK, recorded, running
      <3>5. ASSUME Exits(p) PROVE proc'[p] \notin running
        BY <3>5 DEF Exits, running
      <3>6. ASSUME of'[p] = idx, proc'[p] \in running PROVE id \in sent <=> recorded(id)'
        BY <2>1, <3>1, <3>2, <3>3, <3>4, <3>5, <3>6
      <3> QED
        BY <2>2, <2>4, <2>6, <3>6
    <2> QED
      BY <2>5, <2>6
  <1>5. ASSUME NEW id \in ID, handel(id) PROVE SentOK'
    <2>1. /\ UNCHANGED <<idx, launch, proc, of>> /\ id \in active /\ proc[procOf(id)] \in running
          /\ \A i \in ID : i # id => node'[i] = node[i]
          /\ Finishes(id) \/ Records(id) \/ Signals(id)
      BY <1>5, HandelStep
    <2>2. \A i \in active : i # id => (i \in sent' <=> i \in sent) /\ (recorded(i)' <=> recorded(i))
      BY <1>0, <2>1 DEF Finishes, Records, Signals, recorded
    <2>3. ASSUME of[procOf(id)] = idx PROVE id \in sent' <=> recorded(id)'
      BY <2>1, <2>3 DEF Finishes, Records, Signals, recorded, SentOK
    <2>4. id \in sent' => <<idx, procOf(id)>> \notin launch
      <3>1. CASE id \in sent
        BY <2>1, <3>1 DEF SentOK
      <3>2. CASE id \notin sent
        <4> SUFFICES ASSUME id \in sent' PROVE <<idx, procOf(id)>> \notin launch
          OBVIOUS
        <4>1. of[procOf(id)] = idx
          BY <2>1, <3>2 DEF Finishes, Records, Signals
        <4>2. proc[procOf(id)] # "none"
          BY <2>1 DEF running
        <4> QED
          BY <1>0, <2>1, <4>1, <4>2 DEF GenOK
      <3> QED
        BY <3>1, <3>2
    <2> QED
      BY <1>0, <2>1, <2>2, <2>3, <2>4 DEF SentOK
  <1> QED
    BY <1>1, <1>2, <1>3, <1>4, <1>5, StepKinds, QuietStep

\* Where the platform is after END it came to through its barrier, or a timeout.
LEMMA PastEnd ==
    ASSUME TypesOK, MonOK, [Next]_vars, ctl' \in past, ~trouble'
    PROVE  ~trouble /\ (ctl \in past \/ (WaitEnd /\ Cardinality(ended) >= probExp))
  <1> USE DEF past
  <1>0. ~trouble
    BY TroubleStays
  <1>1. CASE WaitEnd
    BY <1>0, <1>1, SameCardinality DEF WaitEnd, END!Release
  <1>2. CASE ctl' = ctl
    BY <1>0, <1>2
  <1>3. CASE platform /\ ~WaitEnd
    BY <1>0, <1>3 DEF platform, Start, WaitStart, WaitTimeout, WaitBinaries, Collect, WriteValues,
          RunTimeout, Cleanup
  <1>4. ASSUME NEW r \in Run, Stop(r), Next PROVE ctl \in past
    <2>1. r \in stopping /\ (plat # "aws" => ctl' = ctl)
      BY <1>4 DEF Stop
    <2>2. plat = "aws" => ctl = "stop"
      BY <1>4, <2>1 DEF MonOK, Next, live
    <2> QED
      BY <2>1, <2>2
  <1>5. ASSUME NEW p \in Proc, process(p) PROVE ctl \in past
    <2>1. ctl' \in {ctl, "panic"}
      BY <1>5 DEF process, StartCommand, StartCommandFails, RepeatStart, PassStart, ProcTimeout,
                  NodesDone, PassEnd
    <2> QED
      BY <2>1
  <1>6. CASE LeftoverRecords \/ (\E id \in ID : handel(id)) \/ UNCHANGED vars
    BY <1>2, <1>6 DEF LeftoverRecords, handel, FinalSignature, Record, SignalEnd, RepeatEnd, vars
  <1>7. ASSUME NEW r \in Run, Listen(r) \/ handleConnection(r) PROVE ctl' = ctl
    BY <1>7 DEF Listen, handleConnection
  <1> QED
    BY <1>0, <1>1, <1>2, <1>3, <1>4, <1>5, <1>6, <1>7 DEF Next, monitor

\* The barrier END: ends come in from nodes that have recorded, or from another run,
\* and nobody passes without enough of them.
LEMMA EndStep ==
    ASSUME ParamsOK, TypesOK, NodesOK, GenOK, SentOK, EndOK, MonOK, TypesOK', [Next]_vars PROVE EndOK'
  <1> USE DEF svars, platv, startv, endv, procv, monv, filev, histv
  <1>0. /\ UNCHANGED <<active, probExp, plat>> /\ idx \in Run /\ idx' \in Run /\ probExp \in Nat
        /\ \A r \in Run : stale[r] \subseteq active /\ stale'[r] \subseteq active
        /\ sent \subseteq active /\ sent' \subseteq active
    BY Constant DEF TypesOK, ParamsOK
  <1>1. CASE Start
    <2>1. /\ ended' = {} /\ stale' = stale /\ of' = of /\ ctl' \notin past
          /\ \A p \in Proc : proc'[p] = "none" \/ proc'[p] = proc[p]
      BY <1>1 DEF Start, past
    <2>2. (ctl = "start" /\ idx' = idx) \/ (ctl = "returned" /\ idx' = idx + 1)
      BY <1>1, StartStep
    <2>3. ASSUME NEW p \in Proc, proc'[p] = "ok", of'[p] = idx' PROVE FALSE
      <3>1. proc[p] = "ok" /\ of[p] = idx'
        BY <2>1, <2>3
      <3>2. CASE ctl = "start"
        BY <3>1, <3>2 DEF GenOK
      <3>3. CASE idx' = idx + 1
        BY <1>0, <3>1, <3>3 DEF GenOK, Run
      <3> QED
        BY <2>2, <3>2, <3>3
    <2> QED
      BY <1>0, <2>1, <2>3 DEF EndOK
  <1>2. ASSUME idx' = idx, ended \subseteq ended', ended' \subseteq sent' \cup stale'[idx],
               plat = "localhost" => \A r \in Run : stale'[r] = {},
               \A p \in Proc : proc'[p] = "ok" /\ of'[p] = idx
                   => (proc[p] = "ok" /\ of[p] = idx) \/ Cardinality(ended) >= probExp
        PROVE  EndOK'
    <2>1. ended \subseteq active /\ ended' \subseteq active
      BY <1>0, <1>2 DEF EndOK
    <2>2. Cardinality(ended) \in Nat /\ Cardinality(ended') \in Nat /\ IsFiniteSet(ended')
      BY <2>1, ActiveFinite DEF ParamsOK
    <2>3. Cardinality(ended) <= Cardinality(ended')
      BY <1>2, <2>2, FS_Subset
    <2>4. Cardinality(ended) >= probExp => Cardinality(ended') >= probExp
      BY <1>0, <2>2, <2>3
    <2>5. \A p \in Proc : proc'[p] = "ok" /\ of'[p] = idx' => Cardinality(ended') >= probExp'
      BY <1>0, <1>2, <2>4 DEF EndOK
    <2>6. ctl' \in past /\ ~trouble' => Cardinality(ended') >= probExp'
      BY <1>0, <2>4, PastEnd DEF EndOK
    <2> QED
      BY <1>0, <1>2, <2>5, <2>6 DEF EndOK
  <1>3. CASE quiet
    BY <1>2, <1>3, QuietStep DEF EndOK
  <1>4. CASE Cleanup
    <2>1. UNCHANGED <<idx, of, ended, sent, stale>> /\ \A p \in Proc : proc'[p] = "ok" => proc[p] = "ok"
      BY <1>4 DEF Cleanup
    <2> QED
      BY <1>2, <2>1 DEF EndOK
  <1>5. ASSUME NEW p \in Proc, process(p) PROVE EndOK'
    <2>1. Alone(p) /\ ((\E r \in Run : Starts(r, p) \/ Fails(r, p)) \/ Passes(p) \/ GoesOn(p) \/ Exits(p))
      BY <1>5, ProcessStep
    <2>2. proc'[p] = "ok" => (proc[p] = "ok" /\ of'[p] = of[p]) \/ Cardinality(ended) >= probExp
      BY <2>1 DEF Starts, Fails, Passes, GoesOn, Exits
    <2>3. /\ UNCHANGED <<idx, sent, stale, ended>>
          /\ \A q \in Proc : q # p => proc'[q] = proc[q] /\ of'[q] = of[q]
      BY <2>1 DEF Alone
    <2> QED
      BY <1>2, <2>2, <2>3 DEF EndOK
  <1>6. ASSUME NEW id \in ID, handel(id) PROVE EndOK'
    <2>1. /\ UNCHANGED <<idx, proc, of>> /\ id \in active /\ proc[procOf(id)] \in running
          /\ Finishes(id) \/ Records(id) \/ Signals(id)
      BY <1>6, HandelStep
    <2>2. CASE Finishes(id) \/ Records(id)
      <3>1. UNCHANGED <<ended, stale>> /\ sent \subseteq sent'
        BY <2>2 DEF Finishes, Records
      <3> QED
        BY <1>2, <2>1, <3>1 DEF EndOK
    <2>3. CASE Signals(id) /\ UNCHANGED <<ended, stale>>
      BY <1>2, <2>1, <2>3 DEF Signals, EndOK
    <2>4. CASE Signals(id) /\ of[procOf(id)] = idx /\ ended' = ended \cup {id}
      <3>1. id \in sent /\ stale' = stale /\ sent' = sent
        <4>1. recorded(id) /\ sent' = sent
          BY <2>4 DEF Signals, recorded
        <4>2. id \in sent
          BY <2>1, <2>4, <4>1 DEF SentOK
        <4>3. stale' = stale
          BY <2>4 DEF Signals
        <4> QED
          BY <4>1, <4>2, <4>3
      <3> QED
        BY <1>2, <2>1, <2>4, <3>1 DEF EndOK
    <2>5. CASE /\ Signals(id) /\ of[procOf(id)] # idx /\ ended' = ended \cup {id}
               /\ stale' = [stale EXCEPT ![idx] = @ \cup {id}]
      <3>1. stale'[idx] = stale[idx] \cup {id} /\ sent' = sent
        BY <1>0, <2>5 DEF Signals, TypesOK
      <3>2. plat # "localhost"
        BY <2>1, <2>5, ProcOf DEF GenOK
      <3> QED
        BY <1>2, <2>1, <2>5, <3>1, <3>2 DEF EndOK
    <2> QED
      BY <2>1, <2>2, <2>3, <2>4, <2>5 DEF Signals
  <1> QED
    BY <1>1, <1>3, <1>4, <1>5, <1>6, StepKinds

\* The reports of the processes of localhost.
LEMMA CountStep == ASSUME ParamsOK, TypesOK, NodesOK, GenOK, CountOK, [Next]_vars PROVE CountOK'
  <1> USE DEF svars, platv, startv, endv, procv, monv, filev, histv
  <1> DEFINE OK == {p \in Proc : proc[p] = "ok"}
  <1> SUFFICES ASSUME plat = "localhost" PROVE CountOK'
    BY Constant DEF CountOK
  <1>0. IsFiniteSet(OK) /\ Cardinality(OK) \in Nat
    BY SimulationAssumption, FS_Subset, FS_CardinalityType
  <1>1. CASE Start
    <2>1. OK' = {} /\ reports' + counted' = 0 /\ \A p \in Proc : proc'[p] # "err"
      BY <1>1 DEF Start
    <2> QED
      BY <2>1, FS_EmptySet DEF CountOK
  <1>2. ASSUME \A p \in Proc : (proc'[p] = "ok" <=> proc[p] = "ok") /\ (proc'[p] = "err" <=> proc[p] = "err"),
               reports' + counted' = reports + counted
        PROVE  CountOK'
    <2>1. OK' = OK
      BY <1>2
    <2> QED
      BY <1>2, <2>1, TroubleStays DEF CountOK
  <1>3. CASE WaitBinaries
    BY <1>2, <1>3 DEF WaitBinaries, TypesOK
  <1>4. CASE Cleanup
    BY <1>2, <1>4 DEF Cleanup, running
  <1>5. ASSUME NEW p \in Proc, process(p) PROVE CountOK'
    <2>1. Alone(p) /\ ((\E r \in Run : Starts(r, p) \/ Fails(r, p)) \/ Passes(p) \/ GoesOn(p) \/ Exits(p))
      BY <1>5, ProcessStep
    <2>2. counted' = counted /\ \A q \in Proc : q # p => proc'[q] = proc[q]
      BY <2>1 DEF Alone
    <2>3. CASE (\E r \in Run : Starts(r, p)) \/ Passes(p) \/ GoesOn(p)
      <3>1. proc[p] \notin {"ok", "err"} /\ proc'[p] \notin {"ok", "err"} /\ reports' = reports
        BY <2>3 DEF Starts, Passes, GoesOn, GenOK
      <3> QED
        BY <1>2, <2>2, <3>1
    <2>4. CASE proc'[p] = "err" /\ trouble'
      BY <2>2, <2>4, Constant, TroubleStays DEF CountOK
    <2>5. CASE /\ proc[p] \in running /\ proc'[p] = "ok"
               /\ reports' = reports + 1 /\ trouble' = trouble
      <3>1. OK' = OK \cup {p} /\ p \notin OK
        BY <2>2, <2>5 DEF running
      <3>2. Cardinality(OK') = Cardinality(OK) + 1
        BY <1>0, <3>1, FS_AddElement
      <3>3. \A q \in Proc : proc'[q] = "err" <=> q # p /\ proc[q] = "err"
        BY <2>2, <2>5
      <3>4. proc[p] # "err"
        BY <2>5 DEF running
      <3>5. (\A q \in Proc : proc[q] # "err") => reports + counted = Cardinality(OK)
        BY DEF CountOK
      <3>6. reports + counted = Cardinality(OK) => reports' + counted' = Cardinality(OK')
        BY <1>0, <2>2, <2>5, <3>2 DEF TypesOK
      <3> QED
        BY <2>5, <3>3, <3>4, <3>5, <3>6, TroubleStays DEF CountOK
    <2> QED
      BY <2>1, <2>3, <2>4, <2>5 DEF Fails, Exits
  <1>6. CASE quiet /\ ~WaitBinaries
    <2>1. UNCHANGED <<proc, reports, counted>>
      BY <1>6 DEF quiet, WaitStart, WaitEnd, WaitTimeout, Collect, WriteValues, RunTimeout,
                  monitor, Listen, Stop, handleConnection, LeftoverRecords, vars
    <2> QED
      BY <1>2, <2>1
  <1>7. ASSUME NEW id \in ID, handel(id) PROVE CountOK'
    BY <1>2, <1>7, HandelStep
  <1> QED
    BY <1>1, <1>3, <1>4, <1>5, <1>6, <1>7, StepKinds

\* localhost goes on when it has counted a report for each process.
LEMMA FinishStep ==
    ASSUME ParamsOK, TypesOK, NodesOK, GenOK, CountOK, CountOK', TypesOK', CleanFinish, [Next]_vars
    PROVE  CleanFinish'
  <1> USE DEF svars, platv, startv, endv, procv, monv, filev, histv
  <1>0. UNCHANGED plat
    BY Constant
  <1> SUFFICES ASSUME plat = "localhost", ctl' \in {"header", "values", "returned"}
               PROVE  (\A p \in Proc : proc'[p] = "ok") \/ \E p \in Proc : proc'[p] = "err"
    BY <1>0 DEF CleanFinish
  <1>1. CASE WaitBinaries /\ ctl # "header" /\ ctl' = "header"
    <2> DEFINE OK == {p \in Proc : proc'[p] = "ok"}
    <2>1. counted' >= procs /\ procs \in Nat
      BY <1>1, ProcOf DEF WaitBinaries, allCounted
    <2>2. CASE \E p \in Proc : proc'[p] = "err"
      BY <2>2
    <2>3. CASE \A p \in Proc : proc'[p] # "err"
      <3>1. reports' + counted' = Cardinality(OK)
        BY <1>0, <2>3 DEF CountOK
      <3>2. reports' \in Nat /\ counted' \in Nat
        BY DEF TypesOK
      <3>3. Cardinality(OK) >= procs
        BY <2>1, <3>1, <3>2
      <3>4. OK \subseteq Proc
        OBVIOUS
      <3>5. Cardinality(OK) <= Cardinality(Proc) /\ (Cardinality(OK) = Cardinality(Proc) => OK = Proc)
        BY <3>4, SimulationAssumption, FS_Subset
      <3>6. Cardinality(OK) \in Nat
        BY <3>1, <3>2
      <3>7. OK = Proc
        BY <2>1, <3>3, <3>5, <3>6 DEF procs
      <3> QED
        BY <3>7
    <2> QED
      BY <2>2, <2>3
  <1>2. CASE ctl \in {"header", "values", "returned"}
    <2>1. ASSUME NEW p \in Proc, proc[p] \in {"ok", "err"} PROVE proc'[p] = proc[p]
      <3>1. CASE Start
        BY <3>1 DEF Start
      <3>2. CASE quiet \/ Cleanup \/ \E id \in ID : handel(id)
        BY <2>1, <3>2, QuietStep, HandelStep DEF Cleanup, running
      <3>3. ASSUME NEW q \in Proc, process(q) PROVE proc'[p] = proc[p]
        <4>1. Alone(q) /\ ((\E r \in Run : Starts(r, q) \/ Fails(r, q)) \/ Passes(q) \/ GoesOn(q) \/ Exits(q))
          BY <3>3, ProcessStep
        <4>2. proc[q] \notin {"ok", "err"}
          BY <4>1 DEF Starts, Fails, Passes, GoesOn, Exits, GenOK, running
        <4> QED
          BY <2>1, <4>1, <4>2 DEF Alone
      <3> QED
        BY <3>1, <3>2, <3>3, StepKinds
    <2> QED
      BY <1>2, <2>1 DEF CleanFinish
  <1>3. CASE quiet
    BY <1>1, <1>2, <1>3 DEF quiet, WaitStart, WaitEnd, WaitTimeout, WaitBinaries, Collect,
             WriteValues, RunTimeout, monitor, Listen, Stop, handleConnection, LeftoverRecords, vars
  <1>4. CASE Start \/ Cleanup
    BY <1>4 DEF Start, Cleanup
  <1>5. ASSUME NEW p \in Proc, process(p) PROVE ctl' \in {ctl, "panic"}
    BY <1>5, ProcessStep DEF Alone
  <1>6. ASSUME NEW id \in ID, handel(id) PROVE ctl' = ctl
    BY <1>6, HandelStep
  <1> QED
    BY <1>2, <1>3, <1>4, <1>5, <1>6, StepKinds

\* The monitors and their port.
LEMMA MonStep == ASSUME ParamsOK, TypesOK, NodesOK, MonOK, [Next]_vars PROVE MonOK'
  <1> USE DEF svars, platv, startv, endv, procv, monv, filev, histv
  <1>0. /\ UNCHANGED plat /\ idx \in Run /\ idx \in Int /\ plat \in {"localhost", "aws"}
        /\ stopping \subseteq Run /\ DOMAIN mon = Run /\ \A r \in Run : r \in Int
    BY Constant DEF TypesOK, ParamsOK, Run
  <1>1. early' = early /\ late' = late
    BY <1>0 DEF early, late
  <1>2. ASSUME UNCHANGED <<idx, mon, stopping, stats>>, ctl' \in {ctl, "panic"},
               buffer' = buffer \/ portTaken
        PROVE  MonOK'
    <2>1. portTaken' = portTaken /\ "panic" \notin early \cup late \cup {"start", "waitAll"}
      BY <1>2 DEF portTaken, early, late
    <2> QED
      BY <1>0, <1>1, <1>2, <2>1 DEF MonOK
  <1>3. CASE Start
    <2>1. /\ ctl' = "waitStart" /\ mon' = [mon EXCEPT ![idx'] = "new"]
          /\ UNCHANGED <<stopping, buffer, stats>>
      BY <1>3 DEF Start
    <2>2. idx' \in Run /\ ((ctl = "start" /\ idx' = idx) \/ (ctl = "returned" /\ idx' = idx + 1))
      BY <1>3, StartStep
    <2>3. \A r \in Run : /\ r > idx' => r > idx
                         /\ r < idx' => r < idx \/ (r = idx /\ ctl = "returned")
      BY <1>0, <2>2
    <2>4. mon[idx'] = "none" /\ idx' \notin stopping
      BY <1>0, <2>2 DEF MonOK
    <2>5. mon'[idx'] = "new" /\ DOMAIN mon' = Run /\ \A r \in Run : r # idx' => mon'[r] = mon[r]
      BY <1>0, <2>1, <2>2
    <2>6. portTaken => portTaken'
      BY <1>0, <2>4, <2>5 DEF portTaken
    <2>7. ctl' \notin late' /\ ctl' # "start" /\ ctl' # "waitAll" /\ "returned" \in late
      BY <2>1 DEF late
    <2>8. plat = "aws" => stopping = {}
      BY <2>2 DEF MonOK
    <2>9. \A r \in Run : r > idx' => r # idx'
      BY <1>0, <2>2
    <2>10. /\ \A r \in Run : r > idx' => mon'[r] = "none" /\ stats'[r] = {} /\ r \notin stopping'
           /\ \A r \in Run : r < idx' /\ mon'[r] \in {"new", "listening"} => r \in stopping'
      <3>1. \A r \in Run : r < idx' => r # idx'
        BY <1>0, <2>2
      <3> QED
        BY <2>1, <2>3, <2>5, <2>7, <2>9, <3>1 DEF MonOK
    <2>11. /\ \A r \in stopping' : mon'[r] \in {"new", "listening", "unbound"}
           /\ plat = "aws" => \A r \in Run : mon'[r] \notin {"stoppedFirst", "leaked"}
      BY <1>0, <2>1, <2>4, <2>5 DEF MonOK
    <2> QED
      BY <1>0, <2>1, <2>4, <2>5, <2>6, <2>7, <2>8, <2>10, <2>11 DEF MonOK
  <1>4. CASE WaitStart \/ WaitEnd \/ WaitTimeout \/ RunTimeout \/ Collect \/ Cleanup
    <2>1. /\ UNCHANGED <<idx, mon, stopping, stats, buffer>> /\ ctl' # "start"
          /\ ctl \in early \cup {"header", "returned"}
          /\ ctl' \in early => ctl \in early
          /\ ctl' \in late => ctl \in late
          /\ ctl' = "waitAll" => plat = "localhost"
      BY <1>0, <1>4 DEF WaitStart, WaitEnd, WaitTimeout, RunTimeout, Collect, Cleanup, early, late,
                        MonOK
    <2>2. portTaken' = portTaken
      BY <2>1 DEF portTaken
    <2>3. plat = "aws" => stopping = {}
      BY <2>1 DEF MonOK, early
    <2> QED
      BY <1>0, <1>1, <2>1, <2>2, <2>3 DEF MonOK
  <1>5. CASE WaitBinaries
    <2>1. /\ ctl = "waitAll" /\ plat = "localhost" /\ UNCHANGED <<idx, mon, stats, buffer>>
          /\ (ctl' = "header" /\ stopping' = stopping \cup {idx}) \/ UNCHANGED <<ctl, stopping>>
      BY <1>5 DEF WaitBinaries, MonOK
    <2>2. CASE UNCHANGED <<ctl, stopping>>
      BY <1>2, <2>1, <2>2
    <2>3. CASE ctl' = "header" /\ stopping' = stopping \cup {idx}
      <3>1. portTaken' = portTaken /\ ctl' \notin early'
        BY <1>0, <2>1, <2>3 DEF portTaken, early
      <3>2. mon[idx] \in {"new", "listening", "unbound"}
        BY <2>1 DEF MonOK, early
      <3>3. \A r \in Run : r > idx => r # idx
        BY <1>0
      <3> QED
        BY <1>0, <1>1, <2>1, <2>3, <3>1, <3>2, <3>3 DEF MonOK
    <2> QED
      BY <2>1, <2>2, <2>3
  <1>6. CASE WriteValues
    <2>1. /\ ctl = "values" /\ UNCHANGED <<idx, mon, stats, buffer>>
          /\ IF plat = "aws" THEN ctl' = "stop" /\ stopping' = stopping \cup {idx}
             ELSE ctl' = "returned" /\ UNCHANGED stopping
      BY <1>6 DEF WriteValues
    <2>2. portTaken' = portTaken
      BY <2>1 DEF portTaken
    <2>3. plat = "aws" => mon[idx] \in {"new", "listening", "unbound"} /\ stopping = {}
      BY <2>1 DEF MonOK, early
    <2>4. \A r \in Run : r > idx => r # idx
      BY <1>0
    <2>5. ctl' \notin early /\ ctl' \notin {"start", "waitAll"} /\ (plat # "aws" => ctl \in late)
      BY <2>1 DEF early, late
    <2> QED
      BY <1>0, <1>1, <2>1, <2>2, <2>3, <2>4, <2>5 DEF MonOK
  <1>7. ASSUME NEW r \in Run, Listen(r) PROVE MonOK'
    <2>1. /\ mon[r] \in {"new", "stoppedFirst"} /\ UNCHANGED <<idx, ctl, stopping, stats, buffer>>
          /\ mon'[r] = (IF portTaken THEN "unbound"
                        ELSE IF mon[r] = "new" THEN "listening" ELSE "leaked")
          /\ \A q \in Run : q # r => mon'[q] = mon[q]
          /\ DOMAIN mon' = Run
      BY <1>0, <1>7 DEF Listen
    <2>2. portTaken'
      BY <1>0, <2>1 DEF portTaken
    <2>3. /\ mon'[r] \in {"new", "listening"} => mon[r] = "new"
          /\ mon'[r] \in {"unbound", "listening", "leaked"}
          /\ mon'[r] = "leaked" => mon[r] = "stoppedFirst"
      BY <2>1
    <2>4. \A q \in Run : q > idx \/ (q = idx /\ ctl = "start") => q # r
      BY <2>1 DEF MonOK
    <2>5. \A q \in Run : (q < idx \/ (q = idx /\ ctl \in late)) /\ mon'[q] \in {"new", "listening"}
                            => q \in stopping
      BY <2>1, <2>3 DEF MonOK
    <2>6. \A q \in stopping : mon'[q] \in {"new", "listening", "unbound"}
      BY <1>0, <2>1, <2>3 DEF MonOK
    <2>7. plat = "aws" => \A q \in Run : mon'[q] \notin {"stoppedFirst", "leaked"}
      BY <2>1, <2>3 DEF MonOK
    <2>8. ctl \in early => mon'[idx] \in {"new", "listening", "unbound"}
      BY <1>0, <2>1, <2>3 DEF MonOK
    <2> QED
      BY <1>0, <1>1, <2>1, <2>2, <2>4, <2>5, <2>6, <2>7, <2>8 DEF MonOK
  <1>8. ASSUME NEW r \in Run, Stop(r), live PROVE MonOK'
    <2>1. /\ r \in stopping /\ stopping' = stopping \ {r} /\ UNCHANGED <<idx, stats>>
          /\ mon'[r] \in {"stoppedFirst", "stopped"}
          /\ plat = "aws" => mon'[r] = "stopped"
          /\ \A q \in Run : q # r => mon'[q] = mon[q]
          /\ DOMAIN mon' = Run
          /\ buffer' = IF mon[r] = "listening" THEN {} ELSE buffer
          /\ ctl' = IF plat = "aws" THEN "returned" ELSE ctl
      BY <1>0, <1>8 DEF Stop, stopped
    <2>2. mon[r] \in {"new", "listening", "unbound"}
      BY <2>1 DEF MonOK
    <2>3. ~portTaken' => buffer' = {}
      <3>1. CASE mon[r] = "listening"
        BY <2>1, <3>1
      <3>2. CASE mon[r] # "listening"
        <4>1. portTaken => portTaken'
          BY <1>0, <2>1, <2>2, <3>2 DEF portTaken
        <4> QED
          BY <2>1, <3>2, <4>1 DEF MonOK
      <3> QED
        BY <3>1, <3>2
    <2>4. ctl \in early => r # idx
      BY <2>1 DEF MonOK
    <2>5. \A q \in Run : q > idx \/ (q = idx /\ ctl = "start") => q # r
      BY <2>1 DEF MonOK
    <2>6. plat = "aws" => /\ stopping' = {} /\ ctl = "stop"
                          /\ ctl' \notin early \cup {"start", "waitAll"}
      BY <1>0, <1>8, <2>1 DEF MonOK, early, live
    <2>7. \A q \in Run : (q < idx \/ (q = idx /\ ctl' \in late)) /\ mon'[q] \in {"new", "listening"}
                            => q \in stopping'
      <3>1. ctl' \in late => ctl \in late
        BY <2>1, <2>6 DEF late
      <3> QED
        BY <2>1, <3>1 DEF MonOK
    <2>8. \A q \in stopping' : mon'[q] \in {"new", "listening", "unbound"}
      BY <1>0, <2>1 DEF MonOK
    <2>9. plat = "aws" => \A q \in Run : mon'[q] \notin {"stoppedFirst", "leaked"}
      BY <2>1 DEF MonOK
    <2>10. CASE plat = "aws"
      BY <1>0, <1>1, <2>1, <2>3, <2>5, <2>6, <2>7, <2>8, <2>9, <2>10 DEF MonOK
    <2>11. CASE plat # "aws"
      BY <1>0, <1>1, <2>1, <2>3, <2>4, <2>5, <2>7, <2>8, <2>11 DEF MonOK
    <2> QED
      BY <2>10, <2>11
  <1>9. ASSUME NEW r \in Run, handleConnection(r) PROVE MonOK'
    <2>1. PICK m \in buffer : buffer' = buffer \ {m} /\ stats' = [stats EXCEPT ![r] = @ \cup {m}]
      BY <1>9 DEF handleConnection
    <2>2. mon[r] = "listening" /\ UNCHANGED <<idx, ctl, mon, stopping>>
      BY <1>9 DEF handleConnection
    <2>3. portTaken' = portTaken
      BY <2>2 DEF portTaken
    <2>4. \A q \in Run : q # r => stats'[q] = stats[q]
      BY <2>1 DEF TypesOK
    <2>5. ~portTaken => buffer' = {}
      BY <2>1 DEF MonOK
    <2> QED
      BY <1>0, <1>1, <2>2, <2>3, <2>4, <2>5 DEF MonOK
  <1>10. CASE LeftoverRecords
    BY <1>2, <1>10 DEF LeftoverRecords, send
  <1>11. ASSUME NEW id \in ID, handel(id) PROVE MonOK'
    BY <1>2, <1>11, HandelStep DEF Finishes, Records, Signals
  <1>12. ASSUME NEW p \in Proc, process(p) PROVE MonOK'
    BY <1>2, <1>12, ProcessStep DEF Alone
  <1>13. CASE UNCHANGED vars
    BY <1>2, <1>13 DEF vars
  <1> QED
    BY <1>3, <1>4, <1>5, <1>6, <1>7, <1>8, <1>9, <1>10, <1>11, <1>12, <1>13
       DEF Next, platform, monitor

\* After a run of aws that nothing disturbed, and whose master heard of no other run,
\* no process of it is left that may send measures.
LEMMA NothingLeft ==
    ASSUME ParamsOK, TypesOK, SentOK, EndOK, clean, plat = "aws", ctl = "returned", stale[idx] = {},
           NEW p \in Proc
    PROVE  /\ <<idx, p>> \in launch => ids(p) = {}
           /\ of[p] = idx /\ proc[p] \in running => \A id \in ids(p) : recorded(id)
  <1>1. Cardinality(ended) >= Cardinality(active)
    BY DEF EndOK, clean, ParamsOK, past
  <1>2. ended \subseteq sent /\ sent \subseteq active
    BY DEF EndOK, TypesOK
  <1>3. sent = active
    <2>1. ended \in SUBSET active
      BY <1>2
    <2>2. ended = active
      BY <1>1, <2>1, ActiveFinite DEF ParamsOK
    <2> QED
      BY <1>2, <2>2
  <1>4. \A id \in ids(p) : id \in sent /\ procOf(id) = p
    BY <1>3, ProcOf
  <1> QED
    BY <1>3, <1>4 DEF SentOK

\* A process of an earlier run that nothing disturbed has nothing more to record.
LEMMA LeftStep ==
    ASSUME ParamsOK, TypesOK, NodesOK, GenOK, SentOK, EndOK, LeftOK, [Next]_vars PROVE LeftOK'
  <1> USE DEF svars, platv, startv, endv, procv, monv, filev, histv
  <1>0. /\ UNCHANGED <<plat, probExp, exp>> /\ \A p : ids(p)' = ids(p)
        /\ idx \in Int /\ \A r \in Run : r \in Int
        /\ plat = "localhost" \/ plat = "aws"
    BY Constant DEF TypesOK, Run, ParamsOK
  <1>1. clean' => clean
    BY <1>0, TroubleStays DEF clean
  <1> SUFFICES ASSUME clean', NEW p \in Proc, NEW r \in Run, r < idx', stale'[r] = {}
               PROVE  /\ <<r, p>> \in launch' => ids(p) = {}
                      /\ of'[p] = r /\ proc'[p] \in running => \A id \in ids(p) : recorded(id)'
    BY <1>0 DEF LeftOK
  <1>2. ASSUME r < idx, stale[r] = {}
        PROVE  /\ <<r, p>> \in launch => ids(p) = {}
               /\ of[p] = r /\ proc[p] \in running => \A id \in ids(p) : recorded(id)
    BY <1>1, <1>2 DEF LeftOK
  <1>3. CASE Start
    <2>1. (ctl = "start" /\ idx' = idx) \/ (ctl = "returned" /\ idx' = idx + 1)
      BY <1>3, StartStep
    <2>2. UNCHANGED <<stale, of>>
      BY <1>3 DEF Start
    <2>3. CASE plat = "localhost"
      <3>1. launch' = {idx'} \X Proc /\ proc'[p] = "none" /\ r # idx'
        BY <1>0, <1>3, <2>1, <2>3 DEF Start
      <3> QED
        BY <3>1 DEF running
    <2>4. CASE plat = "aws"
      <3>1. launch' = launch \cup ({idx'} \X Proc) /\ UNCHANGED <<proc, node>>
        BY <1>3, <2>4 DEF Start
      <3>2. <<r, p>> \in launch' => <<r, p>> \in launch
        BY <1>0, <2>1, <3>1
      <3>3. \A id : recorded(id)' = recorded(id)
        BY <3>1 DEF recorded
      <3>4. CASE r < idx
        BY <1>2, <2>2, <3>1, <3>2, <3>3, <3>4
      <3>5. CASE r = idx /\ ctl = "returned"
        <4>1. /\ <<r, p>> \in launch => ids(p) = {}
              /\ of[p] = r /\ proc[p] \in running => \A id \in ids(p) : recorded(id)
          BY <1>1, <2>2, <2>4, <3>5, NothingLeft
        <4> QED
          BY <2>2, <3>1, <3>2, <3>3, <4>1
      <3> QED
        BY <1>0, <2>1, <3>4, <3>5
    <2> QED
      BY <1>0, <2>3, <2>4
  <1>4. CASE quiet
    <2>1. UNCHANGED <<idx, launch, proc, of, node, stale>>
      BY <1>4, QuietStep
    <2> QED
      BY <1>2, <2>1 DEF recorded
  <1>5. CASE Cleanup
    <2>1. UNCHANGED <<idx, launch, of, node, stale>> /\ (proc'[p] = proc[p] \/ proc'[p] = "killed")
      BY <1>5 DEF Cleanup
    <2> QED
      BY <1>2, <2>1 DEF recorded, running
  <1>6. ASSUME NEW q \in Proc, process(q)
        PROVE  /\ <<r, p>> \in launch' => ids(p) = {}
               /\ of'[p] = r /\ proc'[p] \in running => \A id \in ids(p) : recorded(id)'
    <2>1. Alone(q) /\ ((\E s \in Run : Starts(s, q) \/ Fails(s, q)) \/ Passes(q) \/ GoesOn(q) \/ Exits(q))
      BY <1>6, ProcessStep
    <2>2. /\ UNCHANGED <<idx, stale>>
          /\ q # p => proc'[p] = proc[p] /\ of'[p] = of[p]
          /\ \A id \in ID : id \notin ids(q) => node'[id] = node[id]
      BY <2>1 DEF Alone
    <2>3. launch' \subseteq launch
      BY <2>1 DEF Starts, Fails, Passes, GoesOn, Exits
    <2>4. \A id \in ids(p) : id \in ID /\ procOf(id) = p /\ (q # p => id \notin ids(q))
      BY ProcOf
    <2>5. CASE q # p
      BY <1>2, <2>2, <2>3, <2>4, <2>5 DEF recorded
    <2>6. CASE q = p
      <3>1. ASSUME NEW s \in Run, Starts(s, p), of'[p] = r PROVE ids(p) = {}
        BY <1>2, <2>2, <3>1 DEF Starts
      <3>2. ASSUME NEW s \in Run, Fails(s, p), of'[p] = r, proc'[p] \in running
            PROVE  \A id \in ids(p) : recorded(id)'
        <4>1. node' = node /\ UNCHANGED <<proc, of>>
          BY <3>2 DEF Fails, running
        <4> QED
          BY <1>2, <2>2, <3>2, <4>1 DEF recorded
      <3>3. ASSUME Passes(p), of'[p] = r PROVE ids(p) = {}
        <4>1. \A id \in ids(p) : recorded(id)
          BY <1>2, <2>2, <3>3 DEF Passes, running
        <4>2. \A id \in ids(p) : node[id] = "none"
          BY <2>4, <3>3 DEF Passes, NodesOK, Before
        <4> QED
          BY <4>1, <4>2 DEF recorded
      <3>4. ASSUME GoesOn(p), of'[p] = r PROVE \A id \in ids(p) : recorded(id)'
        BY <1>2, <2>2, <3>4 DEF GoesOn, recorded, running
      <3>5. ASSUME Exits(p) PROVE proc'[p] \notin running
        BY <3>5 DEF Exits, running
      <3> QED
        BY <1>2, <2>1, <2>2, <2>3, <2>6, <3>1, <3>2, <3>3, <3>4, <3>5
    <2> QED
      BY <2>5, <2>6
  <1>7. ASSUME NEW id \in ID, handel(id)
        PROVE  /\ <<r, p>> \in launch' => ids(p) = {}
               /\ of'[p] = r /\ proc'[p] \in running => \A i \in ids(p) : recorded(i)'
    <2>1. /\ UNCHANGED <<idx, launch, proc, of>>
          /\ \A i \in ID : i # id => node'[i] = node[i]
          /\ Finishes(id) \/ Records(id) \/ Signals(id)
      BY <1>7, HandelStep
    <2>2. stale[r] = {}
      BY <1>0, <2>1 DEF Finishes, Records, Signals, TypesOK
    <2>3. \A i \in ids(p) : i \in ID /\ (recorded(i) => recorded(i)')
      BY <2>1, ProcOf DEF Finishes, Records, Signals, recorded
    <2> QED
      BY <1>2, <2>1, <2>2, <2>3
  <1> QED
    BY <1>3, <1>4, <1>5, <1>6, <1>7, StepKinds

\* In runs that nothing disturbed a monitor receives measures of its own run, and of
\* earlier ones whose masters heard of another run.
LEMMA RowsStep ==
    ASSUME ParamsOK, TypesOK, NodesOK, GenOK, MonOK, LeftOK, RowsOK, [Next]_vars
    PROVE  RowsOK'
  <1> USE DEF svars, platv, startv, endv, procv, monv, filev, histv
  <1>0. UNCHANGED <<plat, probExp, exp>> /\ idx \in Run /\ plat \in {"localhost", "aws"}
    BY Constant DEF TypesOK, ParamsOK
  <1> SUFFICES ASSUME clean' PROVE RowsOK'
    BY DEF RowsOK
  <1>1. clean
    BY <1>0, TroubleStays DEF clean
  <1>2. /\ (mon[idx] = "listening" => Proper(buffer, idx)) /\ Proper(stats[idx], idx)
        /\ (ctl = "values" => Proper(collected, idx)) /\ \A r \in Run : Proper(rows[r], r)
    BY <1>1 DEF RowsOK
  <1>5. CASE Start
    <2>1. /\ mon' = [mon EXCEPT ![idx'] = "new"] /\ ctl' # "values"
          /\ UNCHANGED <<stats, rows, stale>>
      BY <1>5 DEF Start
    <2>2. idx' \in Run /\ ((ctl = "start" /\ idx' = idx) \/ (ctl = "returned" /\ idx' = idx + 1))
      BY <1>5, StartStep
    <2>3. mon'[idx'] = "new" /\ stats'[idx'] = {}
      <3>1. idx' > idx \/ (idx' = idx /\ ctl = "start")
        BY <1>0, <2>2 DEF Run
      <3> QED
        BY <2>1, <2>2, <3>1 DEF MonOK, TypesOK
    <2> QED
      BY <1>2, <2>1, <2>3 DEF RowsOK, Proper
  <1>6. CASE WaitStart \/ WaitEnd \/ WaitTimeout \/ RunTimeout \/ Cleanup \/ WaitBinaries
    <2>1. UNCHANGED <<idx, mon, buffer, stats, rows, stale>> /\ ctl' # "values"
      BY <1>6 DEF WaitStart, WaitEnd, WaitTimeout, RunTimeout, Cleanup, WaitBinaries
    <2> QED
      BY <1>2, <2>1 DEF RowsOK, Proper
  <1>7. CASE Collect
    <2>1. UNCHANGED <<idx, mon, buffer, stats, rows, stale>> /\ collected' = stats[idx]
      BY <1>7 DEF Collect
    <2> QED
      BY <1>2, <2>1 DEF RowsOK, Proper
  <1>8. CASE WriteValues
    <2>1. /\ UNCHANGED <<idx, mon, buffer, stats, stale>> /\ ctl' # "values" /\ ctl = "values"
          /\ rows' = [rows EXCEPT ![idx] = collected]
      BY <1>8 DEF WriteValues
    <2>2. rows'[idx] = collected /\ \A r \in Run : r # idx => rows'[r] = rows[r]
      BY <1>0, <2>1 DEF TypesOK
    <2>3. \A r \in Run : Proper(rows'[r], r)
      BY <1>2, <2>1, <2>2
    <2> QED
      BY <1>2, <2>1, <2>3 DEF RowsOK, Proper
  <1>9. ASSUME NEW r \in Run, Listen(r) PROVE RowsOK'
    <2>1. /\ UNCHANGED <<idx, ctl, buffer, stats, collected, rows, stale>>
          /\ mon'[r] = "listening" => ~portTaken
          /\ \A q \in Run : q # r => mon'[q] = mon[q]
      BY <1>9 DEF Listen, TypesOK
    <2>2. mon'[idx] = "listening" => Proper(buffer, idx)
      <3>1. CASE r = idx
        BY <2>1, <3>1 DEF MonOK, Proper
      <3>2. CASE r # idx
        BY <1>0, <1>2, <2>1, <3>2
      <3> QED
        BY <3>1, <3>2
    <2> QED
      BY <1>2, <2>1, <2>2 DEF RowsOK, Proper
  <1>10. ASSUME NEW r \in Run, Stop(r) PROVE RowsOK'
    <2>1. /\ UNCHANGED <<idx, stats, collected, rows, stale>> /\ buffer' \subseteq buffer
          /\ mon'[r] # "listening" /\ (ctl' = "values" => ctl = "values")
          /\ \A q \in Run : q # r => mon'[q] = mon[q]
      BY <1>10 DEF Stop, stopped, TypesOK
    <2>2. mon'[idx] = "listening" => Proper(buffer', idx)
      BY <1>0, <1>2, <2>1 DEF Proper
    <2> QED
      BY <1>2, <2>1, <2>2 DEF RowsOK, Proper
  <1>11. ASSUME NEW r \in Run, handleConnection(r) PROVE RowsOK'
    <2>1. PICK m \in buffer : buffer' = buffer \ {m} /\ stats' = [stats EXCEPT ![r] = @ \cup {m}]
      BY <1>11 DEF handleConnection
    <2>2. mon[r] = "listening" /\ UNCHANGED <<idx, ctl, mon, collected, rows, stale>>
      BY <1>11 DEF handleConnection
    <2>3. stats'[idx] = stats[idx] \/ (r = idx /\ stats'[idx] = stats[idx] \cup {m})
      BY <1>0, <2>1 DEF TypesOK
    <2>4. Proper(stats'[idx], idx)
      BY <1>2, <2>1, <2>2, <2>3 DEF Proper
    <2> QED
      BY <1>2, <2>1, <2>2, <2>4 DEF RowsOK, Proper
  <1>12. CASE LeftoverRecords
    BY <1>0, <1>1, <1>12 DEF LeftoverRecords, GenOK, clean
  <1>13. ASSUME NEW id \in ID, handel(id) PROVE RowsOK'
    <2>1. /\ UNCHANGED <<idx, ctl, mon, stats, collected, rows>>
          /\ id \in active /\ proc[procOf(id)] \in running
          /\ Finishes(id) \/ Records(id) \/ Signals(id)
      BY <1>13, HandelStep
    <2>2. \A q \in Run : stale[q] \subseteq stale'[q]
      BY <1>0, <2>1 DEF Finishes, Records, Signals, TypesOK
    <2>3. ASSUME buffer' # buffer PROVE Proper({of[procOf(id)]}, idx)
      <3>1. node[id] = "enough"
        BY <2>1, <2>3 DEF Finishes, Records, Signals
      <3>2. procOf(id) \in Proc /\ id \in ids(procOf(id))
        BY <2>1, ProcOf DEF active, ids, ActiveOn, procOf
      <3>3. of[procOf(id)] \in Run /\ of[procOf(id)] <= idx
        BY <3>2 DEF GenOK, TypesOK
      <3>4. of[procOf(id)] < idx => stale[of[procOf(id)]] # {}
        BY <1>1, <2>1, <3>1, <3>2, <3>3 DEF LeftOK, recorded
      <3> QED
        BY <1>0, <3>3, <3>4 DEF Proper, Run
    <2>4. mon[idx] = "listening" => Proper(buffer', idx)
      <3>1. buffer' = buffer \/ buffer' = buffer \cup {of[procOf(id)]}
        BY <2>1 DEF Finishes, Records, Signals
      <3> QED
        BY <1>2, <2>3, <3>1 DEF Proper
    <2>5. /\ stats[idx] \subseteq Run /\ collected \subseteq Run /\ \A r \in Run : rows[r] \subseteq Run
          /\ buffer' \subseteq Run
      <3>1. procOf(id) \in Proc
        BY <2>1, ProcOf
      <3> QED
        BY <1>0, <2>1, <3>1 DEF TypesOK, Finishes, Records, Signals
    <2>6. \A r \in Run : Proper(rows[r], r)'
      BY <1>2, <2>1, <2>2, <2>5 DEF Proper
    <2>7. Proper(stats[idx], idx)' /\ (ctl = "values" => Proper(collected, idx)')
      BY <1>0, <1>2, <2>1, <2>2, <2>5 DEF Proper
    <2>8. mon[idx] = "listening" => Proper(buffer, idx)'
      BY <1>0, <2>1, <2>2, <2>4, <2>5 DEF Proper
    <2> QED
      BY <2>1, <2>6, <2>7, <2>8 DEF RowsOK
  <1>14. ASSUME NEW p \in Proc, process(p) PROVE RowsOK'
    <2>1. /\ UNCHANGED <<idx, mon, stats, buffer, collected, rows, stale>> /\ ctl' \in {ctl, "panic"}
      BY <1>14, ProcessStep DEF Alone
    <2> QED
      BY <1>2, <2>1 DEF RowsOK, Proper
  <1>15. CASE UNCHANGED vars
    BY <1>2, <1>15 DEF vars, RowsOK, Proper
  <1> QED
    BY <1>5, <1>6, <1>7, <1>8, <1>9, <1>10, <1>11, <1>12, <1>13, <1>14, <1>15
       DEF Next, platform, monitor

-----------------------------------------------------------------------------
\* The inductive invariant: processes are of the current run or of an earlier one
\* (GenOK), whose end was heard has recorded its measures or is of another run
\* (SentOK, EndOK), reports of processes and processes that ended agree (CountOK), a
\* monitor is stopped once (MonOK), earlier runs have nothing more to record (LeftOK),
\* and the measures under way are of runs they may be of (RowsOK).
THEOREM SimulationInvariant == Spec => []Inv
  <1>1. Inv /\ [Next]_vars => Inv'
    <2> SUFFICES ASSUME Inv, [Next]_vars PROVE Inv'
      OBVIOUS
    <2>1. ParamsOK'
      BY Constant DEF Inv, ParamsOK
    <2>2. TypesOK'
      BY NextTypes DEF Inv
    <2>3. NodesOK' /\ GenOK' /\ SentOK'
      BY NodesStep, GenStep, SentStep DEF Inv
    <2>4. EndOK' /\ CountOK'
      BY <2>2, EndStep, CountStep DEF Inv
    <2>5. CleanFinish'
      BY <2>2, <2>4, FinishStep DEF Inv
    <2>6. MonOK' /\ LeftOK' /\ RowsOK'
      BY MonStep, LeftStep, RowsStep DEF Inv
    <2> QED
      BY <2>1, <2>2, <2>3, <2>4, <2>5, <2>6 DEF Inv
  <1> QED
    BY <1>1, InitInv, PTL DEF Spec

\* No process leaves its run before the measures of enough nodes were sent (simul/node/
\* main.go:121-130), but for those whose end was heard from another run, on aws only.
THEOREM SimulationEndRecorded == Spec => []EndMeansRecorded
  <1>1. Inv => EndMeansRecorded
    <2> SUFFICES ASSUME Inv PROVE EndMeansRecorded
      OBVIOUS
    <2>1. plat = "localhost" => stale[idx] = {}
      BY DEF Inv, EndOK, TypesOK
    <2>2. ASSUME NEW p \in Proc, proc[p] = "ok", of[p] = idx
          PROVE  Cardinality(sent \cup stale[idx]) >= probExp
      <3> DEFINE R == sent \cup stale[idx]
      <3>1. ended \subseteq R /\ Cardinality(ended) >= probExp /\ probExp \in Nat
        BY <2>2 DEF Inv, EndOK, ParamsOK
      <3>2. R \in SUBSET active
        BY DEF Inv, TypesOK
      <3>3. ended \in SUBSET active
        BY <3>1, <3>2
      <3>4. IsFiniteSet(R) /\ Cardinality(R) \in Nat /\ Cardinality(ended) \in Nat
        BY <3>2, <3>3, ActiveFinite DEF Inv, ParamsOK
      <3>5. Cardinality(ended) <= Cardinality(R)
        BY <3>1, <3>4, FS_Subset
      <3> QED
        BY <3>1, <3>4, <3>5
    <2> QED
      BY <2>1, <2>2 DEF EndMeansRecorded
  <1> QED
    BY <1>1, SimulationInvariant, PTL

\* localhost finishes a run when all its processes have ended, or one failed
\* (simul/platform/localhost.go:193).
THEOREM SimulationCleanFinish == Spec => []CleanFinish
  BY SimulationInvariant, PTL DEF Inv

\* The row of a run that nothing disturbed holds measures of that run only, although
\* all runs share one port (simul/platform/localhost.go:201); on aws also of an earlier
\* run whose master heard of another run (simul/lib/sync.go:261-268).
THEOREM SimulationRows == Spec => []RowsAreOfTheirRun
  <1>1. Inv => RowsAreOfTheirRun
    BY DEF Inv, RowsOK, Proper, clean, RowsAreOfTheirRun
  <1> QED
    BY <1>1, SimulationInvariant, PTL

\* A monitor goes without its port only on localhost, and only while the monitor of
\* an earlier run is not yet stopped, or after one was stopped before it listened
\* (simul/platform/localhost.go:76, 201).
THEOREM SimulationPort == Spec => PortKeptByAnEarlierRun
  <1> DEFINE Kept == mon[idx] = "new" /\ mon'[idx] = "unbound"
                        => plat = "localhost" /\ \E q \in 0 .. idx - 1 : q \in stopping \/ mon[q] = "leaked"
  <1>1. Inv /\ [Next]_vars => [Kept]_vars
    <2> SUFFICES ASSUME Inv, Next, mon[idx] = "new", mon'[idx] = "unbound"
                 PROVE  plat = "localhost" /\ \E q \in 0 .. idx - 1 : q \in stopping \/ mon[q] = "leaked"
      OBVIOUS
    <2>0. idx \in Run /\ DOMAIN mon = Run
      BY DEF Inv, TypesOK
    <2>1. Listen(idx)
      <3>1. CASE Start
        <4>1. mon' = [mon EXCEPT ![idx'] = "new"]
          BY <3>1 DEF Start
        <4> QED
          BY <2>0, <4>1
      <3>2. ASSUME NEW r \in Run, Stop(r) PROVE FALSE
        BY <2>0, <3>2 DEF Stop, stopped
      <3>3. ASSUME NEW r \in Run, Listen(r), r # idx PROVE FALSE
        BY <2>0, <3>3 DEF Listen
      <3>4. CASE mon' = mon
        BY <3>4
      <3>5. ASSUME NEW p \in Proc, process(p) PROVE mon' = mon
        BY <3>5, ProcessStep DEF Alone, Inv
      <3>6. ASSUME NEW id \in ID, handel(id) PROVE mon' = mon
        BY <3>6, HandelStep DEF Inv
      <3>7. CASE platform /\ ~Start
        BY <3>4, <3>7 DEF platform, WaitStart, WaitEnd, WaitTimeout, WaitBinaries, Collect,
              WriteValues, RunTimeout, Cleanup, monv
      <3>8. ASSUME NEW r \in Run, handleConnection(r) PROVE mon' = mon
        BY <3>8 DEF handleConnection
      <3>9. CASE LeftoverRecords
        BY <3>4, <3>9 DEF LeftoverRecords
      <3> QED
        BY <3>1, <3>2, <3>3, <3>4, <3>5, <3>6, <3>7, <3>8, <3>9 DEF Next, monitor
    <2>2. PICK q \in Run : mon[q] \in {"listening", "leaked"}
      <3>1. portTaken
        BY <2>0, <2>1 DEF Listen
      <3> QED
        BY <2>0, <3>1 DEF portTaken
    <2>3. q < idx
      <3>1. q # idx
        BY <2>2
      <3>2. ~(q > idx)
        BY <2>2 DEF Inv, MonOK
      <3> QED
        BY <2>0, <3>1, <3>2 DEF Run
    <2>4. q \in 0 .. idx - 1
      BY <2>0, <2>3 DEF Run
    <2>5. q \in stopping \/ mon[q] = "leaked"
      BY <2>2, <2>3 DEF Inv, MonOK
    <2>6. plat # "aws"
      <3>1. plat = "aws" => stopping \subseteq {idx} /\ mon[q] # "leaked"
        BY DEF Inv, MonOK
      <3>2. q # idx
        BY <2>2
      <3> QED
        BY <2>5, <3>1, <3>2
    <2>7. plat = "localhost"
      BY <2>6 DEF Inv, ParamsOK
    <2> QED
      BY <2>4, <2>5, <2>7
  <1> QED
    BY <1>1, SimulationInvariant, PTL DEF Spec, PortKeptByAnEarlierRun
=============================================================================

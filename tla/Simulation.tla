----------------------------- MODULE Simulation -----------------------------
(***************************************************************************)
(* The runs of a simulation (simul/main.go): the platform that starts the  *)
(* processes (simul/platform/localhost.go; aws.go with simul/master), the  *)
(* processes with their nodes (simul/node/main.go), the synchronisation    *)
(* between them, here two barriers, which module Sync implements, and the  *)
(* monitor that gathers their measures (simul/monitor).  The Handel of a   *)
(* node is modelled elsewhere; here it gives its final signature at some   *)
(* time, or runs into its timeout.                                         *)
(*                                                                         *)
(* localhost gives every run a sync master of its own; aws does not wait   *)
(* for the processes of a run, and its masters all have one address, so    *)
(* that a process of an earlier run is heard by the master of a later one. *)
(* A signal is an action when it is heard; signals and answers that are    *)
(* lost are sent again.                                                    *)
(*                                                                         *)
(* A measure is the run it comes from.  All monitors want the same port;   *)
(* the socket that has it buffers what arrives, and UDP may lose it.       *)
(***************************************************************************)
EXTENDS Allocator

CONSTANTS
    Proc, ID,           \* the processes, and the ids of the nodes
    Master,             \* the platform, as it waits at a barrier
    Permille,           \* the shares of the nodes that suffice at a barrier
    Nodes,              \* the numbers of nodes and of failing ones considered
    Allocators,         \* "round", "random"
    Platforms,          \* "localhost", "aws"
    Runs                \* bound on the runs

procs == Cardinality(Proc)
Run == 0 .. Runs - 1

ASSUME SimulationAssumption ==
    /\ IsFiniteSet(Proc) /\ Proc # {} /\ Proc = 0 .. procs - 1 /\ Runs \in Nat \ {0}
    /\ Nodes \subseteq Nat \X Nat /\ Permille \subseteq Nat /\ Platforms \subseteq {"localhost", "aws"}
    /\ \A c \in Nodes : c[2] < c[1] /\ 0 .. c[1] - 1 \subseteq ID

VARIABLES
    exp, probExp,       \* the nodes expected, and those that suffice
    started, mayStart,  \* the barrier START: who signalled, who was let through
    ended, mayEnd,      \* the barrier END
    plat, idx,          \* the platform, and the run it is in
    total, off,         \* the nodes of a run, and those that are offline
    ctl,                \* where Start of the platform, or the master's main, is
    launch,             \* the processes still to be started, each with its run
    proc, of, node,     \* the processes, their runs and, in them, the nodes
    reports, counted,   \* what doneCh and errCh hold; nOk + nErr
    leftover,           \* localhost: the runs whose processes may still send measures
    mon, stopping,      \* the monitors, and the calls of Stop under way
    buffer,             \* the buffer of the socket that has the port
    stats, collected,   \* the measures of each run's Stats; at Collect
    rows,               \* what the result file holds
    sent,               \* history: the nodes of this run whose measures were recorded
    stale,              \* history: the nodes whose end the master of a run heard from
                        \* a process of another run
    trouble             \* history: a process failed, or a timeout let a run go on

START == INSTANCE Barrier WITH Node <- ID, Member <- (Run \X Proc) \cup {Master}, need <- probExp,
                               signalled <- started, released <- mayStart
END == INSTANCE Barrier WITH Node <- ID, Member <- (Run \X Proc) \cup {Master}, need <- probExp,
                             signalled <- ended, released <- mayEnd

startv == <<started, mayStart>>
endv == <<ended, mayEnd>>
svars == <<exp, probExp, startv, endv>>
platv == <<plat, total, off>>
procv == <<launch, proc, of, node, reports>>
histv == <<sent, stale>>
monv == <<mon, stopping, buffer, stats>>
filev == <<collected, rows>>
vars == <<svars, platv, idx, ctl, procv, counted, leftover, monv, filev, histv, trouble>>

ids(p) == ActiveOn(p, total, procs, off)
active == (0 .. total - 1) \ off
procOf(id) == platformOf(id, procs)
running == {"waitStart", "running", "waitEnd"}
recorded(id) == node[id] \in {"recorded", "signalled"}

Init == /\ plat \in Platforms /\ idx = 0 /\ ctl = "start"
        /\ \E c \in Nodes : /\ total = c[1]
                            /\ \E a \in Allocators : off \in Allocations(a, c[1], procs, c[2])
                            /\ exp = c[1] - c[2]
                            /\ \E s \in Permille : probExp = (exp * s + 999) \div 1000
        /\ started = {} /\ mayStart = {} /\ ended = {} /\ mayEnd = {}
        /\ launch = {} /\ proc = [p \in Proc |-> "none"] /\ of = [p \in Proc |-> 0]
        /\ node = [id \in ID |-> "none"] /\ reports = 0 /\ counted = 0 /\ leftover = {}
        /\ mon = [r \in Run |-> "none"] /\ stopping = {} /\ buffer = {}
        /\ stats = [r \in Run |-> {}] /\ collected = {} /\ rows = [r \in Run |-> {}]
        /\ sent = {} /\ stale = [r \in Run |-> {}] /\ trouble = FALSE

-----------------------------------------------------------------------------
(* The monitor *)

portTaken == \E r \in DOMAIN mon : mon[r] \in {"listening", "leaked"}

\* Without the port Listen returns an error nobody reads. A monitor that was
\* stopped before it listened takes the port, and never gives it back.
Listen(r) ==
    /\ mon[r] \in {"new", "stoppedFirst"}
    /\ mon' = [mon EXCEPT ![r] = IF portTaken THEN "unbound"
                                 ELSE IF @ = "new" THEN "listening" ELSE "leaked"]
    /\ UNCHANGED <<svars, platv, idx, ctl, procv, counted, leftover, stopping, buffer, stats,
                   filev, histv, trouble>>

\* Mutant: the socket is not closed.
stoppedOpen(m) == IF m = "listening" THEN m
                  ELSE IF m = "new" /\ plat = "localhost" THEN "stoppedFirst" ELSE "stopped"

\* The master of aws ends with Stop, and its socket with it.
stopped(m) == IF m = "new" /\ plat = "localhost" THEN "stoppedFirst" ELSE "stopped"

Stop(r) ==
    /\ r \in stopping /\ stopping' = stopping \ {r}
    /\ mon' = [mon EXCEPT ![r] = stopped(@)]
    /\ buffer' = IF mon[r] = "listening" THEN {} ELSE buffer
    /\ ctl' = IF plat = "aws" THEN "returned" ELSE ctl
    /\ UNCHANGED <<svars, platv, idx, procv, counted, leftover, stats, filev, histv, trouble>>

handleConnection(r) ==
    /\ mon[r] = "listening"
    /\ \E m \in buffer : buffer' = buffer \ {m} /\ stats' = [stats EXCEPT ![r] = @ \cup {m}]
    /\ UNCHANGED <<svars, platv, idx, ctl, procv, counted, leftover, mon, stopping, filev, histv,
                   trouble>>

\* A measure on its way to the monitor: it arrives, or it is lost.
send(m) == buffer' \in {buffer, IF portTaken THEN buffer \cup {m} ELSE buffer}

-----------------------------------------------------------------------------
(* The processes of the nodes *)

\* The goroutine that waits for a process of localhost tells errCh and then doneCh.
reported(how) == IF plat = "aws" THEN 0 ELSE IF how = "ok" THEN 1 ELSE 2

\* With a process its nodes are gone.
without(p) == [id \in ID |-> IF id \in ids(p) THEN "none" ELSE node[id]]

exit(p, how) == /\ proc' = [proc EXCEPT ![p] = how] /\ node' = without(p)
                /\ reports' = reports + reported(how)
                /\ trouble' = (trouble \/ (plat = "localhost" /\ how = "err"))

\* The master of aws is a process that lives as long as its run.
masterUp == plat = "localhost" \/ ctl \notin {"start", "returned"}

\* A process that outlived its run.
foreign(p) == of[p] # idx

\* SignalAll is the first thing a process does that others notice. aws has killed
\* the process it found on the machine, of whatever run.
StartCommand(r, p) ==
    /\ <<r, p>> \in launch /\ launch' = launch \ {<<r, p>>}
    /\ proc' = [proc EXCEPT ![p] = "waitStart"] /\ of' = [of EXCEPT ![p] = r]
    /\ node' = without(p)
    /\ IF masterUp THEN START!Signal(ids(p)) ELSE UNCHANGED <<probExp, startv>>
    /\ UNCHANGED <<exp, endv, platv, idx, ctl, reports, counted, leftover, monv, filev, histv, trouble>>

\* localhost reports it once; aws panics, or goes on without the process and leaves
\* the one it found alone.
StartCommandFails(r, p) ==
    /\ <<r, p>> \in launch /\ launch' = launch \ {<<r, p>>}
    /\ IF plat = "localhost"
       THEN /\ proc' = [proc EXCEPT ![p] = "err"] /\ of' = [of EXCEPT ![p] = r]
            /\ reports' = reports + 1 /\ trouble' = TRUE /\ UNCHANGED ctl
       ELSE ctl' \in {ctl, "panic"} /\ UNCHANGED <<proc, of, reports, trouble>>
    /\ UNCHANGED <<svars, platv, idx, node, counted, leftover, monv, filev, histv>>

\* An answer that did not come: the process of aws signals again.
RepeatStart(p) ==
    /\ plat = "aws" /\ masterUp /\ proc[p] = "waitStart" /\ START!Signal(ids(p))
    /\ UNCHANGED <<exp, endv, platv, idx, ctl, procv, counted, leftover, monv, filev, histv, trouble>>

\* The master answers those it heard from.
PassStart(p) ==
    /\ proc[p] = "waitStart" /\ masterUp /\ ids(p) \subseteq started /\ START!Release(<<of[p], p>>)
    /\ proc' = [proc EXCEPT ![p] = "running"]
    /\ node' = [id \in ID |-> IF id \in ids(p) THEN "run" ELSE node[id]]
    /\ UNCHANGED <<exp, endv, platv, idx, ctl, launch, of, reports, counted, leftover, monv, filev,
                   histv, trouble>>

\* BeaconTimeout while waiting, MaxTimeout of a node that has no final signature.
ProcTimeout(p) ==
    /\ proc[p] \in {"waitStart", "waitEnd"} \/ (proc[p] = "running" /\ \E id \in ids(p) : node[id] = "run")
    /\ exit(p, "err")
    /\ UNCHANGED <<svars, platv, idx, ctl, launch, of, counted, leftover, monv, filev, histv>>

alive(id) == proc[procOf(id)] \in running

\* A signature above the threshold; wg.Done at once.
FinalSignature(id) ==
    /\ alive(id) /\ node[id] = "run"
    /\ node' = [node EXCEPT ![id] = "enough"]
    /\ UNCHANGED <<svars, platv, idx, ctl, launch, proc, of, reports, counted, leftover, monv, filev,
                   histv, trouble>>

\* The measures are recorded before the end is signalled.
Record(id) ==
    /\ alive(id) /\ node[id] = "enough"
    /\ node' = [node EXCEPT ![id] = "recorded"] /\ send(of[procOf(id)])
    /\ sent' = IF foreign(procOf(id)) THEN sent ELSE sent \cup {id}
    /\ UNCHANGED <<svars, platv, idx, ctl, launch, proc, of, reports, counted, leftover, mon, stopping,
                   stats, filev, stale, trouble>>

\* The master of the current run counts an id, whichever run it comes from.
hear(id) == /\ END!Signal({id})
            /\ stale' = IF foreign(procOf(id)) THEN [stale EXCEPT ![idx] = @ \cup {id}] ELSE stale

\* Mutant: the end is signalled before the measures are recorded.
SignalEndEarly(id) ==
    /\ alive(id) /\ node[id] \in {"enough", "recorded"}
    /\ node' = [node EXCEPT ![id] = IF @ = "recorded" THEN "signalled" ELSE @]
    /\ IF masterUp THEN hear(id) ELSE UNCHANGED <<probExp, endv, stale>>
    /\ UNCHANGED <<exp, startv, platv, idx, ctl, launch, proc, of, reports, counted, leftover, monv,
                   filev, sent, trouble>>

SignalEnd(id) ==
    /\ alive(id) /\ node[id] = "recorded"
    /\ node' = [node EXCEPT ![id] = "signalled"]
    /\ IF masterUp THEN hear(id) ELSE UNCHANGED <<probExp, endv, stale>>
    /\ UNCHANGED <<exp, startv, platv, idx, ctl, launch, proc, of, reports, counted, leftover, monv,
                   filev, sent, trouble>>

\* An answer that did not come: the process of aws signals again.
RepeatEnd(id) ==
    /\ plat = "aws" /\ masterUp /\ alive(id) /\ node[id] = "signalled" /\ hear(id)
    /\ UNCHANGED <<exp, startv, platv, idx, ctl, procv, counted, leftover, monv, filev, sent, trouble>>

\* wg.Wait: its nodes have their signature.
NodesDone(p) ==
    /\ proc[p] = "running" /\ \A id \in ids(p) : node[id] # "run"
    /\ proc' = [proc EXCEPT ![p] = "waitEnd"]
    /\ UNCHANGED <<svars, platv, idx, ctl, launch, of, node, reports, counted, leftover, monv, filev,
                   histv, trouble>>

\* The end of main, with EndAndCleanup: goroutines still running are gone. The
\* master answers those it heard from, never a process without a node.
PassEnd(p) ==
    /\ proc[p] = "waitEnd" /\ masterUp /\ ids(p) \cap ended # {} /\ END!Release(<<of[p], p>>)
    /\ exit(p, "ok")
    /\ UNCHANGED <<exp, startv, platv, idx, ctl, launch, of, counted, leftover, monv, filev, histv>>

\* A process of localhost that outlived its run.
LeftoverRecords == /\ \E r \in leftover : send(r)
                   /\ UNCHANGED <<svars, platv, idx, ctl, procv, counted, leftover, mon, stopping,
                                  stats, filev, histv, trouble>>

-----------------------------------------------------------------------------
(* The platform *)

\* The runs follow one another, each when Start of the last one has returned.
nextRun == \/ ctl = "start" /\ idx' = idx
           \/ ctl = "returned" /\ idx + 1 < Runs /\ idx' = idx + 1

\* A process that runs, or is still to be started, with measures to send.
unfinished(p) == /\ proc[p] \in running \/ <<idx, p>> \in launch
                 /\ \E id \in ids(p) : <<idx, p>> \in launch \/ ~recorded(id)

\* The monitor, the allocation, the sync master, the binaries. aws leaves the
\* processes of earlier runs, and the goroutines that start them, where they are.
Start ==
    /\ nextRun /\ ctl' = "waitStart"
    /\ started' = {} /\ mayStart' = {} /\ ended' = {} /\ mayEnd' = {}
    /\ mon' = [mon EXCEPT ![idx'] = "new"]
    /\ IF plat = "localhost"
       THEN /\ launch' = {idx'} \X Proc
            /\ proc' = [p \in Proc |-> "none"] /\ node' = [id \in ID |-> "none"]
            /\ leftover' = IF \E p \in Proc : unfinished(p) THEN leftover \cup {idx} ELSE leftover
       ELSE launch' = launch \cup ({idx'} \X Proc) /\ UNCHANGED <<proc, node, leftover>>
    /\ reports' = 0 /\ counted' = 0 /\ sent' = {}
    /\ UNCHANGED <<exp, probExp, platv, of, stopping, buffer, stats, filev, stale, trouble>>

WaitStart == /\ ctl = "waitStart" /\ START!Release(Master) /\ ctl' = "waitEnd"
             /\ UNCHANGED <<exp, endv, platv, idx, procv, counted, leftover, monv, filev, histv, trouble>>

WaitEnd == /\ ctl = "waitEnd" /\ END!Release(Master)
           /\ ctl' = IF plat = "aws" THEN "header" ELSE "waitAll"
           /\ UNCHANGED <<exp, startv, platv, idx, procv, counted, leftover, monv, filev, histv, trouble>>

\* The program of localhost panics; the master of aws goes on.
WaitTimeout ==
    /\ ctl \in {"waitStart", "waitEnd", "waitAll"}
    /\ ctl' = IF plat = "localhost" THEN "panic" ELSE IF ctl = "waitStart" THEN "waitEnd" ELSE "header"
    /\ trouble' = TRUE
    /\ UNCHANGED <<svars, platv, idx, procv, counted, leftover, monv, filev, histv>>

\* Mutant: one process too few is waited for.
allCountedBut1(n) == n + 1 >= procs

allCounted(n) == n >= procs

\* localhost waits for its binaries; then go mon.Stop().
WaitBinaries ==
    /\ ctl = "waitAll" /\ reports > 0
    /\ reports' = reports - 1 /\ counted' = counted + 1
    /\ IF allCounted(counted') THEN ctl' = "header" /\ stopping' = stopping \cup {idx}
       ELSE UNCHANGED <<ctl, stopping>>
    /\ UNCHANGED <<svars, platv, idx, launch, proc, of, node, leftover, mon, buffer, stats, filev,
                   histv, trouble>>

\* WriteHeader, in the first run, and Collect; each takes the lock of the stats.
Collect ==
    /\ ctl = "header" /\ ctl' = "values"
    /\ collected' = stats[idx]
    /\ UNCHANGED <<svars, platv, idx, procv, counted, leftover, monv, rows, histv, trouble>>

WriteValues ==
    /\ ctl = "values"
    /\ rows' = [rows EXCEPT ![idx] = collected] /\ collected' = {}
    /\ IF plat = "aws" THEN ctl' = "stop" /\ stopping' = stopping \cup {idx}
       ELSE ctl' = "returned" /\ UNCHANGED stopping
    /\ UNCHANGED <<svars, platv, idx, procv, counted, leftover, mon, buffer, stats, histv, trouble>>

\* startRun gives up; what the next run then meets is beyond this module.
RunTimeout ==
    /\ ctl \in {"waitStart", "waitEnd", "waitAll"} /\ ctl' = "timedOut" /\ trouble' = TRUE
    /\ UNCHANGED <<svars, platv, idx, procv, counted, leftover, monv, filev, histv>>

\* Cleanup of localhost kills the commands of the last run.
Cleanup ==
    /\ ctl = "returned" /\ idx + 1 = Runs /\ ctl' = "finished"
    /\ proc' = [p \in Proc |-> IF plat = "localhost" /\ proc[p] \in running THEN "killed" ELSE proc[p]]
    /\ UNCHANGED <<svars, platv, idx, launch, of, node, reports, counted, leftover, monv, filev, histv,
                   trouble>>

-----------------------------------------------------------------------------
process(p) == \/ \E r \in Run : StartCommand(r, p) \/ StartCommandFails(r, p)
              \/ RepeatStart(p) \/ PassStart(p) \/ ProcTimeout(p) \/ NodesDone(p) \/ PassEnd(p)
handel(id) == FinalSignature(id) \/ Record(id) \/ SignalEnd(id) \/ RepeatEnd(id)
platform == \/ Start \/ WaitStart \/ WaitEnd \/ WaitTimeout \/ WaitBinaries
            \/ Collect \/ WriteValues \/ RunTimeout \/ Cleanup
monitor == \E r \in Run : Listen(r) \/ Stop(r) \/ handleConnection(r)
live == ctl \notin {"panic", "timedOut", "finished"}

Next == /\ live
        /\ \/ platform \/ monitor \/ LeftoverRecords
           \/ \E p \in Proc : process(p)
           \/ \E id \in ID : handel(id)

Spec == Init /\ [][Next]_vars

-----------------------------------------------------------------------------
(* Properties *)

\* No process leaves its run before the measures of enough nodes, all of them when
\* all are expected, have been sent: a node signals its end after it recorded
\* (node/main.go:121-130), and the barrier does the rest. On aws the ends that
\* processes of an earlier run still signal (sync.go:261-268) count as well.
EndMeansRecorded ==
    /\ \A p \in Proc : proc[p] = "ok" /\ of[p] = idx => Cardinality(sent \cup stale[idx]) >= probExp
    /\ plat = "localhost" => stale[idx] = {}

\* localhost finishes a run when all its processes have ended, unless one of them
\* failed: a failure is counted twice, by errCh and doneCh (localhost.go:143-145,
\* 193), and then stands for a process that still runs.
CleanFinish ==
    plat = "localhost" /\ ctl \in {"header", "values", "returned"}
        => (\A p \in Proc : proc[p] = "ok") \/ \E p \in Proc : proc[p] = "err"

\* The row of a run holds measures of that run only, as long as no process failed
\* and no timeout let the run go on: although all runs use one port, the monitor of
\* the last one is stopped concurrently (localhost.go:201), and aws does not wait
\* for its processes. The one exception is a run of aws whose master was told of
\* ends by processes of a run before it: its nodes may record after it is over.
RowsAreOfTheirRun ==
    ~trouble /\ (plat = "localhost" \/ probExp = exp)
        => \A r \in Run : \A m \in rows[r] : m = r \/ (m < r /\ stale[m] # {})

\* The monitor of a run goes without its port, and the row of the run without its
\* measures, only when localhost has not yet stopped the monitor of an earlier run
\* or stopped one before it listened: go mon.Stop() (localhost.go:201) races with
\* go mon.Listen() of its own run and of the next (localhost.go:76).
PortKeptByAnEarlierRun ==
    [][mon[idx] = "new" /\ mon'[idx] = "unbound"
          => plat = "localhost" /\ \E q \in 0 .. idx - 1 : q \in stopping \/ mon[q] = "leaked"]_vars
=============================================================================

----------------------------- MODULE Allocator -----------------------------
(***************************************************************************)
(* How the nodes of a simulation are spread over its platforms, and which  *)
(* of them stay offline (simul/lib/allocator.go).  Nodes and platforms are *)
(* numbered from 0; an allocation is the set of its offline nodes.         *)
(***************************************************************************)
EXTENDS Naturals, FiniteSets, SequencesExt

\* The slots of platform k: the remainder goes to the first platforms.
slots(k, total, n) == total \div n + (IF k < total % n THEN 1 ELSE 0)

\* One node in one platform at a time: the platforms with more slots come first,
\* and so each round but the last finds a free slot in all of them.
platformOf(id, n) == id % n

\* One node id of RoundRobin.Allocate, which spreads the offline nodes evenly.
place(total, bucket, acc, id) ==
    IF acc.panic \/ id # acc.nextOffline \/ acc.offline = 0 THEN acc
    ELSE LET next == acc.nextOffline + bucket
             left == acc.offline - 1
         IN  [off |-> acc.off \cup {id}, nextOffline |-> next, offline |-> left,
              panic |-> left > 0 /\ (next <= id \/ next >= total)]

\* RoundRobin.Allocate gives one allocation, or panics.
RoundRobin(total, n, offline) ==
    LET bucket == IF offline = 0 THEN total ELSE total \div offline
        start == [off |-> {}, nextOffline |-> 0, offline |-> offline, panic |-> FALSE]
        step(acc, id) == place(total, bucket, acc, id)
    IN  FoldLeft(step, start, [i \in 1 .. total |-> i - 1])

\* RoundRandomOffline.Allocate takes one random active node of each platform in
\* turn: platform k is asked that many times.
asked(k, n, offline) == offline \div n + (IF k < offline % n THEN 1 ELSE 0)

\* The sets of offline nodes it may end with; none, when it asks a platform that
\* has no active node left and searches for ever.
RoundRandomOffline(total, n, offline) ==
    {off \in SUBSET (0 .. total - 1) :
        \A k \in 0 .. n - 1 : Cardinality({id \in off : platformOf(id, n) = k}) = asked(k, n, offline)}

\* What verifyAllocation panics without.
verifyAllocation(off, total, offline) == /\ off \subseteq 0 .. total - 1
                                         /\ Cardinality(off) = offline

\* The two allocators: every allocation that Allocate may return.
Allocations(name, total, n, offline) ==
    {off \in IF name = "random" THEN RoundRandomOffline(total, n, offline)
             ELSE LET r == RoundRobin(total, n, offline)
                  IN  IF r.panic \/ r.offline > 0 THEN {} ELSE {r.off}
        : verifyAllocation(off, total, offline)}

\* The ids with which a platform is started.
ActiveOn(k, total, n, off) == {id \in (0 .. total - 1) \ off : platformOf(id, n) = k}
=============================================================================

----------------------------- MODULE Processing -----------------------------
(***************************************************************************)
(* evaluatorProcessing of one node (processing.go) with the goroutines     *)
(* around it: the callers of Add, the processing loop, which picks a       *)
(* signature, verifies it and publishes it on a bounded channel, and       *)
(* rangeOnVerified, which takes signatures off the channel and stores      *)
(* them.  Storing takes neither the queue's lock nor Handel's, so that the *)
(* store changes between two evaluations of one pass over the queue, while *)
(* a signature is being verified, and while others wait in the channel.    *)
(***************************************************************************)
EXTENDS SigProcessing, Partitioner

CONSTANTS
    Id, N,              \* the node and the size of its registry
    MaxAdds,            \* bound on the number of calls of Add
    OutCap              \* capacity of the channel (1000 in the code)

ASSUME ProcessingAssumption ==
    /\ N \in Nat \ {0} /\ Id \in 0 .. N - 1
    /\ MaxAdds \in Nat /\ OutCap \in Nat \ {0}

Part == Interface(NewBinPartitioner(Id, N))

OwnSig == [ origin |-> Id, level |-> 0, isInd |-> TRUE, mappedIndex |-> 0,
            ms |-> MS(1, {0}, SignatureOf(Id)) ]

\* The signatures parseSignatures makes of packets of a level, over any of its
\* bits; `once` is FALSE for one that does not verify.  A multi-signature may
\* come from any node, so its origin is left at the lowest of its level.
SigOver(l, bits, once) ==
    MS(Part.size[l], bits, [who |-> {Part.base[l] + i : i \in bits}, once |-> once])

Multis(l) ==
    {[ origin |-> Part.base[l], level |-> l, isInd |-> FALSE, mappedIndex |-> 0,
       ms |-> SigOver(l, bits, once) ] :
          bits \in (SUBSET (0 .. Part.size[l] - 1)) \ {{}}, once \in BOOLEAN}

Individuals(l) ==
    {[ origin |-> Part.base[l] + i, level |-> l, isInd |-> TRUE, mappedIndex |-> i,
       ms |-> SigOver(l, {i}, once) ] :
          i \in 0 .. Part.size[l] - 1, once \in BOOLEAN}

Incoming == UNION {Multis(l) \cup Individuals(l) : l \in Part.levels \ {0}}

VARIABLES
    st,                 \* the store
    seen, todos,        \* the filter and the queue
    pass,               \* the pass of readTodos over the queue
    picked,             \* the signature being verified, <<>> or <<sp>>
    out, closed,        \* the channel of verified signatures
    stopped,            \* Stop has been called
    consumerDone,       \* rangeOnVerified has returned
    sigCheckedCt, sigSuppressed,    \* the statistics
    adds, accepted      \* history: the calls of Add, what the filter accepted

vars == <<st, seen, todos, pass, picked, out, closed, stopped, consumerDone,
          sigCheckedCt, sigSuppressed, adds, accepted>>

Init == /\ st = Store(NewStore(Part), OwnSig)
        /\ seen = {} /\ todos = <<>> /\ pass = NewPass /\ picked = <<>>
        /\ out = <<>> /\ closed = FALSE
        /\ stopped = FALSE /\ consumerDone = FALSE
        /\ sigCheckedCt = 0 /\ sigSuppressed = 0
        /\ adds = 0 /\ accepted = <<>>

\* readTodos holds the queue's lock from its first evaluation to its end.
Unlocked == pass = NewPass

\* Handel calls Add under its lock, and no more after Stop.
Add(sp) ==
    /\ Unlocked /\ ~stopped /\ adds < MaxAdds
    /\ adds' = adds + 1
    /\ seen' = seenAfter(seen, sp)
    /\ todos' = enqueue(seen, todos, sp)
    /\ accepted' = IF Accept(seen, sp) THEN Append(accepted, sp) ELSE accepted
    /\ UNCHANGED <<st, pass, picked, out, closed, stopped, consumerDone, sigCheckedCt,
                   sigSuppressed>>

\* Mutant: the loop is not sent its death pill.
StopSilently ==
    /\ Unlocked /\ ~stopped
    /\ stopped' = TRUE
    /\ UNCHANGED <<st, seen, todos, pass, picked, out, closed, consumerDone, sigCheckedCt,
                   sigSuppressed, adds, accepted>>

Stop ==
    /\ Unlocked /\ ~stopped
    /\ stopped' = TRUE
    /\ todos' = enqueue(seen, todos, deathPillPair)
    /\ UNCHANGED <<st, seen, pass, picked, out, closed, consumerDone, sigCheckedCt,
                   sigSuppressed, adds, accepted>>

\* One turn of the loop of readTodos, which waits for a non-empty queue.  At
\* the death pill processStep closes the channel, and the loop returns.
Evaluate ==
    /\ ~closed /\ picked = <<>> /\ pass.i < Len(todos)
    /\ LET sp == todos[pass.i + 1]
       IN  IF sp = deathPillPair
           THEN closed' = TRUE /\ pass' = NewPass
           ELSE pass' = consider(Part, st, pass, sp) /\ UNCHANGED closed
    /\ UNCHANGED <<st, seen, todos, picked, out, stopped, consumerDone, sigCheckedCt,
                   sigSuppressed, adds, accepted>>

EndOfPass ==
    /\ ~closed /\ todos # <<>> /\ pass.i = Len(todos)
    /\ pass' = NewPass
    /\ todos' = pass.newTodos
    /\ picked' = pass.best
    /\ sigCheckedCt' = sigCheckedCt + Len(pass.best)
    /\ sigSuppressed' = sigSuppressed + Len(todos) - Len(pass.newTodos) - Len(pass.best)
    /\ UNCHANGED <<st, seen, out, closed, stopped, consumerDone, adds, accepted>>

\* Sending on a full channel blocks.
verifyAndPublish ==
    /\ picked # <<>>
    /\ IF verifySignature(Part, picked[1])
       THEN Len(out) < OutCap /\ out' = out \o picked
       ELSE UNCHANGED out
    /\ picked' = <<>>
    /\ UNCHANGED <<st, seen, todos, pass, closed, stopped, consumerDone, sigCheckedCt,
                   sigSuppressed, adds, accepted>>

\* rangeOnVerified, of which only the store matters here.
StoreVerified ==
    /\ ~consumerDone /\ out # <<>>
    /\ st' = Store(st, Head(out))
    /\ out' = Tail(out)
    /\ UNCHANGED <<seen, todos, pass, picked, closed, stopped, consumerDone, sigCheckedCt,
                   sigSuppressed, adds, accepted>>

\* Mutant: an empty channel is taken for a closed one.
EndOfVerifiedEarly ==
    /\ ~consumerDone /\ out = <<>>
    /\ consumerDone' = TRUE
    /\ UNCHANGED <<st, seen, todos, pass, picked, out, closed, stopped, sigCheckedCt,
                   sigSuppressed, adds, accepted>>

EndOfVerified ==
    /\ ~consumerDone /\ out = <<>> /\ closed
    /\ consumerDone' = TRUE
    /\ UNCHANGED <<st, seen, todos, pass, picked, out, closed, stopped, sigCheckedCt,
                   sigSuppressed, adds, accepted>>

Next == \/ \E sp \in Incoming : Add(sp)
        \/ Stop
        \/ Evaluate
        \/ EndOfPass
        \/ verifyAndPublish
        \/ StoreVerified
        \/ EndOfVerified

Spec == Init /\ [][Next]_vars

\* The two loops are goroutines that are always scheduled again; nothing says
\* that a signature comes in or that Stop is called.
FairSpec == Spec /\ WF_vars(Evaluate) /\ WF_vars(EndOfPass) /\ WF_vars(verifyAndPublish)
                 /\ WF_vars(StoreVerified) /\ WF_vars(EndOfVerified)

-----------------------------------------------------------------------------
(* Properties *)

InPipeline(sp) == sp \in ToSet(todos) \cup ToSet(picked) \cup ToSet(out)

\* The bits of a level's best signature.
BestBits(l) == IF HasBest(st, l) THEN st.m[l].bits ELSE {}

\* Until Stop, a valid signature that the filter accepted is still waiting, or
\* has lost nothing to the evaluation, even though its score (processing.go:194)
\* was computed on a store that other signatures have changed since: an
\* individual contribution is in its level's best signature, and no
\* multi-signature is larger than the best of its level.
NothingBetterDiscarded ==
    ~closed =>
        \A sp \in ToSet(accepted) :
            verifySignature(Part, sp) /\ ~InPipeline(sp) =>
                IF sp.isInd THEN sp.mappedIndex \in BestBits(sp.level)
                ELSE Cardinality(BestBits(sp.level)) >= card(sp.ms)

\* Everything accepted is dealt with unless Stop intervenes: the loop neither
\* stalls on a full channel nor leaves signatures in the queue.
EventuallyDrained == <>[](stopped \/ (todos = <<>> /\ picked = <<>> /\ out = <<>>))

\* Stop ends both loops, whatever is queued, being verified or in the channel.
StopEndsLoops == stopped ~> (closed /\ consumerDone)
=============================================================================

--------------------------- MODULE SigProcessing ---------------------------
(***************************************************************************)
(* The processing of incoming signatures (processing.go) as operators on   *)
(* its queue `todos` and on the set `seen` of its individualSigFilter.     *)
(* Add and readTodos hold the lock of the condition variable throughout.   *)
(***************************************************************************)
EXTENDS SigStore, SequencesExt

NoSig == MS(0, {}, SignatureOf(-1))

\* The sentinel Stop puts in the queue: no node has origin -1.
deathPillPair == [origin |-> -1, level |-> 0, ms |-> NoSig, isInd |-> FALSE, mappedIndex |-> 0]

\* individualSigFilter: one individual signature per origin.
Accept(seen, sp) == ~sp.isInd \/ sp.origin \notin seen

seenAfter(seen, sp) == IF sp.isInd THEN seen \cup {sp.origin} ELSE seen

\* The queue after Add.
enqueue(seen, todos, sp) == IF Accept(seen, sp) THEN Append(todos, sp) ELSE todos

-----------------------------------------------------------------------------
(* readTodos: a pass over the queue that picks the signature to verify. *)

\* The pass after it has looked at i signatures: `best` is the first one with
\* the highest mark so far (an empty sequence for nil), `newTodos` the others
\* with a mark above 0, in the order in which the pass gave them up.
NewPass == [i |-> 0, newTodos |-> <<>>, best |-> <<>>, bestMark |-> 0]

\* Mutants: the best so far is lost when a better one comes; signatures that
\* are of no more use stay in the queue.
considerLosing(part, st, pass, sp) ==
    LET mark == unsafeEvaluate(part, st, sp)
        next == [pass EXCEPT !.i = @ + 1]
    IN  IF mark = 0 THEN next
        ELSE IF mark <= pass.bestMark THEN [next EXCEPT !.newTodos = Append(@, sp)]
        ELSE [next EXCEPT !.best = <<sp>>, !.bestMark = mark]
considerKeeping(part, st, pass, sp) ==
    LET mark == unsafeEvaluate(part, st, sp)
        next == [pass EXCEPT !.i = @ + 1]
    IN  IF mark <= pass.bestMark THEN [next EXCEPT !.newTodos = Append(@, sp)]
        ELSE [next EXCEPT !.newTodos = @ \o pass.best, !.best = <<sp>>, !.bestMark = mark]

consider(part, st, pass, sp) ==
    LET mark == unsafeEvaluate(part, st, sp)
        next == [pass EXCEPT !.i = @ + 1]
    IN  IF mark = 0 THEN next
        ELSE IF mark <= pass.bestMark THEN [next EXCEPT !.newTodos = Append(@, sp)]
        ELSE [next EXCEPT !.newTodos = @ \o pass.best, !.best = <<sp>>, !.bestMark = mark]

\* The whole pass over a queue without death pill, on one state of the store.
readTodos(part, st, todos) ==
    LET pass[i \in 0 .. Len(todos)] ==
          IF i = 0 THEN NewPass ELSE consider(part, st, pass[i - 1], todos[i])
    IN  pass[Len(todos)]

\* The pairing check of a signature against the keys of its level's bits.
verifySignature(part, sp) == Verifies(sp.ms, part.base[sp.level], part.size[sp.level])
=============================================================================

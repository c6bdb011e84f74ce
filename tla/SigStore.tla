------------------------------ MODULE SigStore ------------------------------
(***************************************************************************)
(* The signature store (store.go) as operators on its state, a record      *)
(*   m                 - the best multi-signature of each level that has   *)
(*                       one (a Go map: levels without one are absent)     *)
(*   highest           - the highest level with a signature                *)
(*   indivSigsVerified - the indices of the individual signatures verified *)
(*                       at each level                                     *)
(*   individualSigs    - those signatures, by index                        *)
(* `part` is what the store uses of its Partitioner (Partitioner!Interface)*)
(* Every operation holds the store's mutex from its first line to its      *)
(* last, so each is one operator.                                          *)
(***************************************************************************)
EXTENDS MultiSignature

\* A Go map assignment.
Put(f, k, v) == [x \in DOMAIN f \cup {k} |-> IF x = k THEN v ELSE f[x]]

NewStore(part) ==
    [ m                 |-> [l \in {} |-> MS(0, {}, SignatureOf(0))],
      highest           |-> 0,
      indivSigsVerified |-> [l \in part.levels |-> {}],
      individualSigs    |-> [l \in part.levels |-> [i \in {} |-> MS(0, {}, SignatureOf(0))]] ]

HasBest(st, level) == level \in DOMAIN st.m

-----------------------------------------------------------------------------
(* Store *)

\* Record an individual signature and the fact that it is verified.
recordIndividual(st, sp) ==
    IF sp.isInd
    THEN [st EXCEPT !.indivSigsVerified[sp.level] = @ \cup {sp.mappedIndex},
                    !.individualSigs[sp.level]    = Put(@, sp.mappedIndex, sp.ms)]
    ELSE st

\* Mutant: overlapping signatures are summed.
mergeAlways(st, sp) ==
    MS(sp.ms.len, sp.ms.bits \cup st.m[sp.level].bits, Combine2(st.m[sp.level].sig, sp.ms.sig))

\* The new signature, merged with the current best when they share no bit.
mergeWithBest(st, sp) ==
    LET ms2    == st.m[sp.level]
        merged == sp.ms.bits \cup ms2.bits
    IN  IF Cardinality(merged) = card(ms2) + card(sp.ms)
        THEN MS(sp.ms.len, merged, Combine2(ms2.sig, sp.ms.sig))
        ELSE sp.ms

\* Mutant: no individual signature is added.
complementNone(st, level, best) == {}

\* The individual signatures verified at a level that `best` lacks.
complement(st, level, best) == st.indivSigsVerified[level] \ best.bits

\* best with the individual signatures at the positions iS added to it.
addIndividuals(st, level, best, iS) ==
    MS(best.len, best.bits \cup iS,
       Combine2(CombineAll([pos \in iS |-> st.individualSigs[level][pos].sig]), best.sig))

\* Mutant: a signature of the same size replaces the best.
unsafeCheckMergeOnTie(st, sp) ==
    IF ~HasBest(st, sp.level)
    THEN [ms |-> sp.ms, store |-> TRUE]
    ELSE LET best == mergeWithBest(st, sp)
             iS   == complement(st, sp.level, best)
         IN  [ms    |-> addIndividuals(st, sp.level, best, iS),
              store |-> Cardinality(iS) + card(best) >= card(st.m[sp.level])]

\* The signature to store, and whether it replaces the current best.
unsafeCheckMerge(st, sp) ==
    IF ~HasBest(st, sp.level)
    THEN [ms |-> sp.ms, store |-> TRUE]
    ELSE LET best == mergeWithBest(st, sp)
             iS   == complement(st, sp.level, best)
         IN  IF Cardinality(iS) + card(best) <= card(st.m[sp.level])
             THEN [ms |-> best, store |-> FALSE]
             ELSE [ms |-> addIndividuals(st, sp.level, best, iS), store |-> TRUE]

\* The private method store.
keep(st, level, ms) ==
    [st EXCEPT !.m = Put(@, level, ms),
               !.highest = IF level > @ THEN level ELSE @]

Store(st, sp) ==
    LET st1 == recordIndividual(st, sp)
        r   == unsafeCheckMerge(st1, sp)
    IN  IF r.store THEN keep(st1, sp.level, r.ms) ELSE st1

\* The panics of Store and unsafeCheckMerge: an individual signature that has
\* not exactly one bit, or one that is marked verified and is not in the map.
StorePanics(st, sp) ==
    \/ sp.isInd /\ card(sp.ms) # 1
    \/ LET st1 == recordIndividual(st, sp)
           iS  == complement(st1, sp.level, mergeWithBest(st1, sp))
           has == DOMAIN st1.individualSigs[sp.level]
       IN  /\ HasBest(st1, sp.level)
           /\ unsafeCheckMerge(st1, sp).store
           /\ \E pos \in iS : \/ pos \notin has
                              \/ card(st1.individualSigs[sp.level][pos]) # 1

-----------------------------------------------------------------------------
(* Evaluate: the score of a signature that is not verified yet; 0 discards it. *)

\* Mutant: a signature that adds nothing passes for one that does.
scoreLax(part, level, isInd, newTotal, addedSigs, combineCt) ==
    CASE addedSigs < 0 -> IF isInd THEN 1 ELSE 0
      [] addedSigs >= 0 -> 100000 - level*100 + addedSigs*10 - combineCt

\* The scores of unsafeEvaluate's last part, from the bitset the signature
\* would leave at the level, its gain over the current best, and how many of
\* its bits come from individual signatures.
score(part, level, isInd, newTotal, addedSigs, combineCt) ==
    CASE addedSigs <= 0 -> IF isInd THEN 1 ELSE 0
      [] addedSigs > 0 /\ newTotal = part.size[level] -> 1000000 - level*10 - combineCt
      [] addedSigs > 0 /\ newTotal # part.size[level] ->
            100000 - level*100 + addedSigs*10 - combineCt

unsafeEvaluate(part, st, sp) ==
    LET level     == sp.level
        cur       == IF HasBest(st, level) THEN st.m[level].bits ELSE {}
        new       == sp.ms.bits
        withIndiv == new \cup st.indivSigsVerified[level]
        final     == IF new \cap cur = {} THEN withIndiv \cup cur ELSE withIndiv
        combined  == IF new \cap cur = {} THEN final \ (cur \cup new) ELSE final \ new
    IN  IF \/ HasBest(st, level) /\ Cardinality(cur) = part.size[level]
           \/ sp.isInd /\ sp.mappedIndex \in st.indivSigsVerified[level]
           \/ HasBest(st, level) /\ ~sp.isInd /\ new \subseteq cur
        THEN 0
        ELSE score(part, level, sp.isInd, Cardinality(final),
                   Cardinality(final) - Cardinality(cur), Cardinality(combined))

-----------------------------------------------------------------------------
(* Combined and FullSignature: one signature out of those of several levels. *)

Nil == MS(0, {}, [who |-> {}, once |-> FALSE])

\* combineSize: bit i of level k's bitset goes to offset[k] + i of a bitset of
\* the given length, and the signatures are summed.
combineSize(sigs, size, offset) ==
    MS(size,
       UNION {{offset[k] + i : i \in sigs[k].bits} : k \in DOMAIN sigs},
       CombineAll([k \in DOMAIN sigs |-> sigs[k].sig]))

\* Set is called for every index of every bitset, and panics out of bounds.
combinePanics(sigs, size, offset) ==
    \E k \in DOMAIN sigs : \E i \in 0 .. sigs[k].len - 1 : offset[k] + i \notin 0 .. size - 1

\* Mutant: the start of the combined range is forgotten.
OffsetsGlobal(part, sigs, min) == [k \in DOMAIN sigs |-> part.base[k]]

Offsets(part, sigs, min) == [k \in DOMAIN sigs |-> part.base[k] - min]

Combine(part, sigs, level) ==
    IF DOMAIN sigs = {} \/ \E k \in DOMAIN sigs : k > level THEN Nil
    ELSE combineSize(sigs, part.invSize[level], Offsets(part, sigs, part.invBase[level]))

CombineFull(part, sigs) ==
    IF DOMAIN sigs = {} THEN Nil
    ELSE combineSize(sigs, part.n, Offsets(part, sigs, 0))

UpTo(st, level) == [k \in {j \in DOMAIN st.m : j <= level} |-> st.m[k]]

\* The signature of all levels up to `level`, as the peers of the next one
\* expect it.
Combined(part, st, level) ==
    Combine(part, UpTo(st, level), IF level < part.max THEN level + 1 ELSE level)

\* The panic of Combined: the level is not incremented past MaxLevel, so that
\* the signatures up to MaxLevel do not fit the range they are combined for.
CombinedPanics(part, st, level) ==
    LET up == IF level < part.max THEN level + 1 ELSE level
    IN  combinePanics(UpTo(st, level), part.invSize[up],
                      Offsets(part, UpTo(st, level), part.invBase[up]))

FullSignature(part, st) == CombineFull(part, st.m)
=============================================================================

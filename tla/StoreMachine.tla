---------------------------- MODULE StoreMachine ----------------------------
(***************************************************************************)
(* The signature store of one node over its life: created by newStore,     *)
(* given the node's own signature by NewHandel, and then any verified      *)
(* signatures in any order, as rangeOnVerified hands them over.  The       *)
(* scores, the combined and the full signature are functions of the state. *)
(***************************************************************************)
EXTENDS SigStore, Partitioner

CONSTANT Part           \* the store's partitioner (Partitioner!Interface)

ASSUME PartAssumption == Contract(Part)

VARIABLE st             \* the store, see SigStore

RecvLevels == Part.levels \ {0}

\* The incomingSigs a node makes of its own signature (NewHandel), of a valid
\* multi-signature and of a valid individual signature (parseSignatures).
OwnSig == [ level |-> 0, isInd |-> TRUE, mappedIndex |-> 0,
            ms |-> MS(1, {0}, SignatureOf(Part.base[0])) ]

MultiSp(l, ms) == [level |-> l, isInd |-> FALSE, mappedIndex |-> 0, ms |-> ms]

IndividualSp(l, i) ==
    [ level |-> l, isInd |-> TRUE, mappedIndex |-> i,
      ms |-> MS(Part.size[l], {i}, SignatureOf(Part.base[l] + i)) ]

\* The verified incomingSigs of a level.
Verified(l) == {MultiSp(l, ms) : ms \in ValidSigs(Part.base[l], Part.size[l])}
                  \cup {IndividualSp(l, i) : i \in 0 .. Part.size[l] - 1}

Init == st = Store(NewStore(Part), OwnSig)

StoreVerified(l) == \E sp \in Verified(l) : st' = Store(st, sp)

Next == \E l \in RecvLevels : StoreVerified(l)

Spec == Init /\ [][Next]_st

-----------------------------------------------------------------------------
(* Properties *)

\* A multi-signature over a range of n ids.
Sigs(n) == [len : {n}, bits : SUBSET (0 .. n - 1),
            sig : [who : SUBSET (0 .. Part.n - 1), once : BOOLEAN]]

\* The store has the shape of the struct, with levels and indices in range.
TypeOK ==
    /\ DOMAIN st = {"m", "highest", "indivSigsVerified", "individualSigs"}
    /\ DOMAIN st.m \subseteq Part.levels
    /\ \A l \in DOMAIN st.m : st.m[l] \in Sigs(Part.size[l])
    /\ st.highest \in Part.levels
    /\ DOMAIN st.indivSigsVerified = Part.levels
    /\ DOMAIN st.individualSigs = Part.levels
    /\ \A l \in Part.levels :
          /\ st.indivSigsVerified[l] \subseteq 0 .. Part.size[l] - 1
          /\ DOMAIN st.individualSigs[l] \subseteq 0 .. Part.size[l] - 1

\* What is stored at a level is a signature that verifies against the keys of
\* its bits: no merge (store.go:188) ever counts a contribution twice.
StoredSigsVerify ==
    \A l \in DOMAIN st.m : Verifies(st.m[l], Part.base[l], Part.size[l])

\* Every individual signature marked verified is in the map unsafeCheckMerge
\* takes it from (store.go:216), is that signer's, and nothing else is there.
IndividualsKept ==
    \A l \in Part.levels :
        /\ DOMAIN st.individualSigs[l] = st.indivSigsVerified[l]
        /\ \A i \in st.indivSigsVerified[l] :
              st.individualSigs[l][i] = IndividualSp(l, i).ms

\* A contribution that was verified on its own is in the level's best
\* signature from then on, whatever larger signature replaces it.
IndividualsCovered ==
    \A l \in Part.levels :
        st.indivSigsVerified[l] # {} =>
            HasBest(st, l) /\ st.indivSigsVerified[l] \subseteq st.m[l].bits

\* The panics of store.go (85, 207, 210) and the out of bounds Set of bitset.go
\* are unreachable: in Store for any verified signature that may come next, and
\* in the Combined and FullSignature that Handel asks for.
NeverPanics ==
    /\ \A l \in RecvLevels : /\ \A sp \in Verified(l) : ~StorePanics(st, sp)
                             /\ ~CombinedPanics(Part, st, l - 1)
    /\ ~combinePanics(st.m, Part.n, Offsets(Part, st.m, 0))

\* The size of the best signature of a level, 0 for none.
BestSize(s, l) == IF HasBest(s, l) THEN card(s.m[l]) ELSE 0

\* Evaluate (store.go:101) predicts Store: a score above 1 is given exactly to
\* the signatures that would enlarge the level's best, and no score is negative.
EvaluatePredictsStore ==
    \A l \in RecvLevels : \A sp \in Verified(l) :
        LET mark == unsafeEvaluate(Part, st, sp)
        IN  /\ mark >= 0
            /\ mark > 1 <=> BestSize(Store(st, sp), l) > BestSize(st, l)

\* What a node sends at a level is what its peers of that level verify: the
\* combination of the levels below it, over the length and the keys of their
\* range (partitioner.go:224, processing.go:342) ...
CombinedVerifies ==
    \A l \in RecvLevels :
        Verifies(Combined(Part, st, l - 1), Part.invBase[l], Part.invSize[l])

\* ... and what is handed to the application verifies against the registry
\* (crypto.go:120).
FullSignatureVerifies == Verifies(FullSignature(Part, st), 0, Part.n)

\* Both aggregates the store hands out verify where they go, in every state.
AggregatesVerify == CombinedVerifies /\ FullSignatureVerifies

\* A level's best signature is only ever replaced by a strictly larger one.
BestOnlyGrows ==
    [][\A l \in DOMAIN st.m :
          /\ HasBest(st', l)
          /\ st'.m[l] # st.m[l] => card(st'.m[l]) > card(st.m[l])]_st
=============================================================================

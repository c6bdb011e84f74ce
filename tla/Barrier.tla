------------------------------ MODULE Barrier ------------------------------
(***************************************************************************)
(* What the synchronisation of a simulation promises for one of its states *)
(* (START or END): a process goes on only when enough of the nodes have    *)
(* signalled that they reached the state.                                  *)
(***************************************************************************)
EXTENDS Naturals, FiniteSets

CONSTANTS Node, Member

VARIABLES need,         \* how many nodes are enough
          signalled,    \* the nodes that signalled
          released      \* the members that may go on

bvars == <<need, signalled, released>>

BInit == need \in Nat /\ signalled = {} /\ released = {}

Signal(ids) == signalled' = signalled \cup ids /\ UNCHANGED <<need, released>>

Release(m) == /\ Cardinality(signalled) >= need /\ m \notin released
              /\ released' = released \cup {m}
              /\ UNCHANGED <<need, signalled>>

BNext == \/ \E ids \in SUBSET Node : Signal(ids)
         \/ \E m \in Member : Release(m)

BSpec == BInit /\ [][BNext]_bvars
=============================================================================

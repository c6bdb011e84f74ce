------------------------------ MODULE MCHandel ------------------------------
(***************************************************************************)
(* Instances of Handel for TLC.  The nodes of Interleaved run as in        *)
(* Handel, every thread of theirs interleaving with everything else.  The  *)
(* others are eager: they process, store and act on what they received     *)
(* before anything else happens, which is one of the schedules of Handel.  *)
(***************************************************************************)
EXTENDS Handel

CONSTANT Interleaved

Busy(n) == todos[n] # <<>> \/ verified[n] # <<>> \/ current[n] # <<>>

Eager == {n \in Online \ Interleaved : Busy(n)}

Pipeline(n) == \/ OnVerifiedSignature(n)
               \/ StoreVerified(n)
               \/ current[n] = <<>> /\ verified[n] = <<>> /\ processStep(n)

MCNext == IF Eager = {} THEN Next ELSE Pipeline(Min(Eager))

MCSpec == Init /\ [][MCNext]_vars
=============================================================================

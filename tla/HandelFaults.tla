---------------------------- MODULE HandelFaults ----------------------------
(***************************************************************************)
(* Handel over a network that may lose or duplicate up to MaxFaults        *)
(* packets and delivers the others (net.go:4 asks for no guarantee).       *)
(***************************************************************************)
EXTENDS Handel

CONSTANT MaxFaults

VARIABLES faults,           \* how many packets were lost or duplicated
          lost              \* whether one was lost

FInit == Init /\ faults = 0 /\ lost = FALSE

Fault == /\ faults < MaxFaults
         /\ faults' = faults + 1
         /\ \/ Lose /\ lost' = TRUE
            \/ UNCHANGED lost /\ \E n \in Online : Duplicate(n)

FNext == \/ Next /\ UNCHANGED <<faults, lost>>
         \/ Fault

\* Some thread of some node goes on whenever one can: no fairness between the
\* threads is needed, as each has only finitely many steps to do.
FSpec == FInit /\ [][FNext]_<<vars, faults, lost>> /\ WF_vars(Next)

-----------------------------------------------------------------------------
(* Properties *)

\* Every online node outputs the aggregate of all online nodes, and for good,
\* also when packets come twice; only a loss can prevent it (handel.go:527).
AggregatedUnlessLost == <>[]AllAggregated \/ <>lost
=============================================================================

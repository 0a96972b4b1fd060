-------------------------- MODULE MCUsageAdmission --------------------------
(* Two callers, two request ids, one limit without and one with a TTL.      *)
EXTENDS UsageAdmission, TLC

CONSTANTS r1, r2, c1, c2, documents, concurrent_runs

MCTTL == [l \in Limits |-> IF l = concurrent_runs THEN 1 ELSE 0]
MCSnapshots == {[l \in Limits |-> 2],
                [l \in Limits |-> IF l = documents THEN 0 ELSE 1]}
CallerSymmetry == Permutations(Callers)
=============================================================================

---------------------------- MODULE MCModelRouting ----------------------------
(* Two Runs on a route of two candidates with one failure domain; the        *)
(* providers raise one error of every kind that the circuits tell apart, one *)
(* of them with a pause longer than the wait ceiling.                        *)
EXTENDS ModelRouting, TLC
CONSTANTS r1, r2, c1, c2, d1
MCRoute == <<c1, c2>>
SharedDomain == (c1 :> d1) @@ (c2 :> d1)
RunSymmetry == Permutations({r1, r2})
MCErrors == {[kind |-> k, hint |-> FALSE, after |-> 0] :
                k \in {"health", "unavailable", "transient"}}
            \cup {[kind |-> "health", hint |-> TRUE, after |-> 1]}
=============================================================================

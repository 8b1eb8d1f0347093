-------------------------- MODULE MCSettlementFence --------------------------
\* Two replicas, a posting on the first. Command "a" opens, "b" fences, and a
\* second body under the ID "a" must be refused.
EXTENDS SettlementFence, TLC

CONSTANTS r1, r2, p1

MCReplicas == {r1, r2}
OnePost == {p1}
OnReplica1 == (p1 :> r1)

OpenA   == [id |-> "a", action |-> "OPEN", digest |-> "d1"]
FenceB  == [id |-> "b", action |-> "FENCE", digest |-> "d1"]
FenceA  == [id |-> "a", action |-> "FENCE", digest |-> "d2"]

OpenAndFence == {OpenA, FenceB}
WithConflict == {OpenA, FenceB, FenceA}

\* Both replicas receive the OPEN, the second one the FENCE.
OpenTwiceFenceOnce == {<<r1, OpenA>>, <<r2, OpenA>>, <<r2, FenceB>>}
AndConflict == OpenTwiceFenceOnce \cup {<<r1, FenceA>>}
=============================================================================

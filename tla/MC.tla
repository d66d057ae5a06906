--------------------------------- MODULE MC ---------------------------------
(***************************************************************************)
(* Small instances of the gateway for TLC.                                 *)
(***************************************************************************)
EXTENDS GatewayProps, GatewayRefinement

Request(q, t, s) == [queue |-> q, tenant |-> t, shape |-> "512", steps |-> s, vram_gb |-> 10]

\* A production request of one step and a research request of two.
MCPreempt == {Request("production", "a", 1), Request("research", "a", 2)}
MCOneStep == {Request("production", "a", 1), Request("research", "a", 1)}
MCTwoTenants == {Request("production", "a", 1), Request("research", "b", 2)}
\* Two batch keys in the research queue, so that mates are picked from behind.
MCKeys == {Request("production", "a", 1), Request("research", "a", 1),
           Request("research", "a", 2)}
MCClasses == {Request(c, "a", 1) : c \in Class}

MCAmple == [c \in Class |-> 8]
\* Lower than what one GPU and a queue of one can hold.
MCQuota == [c \in Class |-> IF c = "production" THEN 1 ELSE 2]
MCOne == [c \in Class |-> 1]
=============================================================================

----------------------------- MODULE MCObjects -----------------------------
(* Objects for model checking: two threads of one priority and a more        *)
(* urgent one.                                                               *)
EXTENDS Objects, TLC

CONSTANTS t1, t2, t3

MCPrio == t1 :> 1 @@ t2 :> 1 @@ t3 :> 0

\* Messages are alike, and event bits, polled objects and the two equal threads.
\* (Of these only t1 polls: in Poll exchanging them maps no two reachable states
\* to each other.)
Symmetry ==
    Permutations(Items) \union Permutations(EventBits) \union Permutations(PollObjects)
        \union Permutations({t1, t2})
=============================================================================

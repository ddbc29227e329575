------------------------------ MODULE MCSched ------------------------------
(* Sched for model checking: a cooperative and two preemptible threads. *)
EXTENDS Sched, TLC

CONSTANTS t1, t2, t3

MCPrio == t1 :> -1 @@ t2 :> 1 @@ t3 :> 1

\* One thread becomes as urgent as the cooperative one, and less so again.
MCNewPrios == t1 :> {} @@ t2 :> {-1, 0} @@ t3 :> {}

Selves == {<<t, t>> : t \in Threads}

\* Each of the operations on each of the pairs.
On(ops, pairs) == {<<op, p[1], p[2]>> : op \in ops, p \in pairs}

\* Everything that one CPU allows with t1 waking t3 and t2 aborted by the others.
Crowded ==
    On({"sleep"}, {<<t1, t1>>, <<t2, t2>>})
        \union On({"timed_join"}, {<<t1, t2>>, <<t2, t1>>, <<t2, t3>>})
        \union On({"suspend"}, {<<t1, t1>>, <<t1, t2>>, <<t2, t2>>, <<t3, t1>>, <<t3, t2>>, <<t3, t3>>})
        \union On({"resume", "prio"}, Threads \X {t1, t2})
        \union On({"abort"}, Selves \union {<<t1, t2>>, <<t3, t2>>})
        \union {<<"wakeup", t1, t3>>}

\* Everything that several CPUs allow with t1 waking t3.
Apart ==
    On({"sleep"}, {<<t1, t1>>, <<t2, t2>>})
        \union On({"suspend", "prio", "abort"}, Selves)
        \union {<<"abort", t1, t2>>, <<"abort", t3, t2>>, <<"wakeup", t1, t3>>}

\* A cooperative thread wakes sleepers early, on one CPU.
Early == {<<"sleep", t2, t2>>, <<"sleep", t3, t3>>, <<"wakeup", t1, t2>>, <<"wakeup", t1, t3>>}

MCApps ==
    {[cpus |-> {c}, calls |-> a] : c \in CPUs, a \in {Crowded, Early}}
        \union {[cpus |-> CPUs, calls |-> Apart]}

\* All but the last kind are as the proofs require.
ASSUME MCAppsAreDisciplined ==
    \A a \in MCApps : a.calls # Early => Disciplined(a)

\* Joins with a timeout on several CPUs.
RacyApps == {[cpus |-> CPUs, calls |-> On({"timed_join", "abort"}, Threads \X Threads)]}

Symmetry == Permutations(CPUs)
=============================================================================

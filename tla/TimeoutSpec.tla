---------------------------- MODULE TimeoutSpec ----------------------------
(***************************************************************************)
(* What the kernel timeout queue (kernel/timeout.c) promises to the rest   *)
(* of the kernel, with no list and no deltas: a clock and, for every armed *)
(* timeout, the tick at which it expires.  TimeoutQ is shown to implement  *)
(* this specification.                                                     *)
(***************************************************************************)
EXTENDS Integers

CONSTANT Timeouts   \* the struct _timeout objects

VARIABLES now,      \* the announced uptime, in ticks
          expiry    \* armed timeouts, each with the tick it expires at

specVars == <<now, expiry>>

SpecInit == now = 0 /\ expiry = [t \in {} |-> 0]

\* A timeout is armed for a tick that is still to come.
Arm(t) ==
    /\ t \notin DOMAIN expiry
    /\ DOMAIN expiry' = DOMAIN expiry \union {t}
    /\ \A u \in DOMAIN expiry : expiry'[u] = expiry[u]
    /\ expiry'[t] > now
    /\ UNCHANGED now

\* Aborting a timeout moves no other one.
Disarm(t) ==
    /\ t \in DOMAIN expiry
    /\ expiry' = [u \in DOMAIN expiry \ {t} |-> expiry[u]]
    /\ UNCHANGED now

\* The earliest timeout expires, at its own tick and at no other.
Expire(t) ==
    /\ t \in DOMAIN expiry
    /\ \A u \in DOMAIN expiry : expiry[t] <= expiry[u]
    /\ now' = expiry[t]
    /\ expiry' = [u \in DOMAIN expiry \ {t} |-> expiry[u]]

\* Time passes, never beyond a timeout that has not expired.
Advance ==
    /\ now' > now
    /\ \A u \in DOMAIN expiry : now' < expiry[u]
    /\ UNCHANGED expiry

SpecNext == Advance \/ \E t \in Timeouts : Arm(t) \/ Disarm(t) \/ Expire(t)

TimeoutSpec == SpecInit /\ [][SpecNext]_specVars
=============================================================================

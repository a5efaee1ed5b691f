--------------------------- MODULE SchedulerLease ---------------------------
(***************************************************************************)
(* SchedulerLeaseService: the Redis key that lets one instance run a       *)
(* fleet-wide sweep.  A run is one call of runExclusively; its name stands *)
(* for the token it mints, so a lease whose owner is gone is Orphan.       *)
(* Redis keeps the key (SET NX PX) until the owner's compare-and-delete or *)
(* the expiry, and a run whose key expired does not know it.               *)
(***************************************************************************)
EXTENDS Naturals, FiniteSets

CONSTANTS Runs, NoToken, Orphan

ASSUME LeaseAssumption == NoToken \notin Runs /\ Orphan \notin Runs /\ NoToken # Orphan

VARIABLES
    lease,      \* the value under the key: a token, or NoToken
    working,    \* the runs inside work()
    lapsed      \* the runs whose key expired while they worked

leaseVars == <<lease, working, lapsed>>

LeaseInit == lease = NoToken /\ working = {} /\ lapsed = {}

LeaseTypeOK ==
    /\ lease \in Runs \cup {NoToken, Orphan}
    /\ working \subseteq Runs
    /\ lapsed \subseteq working

\* SET key token PX ttl NX.  An unreachable Redis, or a key already there, skips the sweep.
Acquire(w) ==
    /\ w \notin working
    /\ lease = NoToken
    /\ lease' = w
    /\ working' = working \cup {w}
    /\ UNCHANGED lapsed

\* A bare DEL: whatever the key holds is gone.
BugReleaseAny(w) ==
    /\ w \in working
    /\ lease' = NoToken
    /\ working' = working \ {w}
    /\ lapsed' = lapsed \ {w}

\* The finally block: RELEASE_SCRIPT deletes the key only if it still holds this token,
\* and a release that fails leaves it to its expiry.
Release(w) ==
    /\ w \in working
    /\ lease' \in IF lease = w THEN {NoToken, Orphan} ELSE {lease}
    /\ working' = working \ {w}
    /\ lapsed' = lapsed \ {w}

\* The expiry is set after the key, and a holder that dies leaves a key without one.
BugExpireOfLiving ==
    /\ lease \in working
    /\ lease' = NoToken
    /\ lapsed' = lapsed \cup {lease}
    /\ UNCHANGED working

\* The TTL passes, whether its holder is slow, dead or done.
Expire ==
    /\ lease # NoToken
    /\ lease' = NoToken
    /\ lapsed' = lapsed \cup (working \cap {lease})
    /\ UNCHANGED working

\* The instance dies: its key stays until it expires.
Die(w) ==
    /\ w \in working
    /\ lease' = IF lease = w THEN Orphan ELSE lease
    /\ working' = working \ {w}
    /\ lapsed' = lapsed \ {w}

\* Two sweeps run together only when one of them outlived its lease: a run whose TTL has
\* not passed works alone, however releases, expiries and deaths fall.
UnlapsedSweepIsAlone == Cardinality(working \ lapsed) <= 1
=============================================================================

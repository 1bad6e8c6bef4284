------------------------------ MODULE AtomicLock ------------------------------
(***************************************************************************)
(* What mpat.lock promises: every call that writes the lock either         *)
(* replaces it whole, once, or leaves it as it was, and a crash brings     *)
(* back a lock that was once in place.  docs/site/pages/lockfile.md,       *)
(* "Atomic write".                                                         *)
(***************************************************************************)
CONSTANTS
    Writers,    \* processes that run `mpat lock`
    Locks,      \* the locks they may write
    None        \* no lock; no call in progress

VARIABLES
    value,      \* the lock a reader finds
    stable,     \* the lock found after a power loss
    call        \* the lock each writer is busy writing

vars == <<value, stable, call>>

Init ==
    /\ value \in Locks \cup {None}
    /\ stable = value
    /\ call = [w \in Writers |-> None]

Begin(w, v) ==
    /\ call[w] = None
    /\ call' = [call EXCEPT ![w] = v]
    /\ UNCHANGED <<value, stable>>

Commit(w) ==
    /\ call[w] # None
    /\ value' = call[w]
    /\ call' = [call EXCEPT ![w] = None]
    /\ UNCHANGED stable

\* The call fails, or its process dies.
Abort(w) ==
    /\ call' = [call EXCEPT ![w] = None]
    /\ UNCHANGED <<value, stable>>

Persist ==
    /\ stable' = value
    /\ UNCHANGED <<value, call>>

Crash ==
    /\ value' = stable
    /\ call' = [w \in Writers |-> None]
    /\ UNCHANGED stable

Next ==
    \/ \E w \in Writers : Commit(w) \/ Abort(w) \/ \E v \in Locks : Begin(w, v)
    \/ Persist \/ Crash

Spec == Init /\ [][Next]_vars

================================================================================

------------------------------- MODULE Lease -------------------------------
(***************************************************************************)
(* What the master lease of a relay promises to the instances that share   *)
(* STATE_DIR, without the lock file, its inodes and its retries.           *)
(*                                                                         *)
(*   holder     the instance whose content is published as master (None    *)
(*              while the lock is free, half written or a candidacy);      *)
(*   believers  the instances that act as master;                          *)
(*   granted    the instances with a state write that the write guard let  *)
(*              through and that is not finished;                          *)
(*   out        the instances that can never be granted a new tenure: they *)
(*              resigned, lost the lease, or are believers evicted from it.*)
(*                                                                         *)
(* Belief may overlap (a delayed deletion evicts a master that learns it   *)
(* only at its next check); the guard is what is exclusive.                *)
(***************************************************************************)
EXTENDS Naturals

CONSTANTS Instance, None   \* None is not an instance

VARIABLES holder, believers, granted, out

leaseVars == <<holder, believers, granted, out>>

\* The lease is free, or was left by an instance that is out.
Init ==
    /\ holder \in Instance \cup {None}
    /\ believers = {}
    /\ granted = {}
    /\ out = {holder} \ {None}

\* A candidate publishes a master content: only on a lease nobody holds, and never once out.
Publish(i) ==
    /\ holder = None
    /\ i \notin out
    /\ holder' = i
    /\ UNCHANGED <<believers, granted, out>>

\* The holder starts to act as master.
Promote(i) ==
    /\ holder = i
    /\ i \notin believers \cup out
    /\ believers' = believers \cup {i}
    /\ UNCHANGED <<holder, granted, out>>

\* The lock is removed (by its holder, as stale, or by a delayed deletion).
Vacate ==
    /\ holder # None
    /\ holder' = None
    /\ out' = out \cup (believers \cap {holder})
    /\ UNCHANGED <<believers, granted>>

\* An instance stops for good (loss, self-retire, release, or the end of a secondary).
Resign(i) ==
    /\ believers' = believers \ {i}
    /\ out' = out \cup {i}
    /\ UNCHANGED <<holder, granted>>

\* The process ends, with its write in progress if it had one.
Crash(i) ==
    /\ believers' = believers \ {i}
    /\ granted' = granted \ {i}
    /\ out' = out \cup {i}
    /\ UNCHANGED holder

\* The write guard answers yes: only to the holder.
Grant(i) ==
    /\ holder = i
    /\ granted' = granted \cup {i}
    /\ UNCHANGED <<holder, believers, out>>

\* The guarded write is over.
Finish(i) ==
    /\ granted' = granted \ {i}
    /\ UNCHANGED <<holder, believers, out>>

Next ==
    \/ Vacate
    \/ \E i \in Instance :
        Publish(i) \/ Promote(i) \/ Resign(i) \/ Crash(i) \/ Grant(i) \/ Finish(i)

Spec == Init /\ [][Next]_leaseVars
=============================================================================

---------------------------- MODULE JobLifecycle ----------------------------
(***************************************************************************)
(* What the moderation queue promises of its jobs, whatever the database,  *)
(* the workers and the requests do in between (docs/AI_MODERATION.md).     *)
(*                                                                         *)
(* A job is submitted, begun by one worker at a time, finished or given    *)
(* back, and submitted again at any moment.  Every submission makes a new  *)
(* version, and only who works on the current version can finish it.       *)
(***************************************************************************)
EXTENDS Naturals

CONSTANTS Listings, Workers, NoListing

VARIABLES
    phase,     \* phase[l]: the status of the job of l, "NONE" without one yet
    version,   \* version[l]: how often the job was submitted again
    work       \* work[w]: the job and version that w works on

lifecycleVars == <<phase, version, work>>

\* A claim is confirmed when the worker has read what it has claimed.
Work(stage, l, v) == [stage |-> stage, listing |-> l, version |-> v]
NoWork == Work("none", NoListing, 0)

\* The phases of a listing that has no job.
Jobless == {"NONE", "REMOVED"}

LifecycleInit ==
    /\ phase = [l \in Listings |-> "NONE"]
    /\ version = [l \in Listings |-> 0]
    /\ work = [w \in Workers |-> NoWork]

Submit(l) ==
    /\ phase[l] = "NONE"
    /\ phase' = [phase EXCEPT ![l] = "PENDING"]
    /\ UNCHANGED <<version, work>>

\* An edit or a rerun submits one job again, a recovery all that are stale.
Resubmit(jobs) ==
    /\ \A l \in jobs : phase[l] \notin Jobless
    /\ phase' = [l \in Listings |-> IF l \in jobs THEN "PENDING" ELSE phase[l]]
    /\ version' = [l \in Listings |-> IF l \in jobs THEN version[l] + 1
                                                    ELSE version[l]]
    /\ UNCHANGED work

Begin(w, l) ==
    /\ work[w] = NoWork
    /\ phase[l] = "PENDING"
    /\ phase' = [phase EXCEPT ![l] = "RUNNING"]
    /\ work' = [work EXCEPT ![w] = Work("claimed", l, version[l])]
    /\ UNCHANGED version

\* The worker takes the version that it reads, which may be newer than the
\* one it has claimed.
Confirm(w) ==
    LET l == work[w].listing IN
    /\ work[w].stage = "claimed"
    /\ phase[l] \notin Jobless
    /\ work' = [work EXCEPT ![w] = Work("confirmed", l, version[l])]
    /\ UNCHANGED <<phase, version>>

IsCurrent(w) ==
    /\ work[w].stage = "confirmed"
    /\ phase[work[w].listing] = "RUNNING"
    /\ version[work[w].listing] = work[w].version

\* Done, failed for good, or given back for another attempt.
Finish(w, result) ==
    /\ IsCurrent(w)
    /\ phase' = [phase EXCEPT ![work[w].listing] = result]
    /\ work' = [work EXCEPT ![w] = NoWork]
    /\ UNCHANGED version

\* A worker dies, or its result is not wanted any more.
Leave(w) ==
    /\ work[w] # NoWork
    /\ work' = [work EXCEPT ![w] = NoWork]
    /\ UNCHANGED <<phase, version>>

\* The listing is deleted, and is not submitted again.
Remove(l) ==
    /\ phase' = [phase EXCEPT ![l] = "REMOVED"]
    /\ version' = [version EXCEPT ![l] = 0]
    /\ UNCHANGED work

LifecycleNext ==
    \/ \E l \in Listings : Submit(l) \/ Remove(l)
    \/ \E jobs \in SUBSET Listings : Resubmit(jobs)
    \/ \E w \in Workers :
         \/ \E l \in Listings : Begin(w, l)
         \/ Confirm(w)
         \/ \E result \in {"COMPLETED", "FAILED", "PENDING"} : Finish(w, result)
         \/ Leave(w)

LifecycleSpec == LifecycleInit /\ [][LifecycleNext]_lifecycleVars
=============================================================================

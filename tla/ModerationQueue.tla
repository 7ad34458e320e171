--------------------------- MODULE ModerationQueue ---------------------------
(***************************************************************************)
(* The PostgreSQL job queue of AI moderation.                              *)
(*                                                                         *)
(* listing_moderation_jobs holds at most one row per listing.  API         *)
(* requests (re)queue a listing, the workers of the running server         *)
(* processes poll the table, claim a row, run the moderation workflow and  *)
(* settle the row.  `revision' fences a worker off a row that was queued   *)
(* again after the worker had claimed it.                                  *)
(*                                                                         *)
(* One action is one statement sent to the database (or one transaction    *)
(* with a single write); between two statements every other request and    *)
(* worker may run.  The workflow itself is abstracted to its outcome here  *)
(* and modelled by ListingModeration.  AI_MODERATION_ENABLED is 'true'.    *)
(***************************************************************************)
EXTENDS Naturals, FiniteSets

CONSTANTS
    Listings,       \* identifiers of listings
    Workers,        \* server processes, each with one polling worker
    Requests,       \* API requests that may be in flight together
    NoListing,      \* stands for "no listing" in an idle record
    MaxAttempts,    \* ListingModerationJobService.maxAttempts (3 in the code)
    PollBudget,     \* jobs taken by one poll (5 in the code)
    MaxEnqueues,    \* bound: calls of enqueue
    MaxFaults       \* bound: crashes, database errors and overlong runs

ASSUME NoListingAssumption == NoListing \notin Listings
ASSUME BoundsAssumption ==
    /\ MaxAttempts \in Nat \ {0}
    /\ PollBudget \in Nat \ {0}
    /\ MaxEnqueues \in Nat
    /\ MaxFaults \in Nat

VARIABLES
    listing,     \* listing[l]: "new" (not created yet), "live" or "deleted"
    job,         \* job[l]: the row of listing_moderation_jobs, or NoRow
    pc,          \* pc[w]: the statement worker w executes next
    token,       \* token[w]: what w knows of the row it looks at
    taken,       \* taken[w]: jobs w has claimed in the current poll
    outcome,     \* outcome[w]: how the workflow ended, when it has
    request,     \* request[r]: the enqueue transaction that r is inside of
    enqueues,    \* calls of enqueue so far
    faults,      \* faults so far
    superseded,  \* history: workers whose claimed row was queued again
    late,        \* history, late[l]: claims of l read back after its row was
                 \*          queued again, since the last enqueue
    lapses       \* history, lapses[l]: crashes of a worker that held l and runs
                 \*          that outlived their lease, since the last enqueue

queueVars == <<listing, job, pc, token, taken, outcome, request, enqueues,
               faults, superseded, late, lapses>>

Statuses == {"PENDING", "RUNNING", "COMPLETED", "FAILED"}
Outcomes == {"success", "retryable", "fatal", "exception"}

NoRow == [status |-> "NONE", revision |-> 0, attemptCount |-> 0,
          due |-> FALSE, stale |-> FALSE]
NoToken == [listing |-> NoListing, revision |-> 0, attemptCount |-> 0]
NoRequest == [step |-> "idle", listing |-> NoListing]

\* `due': nextRunAt <= now.  `stale': updatedAt < now - staleRunMs.
Rows == [status : Statuses \cup {"NONE"}, revision : Nat, attemptCount : Nat,
         due : BOOLEAN, stale : BOOLEAN]
Tokens == [listing : Listings \cup {NoListing}, revision : Nat,
           attemptCount : Nat]
WorkerSteps == {"idle", "recover", "find", "claim", "readback", "run",
                "settle", "down"}

HasRow(l) == job[l].status # "NONE"

\* The workers that claimed (a version of) the row of l and are not done.
Claimants(l) == {w \in Workers : /\ pc[w] \in {"readback", "run", "settle"}
                                 /\ token[w].listing = l}

\* Those whose claim was not overtaken: the workers that hold its row now.
Holders(l) == Claimants(l) \ superseded

\* What an enqueue, or the end of the listing, makes of the two counters of l.
ForgetLapses(l) ==
    /\ late' = [late EXCEPT ![l] = 0]
    /\ lapses' = [lapses EXCEPT ![l] = 0]

Init ==
    /\ listing = [l \in Listings |-> "new"]
    /\ job = [l \in Listings |-> NoRow]
    /\ pc = [w \in Workers |-> "recover"]      \* onModuleInit polls at once
    /\ token = [w \in Workers |-> NoToken]
    /\ taken = [w \in Workers |-> 0]
    /\ outcome = [w \in Workers |-> "none"]
    /\ request = [r \in Requests |-> NoRequest]
    /\ enqueues = 0
    /\ faults = 0
    /\ superseded = {}
    /\ late = [l \in Listings |-> 0]
    /\ lapses = [l \in Listings |-> 0]

-----------------------------------------------------------------------------
(* Listings come and go; deleting one cascades to its job row.             *)

CreateListing(l) ==
    /\ listing[l] = "new"
    /\ listing' = [listing EXCEPT ![l] = "live"]
    /\ UNCHANGED <<job, pc, token, taken, outcome, request, enqueues, faults,
                   superseded, late, lapses>>

\* Mutant: the job row outlives its listing (no onDelete: Cascade).
DeleteWithoutCascade(l) ==
    /\ listing[l] = "live"
    /\ listing' = [listing EXCEPT ![l] = "deleted"]
    /\ UNCHANGED <<job, pc, token, taken, outcome, request, enqueues, faults,
                   superseded, late, lapses>>

DeleteListing(l) ==
    /\ listing[l] = "live"
    /\ listing' = [listing EXCEPT ![l] = "deleted"]
    /\ job' = [job EXCEPT ![l] = NoRow]
    /\ superseded' = superseded \cup Claimants(l)
    /\ ForgetLapses(l)
    /\ UNCHANGED <<pc, token, taken, outcome, request, enqueues, faults>>

-----------------------------------------------------------------------------
(* enqueue: a transaction that reads the row and then creates or resets it.*)

EnqueueRead(r, l, preserveRunning) ==
    /\ request[r].step = "idle"
    /\ listing[l] # "new"
    /\ enqueues < MaxEnqueues
    /\ enqueues' = enqueues + 1
    /\ request' =
         [request EXCEPT ![r] =
            IF preserveRunning /\ job[l].status = "RUNNING"
              THEN NoRequest
              ELSE [step |-> IF HasRow(l) THEN "update" ELSE "create",
                    listing |-> l]]
    /\ UNCHANGED <<listing, job, pc, token, taken, outcome, faults, superseded,
                   late, lapses>>

\* listingId is unique: the insert fails when another request created the row
\* first, and when the listing is gone.
EnqueueCreate(r) ==
    LET l == request[r].listing IN
    /\ request[r].step = "create"
    /\ request' = [request EXCEPT ![r] = NoRequest]
    /\ job' = IF listing[l] = "live" /\ ~HasRow(l)
                THEN [job EXCEPT ![l] =
                        [status |-> "PENDING", revision |-> 0,
                         attemptCount |-> 0, due |-> TRUE, stale |-> FALSE]]
                ELSE job
    /\ UNCHANGED <<listing, pc, token, taken, outcome, enqueues, faults,
                   superseded, late, lapses>>

\* Mutant: queueing a row again does not increment its revision.
UpdateKeepsRevision(r) ==
    LET l == request[r].listing IN
    /\ request[r].step = "update"
    /\ request' = [request EXCEPT ![r] = NoRequest]
    /\ IF HasRow(l)
         THEN /\ job' = [job EXCEPT ![l] =
                           [status |-> "PENDING", revision |-> @.revision,
                            attemptCount |-> 0, due |-> TRUE, stale |-> FALSE]]
              /\ superseded' = superseded \cup Claimants(l)
              /\ ForgetLapses(l)
         ELSE UNCHANGED <<job, superseded, late, lapses>>
    /\ UNCHANGED <<listing, pc, token, taken, outcome, enqueues, faults>>

\* The update looks the row up by listingId only: whatever happened to it since
\* the read, a claim included, it is reset.
EnqueueUpdate(r) ==
    LET l == request[r].listing IN
    /\ request[r].step = "update"
    /\ request' = [request EXCEPT ![r] = NoRequest]
    /\ IF HasRow(l)
         THEN /\ job' = [job EXCEPT ![l] =
                           [status |-> "PENDING", revision |-> @.revision + 1,
                            attemptCount |-> 0, due |-> TRUE, stale |-> FALSE]]
              /\ superseded' = superseded \cup Claimants(l)
              /\ ForgetLapses(l)
         ELSE UNCHANGED <<job, superseded, late, lapses>>
    /\ UNCHANGED <<listing, pc, token, taken, outcome, enqueues, faults>>

-----------------------------------------------------------------------------
(* The worker: poll, claimNextJob, processJob.                             *)

\* setInterval fires; `running' is false exactly when the worker is idle.
PollTick(w) ==
    /\ pc[w] = "idle"
    /\ pc' = [pc EXCEPT ![w] = "recover"]
    /\ taken' = [taken EXCEPT ![w] = 0]
    /\ UNCHANGED <<listing, job, token, outcome, request, enqueues, faults,
                   superseded, late, lapses>>

\* Mutant: a job whose attempts are used up is not recovered.
RecoverWithAttemptsLeft(l) ==
    /\ job[l].status = "RUNNING"
    /\ job[l].stale
    /\ job[l].attemptCount < MaxAttempts

\* The where clause of recoverStaleJobs: attemptCount plays no part.
Recoverable(l) == job[l].status = "RUNNING" /\ job[l].stale

RecoverStaleJobs(w) ==
    LET recovered == {l \in Listings : Recoverable(l)} IN
    /\ pc[w] = "recover"
    /\ pc' = [pc EXCEPT ![w] = "find"]
    /\ job' = [l \in Listings |->
                 IF l \in recovered
                   THEN [status |-> "PENDING", revision |-> job[l].revision + 1,
                         attemptCount |-> job[l].attemptCount,
                         due |-> TRUE, stale |-> FALSE]
                   ELSE job[l]]
    /\ superseded' = superseded \cup {v \in Workers :
                                        \E l \in recovered : v \in Claimants(l)}
    /\ UNCHANGED <<listing, token, taken, outcome, request, enqueues, faults,
                   late, lapses>>

\* Any due row may be the one with the earliest nextRunAt.
FindCandidate(w, l) ==
    /\ pc[w] = "find"
    /\ job[l].status = "PENDING"
    /\ job[l].due
    /\ pc' = [pc EXCEPT ![w] = "claim"]
    /\ token' = [token EXCEPT ![w] = [listing |-> l,
                                      revision |-> job[l].revision,
                                      attemptCount |-> 0]]
    /\ UNCHANGED <<listing, job, taken, outcome, request, enqueues, faults,
                   superseded, late, lapses>>

NothingDue(w) ==
    /\ pc[w] = "find"
    /\ \A l \in Listings : ~(job[l].status = "PENDING" /\ job[l].due)
    /\ pc' = [pc EXCEPT ![w] = "idle"]
    /\ UNCHANGED <<listing, job, token, taken, outcome, request, enqueues,
                   faults, superseded, late, lapses>>

\* Mutant: the claim does not look at the status.
ClaimableByRevision(w) == job[token[w].listing].revision = token[w].revision

\* updateMany where id, PENDING and the candidate's revision.
Claimable(w) ==
    LET l == token[w].listing IN
    /\ job[l].status = "PENDING"
    /\ job[l].revision = token[w].revision

Claim(w) ==
    /\ pc[w] = "claim"
    /\ Claimable(w)
    /\ pc' = [pc EXCEPT ![w] = "readback"]
    /\ job' = [job EXCEPT ![token[w].listing] =
                 [status |-> "RUNNING", revision |-> @.revision,
                  attemptCount |-> @.attemptCount + 1,
                  due |-> @.due, stale |-> FALSE]]
    /\ UNCHANGED <<listing, token, taken, outcome, request, enqueues, faults,
                   superseded, late, lapses>>

\* count = 0: claimNextJob returns null, which ends the poll.
ClaimLost(w) ==
    /\ pc[w] = "claim"
    /\ ~Claimable(w)
    /\ pc' = [pc EXCEPT ![w] = "idle"]
    /\ token' = [token EXCEPT ![w] = NoToken]
    /\ UNCHANGED <<listing, job, taken, outcome, request, enqueues, faults,
                   superseded, late, lapses>>

\* findUniqueOrThrow reads the row again: what it returns, and not what was
\* claimed, is the worker's claim from here on.
ReadBack(w) ==
    LET l == token[w].listing IN
    /\ pc[w] = "readback"
    /\ HasRow(l)
    /\ pc' = [pc EXCEPT ![w] = "run"]
    /\ token' = [token EXCEPT ![w] = [listing |-> l,
                                      revision |-> job[l].revision,
                                      attemptCount |-> job[l].attemptCount]]
    /\ taken' = [taken EXCEPT ![w] = @ + 1]
    /\ superseded' = superseded \ {w}
    /\ late' = IF w \in superseded THEN [late EXCEPT ![l] = @ + 1] ELSE late
    /\ UNCHANGED <<listing, job, outcome, request, enqueues, faults, lapses>>

\* The row is gone: the error leaves claimNextJob and poll, nothing awaits the
\* poll, and the unhandled rejection ends the process.
ReadBackThrows(w) ==
    /\ pc[w] = "readback"
    /\ ~HasRow(token[w].listing)
    /\ pc' = [pc EXCEPT ![w] = "down"]
    /\ token' = [token EXCEPT ![w] = NoToken]
    /\ superseded' = superseded \ {w}
    /\ UNCHANGED <<listing, job, taken, outcome, request, enqueues, faults,
                   late, lapses>>

\* runForListing returned or threw.
RunEnds(w, o) ==
    /\ pc[w] = "run"
    /\ pc' = [pc EXCEPT ![w] = "settle"]
    /\ outcome' = [outcome EXCEPT ![w] = o]
    /\ UNCHANGED <<listing, job, token, taken, request, enqueues, faults,
                   superseded, late, lapses>>

\* Mutant: a settling worker does not compare the revision.
OwnsRunningRow(w) == job[token[w].listing].status = "RUNNING"

\* The where clause of complete, fail and retry.
OwnsRow(w) ==
    LET l == token[w].listing IN
    /\ job[l].status = "RUNNING"
    /\ job[l].revision = token[w].revision

\* Mutant: one retry too many.
OneMoreRetry(w) == token[w].attemptCount <= MaxAttempts

RetriesLeft(w) == token[w].attemptCount < MaxAttempts

\* What complete, fail or retry makes of the row.
SettledRow(w, row) ==
    IF outcome[w] = "success"
      THEN [row EXCEPT !.status = "COMPLETED", !.due = TRUE, !.stale = FALSE]
    ELSE IF outcome[w] = "fatal" \/ ~RetriesLeft(w)
      THEN [row EXCEPT !.status = "FAILED", !.due = TRUE, !.stale = FALSE]
      ELSE [row EXCEPT !.status = "PENDING", !.due = FALSE, !.stale = FALSE]

Settle(w) ==
    LET l == token[w].listing IN
    /\ pc[w] = "settle"
    /\ job' = IF OwnsRow(w) THEN [job EXCEPT ![l] = SettledRow(w, @)] ELSE job
    /\ pc' = [pc EXCEPT ![w] = IF taken[w] < PollBudget THEN "recover"
                                                         ELSE "idle"]
    /\ token' = [token EXCEPT ![w] = NoToken]
    /\ outcome' = [outcome EXCEPT ![w] = "none"]
    /\ superseded' = superseded \ {w}
    /\ UNCHANGED <<listing, taken, request, enqueues, faults,
                   late, lapses>>

-----------------------------------------------------------------------------
(* Faults and the passing of time.                                         *)

Fault == /\ faults < MaxFaults
         /\ faults' = faults + 1

\* The statement of complete, fail or retry throws inside processJob's try
\* block: the catch block retries the job.
SettleThrows(w) ==
    /\ pc[w] = "settle"
    /\ outcome[w] # "exception"
    /\ Fault
    /\ outcome' = [outcome EXCEPT ![w] = "exception"]
    /\ UNCHANGED <<listing, job, pc, token, taken, request, enqueues,
                   superseded, late, lapses>>

\* The process dies, or a statement of claimNextJob or of the catch block
\* throws, which is an unhandled rejection of poll.
Crash(w) ==
    /\ pc[w] # "down"
    /\ Fault
    /\ pc' = [pc EXCEPT ![w] = "down"]
    /\ token' = [token EXCEPT ![w] = NoToken]
    /\ outcome' = [outcome EXCEPT ![w] = "none"]
    /\ superseded' = superseded \ {w}
    /\ lapses' = [l \in Listings |-> IF w \in Holders(l) THEN lapses[l] + 1
                                                         ELSE lapses[l]]
    /\ UNCHANGED <<listing, job, taken, request, enqueues, late>>

Restart(w) ==
    /\ pc[w] = "down"
    /\ pc' = [pc EXCEPT ![w] = "recover"]
    /\ taken' = [taken EXCEPT ![w] = 0]
    /\ UNCHANGED <<listing, job, token, outcome, request, enqueues, faults,
                   superseded, late, lapses>>

\* The backoff of a retried job is over.
BackoffElapses(l) ==
    /\ job[l].status = "PENDING"
    /\ ~job[l].due
    /\ job' = [job EXCEPT ![l].due = TRUE]
    /\ UNCHANGED <<listing, pc, token, taken, outcome, request, enqueues, faults,
                   superseded, late, lapses>>

Held(l) == \E w \in Claimants(l) : token[w].revision = job[l].revision

\* A RUNNING row was not updated for staleRunMs although a worker holds it.
RunOutlivesLease(l) ==
    /\ job[l].status = "RUNNING"
    /\ ~job[l].stale
    /\ Held(l)
    /\ Fault
    /\ job' = [job EXCEPT ![l].stale = TRUE]
    /\ lapses' = [lapses EXCEPT ![l] = @ + 1]
    /\ UNCHANGED <<listing, pc, token, taken, outcome, request, enqueues,
                   superseded, late>>

\* The same for a row whose worker is gone.
LeaseExpires(l) ==
    /\ job[l].status = "RUNNING"
    /\ ~job[l].stale
    /\ ~Held(l)
    /\ job' = [job EXCEPT ![l].stale = TRUE]
    /\ UNCHANGED <<listing, pc, token, taken, outcome, request, enqueues, faults,
                   superseded, late, lapses>>

\* The transaction of a request is rolled back or its process dies.
EnqueueAborts(r) ==
    /\ request[r].step # "idle"
    /\ request' = [request EXCEPT ![r] = NoRequest]
    /\ UNCHANGED <<listing, job, pc, token, taken, outcome, enqueues, faults,
                   superseded, late, lapses>>

-----------------------------------------------------------------------------
WorkerStep(w) ==
    \/ PollTick(w)
    \/ RecoverStaleJobs(w)
    \/ \E l \in Listings : FindCandidate(w, l)
    \/ NothingDue(w)
    \/ Claim(w)
    \/ ClaimLost(w)
    \/ ReadBack(w)
    \/ ReadBackThrows(w)
    \/ \E o \in Outcomes : RunEnds(w, o)
    \/ Settle(w)
    \/ Restart(w)

RequestStep(r) ==
    \/ \E l \in Listings, preserve \in BOOLEAN : EnqueueRead(r, l, preserve)
    \/ EnqueueCreate(r)
    \/ EnqueueUpdate(r)
    \/ EnqueueAborts(r)

ListingStep(l) ==
    \/ CreateListing(l)
    \/ DeleteListing(l)
    \/ BackoffElapses(l)
    \/ RunOutlivesLease(l)
    \/ LeaseExpires(l)

WorkerFault(w) == SettleThrows(w) \/ Crash(w)

Next ==
    \/ \E w \in Workers : WorkerStep(w) \/ WorkerFault(w)
    \/ \E r \in Requests : RequestStep(r)
    \/ \E l \in Listings : ListingStep(l)

Spec == Init /\ [][Next]_queueVars

\* The event loop runs the worker's continuations, the interval timer and a
\* supervisor's restart happen, and time passes.
Fairness ==
    /\ \A w \in Workers : WF_queueVars(WorkerStep(w))
    /\ \A l \in Listings : WF_queueVars(BackoffElapses(l) \/ LeaseExpires(l))

FairSpec == Spec /\ Fairness

-----------------------------------------------------------------------------
(* Properties.                                                             *)

\* Every variable keeps its type, and a row exists only while its listing does.
TypeOK ==
    /\ listing \in [Listings -> {"new", "live", "deleted"}]
    /\ job \in [Listings -> Rows]
    /\ pc \in [Workers -> WorkerSteps]
    /\ token \in [Workers -> Tokens]
    /\ taken \in [Workers -> 0..PollBudget]
    /\ outcome \in [Workers -> Outcomes \cup {"none"}]
    /\ request \in [Requests -> [step : {"idle", "create", "update"},
                                 listing : Listings \cup {NoListing}]]
    /\ enqueues \in 0..MaxEnqueues
    /\ faults \in 0..MaxFaults
    /\ superseded \subseteq Workers
    /\ late \in [Listings -> Nat]
    /\ lapses \in [Listings -> Nat]
    /\ \A l \in Listings : HasRow(l) => listing[l] = "live"

\* The version of the row of l that worker w holds, if any.
WorkOf(w) ==
    IF pc[w] \in {"readback", "run", "settle"}
      THEN [stage |-> IF pc[w] = "readback" THEN "claimed" ELSE "confirmed",
            listing |-> token[w].listing, version |-> token[w].revision]
      ELSE [stage |-> "none", listing |-> NoListing, version |-> 0]

PhaseOf(l) == IF listing[l] = "deleted" THEN "REMOVED" ELSE job[l].status

Lifecycle == INSTANCE JobLifecycle WITH
    phase <- [l \in Listings |-> PhaseOf(l)],
    version <- [l \in Listings |-> job[l].revision],
    work <- [w \in Workers |-> WorkOf(w)]

\* Statements, faults and lost races together are a job life cycle: a version
\* is claimed only while it waits, and its status is settled only by a worker
\* that has read this very version.
LifecycleIsImplemented == Lifecycle!LifecycleSpec

\* `revision' fences a stale worker off (docs/AI_MODERATION.md:106): once a row
\* has been queued again, recovered or deleted, the worker that read it before
\* can no longer settle it, whatever the workflow's outcome was.
StaleResultsDiscarded ==
    [][\A w \in Workers :
         pc[w] = "settle" /\ pc'[w] # "settle" /\ job' # job
            => w \notin superseded]_queueVars

\* One worker holds the current version of a listing's row, and one more for
\* each claim of this listing that was read back later than its row was queued
\* again (the two statements at the end of claimNextJob are not atomic).
ClaimsExclusive == \A l \in Listings : Cardinality(Holders(l)) <= 1 + late[l]

\* maxAttempts bounds the attempts made for one enqueue of a listing, but for
\* two things that happen to this very enqueue, each of which costs one attempt
\* more at most: its worker crashes or outlives its lease, which
\* recoverStaleJobs repairs without looking at attemptCount, or a claim is read
\* back late, so that a second worker holds the row.
AttemptsBounded ==
    \A l \in Listings :
      job[l].attemptCount <= MaxAttempts + lapses[l] + late[l]

\* A queued or claimed job reaches COMPLETED or FAILED, or its listing is
\* deleted: neither a lost claim, nor a crash of the worker that holds it,
\* nor a retry leaves it behind.
JobsSettle ==
    \A l \in Listings :
        job[l].status \in {"PENDING", "RUNNING"} ~>
            job[l].status \in {"COMPLETED", "FAILED", "NONE"}
=============================================================================

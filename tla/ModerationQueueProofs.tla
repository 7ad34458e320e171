------------------------ MODULE ModerationQueueProofs ------------------------
(***************************************************************************)
(* Proofs about ModerationQueue for every set of listings, workers and     *)
(* requests and every value of the bounds.                                 *)
(*                                                                         *)
(* Three inductive invariants, each proved with the ones before it:        *)
(*   TypeInv     the types, and what a worker's step says of its record;   *)
(*   FenceInv    how the revision a worker holds compares with the row's;  *)
(*   ClaimInv    how many workers hold a row, and what has paid for the    *)
(*               attempts that it had and that are still to come.          *)
(***************************************************************************)
EXTENDS ModerationQueue, FiniteSetTheorems, TLAPS

Active == {"readback", "run", "settle"}

\* A worker that looks at a row knows which one, and has budget left while it
\* is claiming.
TypeInv ==
    /\ TypeOK
    /\ \A w \in Workers :
         /\ pc[w] \in Active \cup {"claim"} => token[w].listing \in Listings
         /\ pc[w] \in {"recover", "find", "claim", "readback"}
              => taken[w] < PollBudget

\* A worker never holds a revision that the row has not reached, a superseded
\* one holds an older revision, and a row that a worker has seen disappears only
\* with its listing.
Fence(w) ==
    LET l == token[w].listing IN
    pc[w] \in Active \cup {"claim"} =>
      /\ ~HasRow(l) => listing[l] = "deleted"
      /\ HasRow(l) =>
           /\ token[w].revision <= job[l].revision
           /\ w \in superseded => token[w].revision < job[l].revision

FenceInv ==
    /\ \A w \in superseded : pc[w] \in Active
    /\ \A w \in Workers : Fence(w)

Holds(w) == pc[w] \in Active /\ w \notin superseded

\* A worker that holds a row holds it at the row's revision.
HoldsCurrent(w) ==
    Holds(w) => /\ HasRow(token[w].listing)
                /\ token[w].revision = job[token[w].listing].revision

\* The holders that can send the row back for another attempt.
Retrying(l) == {w \in Holders(l) : /\ pc[w] # "readback"
                                   /\ token[w].attemptCount < MaxAttempts}

\* A RUNNING row has one holder, any row one more for each late read-back.
HoldersPaid(l) ==
    /\ IsFiniteSet(Holders(l))
    /\ Cardinality(Holders(l)) <= late[l] + (IF job[l].status = "RUNNING" THEN 1 ELSE 0)

\* The attempt that is to come without a retry: by a claim of the row, or by
\* the recovery and a claim.
Waiting(l) ==
    IF \/ job[l].status = "PENDING"
       \/ job[l].status = "RUNNING" /\ (job[l].stale \/ Holders(l) = {})
      THEN 1 ELSE 0

\* Once the row has used its attempts up, what it has used and all that is still
\* to come are paid for.
AttemptsPaid(l) ==
    job[l].attemptCount >= MaxAttempts =>
      job[l].attemptCount + Cardinality(Retrying(l)) + Waiting(l)
        <= MaxAttempts + lapses[l] + late[l]

ClaimInv ==
    /\ \A w \in Workers : HoldsCurrent(w)
    /\ \A l \in Listings : HoldersPaid(l) /\ AttemptsPaid(l)

-----------------------------------------------------------------------------
(* The types.                                                              *)

LEMMA InitTypeInv == Init => TypeInv
<1> SUFFICES ASSUME Init PROVE TypeInv
    OBVIOUS
<1>1. NoRow \in Rows /\ NoToken \in Tokens
  BY DEF NoRow, Rows, NoToken, Tokens, Statuses
<1>2. 0 \in 0..PollBudget /\ 0 \in 0..MaxEnqueues /\ 0 \in 0..MaxFaults
  BY BoundsAssumption
<1>3. TypeOK
  BY <1>1, <1>2
     DEF Init, TypeOK, Outcomes, WorkerSteps, HasRow, NoRow, NoRequest
<1>4. QED
  BY <1>3, BoundsAssumption DEF Init, TypeInv, Active

LEMMA NextTypeInv == TypeInv /\ [Next]_queueVars => TypeInv'
<1> SUFFICES ASSUME TypeInv, [Next]_queueVars PROVE TypeInv'
    OBVIOUS
<1> USE NoListingAssumption, BoundsAssumption
    DEF TypeInv, TypeOK, Active, Rows, Tokens, NoRow, NoToken, NoRequest,
        Statuses, Outcomes, WorkerSteps, HasRow, Claimants, ForgetLapses
<1>1. ASSUME NEW l \in Listings, CreateListing(l) PROVE TypeInv'
  BY <1>1 DEF CreateListing
<1>2. ASSUME NEW l \in Listings, DeleteListing(l) PROVE TypeInv'
  BY <1>2 DEF DeleteListing
<1>3. ASSUME NEW r \in Requests, NEW l \in Listings, NEW p \in BOOLEAN,
             EnqueueRead(r, l, p)
      PROVE TypeInv'
  BY <1>3 DEF EnqueueRead
<1>4. ASSUME NEW r \in Requests, EnqueueCreate(r) PROVE TypeInv'
  BY <1>4 DEF EnqueueCreate
<1>5. ASSUME NEW r \in Requests, EnqueueUpdate(r) PROVE TypeInv'
  <2> DEFINE l == request[r].listing
             row == [status |-> "PENDING", revision |-> job[l].revision + 1,
                     attemptCount |-> 0, due |-> TRUE, stale |-> FALSE]
  <2>a. HasRow(l) =>
          /\ job' = [job EXCEPT ![l] = row]
          /\ late' = [late EXCEPT ![l] = 0] /\ lapses' = [lapses EXCEPT ![l] = 0]
          /\ superseded' = superseded \cup Claimants(l)
          /\ request' = [request EXCEPT ![r] = NoRequest]
          /\ UNCHANGED <<listing, pc, token, taken, outcome, enqueues, faults>>
    <3> HIDE DEF TypeInv, TypeOK, Rows, Tokens, Claimants, NoRequest
    <3>1. QED
      BY <1>5 DEF EnqueueUpdate
  <2>1. CASE HasRow(l) /\ l \in Listings
    <3>1. row \in Rows
      BY <2>1
    <3>2. job' = [job EXCEPT ![l] = row]
      BY <2>1, <2>a
    <3>3. job' \in [Listings -> Rows] /\ \A m \in Listings : HasRow(m)' => HasRow(m)
      BY <2>1, <3>1, <3>2
    <3>4. late' \in [Listings -> Nat] /\ lapses' \in [Listings -> Nat]
      BY <2>1, <2>a
    <3> HIDE DEF row, Rows, Tokens
    <3>5. QED
      BY <2>1, <2>a, <3>3, <3>4
  <2>2. CASE HasRow(l) /\ l \notin Listings
    <3>1. job' \in [Listings -> Rows] /\ \A m \in Listings : HasRow(m)' => HasRow(m)
      <4>1. job' = [job EXCEPT ![l] = row]
        BY <2>2, <2>a
      <4> HIDE DEF row, Rows
      <4>2. QED
        BY <2>2, <4>1
    <3>2. late' \in [Listings -> Nat] /\ lapses' \in [Listings -> Nat]
      BY <2>2, <2>a
    <3> HIDE DEF Rows, Tokens
    <3>3. QED
      BY <2>2, <2>a, <3>1, <3>2
  <2>3. CASE ~HasRow(l)
    BY <1>5, <2>3 DEF EnqueueUpdate
  <2>4. QED
    BY <2>1, <2>2, <2>3
<1>6. ASSUME NEW r \in Requests, EnqueueAborts(r) PROVE TypeInv'
  BY <1>6 DEF EnqueueAborts
<1>7. ASSUME NEW w \in Workers, PollTick(w) PROVE TypeInv'
  BY <1>7 DEF PollTick
<1>8. ASSUME NEW w \in Workers, RecoverStaleJobs(w) PROVE TypeInv'
  BY <1>8 DEF RecoverStaleJobs, Recoverable
<1>9. ASSUME NEW w \in Workers, NEW l \in Listings, FindCandidate(w, l)
      PROVE TypeInv'
  BY <1>9 DEF FindCandidate
<1>10. ASSUME NEW w \in Workers, NothingDue(w) PROVE TypeInv'
  BY <1>10 DEF NothingDue
<1>11. ASSUME NEW w \in Workers, Claim(w) PROVE TypeInv'
  <2> DEFINE l == token[w].listing
             row == [status |-> "RUNNING", revision |-> job[l].revision,
                     attemptCount |-> job[l].attemptCount + 1,
                     due |-> job[l].due, stale |-> FALSE]
  <2>1. l \in Listings /\ job[l] \in Rows
    BY <1>11 DEF Claim
  <2>2. row \in Rows /\ row.status = "RUNNING"
    BY <2>1
  <2>3. job' = [job EXCEPT ![l] = row] /\ HasRow(l)
    BY <1>11 DEF Claim, Claimable
  <2>4. job' \in [Listings -> Rows] /\ \A m \in Listings : HasRow(m)' => HasRow(m)
    BY <2>1, <2>2, <2>3
  <2>5. QED
    BY <1>11, <2>4 DEF Claim
<1>12. ASSUME NEW w \in Workers, ClaimLost(w) PROVE TypeInv'
  BY <1>12 DEF ClaimLost
<1>13. ASSUME NEW w \in Workers, ReadBack(w) PROVE TypeInv'
  BY <1>13 DEF ReadBack
<1>14. ASSUME NEW w \in Workers, ReadBackThrows(w) PROVE TypeInv'
  BY <1>14 DEF ReadBackThrows
<1>15. ASSUME NEW w \in Workers, NEW o \in Outcomes, RunEnds(w, o)
       PROVE TypeInv'
  BY <1>15 DEF RunEnds
<1>16. ASSUME NEW w \in Workers, Settle(w) PROVE TypeInv'
  <2> DEFINE l == token[w].listing
  <2>1. l \in Listings /\ job[l] \in Rows
    BY <1>16 DEF Settle
  <2>2. SettledRow(w, job[l]) \in Rows
    BY <2>1 DEF SettledRow
  <2>3. job' = IF OwnsRow(w) THEN [job EXCEPT ![l] = SettledRow(w, job[l])]
                             ELSE job
    BY <1>16 DEF Settle
  <2>4. OwnsRow(w) => HasRow(l)
    BY DEF OwnsRow
  <2>5. job' \in [Listings -> Rows] /\ \A m \in Listings : HasRow(m)' => HasRow(m)
    BY <2>1, <2>2, <2>3, <2>4
  <2>6. QED
    BY <1>16, <2>5 DEF Settle
<1>17. ASSUME NEW w \in Workers, Restart(w) PROVE TypeInv'
  BY <1>17 DEF Restart
<1>18. ASSUME NEW w \in Workers, WorkerFault(w) PROVE TypeInv'
  <2>1. faults' \in 0..MaxFaults
    BY <1>18 DEF WorkerFault, SettleThrows, Crash, Fault
  <2>2. CASE SettleThrows(w)
    BY <2>1, <2>2 DEF SettleThrows
  <2>3. CASE Crash(w)
    BY <2>1, <2>3 DEF Crash
  <2>4. QED
    BY <1>18, <2>2, <2>3 DEF WorkerFault
<1>19. ASSUME NEW l \in Listings,
              BackoffElapses(l) \/ RunOutlivesLease(l) \/ LeaseExpires(l)
       PROVE TypeInv'
  <2>1. faults' \in 0..MaxFaults
    BY <1>19 DEF BackoffElapses, RunOutlivesLease, LeaseExpires, Fault
  <2>2. job' \in [Listings -> Rows] /\ \A m \in Listings : HasRow(m)' => HasRow(m)
    <3>1. job[l] \in Rows
      OBVIOUS
    <3>2. [job[l] EXCEPT !.due = TRUE] \in Rows
          /\ [job[l] EXCEPT !.stale = TRUE] \in Rows
      BY <3>1
    <3>3. HasRow(l)
      BY <1>19 DEF BackoffElapses, RunOutlivesLease, LeaseExpires
    <3>4. PICK row \in Rows : job' = [job EXCEPT ![l] = row]
      BY <1>19, <3>2 DEF BackoffElapses, RunOutlivesLease, LeaseExpires
    <3>5. QED
      BY <3>3, <3>4
  <2>3. lapses' \in [Listings -> Nat]
    BY <1>19 DEF BackoffElapses, RunOutlivesLease, LeaseExpires
  <2>4. UNCHANGED <<listing, pc, token, taken, outcome, request, enqueues,
                    superseded, late>>
    BY <1>19 DEF BackoffElapses, RunOutlivesLease, LeaseExpires
  <2> HIDE DEF Rows, Tokens
  <2>5. QED
    BY <2>1, <2>2, <2>3, <2>4
<1>20. CASE UNCHANGED queueVars
  BY <1>20 DEF queueVars
<1>21. QED
  BY <1>1, <1>2, <1>3, <1>4, <1>5, <1>6, <1>7, <1>8, <1>9, <1>10, <1>11, <1>12,
     <1>13, <1>14, <1>15, <1>16, <1>17, <1>18, <1>19, <1>20
     DEF Next, WorkerStep, RequestStep, ListingStep

\* Every variable keeps its type and a job row never outlives its listing.
THEOREM TypeCorrect == Spec => []TypeOK
<1>1. TypeInv => TypeOK
  BY DEF TypeInv
<1>2. QED
  BY <1>1, InitTypeInv, NextTypeInv, PTL DEF Spec

-----------------------------------------------------------------------------
(* The fence.                                                              *)

LEMMA InitFenceInv == Init => FenceInv
BY DEF Init, FenceInv, Fence, Active

\* A step that neither changes a revision nor lets a worker look at another row
\* keeps the fence.
LEMMA FenceFrame ==
    /\ TypeInv /\ FenceInv
    /\ listing' = listing
    /\ \A m \in Listings :
          /\ (job'[m].status = "NONE") <=> (job[m].status = "NONE")
          /\ job'[m].revision = job[m].revision
    /\ \A w \in Workers : pc'[w] \in Active \cup {"claim"} =>
                            /\ pc[w] \in Active \cup {"claim"}
                            /\ token'[w] = token[w]
    /\ superseded' \subseteq superseded
    /\ \A w \in superseded' : pc'[w] \in Active
    => FenceInv'
<1> SUFFICES ASSUME TypeInv, FenceInv, listing' = listing,
                    \A m \in Listings :
                       /\ (job'[m].status = "NONE") <=> (job[m].status = "NONE")
                       /\ job'[m].revision = job[m].revision,
                    superseded' \subseteq superseded,
                    \A w \in superseded' : pc'[w] \in Active,
                    NEW w \in Workers,
                    pc'[w] \in Active \cup {"claim"},
                    pc[w] \in Active \cup {"claim"},
                    token'[w] = token[w]
             PROVE  Fence(w)'
    BY DEF FenceInv, Fence
<1>1. token[w].listing \in Listings
  BY DEF TypeInv
<1>2. Fence(w)
  BY DEF FenceInv
<1>3. QED
  BY <1>1, <1>2 DEF Fence, HasRow

LEMMA NextFenceInv == TypeInv /\ FenceInv /\ [Next]_queueVars => FenceInv'
<1> SUFFICES ASSUME TypeInv, FenceInv, [Next]_queueVars PROVE FenceInv'
    OBVIOUS
<1> USE NoListingAssumption
    DEF TypeInv, TypeOK, FenceInv, Fence, Active, Rows, Tokens, NoRow,
        NoToken, WorkerSteps, HasRow, Claimants
<1>1. ASSUME NEW l \in Listings, CreateListing(l) PROVE FenceInv'
  BY <1>1 DEF CreateListing
<1>2. ASSUME NEW l \in Listings, DeleteListing(l) PROVE FenceInv'
  BY <1>2 DEF DeleteListing
<1>3. ASSUME NEW r \in Requests, NEW l \in Listings, NEW p \in BOOLEAN,
             EnqueueRead(r, l, p)
      PROVE FenceInv'
  BY <1>3 DEF EnqueueRead
<1>4. ASSUME NEW r \in Requests, EnqueueCreate(r) PROVE FenceInv'
  BY <1>4 DEF EnqueueCreate
<1>5. ASSUME NEW r \in Requests, EnqueueUpdate(r) PROVE FenceInv'
  BY <1>5 DEF EnqueueUpdate
<1>6. ASSUME NEW r \in Requests, EnqueueAborts(r) PROVE FenceInv'
  BY <1>6 DEF EnqueueAborts
<1>7. ASSUME NEW w \in Workers, PollTick(w) PROVE FenceInv'
  BY <1>7 DEF PollTick
<1>8. ASSUME NEW w \in Workers, RecoverStaleJobs(w) PROVE FenceInv'
  BY <1>8 DEF RecoverStaleJobs, Recoverable
<1>9. ASSUME NEW w \in Workers, NEW l \in Listings, FindCandidate(w, l)
      PROVE FenceInv'
  BY <1>9 DEF FindCandidate
<1>10. ASSUME NEW w \in Workers, NothingDue(w) PROVE FenceInv'
  BY <1>10 DEF NothingDue
<1>11. ASSUME NEW w \in Workers, Claim(w) PROVE FenceInv'
  BY <1>11 DEF Claim, Claimable
<1>12. ASSUME NEW w \in Workers, ClaimLost(w) PROVE FenceInv'
  BY <1>12 DEF ClaimLost
<1>13. ASSUME NEW w \in Workers, ReadBack(w) PROVE FenceInv'
  BY <1>13 DEF ReadBack
<1>14. ASSUME NEW w \in Workers, ReadBackThrows(w) PROVE FenceInv'
  BY <1>14 DEF ReadBackThrows
<1>15. ASSUME NEW w \in Workers, NEW o \in Outcomes, RunEnds(w, o)
       PROVE FenceInv'
  BY <1>15 DEF RunEnds
<1>16. ASSUME NEW w \in Workers, Settle(w) PROVE FenceInv'
  <2> DEFINE l == token[w].listing
  <2>1. l \in Listings /\ job[l] \in Rows
    BY <1>16 DEF Settle
  <2>2. /\ SettledRow(w, job[l]).revision = job[l].revision
        /\ SettledRow(w, job[l]).status # "NONE"
    BY <2>1 DEF SettledRow
  <2>3. \A m \in Listings :
           /\ (job'[m].status = "NONE") <=> (job[m].status = "NONE")
           /\ job'[m].revision = job[m].revision
    BY <1>16, <2>1, <2>2 DEF Settle, OwnsRow
  <2>4. /\ listing' = listing
        /\ superseded' = superseded \ {w}
        /\ \A v \in Workers :
             pc'[v] \in Active \cup {"claim"} =>
               v # w /\ pc'[v] = pc[v] /\ token'[v] = token[v]
        /\ \A v \in Workers : v # w => pc'[v] = pc[v]
    BY <1>16 DEF Settle
  <2>5. \A v \in superseded' : pc'[v] \in Active
    BY <2>4
  <2> HIDE DEF TypeInv, TypeOK, FenceInv, Fence, Rows, Tokens, HasRow
  <2>6. QED
    BY <2>3, <2>4, <2>5, FenceFrame
<1>17. ASSUME NEW w \in Workers, Restart(w) PROVE FenceInv'
  BY <1>17 DEF Restart
<1>18. ASSUME NEW w \in Workers, WorkerFault(w) PROVE FenceInv'
  BY <1>18 DEF WorkerFault, SettleThrows, Crash
<1>19. ASSUME NEW l \in Listings,
              BackoffElapses(l) \/ RunOutlivesLease(l) \/ LeaseExpires(l)
       PROVE FenceInv'
  <2>1. PICK row : /\ job' = [job EXCEPT ![l] = row]
                   /\ row.revision = job[l].revision
                   /\ row.status = job[l].status
    BY <1>19 DEF BackoffElapses, RunOutlivesLease, LeaseExpires
  <2>2. \A m \in Listings :
           /\ (job'[m].status = "NONE") <=> (job[m].status = "NONE")
           /\ job'[m].revision = job[m].revision
    BY <2>1
  <2>3. UNCHANGED <<listing, pc, token, superseded>>
    BY <1>19 DEF BackoffElapses, RunOutlivesLease, LeaseExpires
  <2>4. \A v \in superseded' : pc'[v] \in Active
    BY <2>3
  <2> HIDE DEF TypeInv, TypeOK, FenceInv, Fence, Rows, Tokens, HasRow
  <2>5. QED
    BY <2>2, <2>3, <2>4, FenceFrame
<1>20. CASE UNCHANGED queueVars
  BY <1>20 DEF queueVars
<1>21. QED
  BY <1>1, <1>2, <1>3, <1>4, <1>5, <1>6, <1>7, <1>8, <1>9, <1>10, <1>11, <1>12,
     <1>13, <1>14, <1>15, <1>16, <1>17, <1>18, <1>19, <1>20
     DEF Next, WorkerStep, RequestStep, ListingStep

\* In a state where the invariants hold, only a worker that is not superseded
\* changes a row by settling.
LEMMA SettleFenced ==
    TypeInv /\ FenceInv /\ [Next]_queueVars =>
      \A w \in Workers :
        pc[w] = "settle" /\ pc'[w] # "settle" /\ job' # job
          => w \notin superseded
<1> SUFFICES ASSUME TypeInv, FenceInv, [Next]_queueVars,
                    NEW w \in Workers,
                    pc[w] = "settle", pc'[w] # "settle", job' # job
             PROVE  w \notin superseded
    OBVIOUS
<1>1. Settle(w)
  <2> USE DEF TypeInv, TypeOK
  <2>1. PICK v \in Workers : WorkerStep(v) \/ WorkerFault(v)
    BY DEF Next, RequestStep, ListingStep, queueVars, CreateListing,
           DeleteListing, EnqueueRead, EnqueueCreate, EnqueueUpdate,
           EnqueueAborts, BackoffElapses, RunOutlivesLease, LeaseExpires
  <2>2. ~WorkerFault(v)
    BY DEF WorkerFault, SettleThrows, Crash
  <2>3. v = w
    BY <2>1, <2>2
       DEF WorkerStep, PollTick, RecoverStaleJobs, FindCandidate, NothingDue,
           Claim, ClaimLost, ReadBack, ReadBackThrows, RunEnds, Settle, Restart
  <2>4. QED
    BY <2>1, <2>2, <2>3
       DEF WorkerStep, PollTick, RecoverStaleJobs, FindCandidate, NothingDue,
           Claim, ClaimLost, ReadBack, ReadBackThrows, RunEnds, Restart
<1>2. OwnsRow(w)
  BY <1>1 DEF Settle
<1>3. QED
  BY <1>1, <1>2 DEF OwnsRow, TypeInv, TypeOK, FenceInv, Fence, Active, Rows, Tokens, HasRow

\* A worker whose row was queued again, recovered or deleted since it read its
\* claim never settles the row: `revision' fences it off.
THEOREM StaleWorkersAreFenced == Spec => StaleResultsDiscarded
<1>1. Spec => [](TypeInv /\ FenceInv)
  BY InitTypeInv, NextTypeInv, InitFenceInv, NextFenceInv, PTL DEF Spec
<1>2. QED
  BY <1>1, SettleFenced, PTL DEF Spec, StaleResultsDiscarded

-----------------------------------------------------------------------------
(* Exclusive claims and bounded attempts.                                  *)

LEMMA CardSubset ==
    ASSUME NEW T, IsFiniteSet(T), NEW S, S \subseteq T
    PROVE  /\ IsFiniteSet(S)
           /\ Cardinality(S) \in Nat /\ Cardinality(T) \in Nat
           /\ Cardinality(S) <= Cardinality(T)
BY FS_Subset, FS_CardinalityType

LEMMA CardAdd ==
    ASSUME NEW T, IsFiniteSet(T), NEW x, NEW S, S \subseteq T \cup {x}
    PROVE  /\ IsFiniteSet(S)
           /\ Cardinality(S) \in Nat /\ Cardinality(T) \in Nat
           /\ Cardinality(S) <= Cardinality(T) + 1
<1>1. /\ IsFiniteSet(T \cup {x})
      /\ \/ Cardinality(T \cup {x}) = Cardinality(T)
         \/ Cardinality(T \cup {x}) = Cardinality(T) + 1
  BY FS_AddElement
<1>2. QED
  BY <1>1, CardSubset, FS_CardinalityType

LEMMA CardDrop ==
    ASSUME NEW T, IsFiniteSet(T), NEW x \in T, NEW S, S \subseteq T \ {x}
    PROVE  /\ IsFiniteSet(S)
           /\ Cardinality(S) \in Nat /\ Cardinality(T) \in Nat
           /\ Cardinality(S) <= Cardinality(T) - 1
<1>1. IsFiniteSet(T \ {x}) /\ Cardinality(T \ {x}) = Cardinality(T) - 1
  BY FS_RemoveElement
<1>2. QED
  BY <1>1, CardSubset, FS_CardinalityType

\* What the arithmetic below needs to know of a listing.
LEMMA ClaimTypes ==
    ASSUME TypeInv, NEW l \in Listings
    PROVE  /\ MaxAttempts \in Nat \ {0}
           /\ job[l].attemptCount \in Nat
           /\ late[l] \in Nat /\ lapses[l] \in Nat
           /\ Waiting(l) \in {0, 1}
           /\ Retrying(l) \subseteq Holders(l)
BY BoundsAssumption DEF TypeInv, TypeOK, Rows, Waiting, Retrying

\* A listing of which only fewer workers hold the row, or which has no more to
\* come than it had and than what has lapsed meanwhile.
LEMMA StaysPaid ==
    ASSUME TypeInv, TypeInv', NEW l \in Listings, HoldersPaid(l), AttemptsPaid(l),
           Holders(l)' \subseteq Holders(l),
           job[l].attemptCount >= MaxAttempts => Retrying(l)' \subseteq Retrying(l),
           job'[l].attemptCount = job[l].attemptCount,
           job[l].status = "RUNNING" => job'[l].status = "RUNNING",
           late'[l] = late[l],
           lapses'[l] >= lapses[l],
           Waiting(l)' <= Waiting(l) + (lapses'[l] - lapses[l])
    PROVE  HoldersPaid(l)' /\ AttemptsPaid(l)'
<1>1. /\ MaxAttempts \in Nat /\ job[l].attemptCount \in Nat
      /\ late[l] \in Nat /\ lapses[l] \in Nat /\ lapses'[l] \in Nat
      /\ Waiting(l) \in {0, 1} /\ Waiting(l)' \in {0, 1}
      /\ Retrying(l) \subseteq Holders(l)
  BY ClaimTypes DEF TypeInv, TypeOK, Waiting
<1>2. /\ IsFiniteSet(Holders(l)')
      /\ Cardinality(Holders(l)') \in Nat /\ Cardinality(Holders(l)) \in Nat
      /\ Cardinality(Holders(l)') <= Cardinality(Holders(l))
  BY CardSubset DEF HoldersPaid
<1>3. HoldersPaid(l)'
  BY <1>1, <1>2 DEF HoldersPaid
<1>4. ASSUME job'[l].attemptCount >= MaxAttempts
      PROVE  job'[l].attemptCount + Cardinality(Retrying(l)') + Waiting(l)'
               <= MaxAttempts + lapses'[l] + late'[l]
  <2>1. IsFiniteSet(Retrying(l))
    BY <1>1, CardSubset DEF HoldersPaid
  <2>2. /\ Cardinality(Retrying(l)') \in Nat /\ Cardinality(Retrying(l)) \in Nat
        /\ Cardinality(Retrying(l)') <= Cardinality(Retrying(l))
    BY <1>4, <2>1, CardSubset
  <2>3. job[l].attemptCount + Cardinality(Retrying(l)) + Waiting(l)
          <= MaxAttempts + lapses[l] + late[l]
    BY <1>4 DEF AttemptsPaid
  <2>4. QED
    BY <1>1, <2>2, <2>3
<1>5. QED
  BY <1>3, <1>4 DEF AttemptsPaid

\* A listing nothing happens to: the same workers hold the same row.
LEMMA UntouchedStaysPaid ==
    ASSUME TypeInv, TypeInv', NEW l \in Listings, HoldersPaid(l), AttemptsPaid(l),
           job'[l].attemptCount = job[l].attemptCount,
           job'[l].status = job[l].status,
           job'[l].stale = job[l].stale,
           late'[l] = late[l], lapses'[l] = lapses[l],
           \A w \in Workers :
             /\ Holds(w)' /\ token'[w].listing = l <=> Holds(w) /\ token[w].listing = l
             /\ Holds(w)' /\ token'[w].listing = l =>
                  /\ token'[w].attemptCount = token[w].attemptCount
                  /\ pc[w] = "readback" => pc'[w] = "readback"
    PROVE  HoldersPaid(l)' /\ AttemptsPaid(l)'
<1>1. Holders(l)' = Holders(l)
  BY DEF Holders, Claimants, Holds, Active
<1>2. Retrying(l)' \subseteq Retrying(l)
  BY <1>1 DEF Retrying, Holders, Claimants, Holds, Active
<1>3. Waiting(l)' = Waiting(l)
  BY <1>1 DEF Waiting
<1>4. lapses[l] \in Nat /\ Waiting(l) \in {0, 1}
  BY ClaimTypes
<1>5. QED
  BY <1>1, <1>2, <1>3, <1>4, StaysPaid

\* A listing whose row is new: nobody holds it and no attempt was made.
LEMMA FreshIsPaid ==
    ASSUME TypeInv', NEW l \in Listings, Holders(l)' = {},
           job'[l].attemptCount = 0
    PROVE  HoldersPaid(l)' /\ AttemptsPaid(l)'
<1>1. MaxAttempts \in Nat \ {0} /\ late'[l] \in Nat
  BY BoundsAssumption DEF TypeInv, TypeOK
<1>2. IsFiniteSet(Holders(l)') /\ Cardinality(Holders(l)') = 0
  BY FS_EmptySet
<1>3. QED
  BY <1>1, <1>2 DEF HoldersPaid, AttemptsPaid

\* A worker that goes on holding the row it held.
LEMMA StaysCurrent ==
    ASSUME ClaimInv, NEW w \in Workers, Holds(w), NEW l \in Listings,
           l = token[w].listing, token'[w] = token[w],
           job'[l].revision = job[l].revision,
           job[l].status # "NONE" => job'[l].status # "NONE"
    PROVE  HoldsCurrent(w)'
<1>1. HoldsCurrent(w)
  BY DEF ClaimInv
<1>2. QED
  BY <1>1 DEF HoldsCurrent, HasRow

\* A step that changes neither a claim nor what it is a claim of.
LEMMA ClaimFrame ==
    ASSUME TypeInv, TypeInv', ClaimInv,
           late' = late, lapses' = lapses,
           \A m \in Listings : /\ job'[m].status = job[m].status
                               /\ job'[m].revision = job[m].revision
                               /\ job'[m].attemptCount = job[m].attemptCount
                               /\ job'[m].stale = job[m].stale,
           \A w \in Workers :
             /\ Holds(w)' <=> Holds(w)
             /\ Holds(w) => /\ token'[w] = token[w]
                            /\ pc[w] = "readback" => pc'[w] = "readback"
    PROVE  ClaimInv'
<1>1. \A w \in Workers : HoldsCurrent(w)'
  <2>1. \A w \in Workers : Holds(w) => token[w].listing \in Listings
    BY DEF TypeInv, Holds
  <2>2. QED
    BY <2>1 DEF ClaimInv, HoldsCurrent, HasRow
<1>2. ASSUME NEW l \in Listings PROVE HoldersPaid(l)' /\ AttemptsPaid(l)'
  BY UntouchedStaysPaid DEF ClaimInv
<1>3. QED
  BY <1>1, <1>2 DEF ClaimInv

LEMMA InitClaimInv == Init => ClaimInv
<1> SUFFICES ASSUME Init PROVE ClaimInv
    OBVIOUS
<1>1. \A w \in Workers : HoldsCurrent(w)
  BY DEF Init, HoldsCurrent, Holds, Active
<1>2. ASSUME NEW l \in Listings PROVE HoldersPaid(l) /\ AttemptsPaid(l)
  <2>1. Holders(l) = {}
    BY DEF Init, Holders, Claimants
  <2>2. IsFiniteSet(Holders(l)) /\ Cardinality(Holders(l)) = 0
    BY <2>1, FS_EmptySet
  <2>3. /\ job[l].attemptCount = 0 /\ job[l].status = "NONE" /\ late[l] = 0
        /\ ~(0 >= MaxAttempts)
    BY BoundsAssumption DEF Init, NoRow
  <2>4. QED
    BY <2>2, <2>3 DEF HoldersPaid, AttemptsPaid
<1>3. QED
  BY <1>1, <1>2 DEF ClaimInv

\* The steps that touch no claim.
LEMMA QuietClaimInv ==
    ASSUME TypeInv, TypeInv', FenceInv, ClaimInv,
           \/ UNCHANGED queueVars
           \/ \E r \in Requests : \/ EnqueueAborts(r)
                                  \/ \E l \in Listings, p \in BOOLEAN : EnqueueRead(r, l, p)
           \/ \E l \in Listings : CreateListing(l) \/ BackoffElapses(l)
           \/ \E w \in Workers :
                \/ PollTick(w) \/ NothingDue(w) \/ ClaimLost(w)
                \/ ReadBackThrows(w) \/ Restart(w) \/ SettleThrows(w)
                \/ \E l \in Listings : FindCandidate(w, l)
                \/ \E o \in Outcomes : RunEnds(w, o)
    PROVE  ClaimInv'
<1> USE DEF TypeInv, TypeOK, Holds, Active, WorkerSteps
<1>1. /\ late' = late /\ lapses' = lapses
      /\ \A m \in Listings : /\ job'[m].status = job[m].status
                             /\ job'[m].revision = job[m].revision
                             /\ job'[m].attemptCount = job[m].attemptCount
                             /\ job'[m].stale = job[m].stale
  <2>1. CASE \E l \in Listings : BackoffElapses(l)
    BY <2>1 DEF BackoffElapses, Rows
  <2>2. CASE ~\E l \in Listings : BackoffElapses(l)
    BY <2>2 DEF queueVars, EnqueueAborts, EnqueueRead, CreateListing, PollTick,
                NothingDue, ClaimLost, ReadBackThrows, Restart, SettleThrows,
                FindCandidate, RunEnds
  <2>3. QED
    BY <2>1, <2>2
<1>2. ASSUME NEW w \in Workers
      PROVE  /\ Holds(w)' <=> Holds(w)
             /\ Holds(w) => /\ token'[w] = token[w]
                            /\ pc[w] = "readback" => pc'[w] = "readback"
  <2>1. w \in superseded => pc[w] \in Active
    BY DEF FenceInv
  <2>2. CASE \E v \in Workers : ReadBackThrows(v)
    <3>1. PICK v \in Workers : ReadBackThrows(v)
      BY <2>2
    <3>2. ~Holds(v)
      BY <3>1 DEF ReadBackThrows, ClaimInv, HoldsCurrent
    <3>3. QED
      BY <3>1, <3>2 DEF ReadBackThrows
  <2>3. CASE ~\E v \in Workers : ReadBackThrows(v)
    <3>1. CASE UNCHANGED <<pc, token, superseded>>
      BY <3>1
    <3>2. CASE \E v \in Workers :
                 \/ PollTick(v) \/ NothingDue(v) \/ ClaimLost(v) \/ Restart(v)
                 \/ \E l \in Listings : FindCandidate(v, l)
      BY <2>1, <3>2 DEF PollTick, NothingDue, ClaimLost, Restart, FindCandidate
    <3>3. CASE \E v \in Workers : \E o \in Outcomes : RunEnds(v, o)
      BY <3>3 DEF RunEnds
    <3>4. QED
      BY <2>3, <3>1, <3>2, <3>3
         DEF queueVars, EnqueueAborts, EnqueueRead, CreateListing,
             BackoffElapses, SettleThrows
  <2>4. QED
    BY <2>2, <2>3
<1> HIDE DEF TypeInv, TypeOK, Holds
<1>3. QED
  BY <1>1, <1>2, ClaimFrame

\* A row that is queued again, created or removed is nobody's any more.
LEMMA RequeueClaimInv ==
    ASSUME TypeInv, TypeInv', FenceInv, ClaimInv,
           \/ \E l \in Listings : DeleteListing(l)
           \/ \E r \in Requests : EnqueueCreate(r) \/ EnqueueUpdate(r)
    PROVE  ClaimInv'
<1> USE NoListingAssumption DEF TypeInv, TypeOK
<1>1. CASE job' = job /\ late' = late /\ lapses' = lapses /\ superseded' = superseded
  <2>1. UNCHANGED <<pc, token>>
    BY DEF DeleteListing, EnqueueCreate, EnqueueUpdate
  <2>2. \A w \in Workers : Holds(w)' <=> Holds(w)
    BY <1>1, <2>1 DEF Holds
  <2> HIDE DEF TypeInv, TypeOK
  <2>3. QED
    BY <1>1, <2>1, <2>2, ClaimFrame
<1>2. CASE ~(job' = job /\ late' = late /\ lapses' = lapses /\ superseded' = superseded)
  <2>1. PICK l \in Listings :
          /\ \A m \in Listings : m # l => job'[m] = job[m]
          /\ job'[l].attemptCount = 0
          /\ \A m \in Listings : m # l => late'[m] = late[m] /\ lapses'[m] = lapses[m]
          /\ \/ superseded' = superseded \cup Claimants(l)
             \/ superseded' = superseded /\ ~HasRow(l)
          /\ UNCHANGED <<pc, token>>
    <3>1. CASE \E l \in Listings : DeleteListing(l)
      BY <3>1 DEF DeleteListing, ForgetLapses, NoRow
    <3>2. CASE \E r \in Requests : EnqueueCreate(r)
      BY <1>2, <3>2 DEF EnqueueCreate
    <3>3. CASE \E r \in Requests : EnqueueUpdate(r)
      <4>1. PICK r \in Requests : EnqueueUpdate(r)
        BY <3>3
      <4>2. HasRow(request[r].listing)
        BY <1>2, <4>1 DEF EnqueueUpdate
      <4>3. CASE request[r].listing \in Listings
        BY <4>1, <4>2, <4>3 DEF EnqueueUpdate, ForgetLapses
      <4>4. CASE request[r].listing \notin Listings
        <5>1. job' = job /\ late' = late /\ lapses' = lapses
          BY <4>1, <4>2, <4>4 DEF EnqueueUpdate, ForgetLapses
        <5>2. Claimants(request[r].listing) = {}
          BY <4>4 DEF Claimants, Active
        <5>3. superseded' = superseded
          BY <4>1, <4>2, <5>2 DEF EnqueueUpdate
        <5>4. QED
          BY <1>2, <5>1, <5>3
      <4>5. QED
        BY <4>3, <4>4
    <3>4. QED
      BY <3>1, <3>2, <3>3
  <2>2. \A w \in Workers : Holds(w)' <=> Holds(w) /\ token[w].listing # l
    BY <2>1 DEF Holds, Active, Claimants, ClaimInv, HoldsCurrent
  <2>3. \A w \in Workers : HoldsCurrent(w)'
    <3>1. \A w \in Workers : Holds(w) => token[w].listing \in Listings
      BY DEF Holds
    <3>2. QED
      BY <2>1, <2>2, <3>1 DEF ClaimInv, HoldsCurrent, HasRow
  <2>4. Holders(l)' = {}
    BY <2>1, <2>2 DEF Holders, Claimants, Holds, Active
  <2> HIDE DEF TypeInv, TypeOK
  <2>5. ASSUME NEW m \in Listings PROVE HoldersPaid(m)' /\ AttemptsPaid(m)'
    <3>1. CASE m = l
      BY <2>1, <2>4, <3>1, FreshIsPaid
    <3>2. CASE m # l
      BY <2>1, <2>2, <3>2, UntouchedStaysPaid DEF ClaimInv
    <3>3. QED
      BY <3>1, <3>2
  <2>6. QED
    BY <2>3, <2>5 DEF ClaimInv
<1>3. QED
  BY <1>1, <1>2

LEMMA RecoverClaimInv ==
    ASSUME TypeInv, TypeInv', ClaimInv, NEW w \in Workers, RecoverStaleJobs(w)
    PROVE  ClaimInv'
<1> USE DEF TypeInv, TypeOK
<1>1. /\ late' = late /\ lapses' = lapses /\ token' = token
      /\ pc[w] = "recover"
      /\ \A v \in Workers : pc'[v] = IF v = w THEN "find" ELSE pc[v]
      /\ \A m \in Listings :
           /\ ~Recoverable(m) => job'[m] = job[m]
           /\ Recoverable(m) => /\ job'[m].status = "PENDING"
                                /\ job'[m].attemptCount = job[m].attemptCount
  BY DEF RecoverStaleJobs
<1>2. ASSUME NEW v \in Workers
      PROVE  Holds(v)' <=> Holds(v) /\ ~Recoverable(token[v].listing)
  <2>1. Holds(v) => token[v].listing \in Listings
    BY DEF Holds
  <2>2. QED
    BY <1>1, <2>1 DEF RecoverStaleJobs, Holds, Active, Claimants
<1>3. \A v \in Workers : HoldsCurrent(v)'
  <2>1. \A v \in Workers : Holds(v) => token[v].listing \in Listings
    BY DEF Holds
  <2>2. QED
    BY <1>1, <1>2, <2>1 DEF ClaimInv, HoldsCurrent, HasRow
<1> HIDE DEF TypeInv, TypeOK
<1>4. ASSUME NEW m \in Listings PROVE HoldersPaid(m)' /\ AttemptsPaid(m)'
  <2>1. CASE Recoverable(m)
    <3>1. Holders(m)' = {}
      BY <1>1, <1>2, <2>1 DEF Holders, Claimants, Holds, Active
    <3>2. Retrying(m)' = {}
      BY <3>1 DEF Retrying
    <3>3. Waiting(m)' = 1 /\ Waiting(m) = 1
      BY <1>1, <2>1 DEF Waiting, Recoverable
    <3>4. /\ late[m] \in Nat /\ lapses[m] \in Nat
          /\ MaxAttempts \in Nat /\ job[m].attemptCount \in Nat
          /\ Retrying(m) \subseteq Holders(m)
      BY ClaimTypes
    <3>5. IsFiniteSet({}) /\ Cardinality({}) = 0
      BY FS_EmptySet
    <3>6. HoldersPaid(m)'
      BY <1>1, <2>1, <3>1, <3>4, <3>5 DEF HoldersPaid
    <3>7. Cardinality(Retrying(m)) \in Nat
      BY <3>4, CardSubset DEF ClaimInv, HoldersPaid
    <3>8. AttemptsPaid(m)'
      BY <1>1, <2>1, <3>2, <3>3, <3>4, <3>5, <3>7 DEF ClaimInv, AttemptsPaid
    <3>9. QED
      BY <3>6, <3>8
  <2>2. CASE ~Recoverable(m)
    <3>1. ASSUME NEW v \in Workers
          PROVE  /\ Holds(v)' /\ token'[v].listing = m <=> Holds(v) /\ token[v].listing = m
                 /\ Holds(v)' /\ token'[v].listing = m =>
                      /\ token'[v].attemptCount = token[v].attemptCount
                      /\ pc[v] = "readback" => pc'[v] = "readback"
      BY <1>1, <1>2, <2>2
    <3>2. QED
      BY <1>1, <2>2, <3>1, UntouchedStaysPaid DEF ClaimInv
  <2>3. QED
    BY <2>1, <2>2
<1>5. QED
  BY <1>3, <1>4 DEF ClaimInv

LEMMA ClaimClaimInv ==
    ASSUME TypeInv, TypeInv', FenceInv, ClaimInv, NEW w \in Workers, Claim(w)
    PROVE  ClaimInv'
<1> USE DEF TypeInv, TypeOK
<1>0. PICK l \in Listings : l = token[w].listing
  BY DEF Claim
<1>1. /\ late' = late /\ lapses' = lapses /\ token' = token /\ superseded' = superseded
      /\ pc[w] = "claim"
      /\ \A v \in Workers : pc'[v] = IF v = w THEN "readback" ELSE pc[v]
      /\ \A m \in Listings : m # l => job'[m] = job[m]
      /\ job[l].status = "PENDING" /\ job[l].revision = token[w].revision
      /\ job'[l].status = "RUNNING" /\ job'[l].revision = job[l].revision
      /\ job'[l].attemptCount = job[l].attemptCount + 1
      /\ job'[l].stale = FALSE
  BY <1>0 DEF Claim, Claimable
<1>2. w \notin superseded
  BY <1>1 DEF FenceInv, Active
<1>3. \A v \in Workers : Holds(v)' <=> Holds(v) \/ v = w
  BY <1>1, <1>2 DEF Holds, Active
<1>4. ASSUME NEW v \in Workers PROVE HoldsCurrent(v)'
  <2>1. CASE v = w
    BY <1>0, <1>1, <2>1 DEF HoldsCurrent, HasRow
  <2>2. CASE v # w /\ Holds(v)
    <3>1. PICK m \in Listings : m = token[v].listing
      BY <2>2 DEF Holds
    <3>2. /\ job'[m].revision = job[m].revision
          /\ job[m].status # "NONE" => job'[m].status # "NONE"
      BY <1>1
    <3> HIDE DEF TypeInv, TypeOK
    <3>3. QED
      BY <1>1, <2>2, <3>1, <3>2, StaysCurrent
  <2>3. CASE v # w /\ ~Holds(v)
    BY <1>3, <2>3 DEF HoldsCurrent
  <2>4. QED
    BY <2>1, <2>2, <2>3
<1> HIDE DEF TypeInv, TypeOK
<1>5. HoldersPaid(l)' /\ AttemptsPaid(l)'
  <2>1. /\ late[l] \in Nat /\ lapses[l] \in Nat /\ MaxAttempts \in Nat \ {0}
        /\ job[l].attemptCount \in Nat /\ Retrying(l) \subseteq Holders(l)
    BY ClaimTypes
  <2>2. Holders(l)' \subseteq Holders(l) \cup {w} /\ w \in Holders(l)'
    BY <1>0, <1>1, <1>2 DEF Holders, Claimants
  <2>3. Retrying(l)' \subseteq Retrying(l)
    <3>1. ASSUME NEW v \in Retrying(l)' PROVE v \in Retrying(l)
      <4>1. v \in Holders(l)' /\ pc'[v] # "readback" /\ token'[v].attemptCount < MaxAttempts
        BY DEF Retrying
      <4>2. v \in Workers
        BY <4>1 DEF Holders, Claimants
      <4>3. v # w
        BY <1>1, <4>1
      <4>4. QED
        BY <1>1, <2>2, <4>1, <4>2, <4>3 DEF Retrying
    <3>2. QED
      BY <3>1
  <2>a. IsFiniteSet(Holders(l))
    BY DEF ClaimInv, HoldersPaid
  <2>b. Cardinality(Holders(l)) <= late[l] + 0
    BY <1>1 DEF ClaimInv, HoldersPaid
  <2>4. /\ IsFiniteSet(Holders(l)) /\ IsFiniteSet(Holders(l)')
        /\ Cardinality(Holders(l)) \in Nat /\ Cardinality(Holders(l)') \in Nat
        /\ Cardinality(Holders(l)') <= Cardinality(Holders(l)) + 1
        /\ Cardinality(Holders(l)) <= late[l]
    <3>1. /\ IsFiniteSet(Holders(l)')
          /\ Cardinality(Holders(l)) \in Nat /\ Cardinality(Holders(l)') \in Nat
          /\ Cardinality(Holders(l)') <= Cardinality(Holders(l)) + 1
      BY <2>2, <2>a, CardAdd
    <3>2. QED
      BY <2>1, <2>a, <2>b, <3>1
  <2>5. HoldersPaid(l)'
    BY <1>1, <2>1, <2>4 DEF HoldersPaid
  <2>6. /\ Cardinality(Retrying(l)) \in Nat /\ Cardinality(Retrying(l)') \in Nat
        /\ Cardinality(Retrying(l)') <= Cardinality(Retrying(l))
        /\ Cardinality(Retrying(l)) <= Cardinality(Holders(l))
    BY <2>1, <2>3, <2>4, CardSubset
  <2>7. Waiting(l) = 1 /\ Waiting(l)' = 0
    BY <1>1, <2>2 DEF Waiting
  <2>8. AttemptsPaid(l)'
    <3>1. CASE job[l].attemptCount >= MaxAttempts
      BY <1>1, <2>1, <2>6, <2>7, <3>1 DEF ClaimInv, AttemptsPaid
    <3>2. CASE ~(job[l].attemptCount >= MaxAttempts)
      BY <1>1, <2>1, <2>4, <2>6, <2>7, <3>2 DEF AttemptsPaid
    <3>3. QED
      BY <3>1, <3>2
  <2>9. QED
    BY <2>5, <2>8
<1>6. ASSUME NEW m \in Listings, m # l PROVE HoldersPaid(m)' /\ AttemptsPaid(m)'
  BY <1>0, <1>1, <1>3, <1>6, UntouchedStaysPaid DEF ClaimInv
<1>7. QED
  BY <1>4, <1>5, <1>6 DEF ClaimInv

\* A claim that is read back in time confirms its holder; a late one makes one.
LEMMA ReadBackClaimInv ==
    ASSUME TypeInv, TypeInv', ClaimInv, NEW w \in Workers, ReadBack(w)
    PROVE  ClaimInv'
<1> USE DEF TypeInv, TypeOK
<1>0. PICK l \in Listings : l = token[w].listing
  BY DEF ReadBack, Active
<1>1. /\ job' = job /\ lapses' = lapses
      /\ late'[l] = IF w \in superseded THEN late[l] + 1 ELSE late[l]
      /\ \A m \in Listings : m # l => late'[m] = late[m]
      /\ superseded' = superseded \ {w}
      /\ HasRow(l)
      /\ pc[w] = "readback"
      /\ pc'[w] = "run" /\ \A v \in Workers : v # w => pc'[v] = pc[v]
      /\ token'[w] = [listing |-> l, revision |-> job[l].revision,
                      attemptCount |-> job[l].attemptCount]
      /\ \A v \in Workers : v # w => token'[v] = token[v]
  BY <1>0 DEF ReadBack
<1>2. \A v \in Workers : Holds(v)' <=> Holds(v) \/ v = w
  BY <1>1 DEF Holds, Active
<1>3. \A v \in Workers : HoldsCurrent(v)'
  BY <1>0, <1>1, <1>2 DEF ClaimInv, HoldsCurrent, HasRow
<1> HIDE DEF TypeInv, TypeOK
<1>4. HoldersPaid(l)' /\ AttemptsPaid(l)'
  <2>1. /\ late[l] \in Nat /\ lapses[l] \in Nat /\ MaxAttempts \in Nat
        /\ job[l].attemptCount \in Nat /\ Retrying(l) \subseteq Holders(l)
        /\ Waiting(l) \in {0, 1}
    BY ClaimTypes
  <2>2. /\ Holders(l)' \subseteq Holders(l) \cup {w}
        /\ w \notin superseded => Holders(l)' \subseteq Holders(l)
        /\ Holders(l) \subseteq Holders(l)'
    BY <1>0, <1>1 DEF Holders, Claimants
  <2>3. job[l].attemptCount >= MaxAttempts => Retrying(l)' \subseteq Retrying(l)
    BY <1>1, <2>1, <2>2 DEF Retrying, Holders, Claimants
  <2>4. Waiting(l)' <= Waiting(l)
    BY <1>1, <2>2 DEF Waiting
  <2>5. CASE w \notin superseded
    BY <1>1, <2>1, <2>2, <2>3, <2>4, <2>5, StaysPaid DEF ClaimInv
  <2>6. CASE w \in superseded
    <3>1. /\ IsFiniteSet(Holders(l)) /\ IsFiniteSet(Holders(l)')
          /\ Cardinality(Holders(l)) \in Nat /\ Cardinality(Holders(l)') \in Nat
          /\ Cardinality(Holders(l)') <= Cardinality(Holders(l)) + 1
      BY <2>2, CardAdd DEF ClaimInv, HoldersPaid
    <3>2. HoldersPaid(l)'
      BY <1>1, <2>1, <2>6, <3>1 DEF ClaimInv, HoldersPaid
    <3>3. ASSUME job'[l].attemptCount >= MaxAttempts
          PROVE  job'[l].attemptCount + Cardinality(Retrying(l)') + Waiting(l)'
                   <= MaxAttempts + lapses'[l] + late'[l]
      <4>1. /\ Cardinality(Retrying(l)) \in Nat /\ Cardinality(Retrying(l)') \in Nat
            /\ Cardinality(Retrying(l)') <= Cardinality(Retrying(l))
        <5>1. IsFiniteSet(Retrying(l))
          BY <2>1, <3>1, CardSubset
        <5>2. QED
          BY <1>1, <2>3, <3>3, <5>1, CardSubset
      <4>2. job[l].attemptCount + Cardinality(Retrying(l)) + Waiting(l)
              <= MaxAttempts + lapses[l] + late[l]
        BY <1>1, <3>3 DEF ClaimInv, AttemptsPaid
      <4>3. Waiting(l)' \in {0, 1}
        BY DEF Waiting
      <4>4. QED
        BY <1>1, <2>1, <2>4, <2>6, <4>1, <4>2, <4>3
    <3>4. QED
      BY <3>2, <3>3 DEF AttemptsPaid
  <2>7. QED
    BY <2>5, <2>6
<1>5. ASSUME NEW m \in Listings, m # l PROVE HoldersPaid(m)' /\ AttemptsPaid(m)'
  BY <1>0, <1>1, <1>2, <1>5, UntouchedStaysPaid DEF ClaimInv
<1>6. QED
  BY <1>3, <1>4, <1>5 DEF ClaimInv

\* A holder that retries trades its own retry for the attempt that waits; any
\* other way of settling, or losing the row, ends it.
LEMMA SettleClaimInv ==
    ASSUME TypeInv, TypeInv', FenceInv, ClaimInv, NEW w \in Workers, Settle(w)
    PROVE  ClaimInv'
<1> USE DEF TypeInv, TypeOK
<1>0. PICK l \in Listings : l = token[w].listing
  BY DEF Settle, Active
<1>1. /\ late' = late /\ lapses' = lapses /\ superseded' = superseded \ {w}
      /\ pc[w] = "settle"
      /\ pc'[w] \in {"recover", "idle"}
      /\ \A v \in Workers : v # w => pc'[v] = pc[v] /\ token'[v] = token[v]
  BY DEF Settle
<1>2. \A v \in Workers : Holds(v)' <=> Holds(v) /\ v # w
  BY <1>1 DEF Holds, Active
<1>3. job[l] \in Rows
  OBVIOUS
<1>4. /\ late[l] \in Nat /\ lapses[l] \in Nat /\ MaxAttempts \in Nat
      /\ job[l].attemptCount \in Nat /\ Retrying(l) \subseteq Holders(l)
      /\ Waiting(l) \in {0, 1}
  BY ClaimTypes
<1>5. CASE OwnsRow(w)
  <2>1. Holds(w)
    <3>1. Fence(w) /\ HasRow(l)
      BY <1>0, <1>5 DEF FenceInv, OwnsRow, HasRow
    <3>2. job[l].revision \in Nat /\ job[l].revision = token[w].revision
      BY <1>0, <1>3, <1>5 DEF OwnsRow, Rows
    <3>3. QED
      BY <1>0, <1>1, <3>1, <3>2 DEF Fence, Holds, Active
  <2>2. /\ job[l].status = "RUNNING"
        /\ \A m \in Listings : m # l => job'[m] = job[m]
        /\ job'[l].revision = job[l].revision
        /\ job'[l].attemptCount = job[l].attemptCount
        /\ job'[l].status \in {"COMPLETED", "FAILED", "PENDING"}
        /\ job'[l].status = "PENDING" => token[w].attemptCount < MaxAttempts
    <3>1. job' = [job EXCEPT ![l] = SettledRow(w, job[l])]
      BY <1>0, <1>5 DEF Settle
    <3>2. /\ SettledRow(w, job[l]).revision = job[l].revision
          /\ SettledRow(w, job[l]).attemptCount = job[l].attemptCount
          /\ SettledRow(w, job[l]).status \in {"COMPLETED", "FAILED", "PENDING"}
          /\ SettledRow(w, job[l]).status = "PENDING" => token[w].attemptCount < MaxAttempts
      BY <1>3 DEF SettledRow, RetriesLeft, Rows
    <3>3. job[l].status = "RUNNING"
      BY <1>0, <1>5 DEF OwnsRow
    <3>4. QED
      BY <3>1, <3>2, <3>3
  <2>3. ASSUME NEW v \in Workers PROVE HoldsCurrent(v)'
    <3>1. CASE Holds(v)'
      <4>1. Holds(v) /\ v # w
        BY <1>2, <3>1
      <4>2. PICK m \in Listings : m = token[v].listing
        BY <4>1 DEF Holds
      <4>3. /\ job'[m].revision = job[m].revision
            /\ job[m].status # "NONE" => job'[m].status # "NONE"
        BY <2>2
      <4> HIDE DEF TypeInv, TypeOK
      <4>4. QED
        BY <1>1, <4>1, <4>2, <4>3, StaysCurrent
    <3>2. CASE ~Holds(v)'
      BY <3>2 DEF HoldsCurrent
    <3>3. QED
      BY <3>1, <3>2
  <2> HIDE DEF TypeInv, TypeOK
  <2>4. HoldersPaid(l)' /\ AttemptsPaid(l)'
    <3>1. w \in Holders(l) /\ Holders(l)' \subseteq Holders(l) \ {w}
      BY <1>0, <1>1, <2>1 DEF Holders, Claimants, Holds, Active
    <3>2. /\ IsFiniteSet(Holders(l)) /\ IsFiniteSet(Holders(l)')
          /\ Cardinality(Holders(l)) \in Nat /\ Cardinality(Holders(l)') \in Nat
          /\ Cardinality(Holders(l)') <= Cardinality(Holders(l)) - 1
          /\ Cardinality(Holders(l)) <= late[l] + 1
      BY <2>2, <3>1, CardDrop DEF ClaimInv, HoldersPaid
    <3>3. HoldersPaid(l)'
      BY <1>1, <1>4, <2>2, <3>2 DEF HoldersPaid
    <3>4. Retrying(l)' \subseteq Retrying(l) \ {w}
      BY <1>1, <3>1 DEF Retrying, Holders, Claimants
    <3>5. IsFiniteSet(Retrying(l))
      BY <1>4, <3>2, CardSubset
    <3>6. ASSUME job'[l].attemptCount >= MaxAttempts
          PROVE  job'[l].attemptCount + Cardinality(Retrying(l)') + Waiting(l)'
                   <= MaxAttempts + lapses'[l] + late'[l]
      <4>1. job[l].attemptCount + Cardinality(Retrying(l)) + Waiting(l)
              <= MaxAttempts + lapses[l] + late[l]
        BY <2>2, <3>6 DEF ClaimInv, AttemptsPaid
      <4>2. /\ Cardinality(Retrying(l)) \in Nat /\ Cardinality(Retrying(l)') \in Nat
            /\ Cardinality(Retrying(l)') <= Cardinality(Retrying(l))
        BY <3>4, <3>5, CardSubset
      <4>3. CASE job'[l].status = "PENDING"
        <5>1. w \in Retrying(l)
          BY <1>1, <2>2, <3>1, <4>3 DEF Retrying
        <5>2. Cardinality(Retrying(l)') <= Cardinality(Retrying(l)) - 1
          BY <3>4, <3>5, <5>1, CardDrop
        <5>3. Waiting(l)' = 1
          BY <4>3 DEF Waiting
        <5>4. QED
          BY <1>1, <1>4, <2>2, <4>1, <4>2, <5>2, <5>3
      <4>4. CASE job'[l].status # "PENDING"
        <5>1. Waiting(l)' = 0
          BY <2>2, <4>4 DEF Waiting
        <5>2. QED
          BY <1>1, <1>4, <2>2, <4>1, <4>2, <5>1
      <4>5. QED
        BY <4>3, <4>4
    <3>7. QED
      BY <3>3, <3>6 DEF AttemptsPaid
  <2>5. ASSUME NEW m \in Listings, m # l PROVE HoldersPaid(m)' /\ AttemptsPaid(m)'
    BY <1>0, <1>1, <1>2, <2>2, <2>5, UntouchedStaysPaid DEF ClaimInv
  <2>6. QED
    BY <2>3, <2>4, <2>5 DEF ClaimInv
<1>6. CASE ~OwnsRow(w)
  <2>1. job' = job
    BY <1>6 DEF Settle
  <2>2. \A v \in Workers : HoldsCurrent(v)'
    BY <1>1, <1>2, <2>1 DEF ClaimInv, HoldsCurrent, HasRow
  <2> HIDE DEF TypeInv, TypeOK
  <2>3. HoldersPaid(l)' /\ AttemptsPaid(l)'
    <3>1. /\ Holders(l)' \subseteq Holders(l)
          /\ \A v \in Holders(l) : v # w => v \in Holders(l)'
      BY <1>1, <1>2 DEF Holders, Claimants, Holds, Active
    <3>2. Retrying(l)' \subseteq Retrying(l)
      BY <1>1, <1>2, <3>1 DEF Retrying, Holders, Claimants, Holds, Active
    <3>3. job[l].status = "RUNNING" => w \notin Holders(l)
      BY <1>0, <1>1, <1>6 DEF ClaimInv, HoldsCurrent, OwnsRow, Holders, Claimants,
                              Holds, Active
    <3>4. job[l].status = "RUNNING" => Holders(l)' = Holders(l)
      BY <3>1, <3>3
    <3>5. Waiting(l)' = Waiting(l)
      BY <2>1, <3>4 DEF Waiting
    <3>6. QED
      BY <1>1, <1>4, <2>1, <3>1, <3>2, <3>5, StaysPaid DEF ClaimInv
  <2>4. ASSUME NEW m \in Listings, m # l PROVE HoldersPaid(m)' /\ AttemptsPaid(m)'
    BY <1>0, <1>1, <1>2, <2>1, <2>4, UntouchedStaysPaid DEF ClaimInv
  <2>5. QED
    BY <2>2, <2>3, <2>4 DEF ClaimInv
<1>7. QED
  BY <1>5, <1>6

\* The lapses pay for the attempt after the recovery.
LEMMA LapseClaimInv ==
    ASSUME TypeInv, TypeInv', ClaimInv,
           \/ \E w \in Workers : Crash(w)
           \/ \E l \in Listings : RunOutlivesLease(l) \/ LeaseExpires(l)
    PROVE  ClaimInv'
<1> USE DEF TypeInv, TypeOK
<1>1. ASSUME NEW w \in Workers, Crash(w) PROVE ClaimInv'
  <2>1. /\ job' = job /\ late' = late /\ superseded' = superseded \ {w}
        /\ pc'[w] = "down"
        /\ \A v \in Workers : v # w => pc'[v] = pc[v] /\ token'[v] = token[v]
        /\ \A m \in Listings : lapses'[m] = IF w \in Holders(m) THEN lapses[m] + 1
                                                                ELSE lapses[m]
    BY <1>1 DEF Crash
  <2>2. \A v \in Workers : Holds(v)' <=> Holds(v) /\ v # w
    BY <2>1 DEF Holds, Active
  <2>3. \A v \in Workers : HoldsCurrent(v)'
    BY <2>1, <2>2 DEF ClaimInv, HoldsCurrent, HasRow
  <2> HIDE DEF TypeInv, TypeOK
  <2>4. ASSUME NEW m \in Listings PROVE HoldersPaid(m)' /\ AttemptsPaid(m)'
    <3>1. /\ Holders(m)' \subseteq Holders(m)
          /\ w \notin Holders(m) => Holders(m)' = Holders(m)
      BY <2>1, <2>2 DEF Holders, Claimants, Holds, Active
    <3>2. Retrying(m)' \subseteq Retrying(m)
      BY <2>1, <2>2, <3>1 DEF Retrying, Holders, Claimants, Holds, Active
    <3>3. /\ lapses[m] \in Nat /\ Waiting(m) \in {0, 1} /\ Waiting(m)' \in {0, 1}
          /\ w \notin Holders(m) => Waiting(m)' = Waiting(m)
      BY <2>1, <3>1, ClaimTypes DEF Waiting
    <3>4. /\ lapses'[m] >= lapses[m]
          /\ Waiting(m)' <= Waiting(m) + (lapses'[m] - lapses[m])
      BY <2>1, <3>3
    <3>5. QED
      BY <2>1, <2>4, <3>1, <3>2, <3>4, StaysPaid DEF ClaimInv
  <2>5. QED
    BY <2>3, <2>4 DEF ClaimInv
<1>2. ASSUME NEW l \in Listings, RunOutlivesLease(l) \/ LeaseExpires(l) PROVE ClaimInv'
  <2>1. /\ late' = late
        /\ UNCHANGED <<pc, token, superseded>>
        /\ \A m \in Listings : /\ job'[m].status = job[m].status
                               /\ job'[m].revision = job[m].revision
                               /\ job'[m].attemptCount = job[m].attemptCount
                               /\ m # l => job'[m].stale = job[m].stale
                               /\ m # l => lapses'[m] = lapses[m]
        /\ job[l].status = "RUNNING"
        /\ lapses'[l] = IF Held(l) THEN lapses[l] + 1 ELSE lapses[l]
    BY <1>2 DEF RunOutlivesLease, LeaseExpires, Rows
  <2>2. \A v \in Workers : Holds(v)' <=> Holds(v)
    BY <2>1 DEF Holds
  <2>3. \A v \in Workers : HoldsCurrent(v)'
    <3>1. \A v \in Workers : Holds(v) => token[v].listing \in Listings
      BY DEF Holds
    <3>2. QED
      BY <2>1, <2>2, <3>1 DEF ClaimInv, HoldsCurrent, HasRow
  <2> HIDE DEF TypeInv, TypeOK
  <2>4. HoldersPaid(l)' /\ AttemptsPaid(l)'
    <3>1. Holders(l)' = Holders(l)
      BY <2>1 DEF Holders, Claimants
    <3>2. Retrying(l)' \subseteq Retrying(l)
      BY <2>1, <3>1 DEF Retrying
    <3>3. ~Held(l) => Holders(l) = {}
      BY DEF Held, ClaimInv, HoldsCurrent, Holders, Claimants, Holds, Active
    <3>4. /\ lapses[l] \in Nat /\ Waiting(l) \in {0, 1} /\ Waiting(l)' \in {0, 1}
          /\ ~Held(l) => Waiting(l) = 1
      BY <2>1, <3>3, ClaimTypes DEF Waiting
    <3>5. /\ lapses'[l] >= lapses[l]
          /\ Waiting(l)' <= Waiting(l) + (lapses'[l] - lapses[l])
      BY <2>1, <3>4
    <3>6. QED
      BY <2>1, <3>1, <3>2, <3>5, StaysPaid DEF ClaimInv
  <2>5. ASSUME NEW m \in Listings, m # l PROVE HoldersPaid(m)' /\ AttemptsPaid(m)'
    BY <2>1, <2>2, <2>5, UntouchedStaysPaid DEF ClaimInv
  <2>6. QED
    BY <2>3, <2>4, <2>5 DEF ClaimInv
<1>3. QED
  BY <1>1, <1>2

LEMMA NextClaimInv ==
    TypeInv /\ FenceInv /\ ClaimInv /\ [Next]_queueVars => ClaimInv'
<1> SUFFICES ASSUME TypeInv, FenceInv, ClaimInv, [Next]_queueVars
             PROVE  ClaimInv'
    OBVIOUS
<1>1. TypeInv'
  BY NextTypeInv
<1>2. ASSUME NEW w \in Workers, WorkerStep(w) \/ WorkerFault(w) PROVE ClaimInv'
  BY <1>1, <1>2, QuietClaimInv, RecoverClaimInv, ClaimClaimInv, ReadBackClaimInv,
     SettleClaimInv, LapseClaimInv
     DEF WorkerStep, WorkerFault
<1>3. ASSUME NEW r \in Requests, RequestStep(r) PROVE ClaimInv'
  BY <1>1, <1>3, QuietClaimInv, RequeueClaimInv DEF RequestStep
<1>4. ASSUME NEW l \in Listings, ListingStep(l) PROVE ClaimInv'
  BY <1>1, <1>4, QuietClaimInv, RequeueClaimInv, LapseClaimInv DEF ListingStep
<1>5. CASE UNCHANGED queueVars
  BY <1>1, <1>5, QuietClaimInv
<1>6. QED
  BY <1>2, <1>3, <1>4, <1>5 DEF Next

LEMMA SpecInv == Spec => [](TypeInv /\ FenceInv /\ ClaimInv)
BY InitTypeInv, NextTypeInv, InitFenceInv, NextFenceInv, InitClaimInv,
   NextClaimInv, PTL DEF Spec

\* A row has one holder and one more for each claim that was read back late:
\* without one the claim is a mutual exclusion.
THEOREM ClaimsAreExclusive == Spec => []ClaimsExclusive
<1>1. TypeInv /\ FenceInv /\ ClaimInv => ClaimsExclusive
  <2> SUFFICES ASSUME TypeInv, ClaimInv, NEW l \in Listings
               PROVE  Cardinality(Holders(l)) <= 1 + late[l]
    BY DEF ClaimsExclusive
  <2>1. late[l] \in Nat
    BY ClaimTypes
  <2>2. Cardinality(Holders(l)) \in Nat
    BY FS_CardinalityType DEF ClaimInv, HoldersPaid
  <2>3. QED
    BY <2>1, <2>2 DEF ClaimInv, HoldersPaid
<1>2. QED
  BY <1>1, SpecInv, PTL

\* For every enqueue of every listing, a job is attempted at most MaxAttempts
\* times, once more for each crash or overlong run of a worker that held it and
\* once more for each claim of it that was read back late.
THEOREM AttemptsAreBounded == Spec => []AttemptsBounded
<1>1. TypeInv /\ FenceInv /\ ClaimInv => AttemptsBounded
  <2> SUFFICES ASSUME TypeInv, ClaimInv, NEW l \in Listings
               PROVE  job[l].attemptCount <= MaxAttempts + lapses[l] + late[l]
    BY DEF AttemptsBounded
  <2>1. /\ MaxAttempts \in Nat /\ job[l].attemptCount \in Nat
        /\ late[l] \in Nat /\ lapses[l] \in Nat
        /\ Waiting(l) \in {0, 1} /\ Retrying(l) \subseteq Holders(l)
    BY ClaimTypes
  <2>2. Cardinality(Retrying(l)) \in Nat
    BY <2>1, CardSubset DEF ClaimInv, HoldersPaid
  <2>3. QED
    BY <2>1, <2>2 DEF ClaimInv, AttemptsPaid
<1>2. QED
  BY <1>1, SpecInv, PTL

-----------------------------------------------------------------------------
(* The queue implements JobLifecycle.                                      *)

\* A listing without a row has no version: the first submission is version 0.
RowInv == \A l \in Listings : ~HasRow(l) => job[l].revision = 0

LEMMA NextRowInv == TypeInv /\ RowInv /\ [Next]_queueVars => RowInv'
<1> SUFFICES ASSUME TypeInv, RowInv, [Next]_queueVars PROVE RowInv'
    OBVIOUS
<1> USE DEF TypeInv, TypeOK, RowInv, HasRow, Rows, NoRow
<1>1. ASSUME NEW m \in Listings, NEW row, job' = [job EXCEPT ![m] = row],
             row.status = "NONE" => row.revision = 0
      PROVE  RowInv'
  BY <1>1
<1>2. job' = job => RowInv'
  OBVIOUS
<1>3. ASSUME NEW l \in Listings, ListingStep(l) PROVE RowInv'
  <2>1. CASE CreateListing(l)
    BY <1>2, <2>1 DEF CreateListing
  <2>2. CASE DeleteListing(l)
    BY <1>1, <2>2 DEF DeleteListing
  <2>3. CASE BackoffElapses(l) \/ RunOutlivesLease(l) \/ LeaseExpires(l)
    BY <2>3 DEF BackoffElapses, RunOutlivesLease, LeaseExpires
  <2>4. QED
    BY <1>3, <2>1, <2>2, <2>3 DEF ListingStep
<1>4. ASSUME NEW r \in Requests, RequestStep(r) PROVE RowInv'
  BY <1>2, <1>4 DEF RequestStep, EnqueueRead, EnqueueCreate, EnqueueUpdate, EnqueueAborts
<1>5. ASSUME NEW w \in Workers, WorkerFault(w) PROVE RowInv'
  BY <1>2, <1>5 DEF WorkerFault, SettleThrows, Crash
<1>6. ASSUME NEW w \in Workers, WorkerStep(w) PROVE RowInv'
  <2>1. CASE Claim(w)
    BY <2>1 DEF Claim, Claimable
  <2>2. CASE RecoverStaleJobs(w)
    BY <2>2 DEF RecoverStaleJobs, Recoverable
  <2>3. CASE Settle(w)
    <3>1. SettledRow(w, job[token[w].listing]).status # "NONE"
      BY <2>3 DEF Settle, SettledRow, Active
    <3>2. QED
      BY <1>2, <2>3, <3>1 DEF Settle
  <2>4. CASE job' = job
    BY <1>2, <2>4
  <2>5. QED
    BY <1>6, <2>1, <2>2, <2>3, <2>4
       DEF WorkerStep, PollTick, FindCandidate, NothingDue, ClaimLost, ReadBack,
           ReadBackThrows, RunEnds, Restart
<1>7. CASE UNCHANGED queueVars
  BY <1>2, <1>7 DEF queueVars
<1>8. QED
  BY <1>3, <1>4, <1>5, <1>6, <1>7 DEF Next

LEMMA InitLifecycle == Init => Lifecycle!LifecycleInit
BY DEF Init, NoRow, PhaseOf, WorkOf, Lifecycle!LifecycleInit, Lifecycle!NoWork,
       Lifecycle!Work

\* What has a row is not deleted.
LEMMA PhaseOfRow ==
    ASSUME TypeInv, NEW l \in Listings, HasRow(l)
    PROVE  PhaseOf(l) = job[l].status /\ PhaseOf(l) \notin Lifecycle!Jobless
<1>1. listing[l] = "live" /\ job[l] \in Rows
  BY DEF TypeInv, TypeOK
<1>2. PhaseOf(l) = job[l].status
  BY <1>1 DEF PhaseOf
<1>3. job[l].status \notin Lifecycle!Jobless
  BY <1>1 DEF HasRow, Rows, Statuses, Lifecycle!Jobless
<1>4. QED
  BY <1>2, <1>3

\* What the life cycle does not see: a step that keeps phases, revisions and
\* what the workers hold.
LEMMA LifecycleFrame ==
    /\ \A l \in Listings : /\ PhaseOf(l)' = PhaseOf(l)
                           /\ job'[l].revision = job[l].revision
    /\ \A w \in Workers : WorkOf(w)' = WorkOf(w)
    => UNCHANGED Lifecycle!lifecycleVars
BY DEF Lifecycle!lifecycleVars

\* Each action of the life cycle is a step of it.
LEMMA LifecycleSteps ==
    /\ \A l \in Listings : Lifecycle!Submit(l) \/ Lifecycle!Remove(l)
         => Lifecycle!LifecycleNext
    /\ \A jobs \in SUBSET Listings : Lifecycle!Resubmit(jobs) => Lifecycle!LifecycleNext
    /\ \A w \in Workers : \A l \in Listings :
         Lifecycle!Begin(w, l) => Lifecycle!LifecycleNext
    /\ \A w \in Workers : Lifecycle!Confirm(w) \/ Lifecycle!Leave(w)
         => Lifecycle!LifecycleNext
    /\ \A w \in Workers : \A result \in {"COMPLETED", "FAILED", "PENDING"} :
         Lifecycle!Finish(w, result) => Lifecycle!LifecycleNext
BY DEF Lifecycle!LifecycleNext

\* A step of one worker that only changes what it holds.
LEMMA LifecycleLeave ==
    ASSUME TypeInv, NEW w \in Workers, job' = job, listing' = listing,
           pc' = [pc EXCEPT ![w] = "down"],
           token' = [token EXCEPT ![w] = NoToken]
    PROVE  [Lifecycle!LifecycleNext]_Lifecycle!lifecycleVars
<1> USE DEF TypeInv, TypeOK, WorkOf, PhaseOf
<1>1. \A v \in Workers : v # w => WorkOf(v)' = WorkOf(v)
  OBVIOUS
<1>2. WorkOf(w)' = [stage |-> "none", listing |-> NoListing, version |-> 0]
  BY DEF WorkerSteps
<1>3. CASE pc[w] \in Active
  <2>1. Lifecycle!Leave(w)
    BY <1>1, <1>2, <1>3 DEF Active, Lifecycle!Leave, Lifecycle!NoWork, Lifecycle!Work
  <2>2. QED
    BY <2>1, LifecycleSteps
<1>4. CASE pc[w] \notin Active
  <2>1. WorkOf(w)' = WorkOf(w)
    BY <1>2, <1>4 DEF Active
  <2> HIDE DEF WorkOf
  <2>2. QED
    BY <1>1, <2>1, LifecycleFrame
<1>5. QED
  BY <1>3, <1>4

LEMMA NextLifecycle ==
    TypeInv /\ RowInv /\ [Next]_queueVars
      => [Lifecycle!LifecycleNext]_Lifecycle!lifecycleVars
<1> SUFFICES ASSUME TypeInv, RowInv, [Next]_queueVars
             PROVE  [Lifecycle!LifecycleNext]_Lifecycle!lifecycleVars
    OBVIOUS
<1> USE DEF TypeInv, TypeOK
<1>a. UNCHANGED <<pc, token>> => \A w \in Workers : WorkOf(w)' = WorkOf(w)
  BY DEF WorkOf
<1>b. UNCHANGED <<listing, job>>
        => \A l \in Listings : /\ PhaseOf(l)' = PhaseOf(l)
                               /\ job'[l].revision = job[l].revision
  BY DEF PhaseOf
<1>1. ASSUME NEW l \in Listings, ListingStep(l)
      PROVE  [Lifecycle!LifecycleNext]_Lifecycle!lifecycleVars
  <2>1. CASE DeleteListing(l)
    <3>1. \A m \in Listings :
            PhaseOf(m)' = IF m = l THEN "REMOVED" ELSE PhaseOf(m)
      BY <2>1 DEF DeleteListing, PhaseOf
    <3>2. Lifecycle!Remove(l)
      BY <1>a, <2>1, <3>1 DEF DeleteListing, NoRow, Lifecycle!Remove
    <3>3. QED
      BY <3>2, LifecycleSteps
  <2>2. CASE ~DeleteListing(l)
    <3>1. \A m \in Listings : /\ PhaseOf(m)' = PhaseOf(m)
                              /\ job'[m].revision = job[m].revision
      <4>1. CASE CreateListing(l)
        BY <4>1 DEF CreateListing, PhaseOf
      <4>2. CASE BackoffElapses(l) \/ RunOutlivesLease(l) \/ LeaseExpires(l)
        <5>1. \A m \in Listings : /\ job'[m].status = job[m].status
                                  /\ job'[m].revision = job[m].revision
          <6>1. CASE BackoffElapses(l)
            BY <6>1 DEF BackoffElapses, Rows
          <6>2. CASE RunOutlivesLease(l)
            BY <6>2 DEF RunOutlivesLease, Rows
          <6>3. CASE LeaseExpires(l)
            BY <6>3 DEF LeaseExpires, Rows
          <6>4. QED
            BY <4>2, <6>1, <6>2, <6>3
        <5>2. listing' = listing
          BY <4>2 DEF BackoffElapses, RunOutlivesLease, LeaseExpires
        <5>3. QED
          BY <5>1, <5>2 DEF PhaseOf
      <4>3. QED
        BY <1>1, <2>2, <4>1, <4>2 DEF ListingStep
    <3>2. UNCHANGED <<pc, token>>
      BY <1>1, <2>2
         DEF ListingStep, CreateListing, BackoffElapses, RunOutlivesLease,
             LeaseExpires
    <3>3. QED
      BY <1>a, <3>1, <3>2, LifecycleFrame
  <2>3. QED
    BY <2>1, <2>2
<1>2. ASSUME NEW r \in Requests, RequestStep(r)
      PROVE  [Lifecycle!LifecycleNext]_Lifecycle!lifecycleVars
  <2>0. UNCHANGED <<listing, pc, token>>
    BY <1>2 DEF RequestStep, EnqueueRead, EnqueueAborts, EnqueueCreate,
                EnqueueUpdate
  <2>1. CASE job' = job
    BY <1>a, <1>b, <2>0, <2>1, LifecycleFrame
  <2>2. CASE EnqueueCreate(r) /\ job' # job
    <3>1. PICK l \in Listings :
            /\ l = request[r].listing /\ ~HasRow(l) /\ job[l].revision = 0
            /\ listing[l] = "live"
      BY <2>2 DEF EnqueueCreate, RowInv
    <3>2. /\ PhaseOf(l) = "NONE"
          /\ \A m \in Listings :
               PhaseOf(m)' = IF m = l THEN "PENDING" ELSE PhaseOf(m)
      BY <2>2, <3>1 DEF EnqueueCreate, HasRow, PhaseOf
    <3>3. Lifecycle!Submit(l)
      BY <1>a, <2>0, <2>2, <3>1, <3>2 DEF EnqueueCreate, Lifecycle!Submit
    <3>4. QED
      BY <3>1, <3>3, LifecycleSteps
  <2>3. CASE EnqueueUpdate(r) /\ job' # job
    <3>1. PICK l \in Listings : l = request[r].listing /\ HasRow(l)
      BY <2>3 DEF EnqueueUpdate
    <3>2. /\ PhaseOf(l) \notin Lifecycle!Jobless
          /\ \A m \in Listings :
               PhaseOf(m)' = IF m = l THEN "PENDING" ELSE PhaseOf(m)
      <4>1. PhaseOf(l) \notin Lifecycle!Jobless
        BY <3>1, PhaseOfRow
      <4>2. listing[l] = "live"
        BY <3>1
      <4>3. QED
        BY <2>0, <2>3, <3>1, <4>1, <4>2 DEF EnqueueUpdate, PhaseOf
    <3>3. \A m \in Listings : job'[m].revision =
            IF m = l THEN job[l].revision + 1 ELSE job[m].revision
      BY <2>3, <3>1 DEF EnqueueUpdate
    <3>4. Lifecycle!Resubmit({l})
      BY <1>a, <2>0, <3>1, <3>2, <3>3 DEF Lifecycle!Resubmit
    <3>5. QED
      BY <3>1, <3>4, LifecycleSteps
  <2>4. QED
    BY <1>2, <2>1, <2>2, <2>3
       DEF RequestStep, EnqueueRead, EnqueueAborts, EnqueueCreate, EnqueueUpdate
<1>3. ASSUME NEW w \in Workers, WorkerStep(w)
      PROVE  [Lifecycle!LifecycleNext]_Lifecycle!lifecycleVars
  <2>1. CASE RecoverStaleJobs(w)
    <3>0. PICK jobs \in SUBSET Listings : jobs = {m \in Listings : Recoverable(m)}
      OBVIOUS
    <3>1. \A v \in Workers : WorkOf(v)' = WorkOf(v)
      BY <2>1 DEF RecoverStaleJobs, WorkOf
    <3>2. \A m \in Listings :
            /\ m \in jobs => PhaseOf(m) \notin Lifecycle!Jobless
            /\ PhaseOf(m)' = IF m \in jobs THEN "PENDING" ELSE PhaseOf(m)
      BY <2>1, <3>0, PhaseOfRow
         DEF RecoverStaleJobs, Recoverable, HasRow, PhaseOf, Lifecycle!Jobless
    <3>3. \A m \in Listings : job'[m].revision =
            IF m \in jobs THEN job[m].revision + 1 ELSE job[m].revision
      BY <2>1, <3>0 DEF RecoverStaleJobs
    <3>4. Lifecycle!Resubmit(jobs)
      BY <3>0, <3>1, <3>2, <3>3 DEF Lifecycle!Resubmit
    <3>5. QED
      BY <3>4, LifecycleSteps
  <2>2. CASE Claim(w)
    <3>1. PICK l \in Listings : l = token[w].listing
      BY <2>2 DEF Claim, Active
    <3>2. /\ WorkOf(w) = [stage |-> "none", listing |-> NoListing, version |-> 0]
          /\ WorkOf(w)' = [stage |-> "claimed", listing |-> l, version |-> job[l].revision]
          /\ \A v \in Workers : v # w => WorkOf(v)' = WorkOf(v)
      BY <2>2, <3>1 DEF Claim, Claimable, WorkOf
    <3>3. /\ PhaseOf(l) = "PENDING"
          /\ \A m \in Listings :
               /\ PhaseOf(m)' = IF m = l THEN "RUNNING" ELSE PhaseOf(m)
               /\ job'[m].revision = job[m].revision
      BY <2>2, <3>1, PhaseOfRow DEF Claim, Claimable, HasRow, PhaseOf
    <3>4. Lifecycle!Begin(w, l)
      BY <3>1, <3>2, <3>3 DEF Lifecycle!Begin, Lifecycle!NoWork, Lifecycle!Work
    <3>5. QED
      BY <3>1, <3>4, LifecycleSteps
  <2>3. CASE ReadBack(w)
    <3>1. PICK l \in Listings : l = token[w].listing
      BY <2>3 DEF ReadBack, Active
    <3>2. /\ WorkOf(w).stage = "claimed" /\ WorkOf(w).listing = l
          /\ WorkOf(w)' = [stage |-> "confirmed", listing |-> l,
                           version |-> job[l].revision]
          /\ \A v \in Workers : v # w => WorkOf(v)' = WorkOf(v)
      BY <2>3, <3>1 DEF ReadBack, WorkOf
    <3>3. PhaseOf(l) \notin Lifecycle!Jobless /\ UNCHANGED <<listing, job>>
      BY <2>3, <3>1, PhaseOfRow DEF ReadBack
    <3>4. Lifecycle!Confirm(w)
      BY <1>b, <3>1, <3>2, <3>3 DEF Lifecycle!Confirm, Lifecycle!Work
    <3>5. QED
      BY <3>4, LifecycleSteps
  <2>4. CASE Settle(w)
    <3>1. PICK l \in Listings : l = token[w].listing
      BY <2>4 DEF Settle, Active
    <3>2. /\ WorkOf(w) = [stage |-> "confirmed", listing |-> l,
                          version |-> token[w].revision]
          /\ WorkOf(w)' = [stage |-> "none", listing |-> NoListing, version |-> 0]
          /\ \A v \in Workers : v # w => WorkOf(v)' = WorkOf(v)
      BY <2>4, <3>1 DEF Settle, WorkOf
    <3>a. WorkOf(w) # Lifecycle!NoWork /\ WorkOf(w)' = Lifecycle!NoWork
      <4>1. WorkOf(w).stage = "confirmed"
        BY <3>2
      <4>2. Lifecycle!NoWork.stage = "none"
        BY DEF Lifecycle!NoWork, Lifecycle!Work
      <4>3. QED
        BY <3>2, <4>1, <4>2 DEF Lifecycle!NoWork, Lifecycle!Work
    <3>b. [v \in Workers |-> WorkOf(v)]'
            = [[v \in Workers |-> WorkOf(v)] EXCEPT ![w] = Lifecycle!NoWork]
      BY <3>2, <3>a
    <3>3. CASE OwnsRow(w)
      <4>1. PICK result \in {"COMPLETED", "FAILED", "PENDING"} :
              /\ SettledRow(w, job[l]).status = result
              /\ SettledRow(w, job[l]).revision = job[l].revision
        BY <3>1 DEF SettledRow, Rows
      <4>2. job' = [job EXCEPT ![l] = SettledRow(w, job[l])]
        BY <2>4, <3>1, <3>3 DEF Settle
      <4>3. Lifecycle!IsCurrent(w)
        BY <3>1, <3>2, <3>3, PhaseOfRow
           DEF OwnsRow, HasRow, Lifecycle!IsCurrent
      <4>4. [m \in Listings |-> PhaseOf(m)]'
              = [[m \in Listings |-> PhaseOf(m)] EXCEPT ![l] = result]
        <5>1. listing' = listing /\ listing[l] = "live"
          BY <2>4, <3>1, <3>3 DEF Settle, OwnsRow, HasRow
        <5>2. QED
          BY <4>1, <4>2, <5>1 DEF PhaseOf
      <4>5. UNCHANGED [m \in Listings |-> job[m].revision]
        BY <4>1, <4>2
      <4>6. [v \in Workers |-> WorkOf(v)][w].listing = l
        BY <3>2
      <4>7. Lifecycle!Finish(w, result)
        BY <3>b, <4>3, <4>4, <4>5, <4>6 DEF Lifecycle!Finish
      <4>8. QED
        BY <4>7, LifecycleSteps
    <3>4. CASE ~OwnsRow(w)
      <4>1. UNCHANGED <<listing, job>>
        BY <2>4, <3>4 DEF Settle
      <4>2. Lifecycle!Leave(w)
        BY <1>b, <3>a, <3>b, <4>1 DEF Lifecycle!Leave
      <4>3. QED
        BY <4>2, LifecycleSteps
    <3>5. QED
      BY <3>3, <3>4
  <2>5. CASE ReadBackThrows(w)
    BY <2>5, LifecycleLeave DEF ReadBackThrows
  <2>6. CASE /\ UNCHANGED <<listing, job>>
             /\ \A v \in Workers : WorkOf(v)' = WorkOf(v)
    BY <1>b, <2>6, LifecycleFrame
  <2>7. ASSUME \/ PollTick(w) \/ NothingDue(w) \/ ClaimLost(w) \/ Restart(w)
               \/ \E m \in Listings : FindCandidate(w, m)
               \/ \E o \in Outcomes : RunEnds(w, o)
        PROVE  /\ UNCHANGED <<listing, job>>
               /\ \A v \in Workers : WorkOf(v)' = WorkOf(v)
    BY <2>7 DEF PollTick, NothingDue, ClaimLost, Restart, FindCandidate, RunEnds,
                WorkOf, WorkerSteps
  <2>8. QED
    BY <1>3, <2>1, <2>2, <2>3, <2>4, <2>5, <2>6, <2>7 DEF WorkerStep
<1>4. ASSUME NEW w \in Workers, WorkerFault(w)
      PROVE  [Lifecycle!LifecycleNext]_Lifecycle!lifecycleVars
  <2>1. CASE SettleThrows(w)
    BY <1>a, <1>b, <2>1, LifecycleFrame DEF SettleThrows
  <2>2. CASE Crash(w)
    BY <2>2, LifecycleLeave DEF Crash
  <2>3. QED
    BY <1>4, <2>1, <2>2 DEF WorkerFault
<1>5. CASE UNCHANGED queueVars
  BY <1>a, <1>b, <1>5, LifecycleFrame DEF queueVars
<1>6. QED
  BY <1>1, <1>2, <1>3, <1>4, <1>5 DEF Next

\* Whatever requests, workers, crashes and late results do to its rows, the
\* queue is a job life cycle: every submission is a version of its own, and
\* only the worker that has read the current version can finish it.
THEOREM QueueImplementsLifecycle == Spec => LifecycleIsImplemented
<1>1. Init => RowInv
  BY DEF Init, RowInv, NoRow
<1>2. Spec => [](TypeInv /\ RowInv)
  BY <1>1, InitTypeInv, NextTypeInv, NextRowInv, PTL DEF Spec
<1>3. QED
  BY <1>2, InitLifecycle, NextLifecycle, PTL
     DEF Spec, LifecycleIsImplemented, Lifecycle!LifecycleSpec
=============================================================================

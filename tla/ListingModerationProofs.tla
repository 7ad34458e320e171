----------------------- MODULE ListingModerationProofs -----------------------
(***************************************************************************)
(* ListingModeration implements ModerationQueue: with the workflow, the    *)
(* handlers and the admins added, every step is a step of the queue or     *)
(* leaves it alone, so what is proved of the queue holds of the whole.     *)
(*                                                                         *)
(* On top of the queue's invariants, the workflow's own: what is published *)
(* was cleared and audited, and a COMPLETED job judged what the listing    *)
(* says.  Each is made inductive by saying what the workers that are about *)
(* to publish or to settle have read and written so far.                   *)
(***************************************************************************)
EXTENDS ListingModeration, ModerationQueueProofs

\* A handler that is going to write or to enqueue knows its listing.
ClientInv ==
    /\ client = [r \in Requests |-> client[r]]
    /\ \A r \in Requests :
         client[r].step # "idle" => client[r].listing \in Listings

LEMMA InitClientInv == ModerationInit => ClientInv
BY DEF ModerationInit, ClientInv, NoClient, ClientAt

LEMMA NextClientInv ==
    ClientInv /\ [ModerationNext]_moderationVars => ClientInv'
<1> SUFFICES ASSUME ClientInv, [ModerationNext]_moderationVars PROVE ClientInv'
    OBVIOUS
<1>1. ASSUME NEW r \in Requests, NEW c,
             c.step # "idle" => c.listing \in Listings,
             client' = [client EXCEPT ![r] = c]
      PROVE  ClientInv'
  BY <1>1 DEF ClientInv
<1>2. ASSUME NEW r \in Requests, NEW l \in Listings,
             \/ \E c \in Contents : Create(r, l, c) \/ UpdateRead(r, l, c)
             \/ \E d \in {"approve", "reject"} : Decide(r, l, d)
      PROVE  ClientInv'
  <2>1. ASSUME NEW c, Create(r, l, c) PROVE ClientInv'
    <3>1. client' = [client EXCEPT ![r] = ClientAt("enqueue", l)]
      BY <2>1 DEF Create
    <3>2. QED
      BY <1>1, <3>1 DEF ClientAt
  <2>2. ASSUME NEW c, UpdateRead(r, l, c) PROVE ClientInv'
    <3>1. client' = [client EXCEPT ![r] =
                       [step |-> "update", listing |-> l,
                        seen |-> content[l], next |-> c]]
      BY <2>2 DEF UpdateRead
    <3>2. QED
      BY <1>1, <3>1
  <2>3. ASSUME NEW d \in {"approve", "reject"}, Decide(r, l, d)
        PROVE  ClientInv'
    <3>1. client' = [client EXCEPT ![r] = ClientAt(d, l)]
      BY <2>3 DEF Decide
    <3>2. QED
      BY <1>1, <3>1 DEF ClientAt
  <2>4. QED
    BY <1>2, <2>1, <2>2, <2>3
<1>3. ASSUME NEW r \in Requests, UpdateWrite(r) PROVE ClientInv'
  <2>1. client[r].listing \in Listings
    BY <1>3 DEF UpdateWrite, ClientInv
  <2>2. PICK c : /\ client' = [client EXCEPT ![r] = c]
                 /\ c.step = "idle" \/ c.listing = client[r].listing
    BY <1>3 DEF UpdateWrite, NoClient, ClientAt
  <2>3. QED
    BY <1>1, <2>1, <2>2
<1>4. ASSUME NEW r \in Requests,
             \/ DecisionWrite(r) \/ HandlerFindsNothing(r)
             \/ HandlerEnqueues(r) \/ HandlerFails(r)
      PROVE  ClientInv'
  <2>1. client' = [client EXCEPT ![r] = NoClient]
    BY <1>4
       DEF DecisionWrite, HandlerFindsNothing, HandlerEnqueues, HandlerFails
  <2>2. QED
    BY <1>1, <2>1 DEF NoClient, ClientAt
<1>5. ASSUME NEW w \in Workers,
             \/ WorkflowStep(w) \/ StatementFails(w) \/ WorkflowThrows(w)
             \/ SettleFails(w) \/ WorkerCrashes(w)
      PROVE  UNCHANGED client
  BY <1>5 DEF WorkflowStep, StartWorkflow, LoadInput, EvaluateListing,
              CreateSuccess, ApproveRead, ApproveWrite, NotifySeller,
              CreateError, SettleJob, QueueOnly, StatementFails, WorkflowThrows,
              SettleFails, WorkerCrashes, listingVars
<1>6. ASSUME NEW l \in Listings,
             Remove(l) \/ ResolveReport(l) \/ TimePasses(l) \/ RunOverruns(l)
      PROVE  UNCHANGED client
  BY <1>6 DEF Remove, ResolveReport, TimePasses, RunOverruns, listingVars
<1>7. ASSUME NEW r \in Requests, RequestEnqueues(r) \/ EnqueueFails(r)
      PROVE  UNCHANGED client
  BY <1>7 DEF RequestEnqueues, EnqueueFails
<1>8. UNCHANGED client => ClientInv'
  BY DEF ClientInv
<1>9. CASE UNCHANGED moderationVars
  BY <1>8, <1>9 DEF moderationVars
<1>10. ASSUME NEW r \in Requests,
              \/ HandlerStep(r) \/ ClientRequest(r)
              \/ HandlerFails(r) \/ EnqueueFails(r)
       PROVE  ClientInv'
  <2>1. CASE HandlerStep(r) \/ HandlerFails(r) \/ EnqueueFails(r)
    BY <1>3, <1>4, <1>7, <1>8, <2>1 DEF HandlerStep
  <2>2. ASSUME NEW l \in Listings, RerunModeration(r, l)
        PROVE  UNCHANGED client
    BY <2>2 DEF RerunModeration
  <2>3. CASE ClientRequest(r)
    BY <1>2, <1>8, <2>2, <2>3 DEF ClientRequest
  <2>4. QED
    BY <1>10, <2>1, <2>3
<1>11. QED
  BY <1>5, <1>6, <1>8, <1>9, <1>10 DEF ModerationNext

\* Every step of the whole system is a step of the job queue or a stutter.
LEMMA StepSimulation ==
    ClientInv /\ [ModerationNext]_moderationVars => [Next]_queueVars
<1> SUFFICES ASSUME ClientInv, [ModerationNext]_moderationVars
             PROVE  [Next]_queueVars
    OBVIOUS
<1> USE DEF Next, WorkerStep, RequestStep, ListingStep, WorkerFault
<1>1. ASSUME NEW w \in Workers, NEW o \in Outcomes, WorkflowEnds(w, o)
      PROVE  Next
  BY <1>1 DEF WorkflowEnds
<1>2. \A w \in Workers : ToCatch(w) => UNCHANGED queueVars
  BY DEF ToCatch
<1>3. ASSUME NEW w \in Workers, WorkflowStep(w) PROVE [Next]_queueVars
  <2>1. CASE StartWorkflow(w)
    BY <2>1 DEF StartWorkflow
  <2>2. CASE LoadInput(w)
    BY <1>1, <2>2 DEF LoadInput, Outcomes
  <2>3. CASE \E v \in Verdicts : EvaluateListing(w, v)
    BY <2>3 DEF EvaluateListing
  <2>4. CASE CreateSuccess(w)
    BY <1>1, <1>2, <2>4 DEF CreateSuccess, Outcomes
  <2>5. CASE ApproveRead(w)
    BY <1>1, <1>2, <2>5 DEF ApproveRead, Outcomes
  <2>6. CASE ApproveWrite(w)
    BY <1>2, <2>6 DEF ApproveWrite
  <2>7. CASE NotifySeller(w)
    BY <1>1, <2>7 DEF NotifySeller, Outcomes
  <2>8. CASE CreateError(w)
    BY <1>1, <2>8 DEF CreateError, Outcomes
  <2>9. CASE SettleJob(w)
    BY <2>9 DEF SettleJob
  <2>10. CASE QueueOnly(w)
    BY <2>10 DEF QueueOnly
  <2>11. QED
    BY <1>3, <2>1, <2>2, <2>3, <2>4, <2>5, <2>6, <2>7, <2>8, <2>9, <2>10
       DEF WorkflowStep
<1>4. ASSUME NEW w \in Workers,
             \/ StatementFails(w) \/ WorkflowThrows(w)
             \/ SettleFails(w) \/ WorkerCrashes(w)
      PROVE  [Next]_queueVars
  BY <1>1, <1>2, <1>4
     DEF StatementFails, WorkflowThrows, SettleFails, WorkerCrashes, Outcomes
<1>5. ASSUME NEW r \in Requests, HandlerStep(r) PROVE [Next]_queueVars
  <2>1. CASE HandlerEnqueues(r)
    <3>1. EnqueueRead(r, client[r].listing, FALSE)
      BY <2>1 DEF HandlerEnqueues
    <3>2. client[r].listing \in Listings
      BY <2>1 DEF HandlerEnqueues, ClientInv
    <3>3. QED
      BY <3>1, <3>2
  <2>2. CASE RequestEnqueues(r)
    BY <2>2 DEF RequestEnqueues
  <2>3. CASE UpdateWrite(r) \/ DecisionWrite(r) \/ HandlerFindsNothing(r)
    BY <2>3 DEF UpdateWrite, DecisionWrite, HandlerFindsNothing
  <2>4. QED
    BY <1>5, <2>1, <2>2, <2>3 DEF HandlerStep
<1>6. ASSUME NEW r \in Requests, ClientRequest(r) PROVE [Next]_queueVars
  BY <1>6 DEF ClientRequest, Create, UpdateRead, Decide, RerunModeration
<1>7. ASSUME NEW r \in Requests, HandlerFails(r) \/ EnqueueFails(r)
      PROVE  [Next]_queueVars
  BY <1>7 DEF HandlerFails, EnqueueFails
<1>8. ASSUME NEW l \in Listings,
             Remove(l) \/ ResolveReport(l) \/ TimePasses(l) \/ RunOverruns(l)
      PROVE  [Next]_queueVars
  BY <1>8 DEF Remove, ResolveReport, TimePasses, RunOverruns
<1>9. CASE UNCHANGED moderationVars
  BY <1>9 DEF moderationVars
<1>10. QED
  BY <1>3, <1>4, <1>5, <1>6, <1>7, <1>8, <1>9 DEF ModerationNext

\* The whole system implements the job queue.
THEOREM ModerationImplementsQueue == ModerationSpec => QueueIsImplemented
<1>1. ModerationInit => Init
  BY DEF ModerationInit
<1>2. ModerationSpec => []ClientInv
  BY InitClientInv, NextClientInv, PTL DEF ModerationSpec
<1>3. QED
  BY <1>1, <1>2, StepSimulation, PTL
     DEF ModerationSpec, QueueIsImplemented, Spec

\* Inside the whole system as well, a worker whose row was queued again cannot
\* settle it, and a row has one holder and one more for each late read-back.
THEOREM ModerationFencesWorkers ==
    ModerationSpec => StaleResultsDiscarded /\ []ClaimsExclusive
BY ModerationImplementsQueue, StaleWorkersAreFenced, ClaimsAreExclusive, PTL
   DEF QueueIsImplemented

\* The two refinements compose: sellers, admins and the workflow see a job life
\* cycle, and a listing is attempted MaxAttempts times for each enqueue and once
\* more for each crash, overlong run and late read-back of that enqueue.
THEOREM ModerationImplementsLifecycle ==
    ModerationSpec => LifecycleIsImplemented /\ []AttemptsBounded
BY ModerationImplementsQueue, QueueImplementsLifecycle, AttemptsAreBounded, PTL
   DEF QueueIsImplemented

-----------------------------------------------------------------------------
(* The types inside the workflow.                                          *)

\* The statements of the workflow at which the content is loaded, and those
\* reached only with a verdict to approve.
Working ==
    {"evaluate", "audit", "approveRead", "approveWrite", "notify",
     "auditError"}
Approving == {"approveRead", "approveWrite", "notify"}

\* An enqueue in flight knows its listing.
RequestInv ==
    \A r \in Requests : request[r].step # "idle"
      => request[r].listing \in Listings

LEMMA NextRequestInv ==
    TypeInv /\ RequestInv /\ [Next]_queueVars => RequestInv'
<1> SUFFICES ASSUME TypeInv, RequestInv, [Next]_queueVars PROVE RequestInv'
    OBVIOUS
<1>1. ASSUME NEW r \in Requests, NEW next,
             request' = [request EXCEPT ![r] = next],
             next.step # "idle" => next.listing \in Listings
      PROVE  RequestInv'
  BY <1>1 DEF RequestInv, TypeInv, TypeOK
<1>2. ASSUME NEW r \in Requests, NEW l \in Listings, NEW p \in BOOLEAN,
             EnqueueRead(r, l, p)
      PROVE  RequestInv'
  <2> DEFINE next == IF p /\ job[l].status = "RUNNING" THEN NoRequest
                     ELSE [step |-> IF HasRow(l) THEN "update" ELSE "create",
                           listing |-> l]
  <2>1. request' = [request EXCEPT ![r] = next]
    BY <1>2 DEF EnqueueRead
  <2>2. next.step # "idle" => next.listing \in Listings
    BY DEF NoRequest
  <2>3. QED
    BY <1>1, <2>1, <2>2
<1>3. ASSUME NEW r \in Requests,
             EnqueueCreate(r) \/ EnqueueUpdate(r) \/ EnqueueAborts(r)
      PROVE  RequestInv'
  <2>1. request' = [request EXCEPT ![r] = NoRequest]
    BY <1>3 DEF EnqueueCreate, EnqueueUpdate, EnqueueAborts
  <2>2. QED
    BY <1>1, <2>1 DEF NoRequest
<1>4. UNCHANGED request => RequestInv'
  BY DEF RequestInv
<1>5. ASSUME NEW w \in Workers, WorkerStep(w) \/ WorkerFault(w)
      PROVE  UNCHANGED request
  BY <1>5
     DEF WorkerStep, WorkerFault, PollTick, RecoverStaleJobs, FindCandidate,
         NothingDue, Claim, ClaimLost, ReadBack, ReadBackThrows, RunEnds,
         Settle, Restart, SettleThrows, Crash
<1>6. ASSUME NEW l \in Listings, ListingStep(l) PROVE UNCHANGED request
  BY <1>6
     DEF ListingStep, CreateListing, DeleteListing, BackoffElapses,
         RunOutlivesLease, LeaseExpires
<1>7. QED
  BY <1>2, <1>3, <1>4, <1>5, <1>6 DEF Next, RequestStep, queueVars

\* A worker is in the workflow exactly while its job runs; it judges a content
\* that it has loaded, and approves only what the model clears.
InWorkflow(w) ==
    /\ (pc[w] = "run") <=> (step[w] # "off")
    /\ step[w] \in Working => input[w] \in Contents
    /\ pc[w] = "settle" => outcome[w] \in Outcomes
    /\ step[w] = "audit" /\ Approves(w) => input[w] \notin Suspicious

\* The types, strengthened to an inductive invariant: a live listing has a
\* content, an update carries one, and nothing is decided of a listing that
\* does not exist yet.
StateInv ==
    /\ ModerationTypeOK
    /\ \A r \in Requests :
         client[r].step = "update" => client[r].next \in Contents
    /\ \A l \in Listings :
         /\ Live(l) => content[l] \in Contents
         /\ listing[l] = "new" => approval[l] = "PENDING"
    /\ \A w \in Workers : InWorkflow(w)

\* The types of what a step of one worker changes.
StepTypes ==
    /\ step \in [Workers -> {"off", "load", "evaluate", "audit", "approveRead",
                            "approveWrite", "notify", "auditError"}]
    /\ input \in [Workers -> Contents \cup {NoContent}]
    /\ verdict \in [Workers -> Verdicts \cup {"none"}]
    /\ threw \subseteq Workers

\* A step of worker w keeps StateInv when it leaves the other workers alone and
\* w itself well typed.
LEMMA WorkerFrame ==
    ASSUME StateInv, TypeOK', NEW w \in Workers, StepTypes', InWorkflow(w)',
      \A u \in Workers \ {w} : /\ pc'[u] = pc[u] /\ outcome'[u] = outcome[u]
                               /\ step'[u] = step[u] /\ input'[u] = input[u]
                               /\ verdict'[u] = verdict[u],
      UNCHANGED <<listing, content, client, edits, judged, overtaken,
                  misread>>,
      approval' \in [Listings -> {"PENDING", "APPROVED", "REJECTED"}],
      \A l \in Listings : listing[l] = "new" => approval'[l] = approval[l],
      runs' \in [Listings -> SUBSET AuditRows],
      failures' \in 0..MaxFailures, byAdmin' \cup lost' \subseteq Listings
    PROVE  StateInv'
<1>2. ASSUME NEW u \in Workers PROVE InWorkflow(u)'
  BY DEF StateInv, InWorkflow, Approves
<1>5. ModerationTypeOK'
  BY <1>2 DEF StateInv, ModerationTypeOK, InWorkflow, StepTypes
<1>6. QED
  BY <1>2, <1>5 DEF StateInv, Live

LEMMA NextStateInv ==
    /\ TypeInv /\ RequestInv /\ ClientInv /\ StateInv
    /\ [ModerationNext]_moderationVars
    => StateInv'
<1> SUFFICES ASSUME TypeInv, RequestInv, ClientInv, StateInv,
                    [ModerationNext]_moderationVars
             PROVE  StateInv'
  OBVIOUS
<1>0. TypeOK'
  BY StepSimulation, NextTypeInv DEF TypeInv
<1> DEFINE Alone(w) ==
      \A u \in Workers \ {w} : /\ pc'[u] = pc[u] /\ outcome'[u] = outcome[u]
                               /\ step'[u] = step[u] /\ input'[u] = input[u]
                               /\ verdict'[u] = verdict[u]
<1>a. ASSUME NEW w \in Workers, UNCHANGED <<listing, client, listingVars>>,
             Alone(w), StepTypes', InWorkflow(w)'
      PROVE  StateInv'
  BY <1>0, <1>a, WorkerFrame DEF StateInv, ModerationTypeOK, listingVars
<1>b. StepTypes /\ \A w \in Workers : InWorkflow(w)
  BY DEF StateInv, ModerationTypeOK, StepTypes
<1>c. ASSUME NEW w \in Workers, NEW o \in Outcomes, WorkflowEnds(w, o),
             UNCHANGED input, threw' \subseteq Workers
      PROVE  StepTypes' /\ InWorkflow(w)' /\ Alone(w) /\ UNCHANGED listing
  BY <1>b, <1>c
     DEF WorkflowEnds, RunEnds, TypeInv, TypeOK, StepTypes, Working, InWorkflow
<1>d. ASSUME NEW w \in Workers, ToCatch(w), step[w] \in Working
      PROVE  StepTypes' /\ InWorkflow(w)' /\ Alone(w) /\ UNCHANGED listing
  BY <1>b, <1>d
     DEF ToCatch, queueVars, StepTypes, Working, InWorkflow, Verdicts, Failures
<1>1. ASSUME NEW w \in Workers, StartWorkflow(w) PROVE StateInv'
  <2>1. StepTypes' /\ InWorkflow(w)' /\ Alone(w) /\ UNCHANGED listing
    BY <1>1, <1>b
       DEF StartWorkflow, ReadBack, TypeInv, TypeOK, Working, StepTypes,
           InWorkflow
  <2>2. QED
    BY <2>1, <1>a, <1>1 DEF StartWorkflow
<1>2. ASSUME NEW w \in Workers, LoadInput(w) PROVE StateInv'
  <2> PICK l \in Listings : l = token[w].listing
    BY <1>2, <1>b DEF LoadInput, InWorkflow, TypeInv, Active
  <2>1. CASE Live(l)
    <3>1. StepTypes' /\ InWorkflow(w)' /\ Alone(w) /\ UNCHANGED listing
      BY <1>2, <2>1, <1>b
         DEF LoadInput, queueVars, Working, StateInv, InWorkflow, StepTypes
    <3>2. QED
      BY <3>1, <1>a, <1>2 DEF LoadInput
  <2>2. CASE ~Live(l)
    BY <1>2, <2>2, <1>a, <1>b, <1>c DEF LoadInput, StepTypes, Outcomes
  <2>3. QED
    BY <2>1, <2>2
<1>3. ASSUME NEW w \in Workers, NEW v \in Verdicts, EvaluateListing(w, v)
      PROVE  StateInv'
  <2>1. StepTypes' /\ InWorkflow(w)' /\ Alone(w) /\ UNCHANGED listing
    BY <1>3, <1>b
       DEF EvaluateListing, queueVars, Working, InWorkflow, Verdicts, Failures,
           StepTypes, Approves
  <2>2. QED
    BY <2>1, <1>a, <1>3 DEF EvaluateListing
<1>4. ASSUME NEW w \in Workers, CreateSuccess(w) PROVE StateInv'
  <2>1. StepTypes' /\ InWorkflow(w)' /\ Alone(w) /\ UNCHANGED listing
    <3>1. CASE Live(token[w].listing) /\ Approves(w)
      BY <1>4, <3>1, <1>b
         DEF CreateSuccess, queueVars, Working, InWorkflow, StepTypes
    <3>2. CASE Live(token[w].listing) /\ ~Approves(w)
      BY <1>4, <3>2, <1>b, <1>c DEF CreateSuccess, StepTypes, Outcomes
    <3>3. CASE ~Live(token[w].listing)
      BY <1>4, <3>3, <1>d DEF CreateSuccess, Working
    <3>4. QED
      BY <3>1, <3>2, <3>3
  <2>2. runs' \in [Listings -> SUBSET AuditRows]
    BY <1>4, <1>b
       DEF CreateSuccess, AddRun, AuditRows, InWorkflow, Working, StateInv,
           ModerationTypeOK
  <2>3. QED
    BY <2>1, <2>2, <1>0, <1>4, WorkerFrame
       DEF CreateSuccess, StateInv, ModerationTypeOK
<1>5. ASSUME NEW w \in Workers, ApproveRead(w) PROVE StateInv'
  <2>1. CASE ~Live(token[w].listing)
    BY <1>5, <2>1, <1>a, <1>d DEF ApproveRead, Working
  <2>2. CASE Live(token[w].listing) /\ approval[token[w].listing] = "APPROVED"
    BY <1>5, <2>2, <1>a, <1>b, <1>c DEF ApproveRead, StepTypes, Outcomes
  <2>3. CASE Live(token[w].listing) /\ approval[token[w].listing] # "APPROVED"
    <3>1. StepTypes' /\ InWorkflow(w)' /\ Alone(w) /\ UNCHANGED listing
      BY <1>5, <2>3, <1>b
         DEF ApproveRead, queueVars, Working, InWorkflow, StepTypes
    <3>2. QED
      BY <3>1, <1>a, <1>5 DEF ApproveRead
  <2>4. QED
    BY <2>1, <2>2, <2>3
<1>6. ASSUME NEW w \in Workers, ApproveWrite(w) PROVE StateInv'
  <2> PICK l \in Listings : l = token[w].listing
    BY <1>6, <1>b DEF ApproveWrite, InWorkflow, TypeInv, Active
  <2>1. CASE ~Live(l)
    BY <1>6, <2>1, <1>a, <1>d DEF ApproveWrite, Working, listingVars
  <2>2. CASE Live(l)
    <3>1. StepTypes' /\ InWorkflow(w)' /\ Alone(w) /\ UNCHANGED listing
      BY <1>6, <2>2, <1>b
         DEF ApproveWrite, queueVars, Working, InWorkflow, StepTypes
    <3>2. /\ approval' = [approval EXCEPT ![l] = "APPROVED"]
          /\ byAdmin' \subseteq byAdmin
      BY <1>6, <2>2 DEF ApproveWrite, SetApproval
    <3>3. /\ approval' \in [Listings -> {"PENDING", "APPROVED", "REJECTED"}]
          /\ \A k \in Listings : listing[k] = "new"
               => approval'[k] = approval[k]
      BY <2>2, <3>2 DEF StateInv, ModerationTypeOK, Live
    <3>4. QED
      BY <3>1, <3>2, <3>3, <1>0, <1>6, WorkerFrame
         DEF ApproveWrite, StateInv, ModerationTypeOK
  <2>3. QED
    BY <2>1, <2>2
<1>7. ASSUME NEW w \in Workers, NotifySeller(w) PROVE StateInv'
  BY <1>7, <1>a, <1>b, <1>c DEF NotifySeller, StepTypes, Outcomes
<1>8. ASSUME NEW w \in Workers, CreateError(w) PROVE StateInv'
  <2>1. StepTypes' /\ InWorkflow(w)' /\ Alone(w) /\ UNCHANGED listing
    BY <1>8, <1>b, <1>c DEF CreateError, StepTypes, Outcomes
  <2>2. runs' \in [Listings -> SUBSET AuditRows]
    BY <1>8, <1>b
       DEF CreateError, AddRun, AuditRows, InWorkflow, Working, StateInv,
           ModerationTypeOK
  <2>3. QED
    BY <2>1, <2>2, <1>0, <1>8, WorkerFrame
       DEF CreateError, StateInv, ModerationTypeOK
<1>9. ASSUME NEW w \in Workers, SettleJob(w) PROVE StateInv'
  <2>1. StepTypes' /\ InWorkflow(w)' /\ Alone(w) /\ UNCHANGED listing
    BY <1>9, <1>b
       DEF SettleJob, Settle, Working, InWorkflow, StepTypes, TypeInv, TypeOK
  <2>2. judged' \in [Listings -> Contents \cup {NoContent}]
    BY <1>9, <1>b DEF SettleJob, Settle, StateInv, ModerationTypeOK
  <2>3. ModerationTypeOK'
    BY <2>1, <2>2, <1>0, <1>9, <1>b
       DEF SettleJob, StepTypes, StateInv, ModerationTypeOK, InWorkflow
  <2>4. QED
    BY <1>9, <2>1, <2>3 DEF SettleJob, StateInv, InWorkflow, Approves, Live
<1>10. ASSUME NEW w \in Workers, WorkerCrashes(w) PROVE StateInv'
  <2>1. StepTypes' /\ InWorkflow(w)' /\ Alone(w) /\ UNCHANGED listing
    BY <1>10, <1>b
       DEF WorkerCrashes, Crash, Working, InWorkflow, StepTypes, TypeInv,
           TypeOK
  <2>2. QED
    BY <2>1, <1>a, <1>10 DEF WorkerCrashes
<1>11. ASSUME NEW w \in Workers, QueueOnly(w) PROVE StateInv'
  <2>1. InWorkflow(w)' /\ Alone(w) /\ UNCHANGED listing
    BY <1>11, <1>b
       DEF QueueOnly, PollTick, RecoverStaleJobs, FindCandidate, NothingDue,
           Claim, ClaimLost, ReadBackThrows, Restart, workflowVars, InWorkflow,
           TypeInv, TypeOK, Approves
  <2>2. StepTypes'
    BY <1>11, <1>b DEF QueueOnly, workflowVars, StepTypes
  <2>3. QED
    BY <2>1, <2>2, <1>a, <1>11 DEF QueueOnly
<1>12. ASSUME NEW w \in Workers, SettleFails(w) PROVE StateInv'
  <2>1. StepTypes' /\ InWorkflow(w)' /\ Alone(w) /\ UNCHANGED listing
    BY <1>12, <1>b
       DEF SettleFails, SettleThrows, workflowVars, InWorkflow, StepTypes,
           TypeInv, TypeOK, Approves, Outcomes
  <2>3. QED
    BY <2>1, <1>a, <1>12 DEF SettleFails
<1>12a. ASSUME NEW w \in Workers, StatementFails(w) PROVE StateInv'
  <2>1. StepTypes' /\ InWorkflow(w)' /\ Alone(w) /\ UNCHANGED listing
    BY <1>12a, <1>d DEF StatementFails, Working
  <2>2. failures' \in 0..MaxFailures
    BY <1>12a, ContentsAssumption
       DEF StatementFails, Failure, StateInv, ModerationTypeOK
  <2>3. QED
    BY <2>1, <2>2, <1>0, <1>12a, WorkerFrame
       DEF StatementFails, StateInv, ModerationTypeOK
<1>12b. ASSUME NEW w \in Workers, WorkflowThrows(w) PROVE StateInv'
  <2>1. StepTypes' /\ InWorkflow(w)' /\ Alone(w) /\ UNCHANGED listing
    BY <1>12b, <1>b, <1>c DEF WorkflowThrows, StepTypes, Outcomes
  <2>2. failures' \in 0..MaxFailures
    BY <1>12b, ContentsAssumption
       DEF WorkflowThrows, Failure, StateInv, ModerationTypeOK
  <2>3. QED
    BY <2>1, <2>2, <1>0, <1>12b, WorkerFrame
       DEF WorkflowThrows, StateInv, ModerationTypeOK
<1>13. (\A w \in Workers : UNCHANGED <<pc, outcome, step, input, verdict>>)
         => \A w \in Workers : InWorkflow(w)'
  BY <1>b DEF InWorkflow, Approves
<1> USE <1>0, ContentsAssumption DEF StateInv, ModerationTypeOK, Live
<1>14. ASSUME NEW r \in Requests, NEW l \in Listings, NEW c \in Contents,
              Create(r, l, c)
       PROVE  StateInv'
  BY <1>14, <1>13 DEF Create, CreateListing, workflowVars, ClientAt
<1>15. ASSUME NEW r \in Requests, NEW l \in Listings, NEW c \in Contents,
              UpdateRead(r, l, c)
       PROVE  StateInv'
  BY <1>15, <1>13 DEF UpdateRead, workflowVars, queueVars
<1>16. ASSUME NEW r \in Requests, UpdateWrite(r) PROVE StateInv'
  BY <1>16, <1>13
     DEF UpdateWrite, workflowVars, queueVars, SetApproval, ClientAt, NoClient,
         ClientInv
<1>17. ASSUME NEW r \in Requests, NEW l \in Listings,
              NEW d \in {"approve", "reject"}, Decide(r, l, d)
       PROVE  StateInv'
  BY <1>17, <1>13 DEF Decide, workflowVars, queueVars, ClientAt
<1>18. ASSUME NEW r \in Requests, DecisionWrite(r) PROVE StateInv'
  BY <1>18, <1>13
     DEF DecisionWrite, workflowVars, queueVars, SetApproval, ClientAt,
         NoClient, ClientInv
<1>19. ASSUME NEW r \in Requests,
              HandlerFindsNothing(r) \/ HandlerEnqueues(r) \/ HandlerFails(r)
       PROVE  StateInv'
  BY <1>19, <1>13
     DEF HandlerFindsNothing, HandlerEnqueues, HandlerFails, EnqueueRead,
         workflowVars, listingVars, queueVars, ClientAt, NoClient, ClientInv,
         Failure
<1>20. ASSUME NEW r \in Requests, NEW l \in Listings, RerunModeration(r, l)
       PROVE  StateInv'
  BY <1>20, <1>13 DEF RerunModeration, EnqueueRead, workflowVars, listingVars
<1>21. ASSUME NEW r \in Requests, RequestEnqueues(r) PROVE StateInv'
  BY <1>21, <1>13
     DEF RequestEnqueues, EnqueueCreate, EnqueueUpdate, workflowVars,
         listingVars
<1>22. ASSUME NEW r \in Requests, EnqueueFails(r) PROVE StateInv'
  BY <1>22, <1>13 DEF EnqueueFails, EnqueueAborts, workflowVars, RequestInv
<1>23. ASSUME NEW l \in Listings, Remove(l) PROVE StateInv'
  BY <1>23, <1>13 DEF Remove, DeleteListing, workflowVars
<1>24. ASSUME NEW l \in Listings, ResolveReport(l) PROVE StateInv'
  BY <1>24, <1>13 DEF ResolveReport, SetApproval, workflowVars, queueVars
<1>25. ASSUME NEW l \in Listings, TimePasses(l) \/ RunOverruns(l)
       PROVE  StateInv'
  BY <1>25, <1>13
     DEF TimePasses, RunOverruns, BackoffElapses, LeaseExpires,
         RunOutlivesLease, workflowVars, listingVars
<1>26. CASE UNCHANGED moderationVars
  BY <1>26, <1>13 DEF moderationVars, queueVars, workflowVars, listingVars
<1>27. ASSUME NEW w \in Workers,
              \/ WorkflowStep(w) \/ StatementFails(w) \/ WorkflowThrows(w)
              \/ SettleFails(w) \/ WorkerCrashes(w)
       PROVE  StateInv'
  BY <1>27, <1>1, <1>2, <1>3, <1>4, <1>5, <1>6, <1>7, <1>8, <1>9, <1>10, <1>11,
     <1>12, <1>12a, <1>12b DEF WorkflowStep
<1>28. ASSUME NEW r \in Requests,
              \/ HandlerStep(r) \/ ClientRequest(r)
              \/ HandlerFails(r) \/ EnqueueFails(r)
       PROVE  StateInv'
  BY <1>28, <1>14, <1>15, <1>16, <1>17, <1>18, <1>19, <1>20, <1>21, <1>22
     DEF HandlerStep, ClientRequest
<1>29. QED
  BY <1>23, <1>24, <1>25, <1>26, <1>27, <1>28 DEF ModerationNext
-----------------------------------------------------------------------------
(* What a listing shows was cleared.                                        *)

\* The audit row of a run that cleared c exists.
Cleared(l, c) == /\ c \notin Suspicious
                 /\ [input |-> c, applied |-> "APPROVED",
                     status |-> "SUCCESS"] \in runs[l]

\* A worker that is going to approve l has its audit row, and what it judges is
\* what the listing says unless the listing was edited meanwhile.
JudgesCleared(w) ==
  \A l \in Listings : token[w].listing = l /\ Live(l) /\ step[w] \in Working =>
    /\ step[w] \in Approving => Cleared(l, input[w])
    /\ input[w] = content[l] \/ l \in overtaken

\* PublishedWasCleared, strengthened by the workers that are about to publish.
PublishInv == PublishedWasCleared /\ \A w \in Workers : JudgesCleared(w)

\* What the worker judges, and how far it got, is what it was.
KeepsWork(w) ==
   step'[w] \in Working =>
     /\ step[w] \in Working
     /\ (step'[w] \in Approving => step[w] \in Approving)
     /\ input'[w] = input[w] /\ token'[w].listing = token[w].listing

\* What l shows is what it showed: nothing new becomes public, no audit row is
\* lost and no edit forgotten.
ShownBefore(l) ==
   /\ Live(l)'
        => Live(l) /\ content'[l] = content[l] /\ runs[l] \subseteq runs'[l]
   /\ l \in overtaken => l \in overtaken'
   /\ l \in misread => l \in misread'
   /\ Live(l)' /\ approval'[l] = "APPROVED" /\ l \notin byAdmin'
        => approval[l] = "APPROVED" /\ l \notin byAdmin

\* A step that keeps both keeps PublishInv.
LEMMA PublishFrame ==
  ASSUME PublishInv, \A w \in Workers : KeepsWork(w),
         \A l \in Listings : ShownBefore(l)
  PROVE  PublishInv'
<1>1. ASSUME NEW w \in Workers PROVE JudgesCleared(w)'
  BY DEF PublishInv, JudgesCleared, KeepsWork, ShownBefore, Cleared
<1>2. PublishedWasCleared'
  BY DEF PublishInv, PublishedWasCleared, ShownBefore
<1>3. QED
  BY <1>1, <1>2 DEF PublishInv

\* Nothing of worker w changes; the step is one of its own.
WorkerSame(w) ==
  /\ pc'[w] = pc[w] /\ token'[w] = token[w] /\ outcome'[w] = outcome[w]
  /\ step'[w] = step[w] /\ input'[w] = input[w]
  /\ w \in threw => w \in threw'

WorkerMoves(w) ==
  \/ WorkflowStep(w) \/ StatementFails(w) \/ WorkflowThrows(w)
  \/ SettleFails(w) \/ WorkerCrashes(w)


\* The two ways out of a statement: the workflow ends, or its catch block runs.
LEMMA WorkflowExits ==
  ASSUME TypeInv, StateInv, NEW w \in Workers
  PROVE  /\ \A o : WorkflowEnds(w, o) =>
              /\ UNCHANGED <<listing, job, token, request, enqueues, faults,
                             superseded>>
              /\ pc[w] = "run" /\ pc'[w] = "settle"
              /\ outcome'[w] = o /\ step'[w] = "off"
              /\ \A v \in Workers \ {w} :
                   /\ pc'[v] = pc[v] /\ outcome'[v] = outcome[v]
                   /\ step'[v] = step[v]
         /\ ToCatch(w) =>
              /\ UNCHANGED <<queueVars, input, threw>>
              /\ step'[w] = "auditError"
              /\ \A v \in Workers \ {w} : step'[v] = step[v]
BY DEF WorkflowEnds, RunEnds, ToCatch, TypeInv, TypeOK, StateInv,
       ModerationTypeOK

\* At most one worker moves in a step.
LEMMA OneWorker ==
   /\ TypeInv /\ StateInv
   /\ [ModerationNext]_moderationVars
   => \/ \A w \in Workers : WorkerSame(w)
      \/ \E v \in Workers : /\ WorkerMoves(v)
                            /\ \A w \in Workers \ {v} : WorkerSame(w)
<1> SUFFICES ASSUME TypeInv, StateInv, [ModerationNext]_moderationVars
             PROVE  \/ \A w \in Workers : WorkerSame(w)
                    \/ \E v \in Workers :
                         /\ WorkerMoves(v)
                         /\ \A w \in Workers \ {v} : WorkerSame(w)
  OBVIOUS
<1> USE DEF TypeInv, TypeOK, StateInv, ModerationTypeOK, WorkerSame
<1>1. ASSUME NEW v \in Workers, NEW w \in Workers \ {v},
             StartWorkflow(v) \/ SettleJob(v) \/ SettleFails(v)
             \/ WorkerCrashes(v)
      PROVE  WorkerSame(w)
  BY <1>1
     DEF StartWorkflow, ReadBack, SettleJob, Settle, SettleFails, SettleThrows,
         WorkerCrashes, Crash, workflowVars
<1>2. ASSUME NEW v \in Workers, NEW w \in Workers \ {v}, QueueOnly(v)
      PROVE  WorkerSame(w)
  BY <1>2
     DEF QueueOnly, PollTick, RecoverStaleJobs, FindCandidate, NothingDue,
         Claim, ClaimLost, ReadBackThrows, Restart, workflowVars
<1>3. ASSUME NEW v \in Workers, NEW w \in Workers \ {v}, LoadInput(v)
      PROVE  WorkerSame(w)
  BY <1>3, WorkflowExits DEF LoadInput, queueVars
<1>4. ASSUME NEW v \in Workers, NEW w \in Workers \ {v},
        \/ ApproveWrite(v) \/ \E j \in Verdicts : EvaluateListing(v, j)
        \/ StatementFails(v) \/ WorkflowThrows(v)
      PROVE  WorkerSame(w)
  <2>1. CASE ApproveWrite(v)
    <3>1. UNCHANGED <<pc, token, outcome, input, threw>>
      BY <2>1 DEF ApproveWrite, ToCatch, queueVars
    <3>2. PICK s : step' = [step EXCEPT ![v] = s]
      BY <2>1 DEF ApproveWrite, ToCatch
    <3>3. QED
      BY <3>1, <3>2
  <2>2. ASSUME NEW j \in Verdicts, EvaluateListing(v, j) PROVE WorkerSame(w)
    <3>1. UNCHANGED <<pc, token, outcome, input, threw>>
      BY <2>2 DEF EvaluateListing, queueVars
    <3>2. PICK s : step' = [step EXCEPT ![v] = s]
      BY <2>2 DEF EvaluateListing
    <3>3. QED
      BY <3>1, <3>2
  <2>3. CASE StatementFails(v) \/ WorkflowThrows(v)
    BY <2>3, WorkflowExits DEF StatementFails, WorkflowThrows, queueVars
  <2>4. QED
    BY <1>4, <2>1, <2>2, <2>3
<1>5. ASSUME NEW v \in Workers, NEW w \in Workers \ {v},
        CreateSuccess(v) \/ ApproveRead(v) \/ NotifySeller(v) \/ CreateError(v)
      PROVE  WorkerSame(w)
  BY <1>5, WorkflowExits
     DEF CreateSuccess, ApproveRead, NotifySeller, CreateError, queueVars
<1>6. ASSUME NEW r \in Requests,
              \/ HandlerStep(r) \/ ClientRequest(r)
              \/ HandlerFails(r) \/ EnqueueFails(r)
      PROVE  UNCHANGED <<pc, token, outcome, workflowVars>>
  BY <1>6
     DEF HandlerStep, ClientRequest, HandlerFails, EnqueueFails,
         HandlerEnqueues, RequestEnqueues, UpdateWrite, DecisionWrite,
         HandlerFindsNothing, Create, UpdateRead, Decide, RerunModeration,
         CreateListing, EnqueueRead, EnqueueCreate, EnqueueUpdate,
         EnqueueAborts, queueVars
<1>7. ASSUME NEW l \in Listings,
             Remove(l) \/ ResolveReport(l) \/ TimePasses(l) \/ RunOverruns(l)
      PROVE  UNCHANGED <<pc, token, outcome, workflowVars>>
  BY <1>7
     DEF Remove, DeleteListing, ResolveReport, TimePasses, BackoffElapses,
         LeaseExpires, RunOverruns, RunOutlivesLease, queueVars
<1>8. CASE UNCHANGED moderationVars
  BY <1>8 DEF moderationVars, workflowVars, queueVars
<1>9. ASSUME NEW v \in Workers, WorkerMoves(v)
       PROVE  \A w \in Workers \ {v} : WorkerSame(w)
  BY <1>1, <1>2, <1>3, <1>4, <1>5, <1>9 DEF WorkflowStep, WorkerMoves
<1>10. QED
  BY <1>6, <1>7, <1>8, <1>9 DEF ModerationNext, WorkerMoves, workflowVars

\* Only loading a content and auditing its verdict change what a worker judges.
LEMMA KeptWork ==
   ASSUME TypeInv, StateInv, NEW w \in Workers,
          WorkerSame(w) \/ WorkerMoves(w)
   PROVE  KeepsWork(w) \/ LoadInput(w) \/ CreateSuccess(w)
<1>1. CASE WorkerSame(w)
  BY <1>1 DEF WorkerSame, KeepsWork
<1>a. step \in [Workers -> {"off", "load"} \cup Working]
  BY DEF StateInv, ModerationTypeOK, Working
<1>2. ASSUME
        \/ ApproveRead(w) \/ ApproveWrite(w) \/ NotifySeller(w)
        \/ CreateError(w)
        \/ StatementFails(w) \/ WorkflowThrows(w)
        \/ \E j \in Verdicts : EvaluateListing(w, j)
      PROVE  KeepsWork(w)
  BY <1>2, <1>a, WorkflowExits
     DEF ApproveRead, NotifySeller, CreateError, StatementFails,
         WorkflowThrows, ApproveWrite, EvaluateListing, Working, Approving,
         KeepsWork, queueVars
<1>3. ASSUME StartWorkflow(w) \/ SettleJob(w) \/ QueueOnly(w) \/ SettleFails(w)
             \/ WorkerCrashes(w)
      PROVE  KeepsWork(w)
  BY <1>3, <1>a
     DEF KeepsWork, StartWorkflow, SettleJob, Settle, SettleFails,
         SettleThrows, WorkerCrashes, Crash, QueueOnly, PollTick,
         RecoverStaleJobs, FindCandidate, NothingDue, Claim, ClaimLost,
         ReadBackThrows, Restart, workflowVars, StateInv, InWorkflow, Working
<1>4. QED
  BY <1>1, <1>2, <1>3 DEF WorkerMoves, WorkflowStep

\* Only an approval, an edit and a creation change what a listing shows.
LEMMA KeptShown ==
   /\ TypeInv /\ ClientInv /\ StateInv
   /\ [ModerationNext]_moderationVars
   => \/ \A l \in Listings : ShownBefore(l)
      \/ \E w \in Workers : ApproveWrite(w)
      \/ \E r \in Requests : UpdateWrite(r)
      \/ \E r \in Requests, l \in Listings, c \in Contents : Create(r, l, c)
<1> SUFFICES ASSUME TypeInv, ClientInv, StateInv,
                    [ModerationNext]_moderationVars,
          ~ \E w \in Workers : ApproveWrite(w),
      ~ \E r \in Requests : UpdateWrite(r),
      ~ \E r \in Requests, l \in Listings, c \in Contents : Create(r, l, c),
      NEW l \in Listings
      PROVE  ShownBefore(l)
  OBVIOUS
<1> DEFINE Calm == UNCHANGED <<listing, content, approval, byAdmin, overtaken,
                               misread>>
<1>a. ASSUME Calm, runs[l] \subseteq runs'[l] PROVE ShownBefore(l)
  BY <1>a DEF ShownBefore, Live
<1>b. \A v \in Workers : \A o : WorkflowEnds(v, o) => listing' = listing
  BY DEF WorkflowEnds, RunEnds
<1>c. \A v \in Workers : ToCatch(v) => listing' = listing
  BY DEF ToCatch, queueVars
<1>1. ASSUME NEW v \in Workers,
        \/ LoadInput(v) \/ CreateSuccess(v) \/ ApproveRead(v)
        \/ NotifySeller(v) \/ CreateError(v)
        \/ StatementFails(v) \/ WorkflowThrows(v)
        \/ \E j \in Verdicts : EvaluateListing(v, j)
      PROVE  Calm
  BY <1>1, <1>b, <1>c
     DEF LoadInput, CreateSuccess, ApproveRead, NotifySeller, CreateError,
         StatementFails, WorkflowThrows, EvaluateListing, queueVars,
         listingVars
<1>2. ASSUME NEW v \in Workers,
        \/ LoadInput(v) \/ ApproveRead(v) \/ NotifySeller(v)
        \/ StatementFails(v) \/ WorkflowThrows(v)
        \/ \E j \in Verdicts : EvaluateListing(v, j)
      PROVE  UNCHANGED runs
  BY <1>2
     DEF LoadInput, ApproveRead, NotifySeller, StatementFails, WorkflowThrows,
         EvaluateListing, listingVars
<1>3. ASSUME NEW v \in Workers, CreateSuccess(v) \/ CreateError(v)
      PROVE  runs[l] \subseteq runs'[l]
  BY <1>3 DEF CreateSuccess, CreateError, AddRun, StateInv, ModerationTypeOK
<1>4. ASSUME NEW v \in Workers,
         StartWorkflow(v) \/ SettleJob(v) \/ QueueOnly(v) \/ SettleFails(v)
         \/ WorkerCrashes(v)
      PROVE  Calm /\ runs' = runs
  BY <1>4
     DEF StartWorkflow, ReadBack, SettleJob, Settle, SettleFails, SettleThrows,
         WorkerCrashes, Crash, QueueOnly, PollTick, RecoverStaleJobs,
         FindCandidate, NothingDue, Claim, ClaimLost, ReadBackThrows, Restart,
         listingVars
<1>5. ASSUME NEW r \in Requests,
              \/ HandlerEnqueues(r) \/ RequestEnqueues(r)
              \/ HandlerFindsNothing(r)
              \/ HandlerFails(r) \/ EnqueueFails(r)
              \/ \E k \in Listings : \/ \E c \in Contents : UpdateRead(r, k, c)
                                    \/ \E d \in {"approve", "reject"} :
                                           Decide(r, k, d)
                                    \/ RerunModeration(r, k)
      PROVE  Calm /\ runs' = runs
  BY <1>5
     DEF HandlerFails, EnqueueFails, HandlerEnqueues, RequestEnqueues,
         HandlerFindsNothing, UpdateRead, Decide, RerunModeration, EnqueueRead,
         EnqueueCreate, EnqueueUpdate, EnqueueAborts, listingVars, queueVars
<1>6. ASSUME NEW k \in Listings, NEW s \in {"PENDING", "REJECTED", "APPROVED"},
             NEW a \in BOOLEAN,
      SetApproval(k, s, a), s = "APPROVED" => a,
      UNCHANGED <<listing, content, overtaken, misread, runs>>
      PROVE  ShownBefore(l)
  BY <1>6 DEF SetApproval, ShownBefore, StateInv, ModerationTypeOK, Live
<1>7. ASSUME NEW r \in Requests, DecisionWrite(r) PROVE ShownBefore(l)
  <2>1. client[r].listing \in Listings
    BY <1>7 DEF DecisionWrite, ClientInv
  <2>2. QED
   BY <1>6, <1>7, <2>1 DEF DecisionWrite, queueVars
<1>8. ASSUME NEW k \in Listings, ResolveReport(k) PROVE ShownBefore(l)
  BY <1>6, <1>8 DEF ResolveReport, queueVars
<1>9. ASSUME NEW k \in Listings, Remove(k) PROVE ShownBefore(l)
  BY <1>9
     DEF Remove, DeleteListing, ShownBefore, Live, StateInv, ModerationTypeOK,
         TypeOK
<1>10. ASSUME NEW k \in Listings, TimePasses(k) \/ RunOverruns(k)
      PROVE  Calm /\ runs' = runs
  BY <1>10
     DEF TimePasses, BackoffElapses, LeaseExpires, RunOverruns,
         RunOutlivesLease, listingVars
<1>11. CASE UNCHANGED moderationVars
  BY <1>a, <1>11 DEF moderationVars, listingVars, queueVars
<1>12. ASSUME NEW v \in Workers,
              \/ WorkflowStep(v) \/ StatementFails(v) \/ WorkflowThrows(v)
              \/ SettleFails(v) \/ WorkerCrashes(v)
       PROVE  ShownBefore(l)
  BY <1>a, <1>1, <1>2, <1>3, <1>4, <1>12 DEF WorkflowStep
<1>13. ASSUME NEW r \in Requests,
              \/ HandlerStep(r) \/ ClientRequest(r)
              \/ HandlerFails(r) \/ EnqueueFails(r)
       PROVE  ShownBefore(l)
  BY <1>a, <1>5, <1>7, <1>13 DEF HandlerStep, ClientRequest
<1>14. QED
  BY <1>a, <1>8, <1>9, <1>10, <1>11, <1>12, <1>13 DEF ModerationNext

LEMMA InitPublishInv == ModerationInit => PublishInv
BY DEF ModerationInit, Init, PublishInv, PublishedWasCleared, JudgesCleared,
       Live, Working

\* A worker in the workflow works on a listing that was created.
LEMMA WorkedOn == TypeInv /\ FenceInv /\ StateInv => \A w \in Workers :
   step[w] # "off"
     => token[w].listing \in Listings /\ listing[token[w].listing] # "new"
BY DEF TypeInv, FenceInv, Fence, Active, TypeOK, HasRow, StateInv, InWorkflow

LEMMA NextPublishInv ==
   /\ TypeInv /\ FenceInv /\ ClientInv /\ StateInv /\ PublishInv
   /\ [ModerationNext]_moderationVars
   => PublishInv'
<1> SUFFICES ASSUME TypeInv, FenceInv, ClientInv, StateInv, PublishInv,
                    [ModerationNext]_moderationVars
    PROVE  PublishInv'
  OBVIOUS
<1>1. CASE \A l \in Listings : ShownBefore(l)
  <2>1. ASSUME NEW w \in Workers, KeepsWork(w) PROVE JudgesCleared(w)'
    BY <1>1, <2>1
       DEF KeepsWork, ShownBefore, PublishInv, JudgesCleared, Cleared
  <2>2. ASSUME NEW w \in Workers, LoadInput(w) PROVE JudgesCleared(w)'
    BY <2>2
       DEF LoadInput, WorkflowEnds, JudgesCleared, StateInv, ModerationTypeOK,
           Working, Approving, queueVars, listingVars, Live
  <2>3. ASSUME NEW w \in Workers, CreateSuccess(w) PROVE JudgesCleared(w)'
    <3> PICK k \in Listings : k = token[w].listing
      BY <2>3, WorkedOn DEF CreateSuccess
    <3>1. step \in [Workers -> {"off", "load"} \cup Working]
      BY DEF StateInv, ModerationTypeOK, Working
    <3>2. CASE Live(k) /\ Approves(w)
      <4>1. /\ step'[w] = "approveRead"
            /\ UNCHANGED <<token, input, content, listing, overtaken>>
            /\ runs' = [runs EXCEPT ![k] =
                          @ \cup {[input |-> input[w], status |-> "SUCCESS",
                                   applied |-> "APPROVED"]}]
        BY <2>3, <3>1, <3>2 DEF CreateSuccess, AddRun, queueVars
      <4>2. input[w] \notin Suspicious
            /\ (input[w] = content[k] \/ k \in overtaken)
        BY <2>3, <3>2
           DEF CreateSuccess, StateInv, InWorkflow, PublishInv, JudgesCleared,
               Working
      <4>3. [input |-> input[w], applied |-> "APPROVED",
             status |-> "SUCCESS"] \in runs'[k]
        BY <4>1 DEF StateInv, ModerationTypeOK
      <4>4. QED
        BY <4>1, <4>2, <4>3 DEF JudgesCleared, Cleared
    <3>3. CASE Live(k) /\ ~Approves(w)
      BY <2>3, <3>1, <3>3
         DEF CreateSuccess, WorkflowEnds, JudgesCleared, Working
    <3>4. CASE ~Live(k)
      BY <2>3, <3>4 DEF CreateSuccess, ToCatch, JudgesCleared, queueVars, Live
    <3>5. QED
      BY <3>2, <3>3, <3>4
  <2>4. PublishedWasCleared'
    BY <1>1 DEF PublishInv, PublishedWasCleared, ShownBefore
  <2>5. QED
    BY <2>1, <2>2, <2>3, <2>4, KeptWork, OneWorker DEF PublishInv
<1>2. ASSUME NEW w \in Workers, ApproveWrite(w) PROVE PublishInv'
  <2> PICK k \in Listings : k = token[w].listing
      BY <1>2, WorkedOn DEF ApproveWrite
  <2>1. UNCHANGED <<listing, content, runs, overtaken, misread>>
    BY <1>2 DEF ApproveWrite, ToCatch, queueVars
  <2>2. ASSUME NEW v \in Workers PROVE KeepsWork(v)
    <3>1. CASE v = w
      BY <1>2, <3>1, KeptWork
         DEF ApproveWrite, LoadInput, CreateSuccess, WorkerMoves, WorkflowStep
    <3>2. CASE v # w
      <4>1. step'[v] = step[v]
        BY <1>2, <3>2 DEF ApproveWrite, ToCatch, StateInv, ModerationTypeOK
      <4>2. QED
        BY <1>2, <4>1 DEF KeepsWork, ApproveWrite, ToCatch, queueVars
    <3>3. QED
      BY <3>1, <3>2
  <2>3. ASSUME NEW v \in Workers PROVE JudgesCleared(v)'
    BY <2>1, <2>2 DEF KeepsWork, PublishInv, JudgesCleared, Cleared, Live
  <2>4. Live(k)
          => Cleared(k, input[w]) /\ (input[w] = content[k] \/ k \in overtaken)
    BY <1>2 DEF ApproveWrite, PublishInv, JudgesCleared, Working, Approving
  <2>5. \A l \in Listings \ {k} : approval'[l] = approval[l]
        /\ (l \in byAdmin' <=> l \in byAdmin)
    BY <1>2 DEF ApproveWrite, SetApproval, StateInv, ModerationTypeOK
  <2>5a. ~Live(k) => UNCHANGED <<approval, byAdmin>>
    BY <1>2 DEF ApproveWrite
  <2>6. PublishedWasCleared'
    BY <2>1, <2>4, <2>5, <2>5a
       DEF PublishedWasCleared, PublishInv, Live, Cleared
  <2>7. QED
    BY <2>3, <2>6 DEF PublishInv
<1>3. ASSUME NEW r \in Requests, UpdateWrite(r) PROVE PublishInv'
  <2> PICK k \in Listings : k = client[r].listing
    BY <1>3 DEF UpdateWrite, ClientInv
  <2>1. /\ UNCHANGED <<listing, runs, step, input, token>>
        /\ content' = [content EXCEPT ![k] = client[r].next]
        /\ overtaken' = IF Judging(k) # {} THEN overtaken \cup {k}
                          ELSE overtaken
        /\ misread' = IF client[r].seen # content[k] THEN misread \cup {k}
                        ELSE misread
    BY <1>3 DEF UpdateWrite, queueVars, workflowVars
  <2>2. ASSUME NEW v \in Workers PROVE JudgesCleared(v)'
    BY <2>1
       DEF JudgesCleared, PublishInv, Cleared, Live, Judging, StateInv,
           ModerationTypeOK, Working
  <2>3. \/ approval'[k] = "PENDING"
        \/ client[r].next = client[r].seen /\ UNCHANGED <<approval, byAdmin>>
    BY <1>3
       DEF UpdateWrite, ShouldRemoderate, SetApproval, StateInv,
           ModerationTypeOK
  <2>4. \A l \in Listings \ {k} : /\ approval'[l] = approval[l]
                                  /\ (l \in byAdmin' <=> l \in byAdmin)
                                  /\ content'[l] = content[l]
    BY <1>3, <2>1 DEF UpdateWrite, SetApproval, StateInv, ModerationTypeOK
  <2>5. content'[k] = client[r].next
    BY <2>1 DEF StateInv, ModerationTypeOK
  <2>6. PublishedWasCleared'
    BY <2>1, <2>3, <2>4, <2>5 DEF PublishedWasCleared, PublishInv, Live
  <2>7. QED
    BY <2>2, <2>6 DEF PublishInv
<1>4. ASSUME NEW r \in Requests, NEW k \in Listings, NEW c \in Contents,
             Create(r, k, c)
      PROVE  PublishInv'
  <2>1. /\ UNCHANGED <<runs, step, input, token, approval, byAdmin, overtaken,
                       misread>>
        /\ content' = [content EXCEPT ![k] = c]
        /\ listing' = [listing EXCEPT ![k] = "live"] /\ listing[k] = "new"
    BY <1>4 DEF Create, CreateListing, workflowVars
  <2>2. ASSUME NEW v \in Workers PROVE JudgesCleared(v)'
    BY <2>1, WorkedOn
       DEF JudgesCleared, PublishInv, Cleared, Live, StateInv,
           ModerationTypeOK, Working, TypeOK
  <2>6. PublishedWasCleared'
    BY <2>1
       DEF PublishedWasCleared, PublishInv, Live, StateInv, ModerationTypeOK,
           TypeOK
  <2>7. QED
    BY <2>2, <2>6 DEF PublishInv
<1>5. QED
  BY <1>1, <1>2, <1>3, <1>4, KeptShown
-----------------------------------------------------------------------------
(* Settled jobs leave audit rows.                                          *)

\* A worker that is going to settle its job has written the audit row of its
\* outcome, or a statement of its own has failed.
EndsAudited(w) ==
  \A l \in Listings : token[w].listing = l /\ Live(l) =>
    /\ pc[w] = "settle" =>
      /\ outcome[w] = "success" => HasRun(l, "SUCCESS", input[w])
      /\ outcome[w] \in {"fatal","retryable"} => HasRun(l, "ERROR", input[w])
      /\ outcome[w] = "exception" => w \in threw
    /\ step[w] \in Approving => HasRun(l, "SUCCESS", input[w])

AuditInv == \A w \in Workers : EndsAudited(w)

\* What the worker is going to settle or to approve is what it was.
KeepsOutcome(w) ==
   /\ pc'[w] = "settle" =>
     /\ pc[w] = "settle" /\ outcome'[w] = outcome[w]
     /\ input'[w] = input[w] /\ token'[w].listing = token[w].listing
     /\ w \in threw => w \in threw'
   /\ step'[w] \in Approving =>
     /\ step[w] \in Approving
     /\ input'[w] = input[w] /\ token'[w].listing = token[w].listing

\* No audit row is lost, no job becomes settled.
RunsKept(l) == Live(l)' => Live(l) /\ runs[l] \subseteq runs'[l]
SettledBefore(l) ==
   /\ job'[l].status = "COMPLETED"
        => job[l].status = "COMPLETED" /\ judged'[l] = judged[l]
   /\ job'[l].status = "FAILED" => job[l].status = "FAILED"

LEMMA KeptOutcome ==
  ASSUME AuditInv, \A l \in Listings : RunsKept(l),
         NEW w \in Workers, KeepsOutcome(w)
  PROVE  EndsAudited(w)'
BY DEF AuditInv, RunsKept, KeepsOutcome, EndsAudited, HasRun

\* The steps with which a run ends, or writes an audit row.
Ending(w) ==
  \/ LoadInput(w) \/ CreateSuccess(w) \/ ApproveRead(w) \/ NotifySeller(w)
  \/ CreateError(w) \/ WorkflowThrows(w) \/ SettleFails(w)

LEMMA KeepsOutcomeOrEnds ==
   ASSUME TypeInv, StateInv, NEW w \in Workers,
          WorkerSame(w) \/ WorkerMoves(w)
   PROVE  KeepsOutcome(w) \/ Ending(w)
<1>1. CASE WorkerSame(w)
  BY <1>1 DEF WorkerSame, KeepsOutcome
<1>a. step \in [Workers -> {"off", "load"} \cup Working]
  BY DEF StateInv, ModerationTypeOK, Working
<1>2. ASSUME ApproveWrite(w) \/ StatementFails(w)
             \/ \E j \in Verdicts : EvaluateListing(w, j)
      PROVE  KeepsOutcome(w)
  <2>1. pc' = pc /\ token' = token /\ input' = input
    BY <1>2
       DEF ApproveWrite, StatementFails, EvaluateListing, ToCatch, queueVars
  <2>2. pc[w] = "run"
    BY <1>2
       DEF ApproveWrite, StatementFails, EvaluateListing, StateInv, InWorkflow
  <2>3. step'[w] \in Approving => step[w] \in Approving
    BY <1>2, <1>a
       DEF ApproveWrite, StatementFails, EvaluateListing, ToCatch, Approving
  <2>4. QED
    BY <2>1, <2>2, <2>3 DEF KeepsOutcome
<1>3. ASSUME StartWorkflow(w) \/ SettleJob(w) \/ QueueOnly(w)
             \/ WorkerCrashes(w)
      PROVE  KeepsOutcome(w)
  <2>1. pc'[w] # "settle"
    BY <1>3
       DEF StartWorkflow, ReadBack, SettleJob, Settle, WorkerCrashes, Crash,
           QueueOnly, PollTick, RecoverStaleJobs, FindCandidate, NothingDue,
           Claim, ClaimLost, ReadBackThrows, Restart, TypeInv, TypeOK
  <2>2. step'[w] \notin Approving
    BY <1>3, <1>a
       DEF StartWorkflow, SettleJob, Settle, WorkerCrashes, QueueOnly,
           PollTick, RecoverStaleJobs, FindCandidate, NothingDue, Claim,
           ClaimLost, ReadBackThrows, Restart, workflowVars, StateInv,
           InWorkflow, Approving
  <2>3. QED
    BY <2>1, <2>2 DEF KeepsOutcome
<1>4. QED
  BY <1>1, <1>2, <1>3 DEF WorkerMoves, WorkflowStep, Ending

\* Only settling makes a job COMPLETED or FAILED.
LEMMA KeptSettledRows ==
   /\ TypeInv /\ StateInv
   /\ [ModerationNext]_moderationVars
   => \/ \A l \in Listings : SettledBefore(l)
      \/ \E w \in Workers : SettleJob(w)
<1> SUFFICES ASSUME TypeInv, StateInv, [ModerationNext]_moderationVars,
          ~ \E w \in Workers : SettleJob(w), NEW l \in Listings
   PROVE  SettledBefore(l)
  OBVIOUS
<1>1. ASSUME UNCHANGED <<job, judged>> PROVE SettledBefore(l)
  BY <1>1 DEF SettledBefore
<1>2. ASSUME NEW v \in Workers,
         \/ LoadInput(v) \/ CreateSuccess(v) \/ ApproveRead(v)
         \/ NotifySeller(v) \/ CreateError(v)
         \/ StatementFails(v) \/ WorkflowThrows(v) \/ ApproveWrite(v)
         \/ StartWorkflow(v)
         \/ SettleFails(v) \/ WorkerCrashes(v)
         \/ \E j \in Verdicts : EvaluateListing(v, j)
     PROVE  UNCHANGED <<job, judged>>
  BY <1>2
     DEF LoadInput, CreateSuccess, ApproveRead, NotifySeller, CreateError,
         StatementFails, WorkflowThrows, ApproveWrite, EvaluateListing,
         StartWorkflow, SettleFails, WorkerCrashes, ToCatch, WorkflowEnds,
         RunEnds, Crash, SettleThrows, ReadBack, listingVars, queueVars
<1>3. ASSUME NEW v \in Workers, QueueOnly(v) PROVE SettledBefore(l)
  BY <1>3
     DEF QueueOnly, PollTick, RecoverStaleJobs, FindCandidate, NothingDue,
         Claim, ClaimLost, ReadBackThrows, Restart, listingVars, SettledBefore,
         TypeInv, TypeOK, Active
<1>4. ASSUME NEW r \in Requests, RequestEnqueues(r) PROVE SettledBefore(l)
  BY <1>4
     DEF RequestEnqueues, EnqueueCreate, EnqueueUpdate, listingVars,
         SettledBefore, TypeInv, TypeOK
<1>5. ASSUME NEW r \in Requests,
              \/ HandlerEnqueues(r) \/ UpdateWrite(r) \/ DecisionWrite(r)
              \/ HandlerFindsNothing(r)
              \/ HandlerFails(r) \/ EnqueueFails(r) \/ ClientRequest(r)
      PROVE  UNCHANGED <<job, judged>>
  BY <1>5
     DEF HandlerEnqueues, UpdateWrite, DecisionWrite, HandlerFindsNothing,
         HandlerFails, EnqueueFails, ClientRequest, Create, UpdateRead, Decide,
         RerunModeration, CreateListing, EnqueueRead, EnqueueAborts,
         listingVars, queueVars
<1>6. ASSUME NEW k \in Listings, Remove(k) PROVE SettledBefore(l)
  BY <1>6 DEF Remove, DeleteListing, SettledBefore, NoRow, TypeInv, TypeOK
<1>7. ASSUME NEW k \in Listings, ResolveReport(k)
      PROVE  UNCHANGED <<job, judged>>
  BY <1>7 DEF ResolveReport, queueVars
<1>8. ASSUME NEW k \in Listings, TimePasses(k) \/ RunOverruns(k)
      PROVE  SettledBefore(l)
  BY <1>8
     DEF TimePasses, BackoffElapses, LeaseExpires, RunOverruns,
         RunOutlivesLease, listingVars, SettledBefore, TypeInv, TypeOK, Rows
<1>9. CASE UNCHANGED moderationVars
  BY <1>1, <1>9 DEF moderationVars, listingVars, queueVars
<1>10. ASSUME NEW v \in Workers, WorkerMoves(v) PROVE SettledBefore(l)
  BY <1>1, <1>2, <1>3, <1>10 DEF WorkerMoves, WorkflowStep
<1>11. ASSUME NEW r \in Requests,
              \/ HandlerStep(r) \/ ClientRequest(r)
              \/ HandlerFails(r) \/ EnqueueFails(r)
       PROVE  SettledBefore(l)
  BY <1>1, <1>4, <1>5, <1>11 DEF HandlerStep
<1>12. QED
  BY <1>1, <1>6, <1>7, <1>8, <1>9, <1>10, <1>11 DEF ModerationNext, WorkerMoves

\* Audit rows disappear only with their listing.
LEMMA RunsAreKept ==
   TypeInv /\ ClientInv /\ StateInv /\ [ModerationNext]_moderationVars =>
      \/ \A l \in Listings : RunsKept(l)
      \/ \E r \in Requests, l \in Listings, c \in Contents : Create(r, l, c)
<1>1. ASSUME NEW w \in Workers, ApproveWrite(w)
      PROVE  UNCHANGED <<listing, runs>>
  BY <1>1 DEF ApproveWrite, ToCatch, queueVars
<1>2. ASSUME NEW r \in Requests, UpdateWrite(r)
      PROVE  UNCHANGED <<listing, runs>>
  BY <1>2 DEF UpdateWrite, queueVars
<1>3. UNCHANGED <<listing, runs>> => \A l \in Listings : RunsKept(l)
  BY DEF RunsKept, Live
<1>4. QED
  BY <1>1, <1>2, <1>3, KeptShown DEF ShownBefore, RunsKept

LEMMA InitAuditInv == ModerationInit => AuditInv
BY DEF ModerationInit, Init, AuditInv, EndsAudited, Approving

LEMMA NextAuditInv ==
   /\ TypeInv /\ FenceInv /\ ClientInv /\ StateInv /\ AuditInv
   /\ [ModerationNext]_moderationVars
   => AuditInv'
<1> SUFFICES ASSUME TypeInv, FenceInv, ClientInv, StateInv, AuditInv,
                    [ModerationNext]_moderationVars
    PROVE  AuditInv'
  OBVIOUS
<1>1. CASE \A l \in Listings : RunsKept(l)
  <2>1. ASSUME NEW w \in Workers, KeepsOutcome(w) PROVE EndsAudited(w)'
    BY <1>1, <2>1, KeptOutcome
  <2>2. ASSUME NEW w \in Workers, LoadInput(w) PROVE EndsAudited(w)'
    <3>1. CASE Live(token[w].listing)
      BY <2>2, <3>1
         DEF LoadInput, EndsAudited, StateInv, ModerationTypeOK, Approving,
             queueVars
    <3>2. CASE ~Live(token[w].listing)
      BY <2>2, <3>2, WorkflowExits DEF LoadInput, EndsAudited, Live, Approving
    <3>3. QED
      BY <3>1, <3>2
  <2>3. ASSUME NEW w \in Workers, CreateSuccess(w) PROVE EndsAudited(w)'
    <3> PICK k \in Listings : k = token[w].listing
      BY <2>3, WorkedOn DEF CreateSuccess
    <3>1. CASE ~Live(k)
      BY <2>3, <3>1, WorkflowExits
         DEF CreateSuccess, EndsAudited, queueVars, Live
    <3>2. CASE Live(k)
      <4>1. UNCHANGED <<token, input, listing>>
        BY <2>3, <3>2, WorkflowExits DEF CreateSuccess, queueVars
      <4>2. PICK row : row.status = "SUCCESS" /\ row.input = input[w]
                       /\ runs' = [runs EXCEPT ![k] = @ \cup {row}]
        BY <2>3, <3>2 DEF CreateSuccess, AddRun
      <4>3. HasRun(k, "SUCCESS", input[w])'
        BY <4>1, <4>2 DEF HasRun, StateInv, ModerationTypeOK
      <4>4. pc'[w] = "settle" => outcome'[w] = "success"
        BY <2>3, <3>2, WorkflowExits
           DEF CreateSuccess, StateInv, InWorkflow, queueVars
      <4>5. QED
        BY <4>1, <4>3, <4>4 DEF EndsAudited, HasRun
    <3>3. QED
      BY <3>1, <3>2
  <2>4. ASSUME NEW w \in Workers, ApproveRead(w) \/ NotifySeller(w)
        PROVE  EndsAudited(w)'
    <3>1. /\ step[w] \in Approving /\ pc[w] = "run"
          /\ UNCHANGED <<token, input, listing, runs>>
      BY <2>4, WorkflowExits
         DEF ApproveRead, NotifySeller, Approving, queueVars, listingVars,
             StateInv, InWorkflow
    <3>2. pc'[w] = "settle" => outcome'[w] = "success"
      BY <2>4, <3>1, WorkflowExits DEF ApproveRead, NotifySeller, queueVars
    <3>3. QED
      BY <3>1, <3>2 DEF EndsAudited, HasRun, AuditInv, Live
  <2>5. ASSUME NEW w \in Workers, CreateError(w) PROVE EndsAudited(w)'
    <3> PICK k \in Listings : k = token[w].listing
      BY <2>5, WorkedOn DEF CreateError
    <3>1. UNCHANGED <<token, input, listing>> /\ step'[w] = "off"
      BY <2>5, WorkflowExits DEF CreateError
    <3>2. CASE ~Live(k)
      BY <3>1, <3>2 DEF EndsAudited, Live
    <3>3. CASE Live(k)
      <4>1. PICK row : row.status = "ERROR" /\ row.input = input[w]
                       /\ runs' = [runs EXCEPT ![k] = @ \cup {row}]
        BY <2>5, <3>3 DEF CreateError, AddRun
      <4>2. HasRun(k, "ERROR", input[w])'
        BY <3>1, <4>1 DEF HasRun, StateInv, ModerationTypeOK
      <4>3. outcome'[w] \in {"fatal", "retryable"}
        BY <2>5, <3>3, WorkflowExits DEF CreateError
      <4>4. QED
        BY <3>1, <4>2, <4>3 DEF EndsAudited, Approving, HasRun
    <3>4. QED
      BY <3>2, <3>3
  <2>6. ASSUME NEW w \in Workers, WorkflowThrows(w) PROVE EndsAudited(w)'
    BY <2>6, WorkflowExits DEF WorkflowThrows, EndsAudited, Approving
  <2>7. ASSUME NEW w \in Workers, SettleFails(w) PROVE EndsAudited(w)'
    BY <2>7
       DEF SettleFails, SettleThrows, EndsAudited, Approving, StateInv,
           InWorkflow, ModerationTypeOK, TypeOK
  <2>8. ASSUME NEW w \in Workers PROVE EndsAudited(w)'
    BY <2>1, <2>2, <2>3, <2>4, <2>5, <2>6, <2>7, OneWorker, KeepsOutcomeOrEnds
       DEF Ending
  <2>9. QED
    BY <2>8 DEF AuditInv
<1>2. ASSUME NEW r \in Requests, NEW k \in Listings, NEW c \in Contents,
             Create(r, k, c)
      PROVE  AuditInv'
  <2>1. /\ UNCHANGED <<job, runs, pc, token, outcome, step, input, threw>>
        /\ listing' = [listing EXCEPT ![k] = "live"] /\ listing[k] = "new"
    BY <1>2 DEF Create, CreateListing, workflowVars
  <2>2. ASSUME NEW w \in Workers PROVE EndsAudited(w)'
    <3>1. pc[w] = "settle" \/ step[w] \in Approving
            => listing[token[w].listing] # "new"
      BY WorkedOn
         DEF TypeInv, FenceInv, Fence, Active, TypeOK, HasRow, Approving
    <3>2. \A l \in Listings \ {k} : Live(l)' => Live(l)
      BY <2>1 DEF Live, TypeInv, TypeOK
    <3>3. QED
      BY <2>1, <3>1, <3>2 DEF AuditInv, EndsAudited, HasRun
  <2>3. QED
    BY <2>2 DEF AuditInv
<1>3. QED
  BY <1>1, <1>2, RunsAreKept
\* A step that settles a job is one of the worker that has its audit row.
LEMMA SettleAudited ==
   /\ TypeInv /\ FenceInv /\ StateInv /\ AuditInv
   /\ [ModerationNext]_moderationVars
   => \A w \in Workers : SettlesAudited(w)
<1> SUFFICES ASSUME TypeInv, FenceInv, StateInv, AuditInv,
                    [ModerationNext]_moderationVars, NEW w \in Workers,
                    pc[w] = "settle", pc'[w] # "settle", job' # job
             PROVE  IF job'[token[w].listing].status = "COMPLETED"
                      THEN HasRun(token[w].listing, "SUCCESS", input[w])
                      ELSE \/ HasRun(token[w].listing, "ERROR", input[w])
                           \/ w \in threw
    BY DEF SettlesAudited
<1>1. SettleJob(w)
  <2>1. WorkerMoves(w)
    BY OneWorker DEF WorkerSame
  <2>2. ~WorkerCrashes(w) /\ ~SettleFails(w)
    BY DEF WorkerCrashes, Crash, SettleFails, SettleThrows
  <2>3. ~QueueOnly(w) /\ ~StartWorkflow(w)
    BY DEF QueueOnly, PollTick, RecoverStaleJobs, FindCandidate, NothingDue,
           Claim, ClaimLost, ReadBackThrows, Restart, StartWorkflow, ReadBack
  <2>4. step[w] = "off"
    BY DEF StateInv, ModerationTypeOK
  <2>5. QED
    BY <2>1, <2>2, <2>3, <2>4
       DEF WorkerMoves, WorkflowStep, LoadInput, EvaluateListing, CreateSuccess,
           ApproveRead, ApproveWrite, NotifySeller, CreateError, StatementFails,
           WorkflowThrows
<1>2. Settle(w) /\ OwnsRow(w)
  BY <1>1 DEF SettleJob, Settle
<1>3. PICK l \in Listings : l = token[w].listing /\ Live(l) /\ job[l] \in Rows
  BY <1>2 DEF OwnsRow, TypeInv, TypeOK, HasRow, Live, Active
<1>4. job'[l].status = SettledRow(w, job[l]).status
  BY <1>2, <1>3 DEF Settle, TypeInv, TypeOK
<1>5. outcome[w] \in Outcomes
  BY DEF StateInv, InWorkflow
<1>6. SettledRow(w, job[l]).status = "COMPLETED" <=> outcome[w] = "success"
  BY <1>3 DEF SettledRow, Rows
<1>7. QED
  BY <1>3, <1>4, <1>5, <1>6 DEF AuditInv, EndsAudited, Outcomes
-----------------------------------------------------------------------------
(* A COMPLETED job judged the content that its listing has.                *)

\* l was changed and is not queued again yet: its handler has still to enqueue
\* it, or the transaction that resets its row has still to commit.
Dirty(l) == \E r \in Requests :
             \/ client[r].step = "enqueue" /\ client[r].listing = l
             \/ request[r].step = "update" /\ request[r].listing = l

\* Nothing exempts l: it is live, not dirty, and no edit of it went wrong.
Due(l) == Live(l) /\ ~Dirty(l) /\ l \notin misread \cup lost

\* The worker has loaded a content that it may complete its job with.
Judged(w) ==
    step[w] \in Working \/ (pc[w] = "settle" /\ outcome[w] = "success")

\* When it holds the current revision, that content is the listing's.
JudgedNow(w, l) ==
   Judged(w) /\ HasRow(l) /\ token[w].listing = l
   /\ token[w].revision = job[l].revision
     => input[w] = content[l]
Fresh(l) ==
    /\ job[l].status = "COMPLETED" => judged[l] = content[l]
    /\ \A w \in Workers : JudgedNow(w, l)

\* CompletedJudgedContent, strengthened by the workers that may complete.
FreshInv == \A l \in Listings : Due(l) => Fresh(l)

\* The worker has loaded its content before the step.
KeepsJudged(w) ==
    Judged(w)' => Judged(w) /\ input'[w] = input[w] /\ token'[w] = token[w]

LEMMA KeepsJudgedOrLoads ==
   ASSUME TypeInv, StateInv, NEW w \in Workers,
          WorkerSame(w) \/ WorkerMoves(w)
   PROVE  KeepsJudged(w) \/ LoadInput(w)
<1>1. CASE WorkerSame(w)
  BY <1>1 DEF WorkerSame, KeepsJudged, Judged
<1>a. step \in [Workers -> {"off", "load"} \cup Working]
  BY DEF StateInv, ModerationTypeOK, Working
<1>2. ASSUME \/ CreateSuccess(w) \/ ApproveRead(w) \/ NotifySeller(w)
             \/ CreateError(w)
             \/ ApproveWrite(w) \/ StatementFails(w)
             \/ \E j \in Verdicts : EvaluateListing(w, j)
      PROVE  KeepsJudged(w)
  <2>1. step[w] \in Working
    BY <1>2
       DEF ApproveWrite, StatementFails, EvaluateListing, CreateSuccess,
           ApproveRead, NotifySeller, CreateError, Working
  <2>2. input' = input
    BY <1>2
       DEF ApproveWrite, StatementFails, EvaluateListing, CreateSuccess,
           ApproveRead, NotifySeller, CreateError, ToCatch
  <2>3. token' = token
    BY <1>2, WorkflowExits
       DEF ApproveWrite, StatementFails, EvaluateListing, CreateSuccess,
           ApproveRead, NotifySeller, CreateError, queueVars
  <2>4. QED
    BY <2>1, <2>2, <2>3 DEF KeepsJudged, Judged
<1>3. ASSUME StartWorkflow(w) \/ SettleJob(w) \/ QueueOnly(w)
             \/ WorkerCrashes(w)
      PROVE  KeepsJudged(w)
  <2>1. pc'[w] # "settle"
    BY <1>3
       DEF StartWorkflow, ReadBack, SettleJob, Settle, WorkerCrashes, Crash,
           QueueOnly, PollTick, RecoverStaleJobs, FindCandidate, NothingDue,
           Claim, ClaimLost, ReadBackThrows, Restart, TypeInv, TypeOK
  <2>2. step'[w] \notin Working
    BY <1>3, <1>a
       DEF StartWorkflow, SettleJob, Settle, WorkerCrashes, QueueOnly,
           PollTick, RecoverStaleJobs, FindCandidate, NothingDue, Claim,
           ClaimLost, ReadBackThrows, Restart, workflowVars, StateInv,
           InWorkflow, Working
  <2>3. QED
    BY <2>1, <2>2 DEF KeepsJudged, Judged
<1>4. ASSUME WorkflowThrows(w) PROVE KeepsJudged(w)
  BY <1>4, WorkflowExits DEF WorkflowThrows, KeepsJudged, Judged, Working
<1>5. ASSUME SettleFails(w) PROVE KeepsJudged(w)
  BY <1>5
     DEF SettleFails, SettleThrows, KeepsJudged, Judged, TypeInv, TypeOK,
         workflowVars, StateInv, InWorkflow, Working
<1>6. QED
  BY <1>1, <1>2, <1>3, <1>4, <1>5 DEF WorkerMoves, WorkflowStep

RevisionKept(l) ==
    HasRow(l) /\ HasRow(l)' => job'[l].revision >= job[l].revision

LEMMA RevisionsGrow ==
    TypeInv /\ [Next]_queueVars => \A l \in Listings : RevisionKept(l)
<1> SUFFICES ASSUME TypeInv, [Next]_queueVars, NEW l \in Listings
             PROVE  RevisionKept(l)
  OBVIOUS
<1> USE DEF RevisionKept, TypeInv, TypeOK, Rows, HasRow
<1>0. job[l].revision \in Nat
  OBVIOUS
<1>1. UNCHANGED job => RevisionKept(l)
  BY <1>0
<1>2. ASSUME NEW w \in Workers, WorkerStep(w) \/ WorkerFault(w)
      PROVE  RevisionKept(l)
  <2>1. CASE Settle(w)
    BY <1>0, <2>1 DEF Settle, SettledRow
  <2>2. CASE Claim(w)
    BY <1>0, <2>2 DEF Claim
  <2>3. CASE RecoverStaleJobs(w)
    BY <1>0, <2>3 DEF RecoverStaleJobs
  <2>4. CASE ~Settle(w) /\ ~Claim(w) /\ ~RecoverStaleJobs(w)
    <3>1. UNCHANGED job
      BY <1>2, <2>4
         DEF WorkerStep, WorkerFault, PollTick, FindCandidate, NothingDue,
             ClaimLost, ReadBack, ReadBackThrows, RunEnds, Restart,
             SettleThrows, Crash
    <3>2. QED
      BY <3>1, <1>1
  <2>5. QED
    BY <2>1, <2>2, <2>3, <2>4
<1>3. ASSUME NEW r \in Requests, RequestStep(r) PROVE RevisionKept(l)
  <2>1. CASE EnqueueCreate(r)
    BY <1>0, <2>1 DEF EnqueueCreate
  <2>2. CASE EnqueueUpdate(r)
    BY <1>0, <2>2 DEF EnqueueUpdate
  <2>3. CASE ~EnqueueCreate(r) /\ ~EnqueueUpdate(r)
    <3>1. UNCHANGED job
      BY <1>3, <2>3 DEF RequestStep, EnqueueRead, EnqueueAborts
    <3>2. QED
      BY <3>1, <1>1
  <2>4. QED
    BY <2>1, <2>2, <2>3
<1>4. ASSUME NEW k \in Listings, ListingStep(k) PROVE RevisionKept(l)
  <2>1. CASE CreateListing(k) \/ DeleteListing(k)
    BY <1>0, <2>1 DEF CreateListing, DeleteListing, NoRow
  <2>2. CASE BackoffElapses(k) \/ RunOutlivesLease(k) \/ LeaseExpires(k)
    <3>1. \/ job' = [job EXCEPT ![k].due = TRUE]
          \/ job' = [job EXCEPT ![k].stale = TRUE]
      BY <2>2 DEF BackoffElapses, RunOutlivesLease, LeaseExpires
    <3>2. \A row \in Rows :
          /\ [row EXCEPT !.due = TRUE].revision = row.revision
                            /\ [row EXCEPT !.stale = TRUE].revision =
                                   row.revision
      OBVIOUS
    <3>3. \/ job'[l] = job[l]
          \/ job'[l] = [job[l] EXCEPT !.due = TRUE]
          \/ job'[l] = [job[l] EXCEPT !.stale = TRUE]
      <4>1. job \in [Listings -> Rows]
        OBVIOUS
      <4>2. \A j \in [Listings -> Rows] :
              /\ [j EXCEPT ![k].due = TRUE][l] =
                   IF l = k THEN [j[l] EXCEPT !.due = TRUE] ELSE j[l]
              /\ [j EXCEPT ![k].stale = TRUE][l] =
                   IF l = k THEN [j[l] EXCEPT !.stale = TRUE] ELSE j[l]
        BY Zenon
      <4>3. QED
        BY <3>1, <4>1, <4>2
    <3>4. QED
      BY <3>2, <3>3, <1>0
  <2>3. QED
    BY <1>4, <2>1, <2>2 DEF ListingStep
<1>5. CASE UNCHANGED queueVars
  BY <1>1, <1>5 DEF queueVars
<1>6. QED
  BY <1>2, <1>3, <1>4, <1>5 DEF Next

\* A step that neither edits l nor loses track of an edit ...
PremiseFrame(l) ==
    /\ Live(l)' => Live(l)
    /\ content'[l] = content[l]
    /\ Dirty(l) => Dirty(l)'
    /\ l \in misread \cup lost => l \in misread' \cup lost'

\* ... and what it keeps: l was due before, with the same content.
PremiseKept(l) == Due(l)' => Due(l) /\ content'[l] = content[l]

\* The two steps that make l due again: its row is reset, or it has none.
Requeues(l) ==
    \E r \in Requests :
       \/ HandlerEnqueues(r) /\ client[r].listing = l /\ ~HasRow(l)
       \/ EnqueueUpdate(r) /\ request[r].listing = l
            /\ UNCHANGED <<pc, token, step, outcome, input>>

LEMMA PremiseKeptOrRequeued ==
    /\ TypeInv /\ RequestInv /\ ClientInv /\ StateInv
    /\ [ModerationNext]_moderationVars
    => \A l \in Listings : PremiseKept(l) \/ Requeues(l)
<1> SUFFICES ASSUME TypeInv, RequestInv, ClientInv, StateInv,
                    [ModerationNext]_moderationVars,
                    NEW l \in Listings, ~Requeues(l)
             PROVE  PremiseKept(l)
  OBVIOUS
<1>a. PremiseFrame(l) => PremiseKept(l)
  BY DEF PremiseFrame, PremiseKept, Due
<1>b. ASSUME UNCHANGED <<listing, content, client, request, misread, lost>>
      PROVE  PremiseKept(l)
  BY <1>b, <1>a DEF PremiseFrame, Live, Dirty
<1>c. request \in [Requests -> [step : {"idle", "create", "update"},
                                 listing : Listings \cup {NoListing}]]
  BY DEF TypeInv, TypeOK
<1>1. ASSUME NEW w \in Workers, WorkerMoves(w) PROVE PremiseKept(l)
  <2>1. UNCHANGED <<content, client, misread, lost>>
    BY <1>1
       DEF WorkerMoves, WorkflowStep, LoadInput, CreateSuccess, ApproveRead,
           NotifySeller, CreateError, StatementFails, WorkflowThrows,
           ApproveWrite, EvaluateListing, StartWorkflow, SettleFails,
           WorkerCrashes, SettleJob, QueueOnly, listingVars
  <2>2. UNCHANGED <<listing, request>>
    BY <1>1
       DEF WorkerMoves, WorkflowStep, LoadInput, CreateSuccess, ApproveRead,
           NotifySeller, CreateError, StatementFails, WorkflowThrows,
           ApproveWrite, EvaluateListing, StartWorkflow, SettleFails,
           WorkerCrashes, ToCatch, WorkflowEnds, RunEnds, Crash, SettleThrows,
           ReadBack, SettleJob, Settle, QueueOnly, PollTick, RecoverStaleJobs,
           FindCandidate, NothingDue, Claim, ClaimLost, ReadBackThrows,
           Restart, queueVars
  <2>3. QED
    BY <2>1, <2>2, <1>b
<1>2. ASSUME NEW r \in Requests, NEW k \in Listings, NEW c \in Contents,
             Create(r, k, c)
      PROVE  PremiseKept(l)
  <2>1. /\ client' = [client EXCEPT ![r] = ClientAt("enqueue", k)]
        /\ client[r].step = "idle"
        /\ content' = [content EXCEPT ![k] = c]
        /\ listing' = [listing EXCEPT ![k] = "live"]
        /\ UNCHANGED <<request, misread, lost>>
    BY <1>2 DEF Create, CreateListing, Free
  <2>2. CASE k = l
    BY <2>1, <2>2 DEF ClientInv, PremiseKept, Due, Dirty, ClientAt
  <2>3. CASE k # l
    BY <2>1, <2>3, <1>a
       DEF ClientInv, PremiseFrame, Dirty, Live, StateInv, ModerationTypeOK,
           TypeOK
  <2>4. QED
    BY <2>2, <2>3
<1>3. ASSUME NEW r \in Requests, NEW c, client[r].step # "enqueue",
             client' = [client EXCEPT ![r] = c],
             UNCHANGED <<listing, content, request, misread, lost>>
      PROVE  PremiseKept(l)
  BY <1>3, <1>a DEF ClientInv, PremiseFrame, Dirty, Live
<1>4. ASSUME NEW r \in Requests, NEW k \in Listings,
             \/ \E c \in Contents : UpdateRead(r, k, c)
             \/ \E d \in {"approve", "reject"} : Decide(r, k, d)
      PROVE  PremiseKept(l)
  <2>1. /\ client[r].step # "enqueue"
        /\ UNCHANGED <<listing, content, request, misread, lost>>
    BY <1>4 DEF UpdateRead, Decide, Free, queueVars
  <2>2. PICK c : client' = [client EXCEPT ![r] = c]
    BY <1>4 DEF UpdateRead, Decide
  <2>3. QED
    BY <2>1, <2>2, <1>3
<1>5. ASSUME NEW r \in Requests, DecisionWrite(r) \/ HandlerFindsNothing(r)
      PROVE  PremiseKept(l)
  <2>1. /\ client[r].step # "enqueue"
        /\ UNCHANGED <<listing, content, request, misread, lost>>
    BY <1>5 DEF DecisionWrite, HandlerFindsNothing, listingVars, queueVars
  <2>2. client' = [client EXCEPT ![r] = NoClient]
    BY <1>5 DEF DecisionWrite, HandlerFindsNothing
  <2>3. QED
    BY <2>1, <2>2, <1>3
<1>6. ASSUME NEW r \in Requests, UpdateWrite(r) PROVE PremiseKept(l)
  <2> PICK k \in Listings : k = client[r].listing
    BY <1>6 DEF UpdateWrite, ClientInv
  <2>1. /\ client[r].step # "enqueue"
        /\ UNCHANGED <<listing, request, lost>>
        /\ content' = [content EXCEPT ![k] = client[r].next]
        /\ misread' = IF client[r].seen # content[k] THEN misread \cup {k}
                        ELSE misread
    BY <1>6 DEF UpdateWrite, queueVars
  <2>2. CASE ShouldRemoderate(r)
    <3>1. client' = [client EXCEPT ![r] = ClientAt("enqueue", k)]
      BY <1>6, <2>2 DEF UpdateWrite
    <3>2. CASE k = l
      BY <2>1, <3>1, <3>2 DEF ClientInv, PremiseKept, Due, Dirty, ClientAt
    <3>3. CASE k # l
      BY <2>1, <3>1, <3>3, <1>a
         DEF ClientInv, PremiseFrame, Dirty, Live, StateInv, ModerationTypeOK
    <3>4. QED
      BY <3>2, <3>3
  <2>3. CASE ~ShouldRemoderate(r)
    <3>1. client' = [client EXCEPT ![r] = NoClient]
          /\ client[r].next = client[r].seen
      BY <1>6, <2>3 DEF UpdateWrite, ShouldRemoderate
    <3>2. (Live(l)' => Live(l)) /\ (Dirty(l) => Dirty(l)')
      BY <2>1, <3>1 DEF ClientInv, Live, Dirty
    <3>3. content \in [Listings -> Contents \cup {NoContent}]
      BY DEF StateInv, ModerationTypeOK
    <3>4. l \in misread' \/ content'[l] = content[l]
      BY <2>1, <3>1, <3>3
    <3>5. l \in misread \cup lost => l \in misread' \cup lost'
      BY <2>1
    <3>6. QED
      BY <3>2, <3>4, <3>5 DEF PremiseKept, Due
  <2>4. QED
    BY <2>2, <2>3
<1>7. ASSUME NEW r \in Requests, HandlerFails(r) PROVE PremiseKept(l)
  <2>1. /\ UNCHANGED <<listing, content, request, misread>>
        /\ client' = [client EXCEPT ![r] = NoClient]
        /\ lost' = lost \cup {client[r].listing}
    BY <1>7 DEF HandlerFails, queueVars
  <2>2. QED
    BY <2>1 DEF ClientInv, PremiseKept, Due, Dirty, Live
<1>8. ASSUME NEW r \in Requests, HandlerEnqueues(r) PROVE PremiseKept(l)
  <2> PICK k \in Listings : k = client[r].listing
    BY <1>8 DEF HandlerEnqueues, ClientInv
  <2>1. /\ UNCHANGED <<listing, content, misread, lost>>
        /\ client' = [client EXCEPT ![r] = NoClient]
        /\ request[r].step = "idle"
    BY <1>8 DEF HandlerEnqueues, EnqueueRead, listingVars
  <2>2. request' = [request EXCEPT ![r] =
                      [step |-> IF HasRow(k) THEN "update"
                                  ELSE "create", listing |-> k]]
    BY <1>8 DEF HandlerEnqueues, EnqueueRead
  <2>3. CASE k = l
    <3>1. HasRow(l)
      BY <1>8, <2>3 DEF Requeues
    <3>2. Dirty(l)'
      BY <2>2, <2>3, <3>1, <1>c DEF Dirty
    <3>3. QED
      BY <3>2 DEF PremiseKept, Due
  <2>4. CASE k # l
    BY <2>1, <2>2, <2>4, <1>a, <1>c DEF ClientInv, PremiseFrame, Dirty, Live
  <2>5. QED
    BY <2>3, <2>4
<1>9. ASSUME NEW r \in Requests, NEW k \in Listings, RerunModeration(r, k)
      PROVE  PremiseKept(l)
  <2>1. /\ UNCHANGED <<listing, content, client, misread, lost>>
        /\ request[r].step = "idle"
    BY <1>9 DEF RerunModeration, EnqueueRead, listingVars
  <2>2. PICK q : request' = [request EXCEPT ![r] = q]
    BY <1>9 DEF RerunModeration, EnqueueRead
  <2>3. QED
    BY <2>1, <2>2, <1>a, <1>c DEF PremiseFrame, Dirty, Live
<1>10. ASSUME NEW r \in Requests, RequestEnqueues(r) PROVE PremiseKept(l)
  <2>1. /\ UNCHANGED <<listing, content, client, misread, lost>>
        /\ request' = [request EXCEPT ![r] = NoRequest]
    BY <1>10 DEF RequestEnqueues, EnqueueCreate, EnqueueUpdate, listingVars
  <2>2. ~(request[r].step = "update" /\ request[r].listing = l)
    BY <1>10
       DEF RequestEnqueues, EnqueueCreate, EnqueueUpdate, Requeues,
           workflowVars
  <2>3. QED
    BY <2>1, <2>2, <1>a, <1>c DEF PremiseFrame, Dirty, Live
<1>11. ASSUME NEW r \in Requests, EnqueueFails(r) PROVE PremiseKept(l)
  <2>1. /\ UNCHANGED <<listing, content, client, misread>>
        /\ request' = [request EXCEPT ![r] = NoRequest]
        /\ lost' = lost \cup {request[r].listing}
    BY <1>11 DEF EnqueueFails, EnqueueAborts
  <2>2. QED
    BY <2>1, <1>c DEF PremiseKept, Due, Dirty, Live
<1>12. ASSUME NEW k \in Listings, Remove(k) PROVE PremiseKept(l)
  <2>1. /\ UNCHANGED <<content, client, request, misread, lost>>
        /\ listing' = [listing EXCEPT ![k] = "deleted"]
    BY <1>12 DEF Remove, DeleteListing
  <2>2. QED
    BY <2>1, <1>a DEF PremiseFrame, Dirty, Live, TypeInv, TypeOK
<1>13. ASSUME NEW k \in Listings,
              ResolveReport(k) \/ TimePasses(k) \/ RunOverruns(k)
       PROVE  PremiseKept(l)
  BY <1>13, <1>b
     DEF ResolveReport, TimePasses, RunOverruns, BackoffElapses, LeaseExpires,
         RunOutlivesLease, listingVars, queueVars
<1>14. CASE UNCHANGED moderationVars
  BY <1>14, <1>b DEF moderationVars, listingVars, queueVars
<1>15. ASSUME NEW r \in Requests,
              \/ HandlerStep(r) \/ ClientRequest(r)
              \/ HandlerFails(r) \/ EnqueueFails(r)
       PROVE  PremiseKept(l)
  BY <1>2, <1>4, <1>5, <1>6, <1>7, <1>8, <1>9, <1>10, <1>11, <1>15
     DEF HandlerStep, ClientRequest
<1>16. QED
  BY <1>1, <1>12, <1>13, <1>14, <1>15 DEF ModerationNext, WorkerMoves
LEMMA InitFreshInv == ModerationInit => FreshInv
BY DEF ModerationInit, Init, FreshInv, Due, Live

LEMMA JudgedIsActive ==
    TypeInv /\ StateInv => \A w \in Workers : Judged(w) => pc[w] \in Active
BY DEF Judged, Active, StateInv, InWorkflow, Working

LEMMA NextFreshInv ==
   /\ TypeInv /\ FenceInv /\ RequestInv /\ ClientInv /\ StateInv /\ FreshInv
   /\ [ModerationNext]_moderationVars
   => FreshInv'
<1> SUFFICES ASSUME TypeInv, FenceInv, RequestInv, ClientInv, StateInv,
                    FreshInv,
                    [ModerationNext]_moderationVars,
                    NEW l \in Listings, Due(l)'
             PROVE  Fresh(l)'
  BY DEF FreshInv
<1>0. TypeOK' /\ RevisionKept(l)
  BY StepSimulation, NextTypeInv, RevisionsGrow DEF TypeInv
<1>a. job[l].revision \in Nat /\ job'[l].revision \in Nat
  BY <1>0 DEF TypeInv, TypeOK, Rows
<1>b. \A w \in Workers : token[w].revision \in Nat
  BY DEF TypeInv, TypeOK, Tokens
<1>c. \A a, b, c \in Nat : a <= b /\ c >= b /\ a = c => a = b
  OBVIOUS
<1>d. \A a, b \in Nat : a <= b => a # b + 1
  OBVIOUS
<1>1. ASSUME Due(l), content'[l] = content[l] PROVE Fresh(l)'
  <2>1. Fresh(l) /\ Live(l)
    BY <1>1 DEF FreshInv, Due
  <2>2. job'[l].status = "COMPLETED" => judged'[l] = content'[l]
    <3>1. CASE SettledBefore(l)
      BY <1>1, <2>1, <3>1 DEF SettledBefore, Fresh
    <3>2. ASSUME NEW w \in Workers, SettleJob(w)
          PROVE  job'[l].status = "COMPLETED" => judged'[l] = content'[l]
      <4> PICK k : k = token[w].listing
        OBVIOUS
      <4>1. CASE k = l /\ OwnsRow(w)
        <5>1. job'[l].status = "COMPLETED" => outcome[w] = "success"
          BY <3>2, <4>1
             DEF SettleJob, Settle, SettledRow, TypeInv, TypeOK, Rows
        <5>2. pc[w] = "settle" /\ HasRow(l)
              /\ token[w].revision = job[l].revision
          BY <3>2, <4>1 DEF SettleJob, Settle, OwnsRow, HasRow
        <5>3. outcome[w] = "success" => input[w] = content[l]
          BY <2>1, <4>1, <5>2 DEF Fresh, JudgedNow, Judged
        <5>4. outcome[w] = "success" => judged'[l] = input[w]
          BY <3>2, <4>1 DEF SettleJob, StateInv, ModerationTypeOK
        <5>5. QED
          BY <1>1, <5>1, <5>3, <5>4
      <4>2. CASE ~(k = l /\ OwnsRow(w))
        <5>1. job'[l] = job[l] /\ judged'[l] = judged[l]
          BY <3>2, <4>2
             DEF SettleJob, Settle, TypeInv, TypeOK, StateInv, ModerationTypeOK
        <5>2. QED
          BY <1>1, <2>1, <5>1 DEF Fresh
      <4>3. QED
        BY <4>1, <4>2
    <3>3. QED
      BY <3>1, <3>2, KeptSettledRows
  <2>3. ASSUME NEW w \in Workers, KeepsJudged(w) PROVE JudgedNow(w, l)'
    <3> SUFFICES ASSUME Judged(w)', HasRow(l)', token'[w].listing = l,
                        token'[w].revision = job'[l].revision
                 PROVE  input'[w] = content'[l]
      BY DEF JudgedNow, HasRow
    <3>1. Judged(w) /\ input'[w] = input[w] /\ token'[w] = token[w]
      BY <2>3 DEF KeepsJudged
    <3>2. HasRow(l) /\ token[w].revision <= job[l].revision
      BY <2>1, <3>1, JudgedIsActive DEF FenceInv, Fence, Live
    <3>3. token[w].revision = job[l].revision
      BY <1>0, <1>a, <1>b, <1>c, <3>1, <3>2 DEF RevisionKept
    <3>4. QED
      BY <1>1, <2>1, <3>1, <3>2, <3>3 DEF Fresh, JudgedNow
  <2>4. ASSUME NEW w \in Workers, LoadInput(w) PROVE JudgedNow(w, l)'
    <3>1. CASE Live(token[w].listing)
      BY <2>4, <3>1
         DEF LoadInput, JudgedNow, StateInv, ModerationTypeOK, queueVars,
             listingVars
    <3>2. CASE ~Live(token[w].listing)
      <4>1. pc'[w] = "settle" /\ outcome'[w] = "exception" /\ step'[w] = "off"
        BY <2>4, <3>2, WorkflowExits DEF LoadInput
      <4>2. QED
        BY <4>1 DEF JudgedNow, Judged, Working
    <3>3. QED
      BY <3>1, <3>2
  <2>5. ASSUME NEW w \in Workers PROVE JudgedNow(w, l)'
    BY <2>3, <2>4, OneWorker, KeepsJudgedOrLoads
  <2>6. QED
    BY <2>2, <2>5 DEF Fresh
<1>2. CASE Requeues(l)
  <2>1. ASSUME NEW r \in Requests, HandlerEnqueues(r), ~HasRow(l)
        PROVE  Fresh(l)'
    <3>1. job' = job
      BY <2>1 DEF HandlerEnqueues, EnqueueRead
    <3>2. QED
      BY <2>1, <3>1 DEF Fresh, JudgedNow, HasRow
  <2>2. ASSUME NEW r \in Requests, EnqueueUpdate(r), request[r].listing = l,
               UNCHANGED <<pc, token, step, outcome, input>>
        PROVE  Fresh(l)'
    <3>1. CASE ~HasRow(l)
      <4>1. job' = job
        BY <2>2, <3>1 DEF EnqueueUpdate
      <4>2. QED
        BY <3>1, <4>1 DEF Fresh, JudgedNow, HasRow
    <3>2. CASE HasRow(l)
      <4>1. job'[l].status = "PENDING"
            /\ job'[l].revision = job[l].revision + 1
        BY <2>2, <3>2 DEF EnqueueUpdate, TypeInv, TypeOK
      <4>2. ASSUME NEW w \in Workers, Judged(w), token[w].listing = l
            PROVE  token[w].revision # job[l].revision + 1
        BY <1>a, <1>b, <1>d, <3>2, <4>2, JudgedIsActive DEF FenceInv, Fence
      <4>3. \A w \in Workers : Judged(w)' <=> Judged(w)
        BY <2>2 DEF Judged
      <4>4. QED
        BY <2>2, <4>1, <4>2, <4>3 DEF Fresh, JudgedNow
    <3>3. QED
      BY <3>1, <3>2
  <2>3. QED
    BY <1>2, <2>1, <2>2 DEF Requeues
<1>3. QED
  BY <1>1, <1>2, PremiseKeptOrRequeued DEF PremiseKept

LEMMA InitRequestInv == Init => RequestInv
BY DEF Init, RequestInv, NoRequest

LEMMA InitStateInv == ModerationInit => StateInv
<1> SUFFICES ASSUME ModerationInit PROVE StateInv
  OBVIOUS
<1>1. TypeOK
  BY InitTypeInv DEF ModerationInit, TypeInv
<1>2. 0 \in 0..MaxEdits /\ 0 \in 0..MaxFailures
  BY ContentsAssumption
<1>3. QED
  BY <1>1, <1>2
     DEF ModerationInit, Init, StateInv, ModerationTypeOK, NoClient, ClientAt,
         Working, Live, Approves, InWorkflow

\* The inductive invariant of the whole system.
ModerationInv == /\ TypeInv /\ FenceInv /\ RequestInv /\ ClientInv
                 /\ StateInv /\ PublishInv /\ AuditInv /\ FreshInv

LEMMA ModerationInvariant == ModerationSpec => []ModerationInv
<1>1. ModerationInit => ModerationInv
  BY InitTypeInv, InitFenceInv, InitRequestInv, InitClientInv, InitStateInv,
     InitPublishInv, InitAuditInv, InitFreshInv
     DEF ModerationInit, ModerationInv
<1>2. ModerationInv /\ [ModerationNext]_moderationVars => ModerationInv'
  BY StepSimulation, NextTypeInv, NextFenceInv, NextRequestInv, NextClientInv,
     NextStateInv, NextPublishInv, NextAuditInv, NextFreshInv
     DEF ModerationInv
<1>3. QED
  BY <1>1, <1>2, PTL DEF ModerationSpec

\* Every variable keeps its type, and a worker is inside the workflow exactly
\* while the queue says that its job runs.
THEOREM ModerationTypesHold == ModerationSpec => []ModerationTypeOK
<1>1. ModerationInv => ModerationTypeOK
  BY DEF ModerationInv, StateInv
<1>2. QED
  BY <1>1, ModerationInvariant, PTL

\* A listing published without an admin shows a content that the model cleared
\* in an audited run, unless it was edited under a run or from an old view.
THEOREM PublicationsAreCleared == ModerationSpec => []PublishedWasCleared
<1>1. ModerationInv => PublishedWasCleared
  BY DEF ModerationInv, PublishInv
<1>2. QED
  BY <1>1, ModerationInvariant, PTL

\* For any number of workers, admins and sellers, a worker settles a job only
\* with the audit row of its own run: SUCCESS to complete it, ERROR otherwise,
\* unless a statement of that run failed outside the try block.
THEOREM SettlementsAreAudited == ModerationSpec => SettledIsAudited
<1>1. ModerationInv /\ [ModerationNext]_moderationVars
        => \A w \in Workers : SettlesAudited(w)
  BY SettleAudited DEF ModerationInv
<1>2. QED
  BY <1>1, ModerationInvariant, PTL DEF ModerationSpec, SettledIsAudited

\* Once no request owes l an enqueue, a COMPLETED job has judged the content
\* that l has, whichever way enqueue, claim, recovery and settling interleave.
THEOREM CompletionsJudgeContent == ModerationSpec => []CompletedJudgedContent
<1>1. ModerationInv => CompletedJudgedContent
  BY DEF ModerationInv, FreshInv, Fresh, Due, Dirty, Owed,
         CompletedJudgedContent
<1>2. QED
  BY <1>1, ModerationInvariant, PTL
=============================================================================

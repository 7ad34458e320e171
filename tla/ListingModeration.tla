-------------------------- MODULE ListingModeration --------------------------
(***************************************************************************)
(* Listings and their moderation: the job queue of ModerationQueue joined  *)
(* with the workflow that a claimed job runs, the API requests of sellers  *)
(* that create and edit listings, and the decisions of admins.             *)
(*                                                                         *)
(* A worker at the queue's step "run" executes runForListing, one database *)
(* statement or model call per action.  Nothing in it looks at the job's   *)
(* revision: the content is read once, judged by the model for as long as  *)
(* that takes, and the verdict is applied to whatever the listing then is. *)
(***************************************************************************)
EXTENDS ModerationQueue

CONSTANTS
    Contents,     \* title, description, category and department, as one value
    Suspicious,   \* contents that the model never clears
    NoContent,    \* stands for "no content" in an idle record
    MaxEdits,     \* bound: update requests and admin decisions
    MaxFailures   \* bound: failures of a handler or of a workflow statement

ASSUME ContentsAssumption == Suspicious \subseteq Contents
                             /\ NoContent \notin Contents
                             /\ MaxEdits \in Nat /\ MaxFailures \in Nat

VARIABLES
    content,     \* content[l]: what the listing says
    approval,    \* approval[l]: its approvalStatus
    step,        \* step[w]: the workflow statement worker w executes next
    input,       \* input[w]: the content that w's run has loaded
    verdict,     \* verdict[w]: how the model judged it, or how it failed
    threw,       \* history: workers whose run, or whose settling of it, ended
                 \*          in a statement that failed
    runs,        \* runs[l]: the audit rows of listing_moderation_runs
    client,      \* client[r]: the handler that request r is inside of
    edits,       \* update requests and admin decisions so far
    failures,    \* failures of handlers and workflow statements so far
    byAdmin,     \* history: listings whose approvalStatus an admin set last
    judged,      \* history, judged[l]: the content that completed the last job
    overtaken,   \* history: listings edited while a run was judging them
    misread,     \* history: listings edited by a request that had read an
                 \*          older content
    lost         \* history: listings whose enqueue never ran

listingVars == <<content, approval, runs, edits, failures, byAdmin, judged,
                 overtaken, misread, lost>>
workflowVars == <<step, input, verdict, threw>>
moderationVars == <<queueVars, listingVars, workflowVars, client>>

\* processJob tells TIMEOUT and PROVIDER ("retryable") from PARSE and UNKNOWN.
Failures == {"retryable", "fatal"}
Verdicts == {"APPROVE", "MANUAL_REVIEW"} \cup Failures
AuditRows == [input : Contents, applied : {"APPROVED", "PENDING"},
              status : {"SUCCESS", "ERROR"}]
ClientAt(s, l) == [step |-> s, listing |-> l, seen |-> NoContent,
                   next |-> NoContent]
NoClient == ClientAt("idle", NoListing)

ModerationInit ==
    /\ Init
    /\ content = [l \in Listings |-> NoContent]
    /\ approval = [l \in Listings |-> "PENDING"]
    /\ step = [w \in Workers |-> "off"]
    /\ input = [w \in Workers |-> NoContent]
    /\ verdict = [w \in Workers |-> "none"]
    /\ threw = {}
    /\ runs = [l \in Listings |-> {}]
    /\ client = [r \in Requests |-> NoClient]
    /\ edits = 0
    /\ failures = 0
    /\ byAdmin = {}
    /\ judged = [l \in Listings |-> NoContent]
    /\ overtaken = {}
    /\ misread = {}
    /\ lost = {}

Live(l) == listing[l] = "live"
Free(r) == client[r].step = "idle" /\ request[r].step = "idle"

Failure == /\ failures < MaxFailures
           /\ failures' = failures + 1

SetApproval(l, status, admin) ==
    /\ approval' = [approval EXCEPT ![l] = status]
    /\ byAdmin' = IF admin THEN byAdmin \cup {l} ELSE byAdmin \ {l}

-----------------------------------------------------------------------------
(* ListingsService: create, update and remove.                             *)

\* The listing is stored first; enqueue is a later call of the same handler.
Create(r, l, c) ==
    /\ Free(r)
    /\ CreateListing(l)
    /\ content' = [content EXCEPT ![l] = c]
    /\ client' = [client EXCEPT ![r] = ClientAt("enqueue", l)]
    /\ UNCHANGED <<approval, runs, edits, byAdmin, judged, overtaken, misread,
                   lost, workflowVars, failures>>

\* update reads the listing; the payload carries the content it will have.
UpdateRead(r, l, c) ==
    /\ Free(r)
    /\ Live(l)
    /\ edits < MaxEdits
    /\ edits' = edits + 1
    /\ client' = [client EXCEPT ![r] = [step |-> "update", listing |-> l,
                                        seen |-> content[l], next |-> c]]
    /\ UNCHANGED <<queueVars, workflowVars, content, approval, runs, byAdmin,
                   judged, overtaken, misread, lost, failures>>

Judging(l) == {w \in Workers : /\ token[w].listing = l
                               /\ step[w] \notin {"off", "load"}}

\* shouldRemoderate compares the payload with what update has read, which need
\* not be what the listing says when the write happens.
ShouldRemoderate(r) == client[r].next # client[r].seen

UpdateWrite(r) ==
    LET l == client[r].listing IN
    /\ client[r].step = "update"
    /\ Live(l)
    /\ content' = [content EXCEPT ![l] = client[r].next]
    /\ IF ShouldRemoderate(r)
         THEN /\ SetApproval(l, "PENDING", FALSE)
              /\ client' = [client EXCEPT ![r] = ClientAt("enqueue", l)]
         ELSE /\ client' = [client EXCEPT ![r] = NoClient]
              /\ UNCHANGED <<approval, byAdmin>>
    /\ overtaken' = IF Judging(l) # {} THEN overtaken \cup {l} ELSE overtaken
    /\ misread' = IF client[r].seen # content[l] THEN misread \cup {l}
                                                 ELSE misread
    /\ UNCHANGED <<queueVars, workflowVars, runs, edits, failures, judged,
                   lost>>

\* Removing an image from storage fails between the write and enqueue, or the
\* process dies there.
HandlerFails(r) ==
    /\ client[r].step = "enqueue"
    /\ Failure
    /\ client' = [client EXCEPT ![r] = NoClient]
    /\ lost' = lost \cup {client[r].listing}
    /\ UNCHANGED <<queueVars, workflowVars, content, approval, runs, edits,
                   byAdmin, judged, overtaken, misread>>

\* enqueueModerationAndReload: the handler's last call.
HandlerEnqueues(r) ==
    /\ client[r].step = "enqueue"
    /\ EnqueueRead(r, client[r].listing, FALSE)
    /\ client' = [client EXCEPT ![r] = NoClient]
    /\ UNCHANGED <<listingVars, workflowVars>>

\* The write of a handler finds no listing: the request fails.
HandlerFindsNothing(r) ==
    /\ client[r].step \in {"update", "approve", "reject"}
    /\ ~Live(client[r].listing)
    /\ client' = [client EXCEPT ![r] = NoClient]
    /\ UNCHANGED <<queueVars, listingVars, workflowVars>>

\* Mutant: the queue's row of a removed listing stays.
RemoveWithoutCascade(l) ==
    /\ Live(l)
    /\ listing' = [listing EXCEPT ![l] = "deleted"]
    /\ runs' = [runs EXCEPT ![l] = {}]
    /\ UNCHANGED <<job, pc, token, taken, outcome, request, enqueues, faults,
                   superseded, late, lapses, content, approval, edits, byAdmin, judged,
                   overtaken, misread, lost, workflowVars, client, failures>>

Remove(l) ==
    /\ DeleteListing(l)
    /\ runs' = [runs EXCEPT ![l] = {}]
    /\ UNCHANGED <<content, approval, edits, byAdmin, judged, overtaken,
                   misread, lost, workflowVars, client, failures>>

-----------------------------------------------------------------------------
(* AdminService.                                                           *)

\* approveListing and rejectListing return early when there is nothing to do.
Decide(r, l, decision) ==
    /\ Free(r)
    /\ Live(l)
    /\ approval[l] # (IF decision = "approve" THEN "APPROVED" ELSE "REJECTED")
    /\ edits < MaxEdits
    /\ edits' = edits + 1
    /\ client' = [client EXCEPT ![r] = ClientAt(decision, l)]
    /\ UNCHANGED <<queueVars, workflowVars, content, approval, runs, byAdmin,
                   judged, overtaken, misread, lost, failures>>

DecisionWrite(r) ==
    /\ client[r].step \in {"approve", "reject"}
    /\ Live(client[r].listing)
    /\ SetApproval(client[r].listing,
                   IF client[r].step = "approve" THEN "APPROVED"
                                                 ELSE "REJECTED", TRUE)
    /\ client' = [client EXCEPT ![r] = NoClient]
    /\ UNCHANGED <<queueVars, workflowVars, content, runs, edits, judged,
                   overtaken, misread, lost, failures>>

\* One transaction resolves the report and rejects its listing.
ResolveReport(l) ==
    /\ Live(l)
    /\ edits < MaxEdits
    /\ edits' = edits + 1
    /\ SetApproval(l, "REJECTED", TRUE)
    /\ UNCHANGED <<queueVars, workflowVars, client, content, runs, judged,
                   overtaken, misread, lost, failures>>

RerunModeration(r, l) ==
    /\ Free(r)
    /\ Live(l)
    /\ EnqueueRead(r, l, TRUE)
    /\ UNCHANGED <<listingVars, workflowVars, client>>

-----------------------------------------------------------------------------
(* The queue's own steps, and what they mean here.                         *)

RequestEnqueues(r) ==
    /\ EnqueueCreate(r) \/ EnqueueUpdate(r)
    /\ UNCHANGED <<listingVars, workflowVars, client>>

EnqueueFails(r) ==
    /\ EnqueueAborts(r)
    /\ lost' = lost \cup {request[r].listing}
    /\ UNCHANGED <<content, approval, runs, edits, byAdmin, judged, overtaken,
                   misread, workflowVars, client, failures>>

StartWorkflow(w) ==
    /\ ReadBack(w)
    /\ step' = [step EXCEPT ![w] = "load"]
    /\ UNCHANGED <<input, verdict, threw, listingVars, client>>

SettleJob(w) ==
    /\ Settle(w)
    /\ judged' = IF OwnsRow(w) /\ outcome[w] = "success"
                   THEN [judged EXCEPT ![token[w].listing] = input[w]]
                   ELSE judged
    /\ input' = [input EXCEPT ![w] = NoContent]
    /\ threw' = threw \ {w}
    /\ UNCHANGED <<step, verdict, client, content, approval, runs, edits,
                   byAdmin, overtaken, misread, lost, failures>>

WorkerCrashes(w) ==
    /\ Crash(w)
    /\ step' = [step EXCEPT ![w] = "off"]
    /\ input' = [input EXCEPT ![w] = NoContent]
    /\ verdict' = [verdict EXCEPT ![w] = "none"]
    /\ threw' = threw \ {w}
    /\ UNCHANGED <<listingVars, client>>

QueueOnly(w) ==
    /\ \/ PollTick(w)
       \/ RecoverStaleJobs(w)
       \/ \E l \in Listings : FindCandidate(w, l)
       \/ NothingDue(w)
       \/ Claim(w)
       \/ ClaimLost(w)
       \/ ReadBackThrows(w)
       \/ Restart(w)
    /\ UNCHANGED <<listingVars, workflowVars, client>>

SettleFails(w) ==
    /\ SettleThrows(w)
    /\ threw' = threw \cup {w}
    /\ UNCHANGED <<step, input, verdict, listingVars, client>>

TimePasses(l) ==
    /\ BackoffElapses(l) \/ LeaseExpires(l)
    /\ UNCHANGED <<listingVars, workflowVars, client>>

RunOverruns(l) ==
    /\ RunOutlivesLease(l)
    /\ UNCHANGED <<listingVars, workflowVars, client>>

-----------------------------------------------------------------------------
(* ListingModerationWorkflowService.runForListing.                         *)

WorkflowEnds(w, o) ==
    /\ RunEnds(w, o)
    /\ step' = [step EXCEPT ![w] = "off"]
    /\ verdict' = [verdict EXCEPT ![w] = "none"]

\* A statement of the try block throws: the catch block records the failure
\* as UNKNOWN.
ToCatch(w) ==
    /\ step' = [step EXCEPT ![w] = "auditError"]
    /\ verdict' = [verdict EXCEPT ![w] = "fatal"]
    /\ UNCHANGED <<queueVars, input, threw>>

\* loadModerationInput is outside the try block: its NotFoundException reaches
\* processJob.
LoadInput(w) ==
    LET l == token[w].listing IN
    /\ step[w] = "load"
    /\ IF Live(l)
         THEN /\ input' = [input EXCEPT ![w] = content[l]]
              /\ step' = [step EXCEPT ![w] = "evaluate"]
              /\ UNCHANGED <<queueVars, verdict>>
         ELSE WorkflowEnds(w, "exception") /\ UNCHANGED input
    /\ UNCHANGED <<threw, listingVars, client>>

\* The model call: a verdict, or a failure of one of the two kinds.
EvaluateListing(w, v) ==
    /\ step[w] = "evaluate"
    /\ v = "APPROVE" => input[w] \notin Suspicious
    /\ verdict' = [verdict EXCEPT ![w] = v]
    /\ step' = [step EXCEPT ![w] = IF v \in Failures THEN "auditError"
                                                     ELSE "audit"]
    /\ UNCHANGED <<queueVars, input, threw, listingVars, client>>

\* Mutant: only successful runs are audited.
AddSuccessfulRun(l, row) ==
    runs' = IF row.status = "SUCCESS" THEN [runs EXCEPT ![l] = @ \cup {row}]
                                      ELSE runs

AddRun(l, row) == runs' = [runs EXCEPT ![l] = @ \cup {row}]

\* Mutant: every evaluation that did not fail approves.
ApprovesEvaluated(w) == verdict[w] \notin Failures

\* Only the recommendation APPROVE is applied as an approval.
Approves(w) == verdict[w] = "APPROVE"

\* createSuccess records the action that is about to be applied; the insert
\* fails when the listing is gone.
CreateSuccess(w) ==
    LET l == token[w].listing IN
    /\ step[w] = "audit"
    /\ IF Live(l)
         THEN /\ AddRun(l, [input |-> input[w], status |-> "SUCCESS",
                            applied |-> IF Approves(w) THEN "APPROVED"
                                                       ELSE "PENDING"])
              /\ IF Approves(w)
                   THEN /\ step' = [step EXCEPT ![w] = "approveRead"]
                        /\ UNCHANGED <<queueVars, verdict>>
                   ELSE WorkflowEnds(w, "success")
              /\ UNCHANGED <<input, threw>>
         ELSE ToCatch(w) /\ UNCHANGED runs
    /\ UNCHANGED <<content, approval, edits, byAdmin, judged, overtaken,
                   misread, lost, client, failures>>

\* approveListing: read, return early or update, notify.
ApproveRead(w) ==
    LET l == token[w].listing IN
    /\ step[w] = "approveRead"
    /\ IF ~Live(l) THEN ToCatch(w)
       ELSE IF approval[l] = "APPROVED"
         THEN WorkflowEnds(w, "success") /\ UNCHANGED <<input, threw>>
         ELSE /\ step' = [step EXCEPT ![w] = "approveWrite"]
              /\ UNCHANGED <<queueVars, input, verdict, threw>>
    /\ UNCHANGED <<listingVars, client>>

\* The update names the listing only: neither its content nor its status is
\* compared with what the run has judged and read.
ApproveWrite(w) ==
    LET l == token[w].listing IN
    /\ step[w] = "approveWrite"
    /\ IF Live(l)
         THEN /\ SetApproval(l, "APPROVED", FALSE)
              /\ step' = [step EXCEPT ![w] = "notify"]
              /\ UNCHANGED <<queueVars, input, verdict, threw>>
         ELSE ToCatch(w) /\ UNCHANGED <<approval, byAdmin>>
    /\ UNCHANGED <<content, runs, edits, judged, overtaken, misread, lost,
                   client, failures>>

NotifySeller(w) ==
    /\ step[w] = "notify"
    /\ WorkflowEnds(w, "success")
    /\ UNCHANGED <<input, threw, listingVars, client>>

\* The catch block's createError; when its insert fails, the error reaches
\* processJob.
CreateError(w) ==
    LET l == token[w].listing IN
    /\ step[w] = "auditError"
    /\ IF Live(l)
         THEN /\ AddRun(l, [input |-> input[w], status |-> "ERROR",
                            applied |-> "PENDING"])
              /\ WorkflowEnds(w, IF verdict[w] = "retryable"
                                   THEN "retryable" ELSE "fatal")
         ELSE WorkflowEnds(w, "exception") /\ UNCHANGED runs
    /\ UNCHANGED <<input, threw, content, approval, edits, byAdmin, judged, overtaken,
                   misread, lost, client, failures>>

\* A database error in the try block.
StatementFails(w) ==
    /\ step[w] \in {"audit", "approveRead", "approveWrite", "notify"}
    /\ Failure
    /\ ToCatch(w)
    /\ UNCHANGED <<content, approval, runs, edits, byAdmin, judged, overtaken,
                   misread, lost, client>>

\* A database error outside it: loadModerationInput or createError throws.
WorkflowThrows(w) ==
    /\ step[w] \in {"load", "auditError"}
    /\ Failure
    /\ WorkflowEnds(w, "exception")
    /\ threw' = threw \cup {w}
    /\ UNCHANGED <<input, content, approval, runs, edits, byAdmin, judged,
                   overtaken, misread, lost, client>>

-----------------------------------------------------------------------------
WorkflowStep(w) ==
    \/ StartWorkflow(w)
    \/ LoadInput(w)
    \/ \E v \in Verdicts : EvaluateListing(w, v)
    \/ CreateSuccess(w)
    \/ ApproveRead(w)
    \/ ApproveWrite(w)
    \/ NotifySeller(w)
    \/ CreateError(w)
    \/ SettleJob(w)
    \/ QueueOnly(w)

HandlerStep(r) ==
    \/ HandlerEnqueues(r)
    \/ RequestEnqueues(r)
    \/ UpdateWrite(r)
    \/ DecisionWrite(r)
    \/ HandlerFindsNothing(r)

ClientRequest(r) ==
    \E l \in Listings :
      \/ \E c \in Contents : Create(r, l, c) \/ UpdateRead(r, l, c)
      \/ \E d \in {"approve", "reject"} : Decide(r, l, d)
      \/ RerunModeration(r, l)

ModerationNext ==
    \/ \E w \in Workers : \/ WorkflowStep(w)
                          \/ StatementFails(w)
                          \/ WorkflowThrows(w)
                          \/ SettleFails(w)
                          \/ WorkerCrashes(w)
    \/ \E r \in Requests : \/ HandlerStep(r)
                           \/ ClientRequest(r)
                           \/ HandlerFails(r)
                           \/ EnqueueFails(r)
    \/ \E l \in Listings : \/ Remove(l)
                           \/ ResolveReport(l)
                           \/ TimePasses(l)
                           \/ RunOverruns(l)

ModerationSpec == ModerationInit /\ [][ModerationNext]_moderationVars

\* Promises are settled, the poll timer fires, a stopped container is started
\* again (restart: unless-stopped) and time passes.
ModerationFairness ==
    /\ \A w \in Workers : WF_moderationVars(WorkflowStep(w))
    /\ \A r \in Requests : WF_moderationVars(HandlerStep(r))
    /\ \A l \in Listings : WF_moderationVars(TimePasses(l))

FairModerationSpec == ModerationSpec /\ ModerationFairness

-----------------------------------------------------------------------------
(* Properties.                                                             *)

\* Every variable keeps its type; a worker is inside the workflow exactly while
\* the queue says that its job runs.
ModerationTypeOK ==
    /\ TypeOK
    /\ content \in [Listings -> Contents \cup {NoContent}]
    /\ approval \in [Listings -> {"PENDING", "APPROVED", "REJECTED"}]
    /\ step \in [Workers -> {"off", "load", "evaluate", "audit", "approveRead",
                            "approveWrite", "notify", "auditError"}]
    /\ input \in [Workers -> Contents \cup {NoContent}]
    /\ verdict \in [Workers -> Verdicts \cup {"none"}]
    /\ runs \in [Listings -> SUBSET AuditRows]
    /\ client \in [Requests -> [step : {"idle", "enqueue", "update", "approve",
                                       "reject"},
                                listing : Listings \cup {NoListing},
                                seen : Contents \cup {NoContent},
                                next : Contents \cup {NoContent}]]
    /\ edits \in 0..MaxEdits
    /\ failures \in 0..MaxFailures
    /\ judged \in [Listings -> Contents \cup {NoContent}]
    /\ threw \subseteq Workers
    /\ byAdmin \cup overtaken \cup misread \cup lost \subseteq Listings
    /\ \A w \in Workers : (pc[w] = "run") <=> (step[w] # "off")

\* A listing published without an admin shows a content that the model cleared
\* in a successful run, and the audit row of that run exists.  There are two
\* ways around it, and no third: the listing was edited while a run was judging
\* it, or by a request whose view of the listing was out of date.
PublishedWasCleared ==
    \A l \in Listings :
      Live(l) /\ approval[l] = "APPROVED" /\ l \notin byAdmin =>
        \/ /\ content[l] \notin Suspicious
           /\ [input |-> content[l], applied |-> "APPROVED",
               status |-> "SUCCESS"] \in runs[l]
        \/ l \in overtaken \cup misread

\* Some request is still going to queue l.
Owed(l) == \E r \in Requests :
             \/ client[r].step = "enqueue" /\ client[r].listing = l
             \/ request[r].step # "idle" /\ request[r].listing = l

\* A COMPLETED job means that the content the listing has now was judged: an
\* edit in the middle of a run is followed by a run of its own, whichever way
\* enqueue, claim, recovery and settling interleave.  Exceptions are an edit
\* from an out-of-date view and an enqueue that never ran.
CompletedJudgedContent ==
    \A l \in Listings :
      Live(l) /\ job[l].status = "COMPLETED" /\ ~Owed(l)
              /\ l \notin misread \cup lost
        => judged[l] = content[l]

HasRun(l, status, c) ==
    \E row \in runs[l] : row.status = status /\ row.input = c

\* Worker w settles its job, and has written the audit row for it before.
SettlesAudited(w) ==
    LET l == token[w].listing IN
    pc[w] = "settle" /\ pc'[w] # "settle" /\ job' # job =>
      IF job'[l].status = "COMPLETED"
        THEN HasRun(l, "SUCCESS", input[w])
        ELSE HasRun(l, "ERROR", input[w]) \/ w \in threw

\* A run leaves its audit row (README.md:137) before its job is settled: the
\* worker that completes a job has written a SUCCESS row for the content it
\* judged, and one that fails a job or sends it back has written an ERROR row for
\* it, unless a statement of this very run failed outside the workflow's try
\* block: one of loadModerationInput, of createError or of the settling itself.
\* Rows of one content and status are one row here, so a second attempt on a
\* content is served by the row of the first.
SettledIsAudited == [][\A w \in Workers : SettlesAudited(w)]_moderationVars

\* Whatever the workflow, the handlers and the admins do, the job table and its
\* workers behave as ModerationQueue says: everything shown of it holds here.
QueueIsImplemented == Spec

\* Every listing created is moderated to the end, deleted, or lost to a failed
\* enqueue.
EveryListingModerated ==
    \A l \in Listings :
      Live(l) ~> \/ job[l].status \in {"COMPLETED", "FAILED"}
                 \/ ~Live(l)
                 \/ l \in lost

\* README.md:136 says "Suspicious listings stay `PENDING` for admin review.":
\* a listing whose suspicious content was judged by a run that completed, and
\* that no admin has decided, is PENDING.
SuspiciousStaysPending ==
    \A l \in Listings :
      /\ Live(l) /\ l \notin byAdmin /\ ~Owed(l)
      /\ job[l].status = "COMPLETED"
      /\ content[l] \in Suspicious /\ judged[l] = content[l]
      => approval[l] = "PENDING"
=============================================================================

---------------------------- MODULE Notifications ----------------------------
(***************************************************************************)
(* What sellers are told of their listings: the decisions of the catalogue *)
(* as approveListing and rejectListing take them - read, update, notify -  *)
(* and the notifications, as NotificationsService keeps them.  The rows of *)
(* new messages are in Messaging.                                          *)
(*                                                                         *)
(* A decision is in the hands of an admin's request or of a moderation     *)
(* run.  Nothing ties the update of the listing to its notification: a     *)
(* failure in between loses it, and several decisions, edits and reports   *)
(* may overtake one another.                                               *)
(***************************************************************************)
EXTENDS ListingCatalog

CONSTANTS
    Deciders,     \* admin requests and moderation runs that decide
    MaxNotices    \* bound: rows of notifications

ASSUME NoticesAssumption == MaxNotices \in Nat

VARIABLES
    decision,   \* decision[d]: the statement that d has reached
    notices,    \* rows of notifications, oldest first
    outdated,   \* history: decisions to be told that no longer hold
    astray      \* history: listings decided or reset without a notice, or
                \*   with one that came too late

noticeVars == <<decision, notices, outdated, astray>>
systemVars == <<catalogVars, noticeVars>>

Verdicts == {"APPROVED", "REJECTED"}
Deciding(step, l, verdict, seller) ==
    [step |-> step, listing |-> l, verdict |-> verdict, seller |-> seller]
NoDecision == Deciding("idle", NoValue, NoValue, NoValue)
Decisions == [step : {"write"}, listing : Listings, verdict : Verdicts, seller : {NoValue}]
             \cup [step : {"tell"}, listing : Listings, verdict : Verdicts, seller : Users]
NoticeRows == [user : Users, listing : Listings, says : Verdicts, isRead : BOOLEAN]

NoticesInit ==
    /\ CatalogInit
    /\ decision = [d \in Deciders |-> NoDecision]
    /\ notices = <<>>
    /\ outdated = {}
    /\ astray = {}

Reaches(d, next) == decision' = [decision EXCEPT ![d] = next]

\* The listings whose approval a step sets to another value.
Changed == {l \in Listings : Live(l) /\ listing'[l].approval # listing[l].approval}
Untold(ls) == {d \in Deciders : /\ decision[d].step = "tell"
                                /\ decision[d].listing \in ls}

-----------------------------------------------------------------------------
(* approveListing and rejectListing                                        *)

\* A listing that has this approval is returned as it is.
DecideRead(d, l, verdict) ==
    /\ decision[d] = NoDecision
    /\ Live(l)
    /\ listing[l].approval # verdict
    /\ Reaches(d, Deciding("write", l, verdict, NoValue))
    /\ UNCHANGED <<catalogVars, notices, outdated, astray>>

Stores(d) ==
    LET l == decision[d].listing
    IN  /\ decision[d].step = "write"
        /\ \/ decision[d].verdict = "APPROVED" /\ Approve(l)
           \/ decision[d].verdict = "REJECTED" /\ Reject(l)
        /\ outdated' = outdated \cup Untold(Changed)
        /\ UNCHANGED <<notices, astray>>

\* Mutant: the decision ends with the update.
DecideUntold(d) == Stores(d) /\ Reaches(d, NoDecision)

\* The update returns the row: its seller is told.
DecideWrite(d) ==
    LET l == decision[d].listing
    IN  Stores(d) /\ Reaches(d, Deciding("tell", l, decision[d].verdict, listing[l].seller))

\* Mutant: the listing is read again for its seller.
NoticeReloaded(row) == [user |-> listing[row.listing].seller, listing |-> row.listing,
                        says |-> row.verdict, isRead |-> FALSE]

Notice(row) == [user |-> row.seller, listing |-> row.listing,
                says |-> row.verdict, isRead |-> FALSE]

\* NotificationsService.create: the row says what was decided, also when the
\* listing has another approval by now or is gone.
DecideTell(d) ==
    LET l == decision[d].listing IN
    /\ decision[d].step = "tell"
    /\ Len(notices) < MaxNotices
    /\ notices' = Append(notices, Notice(decision[d]))
    /\ Reaches(d, NoDecision)
    /\ outdated' = outdated \ {d}
    /\ astray' = IF d \in outdated /\ Live(l) THEN astray \cup {l} ELSE astray \ {l}
    /\ UNCHANGED catalogVars

\* A statement fails, the listing is gone or the process dies.
DecideFails(d) ==
    LET l == decision[d].listing IN
    /\ decision[d] # NoDecision
    /\ Reaches(d, NoDecision)
    /\ outdated' = outdated \ {d}
    /\ astray' = IF decision[d].step = "tell" /\ Live(l) THEN astray \cup {l} ELSE astray
    /\ UNCHANGED <<catalogVars, notices>>

-----------------------------------------------------------------------------
(* The catalogue, and who reads                                            *)

\* An edit that resets the approval and a resolved report tell nobody.
CatalogStepUntold ==
    /\ CatalogStep
    /\ outdated' = outdated \cup Untold(Changed)
    /\ astray' = {l \in astray \cup Changed : listing'[l].approval \in Approvals}
    /\ UNCHANGED <<decision, notices>>

\* updateMany finds the row of its owner, or nothing to change.
MarkRead(u, i) ==
    /\ notices[i].user = u /\ ~notices[i].isRead
    /\ notices' = [notices EXCEPT ![i].isRead = TRUE]
    /\ UNCHANGED <<catalogVars, decision, outdated, astray>>

MarkAllRead(u) ==
    /\ \E i \in DOMAIN notices : notices[i].user = u /\ ~notices[i].isRead
    /\ notices' = [i \in DOMAIN notices |->
                     IF notices[i].user = u THEN [notices[i] EXCEPT !.isRead = TRUE]
                                            ELSE notices[i]]
    /\ UNCHANGED <<catalogVars, decision, outdated, astray>>

DecisionStep == \E d \in Deciders :
    \/ \E l \in Listings, verdict \in Verdicts : DecideRead(d, l, verdict)
    \/ DecideWrite(d)
    \/ DecideTell(d)
    \/ DecideFails(d)

ReaderStep == \E u \in Users :
    \/ \E i \in DOMAIN notices : MarkRead(u, i)
    \/ MarkAllRead(u)

NoticesNext == DecisionStep \/ CatalogStepUntold \/ ReaderStep

NoticesSpec == NoticesInit /\ [][NoticesNext]_systemVars

-----------------------------------------------------------------------------
(* Properties                                                              *)

\* The catalogue keeps its types, and with them what refers to a listing; a
\* notice goes to the seller of its listing.
NoticesTypeOK ==
    /\ CatalogTypeOK
    /\ decision \in [Deciders -> Decisions \cup {NoDecision}]
    /\ notices \in Seq(NoticeRows) /\ Len(notices) <= MaxNotices
    /\ outdated \subseteq Untold(Listings)
    /\ astray \subseteq {l \in Listings : Live(l)}
    /\ \A i \in DOMAIN notices :
         LET l == notices[i].listing IN Live(l) => notices[i].user = listing[l].seller

\* What the newest notice of a listing says: nothing yet is "PENDING".
Newest(l) ==
    LET about == {i \in DOMAIN notices : notices[i].listing = l}
    IN  IF about = {} THEN "PENDING"
        ELSE notices[CHOOSE i \in about : \A j \in about : j <= i].says

\* The newest notice of a listing is true, or a decision that holds is about to
\* be told - unless the seller was never told (a failure between update and
\* notice, an edit, a resolved report) or told too late, after the next
\* decision: then it stays wrong until the listing is decided again.
NewestNoticeIsTrue ==
    \A l \in Listings : Live(l) /\ Newest(l) # listing[l].approval
        => l \in astray \/ Untold({l}) \ outdated # {}
=============================================================================

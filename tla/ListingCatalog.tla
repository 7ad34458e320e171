--------------------------- MODULE ListingCatalog ---------------------------
(***************************************************************************)
(* The catalogue: slugs, who may open and who is listed what, view counts, *)
(* favourites and reports, as ListingsService, UsersService,               *)
(* ReportsService and AdminService keep them.                              *)
(*                                                                         *)
(* Every handler reads first and writes later, without a transaction       *)
(* around both.  Moderation is seen from outside: an approval or rejection *)
(* may come at any moment (ListingModeration says when it does).           *)
(***************************************************************************)
EXTENDS Integers, Sequences, FiniteSets

CONSTANTS
    Users,
    Admins,              \* users whose role is ADMIN
    Titles,
    Slugs,
    Candidates,          \* Candidates[t]: the slugs tried for title t, in order
    Listings,            \* ids of listings, never used twice
    Reports,             \* ids of reports, never used twice
    Requests,            \* request slots
    NoValue,             \* null, and the viewer who is not logged in
    ModerationEnabled,   \* isEnabled() of the job service
    MaxViews             \* bound: views of one listing

ASSUME CatalogAssumption ==
    /\ Admins \subseteq Users
    /\ NoValue \notin Users \cup Titles \cup Slugs \cup Listings \cup Reports
    /\ Candidates \in [Titles -> Seq(Slugs) \ {<<>>}]   \* generateSlug tries one
    /\ ModerationEnabled \in BOOLEAN
    /\ MaxViews \in Nat

VARIABLES
    listing,        \* listing[l]: its row
    report,         \* report[p]: its row
    saved,          \* favourites, <<u, l>>
    request,        \* request[r]: the handler that slot r is inside of
    taken,          \* history: requests whose chosen slug another one took
    approvedSince   \* history: reports resolved before the last approval

history == <<taken, approvedSince>>
catalogVars == <<listing, report, saved, request, history>>

Approvals == {"PENDING", "APPROVED", "REJECTED"}
ListingRows == [seller : Users, title : Titles, slug : Slugs,
                approval : Approvals, views : 0..MaxViews]
Row(seller, title, slug, approval, views) ==
    [seller |-> seller, title |-> title, slug |-> slug,
     approval |-> approval, views |-> views]
NoListing(why) == Row(NoValue, NoValue, NoValue, why, 0)

ReportRows == [listing : Listings, by : Users,
               status : {"PENDING", "REVIEWED", "RESOLVED"}]
NoReport(why) == [listing |-> NoValue, by |-> NoValue, status |-> why]

\* about is a listing or a report; title and resets are those of an edit;
\* tried is the place of a slug among the candidates, or a view count read.
At(step, user, about, title, resets, tried) ==
    [step |-> step, user |-> user, about |-> about, title |-> title,
     resets |-> resets, tried |-> tried]
Idle == At("idle", NoValue, NoValue, NoValue, FALSE, 0)
TitleSteps == {"slug", "write"}
ListingSteps == {"view", "save", "report", "remove"}
ReportSteps == {"resolve", "dismiss"}

CatalogInit ==
    /\ listing = [l \in Listings |-> NoListing("NONE")]
    /\ report = [p \in Reports |-> NoReport("NONE")]
    /\ saved = {}
    /\ request = [r \in Requests |-> Idle]
    /\ taken = {}
    /\ approvedSince = {}

Live(l) == listing[l].approval \in Approvals
Filed(p) == report[p].status \in {"PENDING", "REVIEWED", "RESOLVED"}
Becomes(r, next) == request' = [request EXCEPT ![r] = next]
Doing(r, step) == request[r].step = step
User(r) == request[r].user
About(r) == request[r].about
Ends(r) == Becomes(r, Idle) /\ taken' = taken \ {r}

\* assertCanMutate: the seller, or an admin.
CanMutate(u, l) == u = listing[l].seller \/ u \in Admins

-----------------------------------------------------------------------------
(* What a user is shown                                                    *)

\* findOne: others than the seller and the admins see what is approved.
MayOpen(u, l) == /\ Live(l)
                 /\ \/ listing[l].approval = "APPROVED"
                    \/ CanMutate(u, l)

\* findAll: only an admin chooses the approval status.
Feed(u, status) ==
    {l \in Listings : /\ status # "APPROVED" => u \in Admins
                      /\ listing[l].approval = status}

\* Mutant: the filter is dropped for whoever is logged in.
LoggedInPage(u, s) ==
    {l \in Listings : /\ Live(l) /\ listing[l].seller = s
                      /\ u \in Users \/ listing[l].approval = "APPROVED"}

\* findBySeller: sellers see all that is theirs.
SellerPage(u, s) ==
    {l \in Listings : /\ Live(l) /\ listing[l].seller = s
                      /\ u = s \/ listing[l].approval = "APPROVED"}

\* myListings: all that is theirs.
MyPage(u) == {l \in Listings : Live(l) /\ listing[l].seller = u}

\* mySavedListings
SavedPage(u) ==
    {l \in Listings : <<u, l>> \in saved /\ listing[l].approval = "APPROVED"}

\* pendingListings and reports, for admins.
ReviewPage(u) ==
    {l \in Listings : /\ u \in Admins
                      /\ \/ listing[l].approval = "PENDING"
                         \/ \E p \in Reports : report[p].listing = l}

\* The guard on views is the bound: there is one count for each page opened.
OpenRead(r, u, l) ==
    /\ request[r] = Idle
    /\ MayOpen(u, l)
    /\ listing[l].views < MaxViews
    /\ Becomes(r, At("view", u, l, NoValue, FALSE, listing[l].views))
    /\ UNCHANGED <<listing, report, saved, history>>

\* viewCount: { increment: 1 } in the database.
Counted(r) == listing[About(r)].views + 1

\* The view is counted and the listing shown as it was read.
OpenCount(r) ==
    /\ Doing(r, "view")
    /\ LET l == About(r)
       IN  /\ Live(l) /\ listing[l].views < MaxViews
           /\ listing' = [listing EXCEPT ![l].views = Counted(r)]
    /\ Ends(r)
    /\ UNCHANGED <<report, saved, approvedSince>>

-----------------------------------------------------------------------------
(* Titles and slugs                                                        *)

CreateBegins(r, u, t) ==
    /\ request[r] = Idle
    /\ Becomes(r, At("slug", u, NoValue, t, FALSE, 1))
    /\ UNCHANGED <<listing, report, saved, history>>

\* A new title is judged again; under the same one, the rest may be new or not.
ShouldRemoderate(l, t) == IF ~ModerationEnabled THEN {FALSE}
                          ELSE IF t # listing[l].title THEN {TRUE} ELSE BOOLEAN

EditBegins(r, u, l, t) ==
    /\ request[r] = Idle
    /\ Live(l)
    /\ CanMutate(u, l)
    /\ \E resets \in ShouldRemoderate(l, t) : Becomes(r, At("slug", u, l, t, resets, 1))
    /\ UNCHANGED <<listing, report, saved, history>>

Slug(r) == Candidates[request[r].title][request[r].tried]
HasSlug(s) == {l \in Listings : Live(l) /\ listing[l].slug = s}

\* Mutant: listings that were rejected do not hold their slug.
FreeIfRejected(s, l) ==
    HasSlug(s) \subseteq {l} \cup {k \in Listings : listing[k].approval = "REJECTED"}

\* generateSlug: no listing has it, or the one that is edited does.
SlugFree(s, l) == HasSlug(s) \subseteq {l}

SlugLook(r) ==
    /\ Doing(r, "slug")
    /\ IF SlugFree(Slug(r), About(r))
         THEN Becomes(r, [request[r] EXCEPT !.step = "write"])
         ELSE /\ request[r].tried < Len(Candidates[request[r].title])
              /\ Becomes(r, [request[r] EXCEPT !.tried = @ + 1])
    /\ UNCHANGED <<listing, report, saved, history>>

\* The requests that have chosen the slug that r stores, for another listing.
Overtaken(r) == {q \in Requests \ {r} : /\ Doing(q, "write")
                                        /\ Slug(q) = Slug(r)
                                        /\ About(q) # About(r) \/ About(q) = NoValue}

\* The unique index on slug; the request fails when it refuses.
IndexAllows(s, l) == \A k \in Listings \ {l} : Live(k) => listing[k].slug # s

CreateWrite(r, l) ==
    /\ Doing(r, "write") /\ About(r) = NoValue
    /\ listing[l].approval = "NONE"
    /\ IndexAllows(Slug(r), NoValue)
    /\ listing' = [listing EXCEPT
                     ![l] = Row(User(r), request[r].title, Slug(r), "PENDING", 0)]
    /\ Becomes(r, Idle)
    /\ taken' = (taken \cup Overtaken(r)) \ {r}
    /\ UNCHANGED <<report, saved, approvedSince>>

EditWrite(r) ==
    LET l == About(r) IN
    /\ Doing(r, "write") /\ l \in Listings
    /\ Live(l)
    /\ IndexAllows(Slug(r), l)
    /\ listing' = [listing EXCEPT
                     ![l].title = request[r].title,
                     ![l].slug = Slug(r),
                     ![l].approval = IF request[r].resets THEN "PENDING" ELSE @]
    /\ Becomes(r, Idle)
    /\ taken' = (taken \cup Overtaken(r)) \ {r}
    /\ UNCHANGED <<report, saved, approvedSince>>

-----------------------------------------------------------------------------
(* Favourites, removal and moderation                                      *)

SaveRead(r, u, l) ==
    /\ request[r] = Idle
    /\ Live(l)
    /\ Becomes(r, At("save", u, l, NoValue, FALSE, 0))
    /\ UNCHANGED <<listing, report, saved, history>>

\* Mutant: no foreign key.
RefersAnywhere(l) == TRUE

\* The foreign key on listingId.
Refers(l) == Live(l)

SaveWrite(r) ==
    /\ Doing(r, "save")
    /\ Refers(About(r))
    /\ saved' = saved \cup {<<User(r), About(r)>>}
    /\ Ends(r)
    /\ UNCHANGED <<listing, report, approvedSince>>

\* deleteMany, which may find nothing.
Unsave(u, l) ==
    /\ <<u, l>> \in saved
    /\ saved' = saved \ {<<u, l>>}
    /\ UNCHANGED <<listing, report, request, history>>

RemoveRead(r, u, l) ==
    /\ request[r] = Idle
    /\ Live(l)
    /\ CanMutate(u, l)
    /\ Becomes(r, At("remove", u, l, NoValue, FALSE, 0))
    /\ UNCHANGED <<listing, report, saved, history>>

\* The rows that refer to the listing go with it.
RemoveWrite(r) ==
    LET l == About(r)
        with == {p \in Reports : Filed(p) /\ report[p].listing = l}
    IN
    /\ Doing(r, "remove")
    /\ Live(l)
    /\ listing' = [listing EXCEPT ![l] = NoListing("GONE")]
    /\ saved' = saved \ (Users \X {l})
    /\ report' = [p \in Reports |-> IF p \in with THEN NoReport("GONE") ELSE report[p]]
    /\ approvedSince' = approvedSince \ with
    /\ Ends(r)

ResolvedFor(l) == {p \in Reports : report[p].listing = l /\ report[p].status = "RESOLVED"}

\* approveListing and rejectListing, by an admin or a moderation run.
Approve(l) ==
    /\ Live(l)
    /\ listing' = [listing EXCEPT ![l].approval = "APPROVED"]
    /\ approvedSince' = approvedSince \cup ResolvedFor(l)
    /\ UNCHANGED <<report, saved, request, taken>>

Reject(l) ==
    /\ Live(l)
    /\ listing' = [listing EXCEPT ![l].approval = "REJECTED"]
    /\ UNCHANGED <<report, saved, request, taken, approvedSince>>

-----------------------------------------------------------------------------
(* Reports                                                                 *)

\* Nobody reports a listing of their own.
ReportRead(r, u, l) ==
    /\ request[r] = Idle
    /\ Live(l)
    /\ listing[l].seller # u
    /\ Becomes(r, At("report", u, l, NoValue, FALSE, 0))
    /\ UNCHANGED <<listing, report, saved, history>>

ReportWrite(r, p) ==
    /\ Doing(r, "report")
    /\ Refers(About(r))
    /\ report[p] = NoReport("NONE")
    /\ report' = [report EXCEPT ![p] = [listing |-> About(r), by |-> User(r),
                                        status |-> "PENDING"]]
    /\ Ends(r)
    /\ UNCHANGED <<listing, saved, approvedSince>>

JudgeRead(r, u, p, step) ==
    /\ request[r] = Idle
    /\ u \in Admins
    /\ Filed(p)
    /\ Becomes(r, At(step, u, p, NoValue, FALSE, 0))
    /\ UNCHANGED <<listing, report, saved, history>>

\* Mutant: only the report is updated.
KeepsApproval(l) == listing[l].approval

ResolvedApproval(l) == "REJECTED"

\* One transaction: the report and its listing, or neither.
ResolveWrite(r) ==
    LET p == About(r)
        l == report[p].listing
    IN
    /\ Doing(r, "resolve")
    /\ Filed(p)
    /\ report' = [report EXCEPT ![p].status = "RESOLVED"]
    /\ listing' = [listing EXCEPT ![l].approval = ResolvedApproval(l)]
    /\ approvedSince' = approvedSince \ {p}
    /\ Ends(r)
    /\ UNCHANGED saved

DismissWrite(r) ==
    LET p == About(r) IN
    /\ Doing(r, "dismiss")
    /\ Filed(p)
    /\ report' = [report EXCEPT ![p].status = "REVIEWED"]
    /\ approvedSince' = approvedSince \ {p}
    /\ Ends(r)
    /\ UNCHANGED <<listing, saved>>

-----------------------------------------------------------------------------
\* A row is gone, the index refuses, the database or the process fails.
RequestFails(r) ==
    /\ request[r] # Idle
    /\ Ends(r)
    /\ UNCHANGED <<listing, report, saved, approvedSince>>

OpenStep == \E r \in Requests :
    \/ \E u \in Users \cup {NoValue}, l \in Listings : OpenRead(r, u, l)
    \/ OpenCount(r)

TitleStep == \E r \in Requests :
    \/ \E u \in Users, t \in Titles : CreateBegins(r, u, t)
    \/ \E u \in Users, l \in Listings, t \in Titles : EditBegins(r, u, l, t)
    \/ SlugLook(r)
    \/ \E l \in Listings : CreateWrite(r, l)
    \/ EditWrite(r)

RowStep == \E l \in Listings :
    \/ \E r \in Requests, u \in Users : SaveRead(r, u, l) \/ RemoveRead(r, u, l)
    \/ \E u \in Users : Unsave(u, l)

Decision == \E l \in Listings : Approve(l) \/ Reject(l)

RowWrite == \E r \in Requests : SaveWrite(r) \/ RemoveWrite(r) \/ RequestFails(r)

\* An instance without ids for reports has none of these.
ReportStep == \E r \in Requests, p \in Reports :
    \/ \E u \in Users, l \in Listings : ReportRead(r, u, l)
    \/ ReportWrite(r, p)
    \/ \E u \in Users, step \in ReportSteps : JudgeRead(r, u, p, step)
    \/ ResolveWrite(r)
    \/ DismissWrite(r)

CatalogStep == OpenStep \/ TitleStep \/ RowStep \/ RowWrite \/ ReportStep

CatalogNext == CatalogStep \/ Decision

CatalogSpec == CatalogInit /\ [][CatalogNext]_catalogVars

-----------------------------------------------------------------------------
(* Properties                                                              *)

Pending ==
    [step : TitleSteps, user : Users, about : Listings \cup {NoValue},
     title : Titles, resets : BOOLEAN, tried : Nat \ {0}]
    \cup [step : ListingSteps, user : Users \cup {NoValue}, about : Listings,
          title : {NoValue}, resets : {FALSE}, tried : 0..MaxViews]
    \cup [step : ReportSteps, user : Admins, about : Reports,
          title : {NoValue}, resets : {FALSE}, tried : {0}]

\* Two listings never share a slug, and a listing keeps one of its own title.
SlugsIdentify ==
    \A l \in Listings : Live(l) =>
        /\ \E i \in DOMAIN Candidates[listing[l].title] :
             Candidates[listing[l].title][i] = listing[l].slug
        /\ \A k \in Listings \ {l} : Live(k) => listing[k].slug # listing[l].slug

\* Rows and handlers have their types and the indexes hold, whatever creations,
\* edits and removals overlap: slugs identify, and what refers to a listing goes
\* with it, also when it is written while the listing is removed.
CatalogTypeOK ==
    /\ listing \in [Listings -> ListingRows \cup {NoListing("NONE"), NoListing("GONE")}]
    /\ report \in [Reports -> ReportRows \cup {NoReport("NONE"), NoReport("GONE")}]
    /\ request \in [Requests -> Pending \cup {Idle}]
    /\ saved \subseteq Users \X {l \in Listings : Live(l)}
    /\ taken \subseteq Requests
    /\ approvedSince \subseteq {p \in Reports : report[p].status = "RESOLVED"}
    /\ \A p \in Reports : Filed(p) => Live(report[p].listing)
    /\ SlugsIdentify

\* A create or an edit meets the unique index only when another request stored
\* the same slug after this one had found it free (listings.service.ts:693).
ConflictsAreRaces ==
    \A r \in Requests :
        Doing(r, "write") /\ ~IndexAllows(Slug(r), About(r)) => r \in taken

\* The lists of ListingsService and AdminService agree with the page of a
\* listing: what a viewer is listed can be opened by that viewer, and what
\* strangers can open is in the feed.  (The listing that a conversation embeds,
\* conversations.service.ts:457, is shown unfiltered and is not one of them.)
ListsAgreeWithPages ==
    \A u \in Users \cup {NoValue} :
        LET opens == {l \in Listings : MayOpen(u, l)}
        IN  /\ \A status \in Approvals : Feed(u, status) \subseteq opens
            /\ \A s \in Users : SellerPage(u, s) \subseteq opens
            /\ SavedPage(u) \cup ReviewPage(u) \subseteq opens
            /\ u \notin Admins => opens = Feed(u, "APPROVED") \cup MyPage(u)
            /\ MyPage(u) = SellerPage(u, u)

\* The listing of a resolved report is off show unless it was approved after
\* the report was resolved: report and listing never disagree.
ResolvedIsOffShow ==
    \A p \in Reports :
        report[p].status = "RESOLVED" /\ listing[report[p].listing].approval = "APPROVED"
          => p \in approvedSince

=============================================================================

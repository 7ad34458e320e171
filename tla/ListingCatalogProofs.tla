------------------------ MODULE ListingCatalogProofs ------------------------
(***************************************************************************)
(* The catalogue's invariants, for every number of users, titles,          *)
(* listings, reports and requests.                                         *)
(*                                                                         *)
(* Types and indexes first.  CatalogTypeOK is almost inductive: only what  *)
(* a handler is inside of has to say more (a candidate of its title, a     *)
(* user who is logged in).  Each action that writes has a lemma that says  *)
(* which rows it changes and how; the other invariants use nothing else of *)
(* it.  CatalogSpec's types are also what the lists rest on.               *)
(***************************************************************************)
EXTENDS ListingCatalog, TLAPS

\* The three parts of Pending.
TitleRequests ==
    [step : TitleSteps, user : Users, about : Listings \cup {NoValue},
     title : Titles, resets : BOOLEAN, tried : Nat \ {0}]
ListingRequests ==
    [step : ListingSteps, user : Users \cup {NoValue}, about : Listings,
     title : {NoValue}, resets : {FALSE}, tried : 0..MaxViews]
ReportRequests ==
    [step : ReportSteps, user : Admins, about : Reports,
     title : {NoValue}, resets : {FALSE}, tried : {0}]

\* A handler that waits is in one of three kinds.
LEMMA PendingParts ==
    Pending = TitleRequests \cup ListingRequests \cup ReportRequests
BY DEF Pending, TitleRequests, ListingRequests, ReportRequests

\* What CatalogTypeOK leaves out: a handler of a title has one of its
\* candidates in hand, and strangers only open pages.
HandlerOK(q) ==
    /\ q.step \in TitleSteps => q.tried \in DOMAIN Candidates[q.title]
    /\ q.step \in {"save", "report", "remove"} => q.user \in Users

\* A row is live and typed, or one of the two that stand for no row.
LEMMA Rowed == CatalogTypeOK => \A l \in Listings :
   /\ Live(l) => listing[l] \in ListingRows
   /\ ~Live(l) => listing[l] \in {NoListing("NONE"), NoListing("GONE")}
BY DEF CatalogTypeOK, Live, ListingRows, NoListing, Row, Approvals

\* The same of reports.
LEMMA ReportRowed == CatalogTypeOK => \A p \in Reports :
   /\ Filed(p) => report[p] \in ReportRows
   /\ ~Filed(p) => report[p] \in {NoReport("NONE"), NoReport("GONE")}
BY DEF CatalogTypeOK, Filed, ReportRows, NoReport

\* The step of a handler tells its kind.
LEMMA RequestsTyped ==
  ASSUME CatalogTypeOK, NEW r \in Requests
  PROVE  /\ request[r].step \in TitleSteps => request[r] \in TitleRequests
         /\ request[r].step \in ListingSteps => request[r] \in ListingRequests
         /\ request[r].step \in ReportSteps => request[r] \in ReportRequests
<1>1. request[r] \in TitleRequests \cup ListingRequests
                    \cup ReportRequests \cup {Idle}
  BY DEF CatalogTypeOK, Pending, TitleRequests, ListingRequests, ReportRequests
<1>2. /\ \A q \in TitleRequests : q.step \in {"slug", "write"}
      /\ \A q \in ListingRequests :
             q.step \in {"view", "save", "report", "remove"}
      /\ \A q \in ReportRequests : q.step \in {"resolve", "dismiss"}
      /\ Idle.step = "idle"
  BY DEF TitleRequests, ListingRequests, ReportRequests, TitleSteps,
         ListingSteps, ReportSteps, Idle, At
<1>3. QED
  BY <1>1, <1>2 DEF TitleSteps, ListingSteps, ReportSteps

\* An update of one field of a row is an update of the row.
LEMMA FieldUpdates ==
  ASSUME NEW f, NEW l, NEW v
  PROVE  /\ [f EXCEPT ![l].views = v]
             = [f EXCEPT ![l] = [f[l] EXCEPT !.views = v]]
         /\ [f EXCEPT ![l].approval = v]
             = [f EXCEPT ![l] = [f[l] EXCEPT !.approval = v]]
         /\ [f EXCEPT ![l].status = v]
             = [f EXCEPT ![l] = [f[l] EXCEPT !.status = v]]
OBVIOUS

\* An update of one field keeps the type of a row, and its other fields.
LEMMA RowFields ==
   /\ \A row \in ListingRows, v \in 0..MaxViews :
        /\ [row EXCEPT !.views = v] \in ListingRows
        /\ [row EXCEPT !.views = v].views = v
        /\ \A k \in {"seller", "title", "slug", "approval"} :
             [row EXCEPT !.views = v][k] = row[k]
   /\ \A row \in ListingRows, v \in Approvals :
        /\ [row EXCEPT !.approval = v] \in ListingRows
        /\ [row EXCEPT !.approval = v].approval = v
        /\ \A k \in {"seller", "title", "slug", "views"} :
             [row EXCEPT !.approval = v][k] = row[k]
   /\ \A row \in ReportRows, v \in {"PENDING", "REVIEWED", "RESOLVED"} :
        /\ [row EXCEPT !.status = v] \in ReportRows
        /\ [row EXCEPT !.status = v].status = v
        /\ \A k \in {"listing", "by"} : [row EXCEPT !.status = v][k] = row[k]
BY DEF ListingRows, ReportRows

\* generateSlug: there is a first candidate, and one after each but the last.
LEMMA CandidateSlugs ==
   \A t \in Titles : /\ 1 \in DOMAIN Candidates[t]
                     /\ \A i \in DOMAIN Candidates[t] :
                          /\ i \in Nat \ {0}
                          /\ Candidates[t][i] \in Slugs
                          /\ i < Len(Candidates[t])
                               => i + 1 \in DOMAIN Candidates[t]
<1> SUFFICES ASSUME NEW t \in Titles
             PROVE  /\ 1 \in DOMAIN Candidates[t]
                    /\ \A i \in DOMAIN Candidates[t] :
                         /\ i \in Nat \ {0}
                         /\ Candidates[t][i] \in Slugs
                         /\ i < Len(Candidates[t])
                              => i + 1 \in DOMAIN Candidates[t]
  OBVIOUS
<1>1. Candidates[t] \in Seq(Slugs) /\ Candidates[t] # <<>>
  BY CatalogAssumption
<1>2. DOMAIN Candidates[t] = 1..Len(Candidates[t])
      /\ Len(Candidates[t]) \in Nat /\ Len(Candidates[t]) # 0
  BY <1>1
<1>3. \A i \in 1..Len(Candidates[t]) : Candidates[t][i] \in Slugs
  BY <1>1
<1>4. \A n \in Nat \ {0} :
        /\ 1 \in 1..n
        /\ \A i \in 1..n : i \in Nat \ {0} /\ (i < n => i + 1 \in 1..n)
  OBVIOUS
<1>5. QED
  BY <1>2, <1>3, <1>4

\* The conjuncts of CatalogTypeOK, and those of HandlerOK, by name.
RequestTypes ==
    /\ request \in [Requests -> Pending \cup {Idle}]
    /\ \A r \in Requests : HandlerOK(request[r])
ListingTypes == listing \in
    [Listings -> ListingRows \cup {NoListing("NONE"), NoListing("GONE")}]
ReportTypes ==
    report \in [Reports -> ReportRows \cup {NoReport("NONE"),
                                            NoReport("GONE")}]
CatalogTypeInv == CatalogTypeOK /\ \A r \in Requests : HandlerOK(request[r])

\* A handler that moves to a typed place leaves the handlers typed.
LEMMA BecomesTyped ==
  ASSUME CatalogTypeInv, NEW r \in Requests, NEW next \in Pending \cup {Idle},
         HandlerOK(next),
         Becomes(r, next)
  PROVE  RequestTypes'
BY DEF CatalogTypeInv, CatalogTypeOK, Becomes, RequestTypes

\* Every step leaves the handlers typed.
LEMMA NextRequestTypes ==
   CatalogTypeInv /\ [CatalogNext]_catalogVars => RequestTypes'
<1> SUFFICES ASSUME CatalogTypeInv, [CatalogNext]_catalogVars
             PROVE  RequestTypes'
  OBVIOUS
<1>a. CatalogTypeOK
  BY DEF CatalogTypeInv
<1>0. UNCHANGED request => RequestTypes'
  BY DEF CatalogTypeInv, CatalogTypeOK, RequestTypes
<1>1. HandlerOK(Idle)
  BY DEF HandlerOK, Idle, At, TitleSteps
<1>2. ASSUME NEW r \in Requests, Ends(r) \/ Becomes(r, Idle)
      PROVE  RequestTypes'
  BY <1>1, <1>2, BecomesTyped DEF Ends
<1>3. ASSUME NEW r \in Requests, NEW u \in Users \cup {NoValue},
             NEW l \in Listings, OpenRead(r, u, l)
      PROVE  RequestTypes'
  <2> DEFINE next == At("view", u, l, NoValue, FALSE, listing[l].views)
  <2>1. listing[l].views \in 0..MaxViews
    <3>1. \A row \in ListingRows : row.views \in 0..MaxViews
      BY DEF ListingRows
    <3>2. QED
      BY <1>3, <1>a, <3>1, Rowed DEF OpenRead, MayOpen
  <2>2. next \in Pending
    BY <2>1 DEF Pending, At, ListingSteps
  <2>3. HandlerOK(next)
    BY DEF HandlerOK, At, TitleSteps
  <2>4. QED
    BY <1>3, <2>2, <2>3, BecomesTyped DEF OpenRead
<1>4. ASSUME NEW r \in Requests, NEW u \in Users, NEW t \in Titles,
             NEW l \in Listings \cup {NoValue},
             NEW b \in BOOLEAN, Becomes(r, At("slug", u, l, t, b, 1))
      PROVE  RequestTypes'
  <2> DEFINE next == At("slug", u, l, t, b, 1)
  <2>2. next \in Pending
    <3>1. next \in TitleRequests
      BY DEF TitleRequests, At, TitleSteps
    <3>2. QED
      BY <3>1, PendingParts
  <2>3. HandlerOK(next)
    BY CandidateSlugs DEF HandlerOK, At, TitleSteps
  <2>4. QED
    BY <1>4, <2>2, <2>3, BecomesTyped
<1>5. ASSUME NEW r \in Requests, NEW u \in Users, NEW l \in Listings,
             NEW s \in {"save", "report", "remove"},
             Becomes(r, At(s, u, l, NoValue, FALSE, 0))
      PROVE  RequestTypes'
  <2> DEFINE next == At(s, u, l, NoValue, FALSE, 0)
  <2>2. next \in Pending
    BY CatalogAssumption DEF Pending, At, ListingSteps
  <2>3. HandlerOK(next)
    BY DEF HandlerOK, At, TitleSteps
  <2>4. QED
    BY <1>5, <2>2, <2>3, BecomesTyped
<1>6. ASSUME NEW r \in Requests, NEW u \in Admins, NEW p \in Reports,
             NEW s \in ReportSteps,
             Becomes(r, At(s, u, p, NoValue, FALSE, 0))
      PROVE  RequestTypes'
  <2> DEFINE next == At(s, u, p, NoValue, FALSE, 0)
  <2>2. next \in Pending
    BY DEF Pending, At, ReportSteps
  <2>3. HandlerOK(next)
    BY DEF HandlerOK, At, TitleSteps, ReportSteps
  <2>4. QED
    BY <1>6, <2>2, <2>3, BecomesTyped
<1>7. ASSUME NEW r \in Requests, SlugLook(r) PROVE RequestTypes'
  <2>1. request[r] \in TitleRequests
        /\ request[r].tried \in DOMAIN Candidates[request[r].title]
    BY <1>7, <1>a, RequestsTyped
       DEF SlugLook, Doing, TitleSteps, CatalogTypeInv, HandlerOK
  <2> PICK q \in TitleRequests : q = request[r]
    BY <2>1
  <2>2. q.title \in Titles /\ q.tried \in DOMAIN Candidates[q.title]
    BY <2>1 DEF TitleRequests
  <2>3. [q EXCEPT !.step = "write"] \in Pending
        /\ HandlerOK([q EXCEPT !.step = "write"])
    BY <2>2 DEF Pending, TitleRequests, TitleSteps, HandlerOK
  <2>4. CASE Becomes(r, [q EXCEPT !.step = "write"])
    BY <2>3, <2>4, BecomesTyped
  <2>5. CASE q.tried < Len(Candidates[q.title])
             /\ Becomes(r, [q EXCEPT !.tried = @ + 1])
    <3>1. q.tried + 1 \in DOMAIN Candidates[q.title]
          /\ q.tried + 1 \in Nat \ {0}
      BY <2>2, <2>5, CandidateSlugs
    <3>2. [q EXCEPT !.tried = @ + 1] \in Pending
      BY <3>1 DEF Pending, TitleRequests
    <3>3. HandlerOK([q EXCEPT !.tried = @ + 1])
      BY <3>1, <2>1 DEF HandlerOK, TitleRequests, TitleSteps
    <3>4. QED
      BY <2>5, <3>2, <3>3, BecomesTyped
  <2>6. QED
    BY <1>7, <2>4, <2>5 DEF SlugLook
<1>8. CASE OpenStep
  BY <1>2, <1>3, <1>8 DEF OpenStep, OpenCount
<1>9. CASE TitleStep
  <2>1. ASSUME NEW r \in Requests, NEW u \in Users, NEW l \in Listings,
               NEW t \in Titles, EditBegins(r, u, l, t)
        PROVE  RequestTypes'
    BY <1>4, <2>1 DEF EditBegins, ShouldRemoderate
  <2>2. ASSUME NEW r \in Requests, NEW u \in Users, NEW t \in Titles,
               CreateBegins(r, u, t)
        PROVE  RequestTypes'
    BY <1>4, <2>2 DEF CreateBegins
  <2>3. QED
    BY <1>2, <1>7, <1>9, <2>1, <2>2 DEF TitleStep, CreateWrite, EditWrite
<1>10. CASE RowStep
  BY <1>0, <1>5, <1>10 DEF RowStep, SaveRead, RemoveRead, Unsave
<1>11. CASE RowWrite
  BY <1>2, <1>11 DEF RowWrite, SaveWrite, RemoveWrite, RequestFails
<1>12. CASE ReportStep
  <2>1. ASSUME NEW r \in Requests, NEW u \in Users, NEW l \in Listings,
               ReportRead(r, u, l)
        PROVE  RequestTypes'
    BY <1>5, <2>1 DEF ReportRead
  <2>2. ASSUME NEW r \in Requests, NEW u \in Users, NEW p \in Reports,
               NEW s \in ReportSteps, JudgeRead(r, u, p, s)
        PROVE  RequestTypes'
    BY <1>6, <2>2 DEF JudgeRead
  <2>3. QED
    BY <1>2, <1>12, <2>1, <2>2
       DEF ReportStep, ReportWrite, ResolveWrite, DismissWrite
<1>13. CASE Decision \/ UNCHANGED catalogVars
  BY <1>0, <1>13 DEF Decision, Approve, Reject, catalogVars
<1>14. QED
  BY <1>8, <1>9, <1>10, <1>11, <1>12, <1>13 DEF CatalogNext, CatalogStep

SavedTypes == saved \subseteq Users \X {l \in Listings : Live(l)}
FiledTypes == \A p \in Reports : Filed(p) => Live(report[p].listing)
SinceTypes ==
    approvedSince \subseteq {p \in Reports : report[p].status = "RESOLVED"}
TableTypes ==
    /\ ListingTypes
    /\ ReportTypes
    /\ SavedTypes
    /\ taken \subseteq Requests
    /\ SinceTypes
    /\ FiledTypes
    /\ SlugsIdentify

\* The invariant is the types of handlers and of tables.
LEMMA InvParts == CatalogTypeInv <=> RequestTypes /\ TableTypes
BY DEF CatalogTypeInv, CatalogTypeOK, RequestTypes, TableTypes, ListingTypes,
       ReportTypes, SavedTypes, SinceTypes, FiledTypes

\* The rows that stand for none are not live.
LEMMA DeadRows ==
   /\ \A row \in ListingRows : row.approval \in Approvals
   /\ NoListing("NONE").approval = "NONE"
   /\ NoListing("GONE").approval = "GONE"
   /\ NoReport("NONE").status = "NONE" /\ NoReport("GONE").status = "GONE"
BY DEF ListingRows, NoListing, Row, NoReport

\* What the slug of a row rests on.
HasCandidate(row) ==
    \E i \in DOMAIN Candidates[row.title] :
        Candidates[row.title][i] = row.slug

\* A row that has a candidate of its title, and that the index allows, leaves
\* the slugs of the table identifying.
LEMMA RowStored ==
  ASSUME CatalogTypeInv, NEW l \in Listings, NEW row \in ListingRows,
         HasCandidate(row),
         IndexAllows(row.slug, l), listing' = [listing EXCEPT ![l] = row]
  PROVE  /\ ListingTypes' /\ SlugsIdentify'
         /\ Live(l)' /\ listing'[l] = row
         /\ \A k \in Listings \ {l} :
              listing'[k] = listing[k] /\ (Live(k)' <=> Live(k))
<1>a. ListingTypes /\ SlugsIdentify
  BY InvParts DEF TableTypes
<1>1. listing'[l] = row /\ \A k \in Listings \ {l} : listing'[k] = listing[k]
  BY <1>a DEF ListingTypes
<1>2. ListingTypes'
  BY <1>a DEF ListingTypes
<1>3. Live(l)' /\ \A k \in Listings \ {l} : Live(k)' <=> Live(k)
  BY <1>1, DeadRows DEF Live
<1>4. SlugsIdentify'
  <2> SUFFICES ASSUME NEW m \in Listings, Live(m)'
               PROVE  /\ HasCandidate(listing'[m])
                      /\ \A k \in Listings \ {m} :
                           Live(k)' => listing'[k].slug # listing'[m].slug
    BY DEF SlugsIdentify, HasCandidate
  <2>1. CASE m = l
    BY <1>1, <1>3, <2>1 DEF IndexAllows
  <2>2. CASE m # l
    <3>1. /\ HasCandidate(listing[m])
          /\ \A k \in Listings \ {m} :
               Live(k) => listing[k].slug # listing[m].slug
      BY <1>3, <1>a, <2>2 DEF SlugsIdentify, HasCandidate
    <3>2. row.slug # listing[m].slug
      BY <1>3, <2>2 DEF IndexAllows
    <3>3. QED
      BY <1>1, <1>3, <2>2, <3>1, <3>2
  <2>3. QED
    BY <2>1, <2>2
<1>5. QED
  BY <1>1, <1>2, <1>3, <1>4

\* So does a live row that keeps its title and slug.
LEMMA RowKept ==
  ASSUME CatalogTypeInv, NEW l \in Listings, Live(l), NEW row \in ListingRows,
         row.title = listing[l].title, row.slug = listing[l].slug,
         listing' = [listing EXCEPT ![l] = row]
  PROVE  /\ ListingTypes' /\ SlugsIdentify'
         /\ Live(l)' /\ listing'[l] = row
         /\ \A k \in Listings \ {l} :
              listing'[k] = listing[k] /\ (Live(k)' <=> Live(k))
<1>1. HasCandidate(row) /\ IndexAllows(row.slug, l)
  BY InvParts DEF TableTypes, SlugsIdentify, HasCandidate, IndexAllows
<1>2. QED
  BY <1>1, RowStored

\* A report that is filed is about some listing.
LEMMA ReportListings ==
  ASSUME CatalogTypeInv, NEW p \in Reports, Filed(p)
  PROVE  report[p].listing \in Listings
<1>1. \A q \in ReportRows : q.listing \in Listings
  BY DEF ReportRows
<1>2. QED
  BY <1>1, ReportRowed DEF CatalogTypeInv

\* What refers to listings survives a step under which no row goes.
LEMMA ReferencesKept ==
  ASSUME CatalogTypeInv, UNCHANGED <<report, saved>>,
         \A k \in Listings : Live(k) => Live(k)'
  PROVE  ReportTypes' /\ SavedTypes' /\ FiledTypes'
<1>1. ReportTypes /\ SavedTypes /\ FiledTypes
  BY InvParts DEF TableTypes
<1>3. FiledTypes'
  BY <1>1, ReportListings DEF FiledTypes, Filed
<1>4. SavedTypes'
  BY <1>1 DEF SavedTypes
<1>5. QED
  BY <1>1, <1>3, <1>4 DEF ReportTypes

\* The tables survive a step that writes none of them.
LEMMA TablesKept ==
  ASSUME CatalogTypeInv, UNCHANGED <<listing, report, saved, approvedSince>>,
         taken' \subseteq Requests
  PROVE  TableTypes'
BY InvParts
   DEF TableTypes, ListingTypes, ReportTypes, SavedTypes, FiledTypes,
       SinceTypes, SlugsIdentify, Live, Filed

\* The requests that were overtaken stay requests.
LEMMA EndsTaken ==
    ASSUME CatalogTypeInv, NEW r, Ends(r) PROVE taken' \subseteq Requests
BY DEF CatalogTypeInv, CatalogTypeOK, Ends

\* OpenCount changes the count of one row.
LEMMA ViewCounted ==
  ASSUME CatalogTypeInv, NEW r \in Requests, OpenCount(r)
  PROVE  /\ TableTypes'
         /\ \A k \in Listings : /\ Live(k)' <=> Live(k)
                              /\ \A field \in {"seller", "title", "slug",
                                               "approval"} :
                                   listing'[k][field] = listing[k][field]
<1> PICK l : l = About(r)
  OBVIOUS
<1> DEFINE row == [listing[l] EXCEPT !.views = Counted(r)]
<1>1. l \in Listings /\ Live(l) /\ listing[l] \in ListingRows
  <2>1. request[r] \in ListingRequests
    BY RequestsTyped DEF CatalogTypeInv, OpenCount, Doing, ListingSteps
  <2>2. \A q \in ListingRequests : q.about \in Listings
    BY DEF ListingRequests
  <2>3. QED
    BY <2>1, <2>2, Rowed DEF CatalogTypeInv, OpenCount, About
<1>2. Counted(r) \in 0..MaxViews
  <2>1. \A q \in ListingRows : q.views \in 0..MaxViews
    BY DEF ListingRows
  <2>2. listing[l].views \in 0..MaxViews /\ listing[l].views < MaxViews
    BY <1>1, <2>1 DEF OpenCount
  <2>3. \A n \in 0..MaxViews : n < MaxViews => n + 1 \in 0..MaxViews
    BY CatalogAssumption
  <2>4. QED
    BY <2>2, <2>3 DEF Counted
<1>3. /\ row \in ListingRows
      /\ \A field \in {"seller", "title", "slug", "approval"} :
           row[field] = listing[l][field]
  BY <1>1, <1>2, RowFields
<1>4. listing' = [listing EXCEPT ![l] = row]
  BY FieldUpdates DEF OpenCount
<1> HIDE DEF row
<1>a. row.title = listing[l].title /\ row.slug = listing[l].slug
  BY <1>3
<1>5. /\ ListingTypes' /\ SlugsIdentify'
      /\ Live(l)' /\ listing'[l] = row
      /\ \A k \in Listings \ {l} :
           listing'[k] = listing[k] /\ (Live(k)' <=> Live(k))
  BY <1>1, <1>3, <1>4, <1>a, RowKept
<1>6. ReportTypes' /\ SavedTypes' /\ FiledTypes'
  BY <1>5, <1>1, ReferencesKept DEF OpenCount
<1>7. SinceTypes' /\ taken' \subseteq Requests
  BY EndsTaken, InvParts DEF TableTypes, SinceTypes, OpenCount
<1>8. QED
  BY <1>1, <1>3, <1>5, <1>6, <1>7 DEF TableTypes

\* What a handler that is about to store a title has in hand.
LEMMA WriterTyped ==
  ASSUME CatalogTypeInv, NEW r \in Requests, Doing(r, "write")
  PROVE  /\ User(r) \in Users /\ request[r].title \in Titles
         /\ About(r) \in Listings \cup {NoValue}
         /\ request[r].resets \in BOOLEAN
         /\ request[r].tried \in DOMAIN Candidates[request[r].title]
         /\ Slug(r) \in Slugs
<1>1. request[r] \in TitleRequests /\ HandlerOK(request[r])
  BY RequestsTyped DEF CatalogTypeInv, Doing, TitleSteps
<1>2. \A q \in TitleRequests :
        /\ q.user \in Users /\ q.title \in Titles
        /\ q.about \in Listings \cup {NoValue}
        /\ q.resets \in BOOLEAN /\ q.step \in TitleSteps
  BY DEF TitleRequests
<1>3. request[r].tried \in DOMAIN Candidates[request[r].title]
  BY <1>1, <1>2 DEF HandlerOK
<1>4. Slug(r) \in Slugs
  BY <1>1, <1>2, <1>3, CandidateSlugs DEF Slug
<1>5. QED
  BY <1>1, <1>2, <1>3, <1>4 DEF User, About

\* CreateWrite adds one pending row with the slug that was chosen.
LEMMA NewRowTyped ==
  ASSUME CatalogTypeInv, NEW r \in Requests, NEW l \in Listings,
         CreateWrite(r, l)
  PROVE  /\ TableTypes'
         /\ ~Live(l) /\ Live(l)' /\ listing'[l].slug = Slug(r)
         /\ listing'[l].approval = "PENDING"
         /\ \A k \in Listings \ {l} :
              listing'[k] = listing[k] /\ (Live(k)' <=> Live(k))
<1> DEFINE row == Row(User(r), request[r].title, Slug(r), "PENDING", 0)
<1>1. Doing(r, "write") /\ ~Live(l) /\ IndexAllows(Slug(r), NoValue)
  BY DEF CreateWrite, Live, Approvals
<1>2. row \in ListingRows
  BY <1>1, WriterTyped, CatalogAssumption DEF ListingRows, Row, Approvals
<1>3. row.title = request[r].title /\ row.slug = Slug(r)
      /\ row.approval = "PENDING"
  BY DEF Row
<1>4. HasCandidate(row)
  BY <1>1, <1>3, WriterTyped DEF HasCandidate, Slug
<1>5. IndexAllows(row.slug, l)
  BY <1>1, <1>3, CatalogAssumption DEF IndexAllows
<1>6. listing' = [listing EXCEPT ![l] = row]
  BY DEF CreateWrite
<1> HIDE DEF row
<1>7. /\ ListingTypes' /\ SlugsIdentify'
      /\ Live(l)' /\ listing'[l] = row
      /\ \A k \in Listings \ {l} :
           listing'[k] = listing[k] /\ (Live(k)' <=> Live(k))
  BY <1>2, <1>4, <1>5, <1>6, RowStored
<1>8. ReportTypes' /\ SavedTypes' /\ FiledTypes'
  BY <1>7, ReferencesKept DEF CreateWrite
<1>9. SinceTypes' /\ taken' \subseteq Requests
  BY InvParts DEF TableTypes, SinceTypes, CreateWrite, Overtaken
<1>10. QED
  BY <1>1, <1>3, <1>7, <1>8, <1>9 DEF TableTypes

\* EditWrite changes title, slug and approval of one live row.
LEMMA EditTyped ==
  ASSUME CatalogTypeInv, NEW r \in Requests, EditWrite(r), NEW l, l = About(r)
  PROVE  /\ TableTypes' /\ l \in Listings
         /\ Live(l) /\ Live(l)' /\ listing'[l].slug = Slug(r)
         /\ listing'[l].approval \in {listing[l].approval, "PENDING"}
         /\ listing'[l].seller = listing[l].seller
         /\ \A k \in Listings \ {l} :
              listing'[k] = listing[k] /\ (Live(k)' <=> Live(k))
<1> DEFINE verdict == IF request[r].resets THEN "PENDING"
                        ELSE listing[l].approval
           row == [listing[l] EXCEPT !.title = request[r].title,
                                     !.slug = Slug(r), !.approval = verdict]
<1>1. Doing(r, "write") /\ l \in Listings /\ Live(l) /\ IndexAllows(Slug(r), l)
  BY DEF EditWrite
<1>a. listing[l] \in ListingRows
  BY <1>1, Rowed DEF CatalogTypeInv
<1>b. verdict \in {listing[l].approval, "PENDING"} /\ verdict \in Approvals
  BY <1>1 DEF Live, Approvals
<1>2. row \in ListingRows
  BY <1>1, <1>a, <1>b, WriterTyped DEF ListingRows
<1>3. /\ row.title = request[r].title /\ row.slug = Slug(r)
      /\ row.approval = verdict /\ row.seller = listing[l].seller
  BY <1>a DEF ListingRows
<1>4. HasCandidate(row)
  BY <1>1, <1>3, WriterTyped DEF HasCandidate, Slug
<1>5. IndexAllows(row.slug, l)
  BY <1>1, <1>3
<1>6. listing' = [listing EXCEPT ![l] = row]
  <2> DEFINE titled == [listing EXCEPT ![l] =
                          [listing[l] EXCEPT !.title = request[r].title]]
             slugged ==
                 [titled EXCEPT ![l] = [titled[l] EXCEPT !.slug = Slug(r)]]
  <2>1. listing' = [slugged EXCEPT ![l] = [slugged[l] EXCEPT !.approval =
                      IF request[r].resets THEN "PENDING"
                                           ELSE slugged[l].approval]]
    BY DEF EditWrite
  <2>2. QED
    BY <2>1, <1>1, <1>a, InvParts DEF TableTypes, ListingTypes, ListingRows
<1> HIDE DEF row, verdict
<1>7. /\ ListingTypes' /\ SlugsIdentify'
      /\ Live(l)' /\ listing'[l] = row
      /\ \A k \in Listings \ {l} :
           listing'[k] = listing[k] /\ (Live(k)' <=> Live(k))
  BY <1>1, <1>2, <1>4, <1>5, <1>6, RowStored
<1>8. ReportTypes' /\ SavedTypes' /\ FiledTypes'
  BY <1>7, <1>1, ReferencesKept DEF EditWrite
<1>9. SinceTypes' /\ taken' \subseteq Requests
  BY InvParts DEF TableTypes, SinceTypes, EditWrite, Overtaken
<1>10. QED
  BY <1>1, <1>3, <1>b, <1>7, <1>8, <1>9 DEF TableTypes

\* Setting the approval of a live row changes nothing else.
LEMMA ApprovalSet ==
  ASSUME CatalogTypeInv, NEW l \in Listings, Live(l), NEW v \in Approvals,
         listing' = [listing EXCEPT ![l].approval = v]
  PROVE  /\ ListingTypes' /\ SlugsIdentify'
         /\ Live(l)' /\ listing'[l].approval = v
         /\ listing'[l].slug = listing[l].slug
         /\ listing'[l].seller = listing[l].seller
         /\ \A k \in Listings \ {l} :
              listing'[k] = listing[k] /\ (Live(k)' <=> Live(k))
<1> DEFINE row == [listing[l] EXCEPT !.approval = v]
<1>1. listing[l] \in ListingRows
  BY Rowed DEF CatalogTypeInv
<1>2. /\ row \in ListingRows /\ row.approval = v
      /\ row.title = listing[l].title
      /\ row.slug = listing[l].slug /\ row.seller = listing[l].seller
  BY <1>1 DEF ListingRows
<1>3. listing' = [listing EXCEPT ![l] = row]
  BY FieldUpdates
<1> HIDE DEF row
<1>4. QED
  BY <1>2, <1>3, RowKept

\* Approve and Reject keep the tables typed.
LEMMA ApprovedTyped ==
  ASSUME CatalogTypeInv, NEW l \in Listings, Approve(l) \/ Reject(l)
  PROVE  TableTypes'
<1>1. PICK v \in Approvals : Live(l)
      /\ listing' = [listing EXCEPT ![l].approval = v]
  BY DEF Approve, Reject, Approvals
<1>2. ListingTypes' /\ SlugsIdentify' /\ \A k \in Listings : Live(k)
        => Live(k)'
  BY <1>1, ApprovalSet
<1>3. ReportTypes' /\ SavedTypes' /\ FiledTypes'
  BY <1>2, ReferencesKept DEF Approve, Reject
<1>4. SinceTypes' /\ taken' \subseteq Requests
  BY InvParts DEF TableTypes, SinceTypes, Approve, Reject, ResolvedFor
<1>5. QED
  BY <1>2, <1>3, <1>4 DEF TableTypes

\* SaveWrite refers to a live listing, also when it was read long before.
LEMMA SavedTyped ==
  ASSUME CatalogTypeInv, NEW r \in Requests, SaveWrite(r)
  PROVE  TableTypes'
<1>1. request[r] \in ListingRequests /\ HandlerOK(request[r])
      /\ request[r].step = "save"
  BY RequestsTyped DEF CatalogTypeInv, SaveWrite, Doing, ListingSteps
<1>2. User(r) \in Users /\ About(r) \in Listings /\ Live(About(r))
  BY <1>1 DEF HandlerOK, ListingRequests, User, About, SaveWrite, Refers
<1>3. SavedTypes'
  BY <1>2, InvParts DEF TableTypes, SavedTypes, SaveWrite, Live
<1>4. QED
  BY <1>3, EndsTaken, InvParts
     DEF TableTypes, ListingTypes, ReportTypes, FiledTypes, SinceTypes,
         SlugsIdentify, Live, Filed, SaveWrite

\* Unsave keeps the tables typed.
LEMMA UnsavedTyped ==
  ASSUME CatalogTypeInv, NEW u \in Users, NEW l \in Listings, Unsave(u, l)
  PROVE  TableTypes'
BY InvParts
   DEF TableTypes, ListingTypes, ReportTypes, SavedTypes, FiledTypes,
       SinceTypes, SlugsIdentify, Live, Filed, Unsave, history

\* Handlers of pages and rows are about a listing.
LEMMA AboutListing ==
  ASSUME CatalogTypeInv, NEW r \in Requests, request[r].step \in ListingSteps
  PROVE  About(r) \in Listings
         /\ (request[r].step # "view" => User(r) \in Users)
<1>1. request[r] \in ListingRequests /\ HandlerOK(request[r])
  BY RequestsTyped DEF CatalogTypeInv
<1>2. QED
  BY <1>1 DEF ListingRequests, About, User, HandlerOK, ListingSteps

\* RemoveWrite takes the listing and all that refers to it.
LEMMA RemovedTyped ==
  ASSUME CatalogTypeInv, NEW r \in Requests, NEW l, l = About(r),
         RemoveWrite(r)
  PROVE  /\ TableTypes' /\ l \in Listings
         /\ Live(l) /\ ~Live(l)' /\ listing'[l].approval = "GONE"
         /\ \A k \in Listings \ {l} :
              listing'[k] = listing[k] /\ (Live(k)' <=> Live(k))
         /\ \A p \in Reports : Filed(p)'
              => report'[p] = report[p] /\ report[p].listing # l
<1>1. l \in Listings /\ Live(l)
  BY AboutListing DEF RemoveWrite, Doing, ListingSteps
<1>a. /\ ListingTypes /\ ReportTypes /\ SavedTypes /\ FiledTypes
      /\ SinceTypes /\ SlugsIdentify /\ taken \subseteq Requests
  BY InvParts DEF TableTypes
<1>2. listing' = [listing EXCEPT ![l] = NoListing("GONE")]
  BY DEF RemoveWrite
<1>3. /\ listing'[l] = NoListing("GONE")
      /\ \A k \in Listings \ {l} : listing'[k] = listing[k]
      /\ ListingTypes'
  BY <1>2, <1>a, <1>1 DEF ListingTypes
<1>4. ~Live(l)' /\ \A k \in Listings \ {l} : Live(k)' <=> Live(k)
  BY <1>3, DeadRows DEF Live, Approvals
<1> DEFINE with == {p \in Reports : Filed(p) /\ report[p].listing = l}
<1>5. report' = [p \in Reports |->
                   IF p \in with THEN NoReport("GONE") ELSE report[p]]
  BY DEF RemoveWrite
<1>6. ReportTypes'
  BY <1>5, <1>a DEF ReportTypes
<1>7. \A p \in Reports : Filed(p)'
        => p \notin with /\ report'[p] = report[p] /\ report[p].listing # l
  BY <1>5, DeadRows DEF Filed
<1>8. FiledTypes'
  BY <1>4, <1>7, <1>a, ReportListings DEF FiledTypes, Filed
<1>9. SavedTypes'
  BY <1>4, <1>a DEF SavedTypes, RemoveWrite
<1>10. SinceTypes'
  <2>1. approvedSince' = approvedSince \ with
    BY DEF RemoveWrite
  <2>2. QED
    BY <2>1, <1>5, <1>a DEF SinceTypes
<1>11. SlugsIdentify'
  BY <1>3, <1>4, <1>a DEF SlugsIdentify
<1>12. taken' \subseteq Requests
  BY EndsTaken DEF RemoveWrite
<1>13. listing'[l].approval = "GONE"
  BY <1>3, DeadRows
<1>14. QED
  BY <1>1, <1>3, <1>4, <1>6, <1>7, <1>8, <1>9, <1>10, <1>11, <1>12, <1>13
     DEF TableTypes

\* ReportWrite adds one pending report about a live listing.
LEMMA ReportedTyped ==
  ASSUME CatalogTypeInv, NEW r \in Requests, NEW p \in Reports,
         ReportWrite(r, p)
  PROVE  /\ TableTypes'
         /\ report'[p].status = "PENDING"
         /\ \A o \in Reports \ {p} : report'[o] = report[o]
<1> DEFINE row == [listing |-> About(r), by |-> User(r), status |-> "PENDING"]
<1>a. /\ ListingTypes /\ ReportTypes /\ SavedTypes /\ FiledTypes
      /\ SinceTypes /\ SlugsIdentify /\ taken \subseteq Requests
  BY InvParts DEF TableTypes
<1>1. About(r) \in Listings /\ User(r) \in Users /\ Live(About(r))
  BY AboutListing DEF ReportWrite, Doing, ListingSteps, Refers
<1>2. row \in ReportRows /\ row.listing = About(r) /\ row.status = "PENDING"
  BY <1>1 DEF ReportRows
<1>3. report' = [report EXCEPT ![p] = row]
  BY DEF ReportWrite
<1> HIDE DEF row
<1>4. ReportTypes' /\ report'[p] = row
      /\ \A o \in Reports \ {p} : report'[o] = report[o]
  BY <1>2, <1>3, <1>a DEF ReportTypes
<1>5. UNCHANGED <<listing, saved, approvedSince>> /\ taken' \subseteq Requests
  BY EndsTaken DEF ReportWrite
<1>6. FiledTypes'
  BY <1>1, <1>2, <1>4, <1>5, <1>a DEF FiledTypes, Filed, Live
<1>7. SinceTypes'
  <2>1. p \notin approvedSince
    BY <1>a, DeadRows DEF SinceTypes, ReportWrite
  <2>2. QED
    BY <2>1, <1>4, <1>5, <1>a DEF SinceTypes
<1>8. QED
  BY <1>2, <1>4, <1>5, <1>6, <1>7, <1>a
     DEF TableTypes, ListingTypes, SavedTypes, SlugsIdentify, Live

\* Setting the status of a report changes nothing else.
LEMMA StatusSet ==
  ASSUME CatalogTypeInv, NEW p \in Reports, Filed(p),
         NEW v \in {"REVIEWED", "RESOLVED"},
         report' = [report EXCEPT ![p].status = v]
  PROVE  /\ ReportTypes' /\ report'[p].status = v
         /\ report'[p].listing = report[p].listing
         /\ \A o \in Reports \ {p} : report'[o] = report[o]
         /\ report[p].listing \in Listings
<1> DEFINE row == [report[p] EXCEPT !.status = v]
<1>1. report[p] \in ReportRows
  BY ReportRowed DEF CatalogTypeInv
<1>2. /\ row \in ReportRows /\ row.status = v
      /\ row.listing = report[p].listing /\ row.listing \in Listings
  BY <1>1 DEF ReportRows
<1>3. report' = [report EXCEPT ![p] = row]
  BY FieldUpdates
<1>4. ReportTypes
  BY InvParts DEF TableTypes
<1> HIDE DEF row
<1>5. QED
  BY <1>2, <1>3, <1>4 DEF ReportTypes

\* Handlers of judgements are about a report.
LEMMA AboutReport ==
  ASSUME CatalogTypeInv, NEW r \in Requests, request[r].step \in ReportSteps
  PROVE  About(r) \in Reports
<1>1. request[r] \in ReportRequests
  BY RequestsTyped DEF CatalogTypeInv
<1>2. QED
  BY <1>1 DEF ReportRequests, About

\* ResolveWrite resolves one report and rejects its listing.
LEMMA ResolvedTyped ==
  ASSUME CatalogTypeInv, NEW r \in Requests, NEW p, p = About(r), NEW l,
         l = report[p].listing,
         ResolveWrite(r)
  PROVE  /\ TableTypes' /\ p \in Reports /\ l \in Listings /\ Live(l)
         /\ Filed(p)
         /\ report'[p].listing = l
         /\ \A o \in Reports \ {p} : report'[o] = report[o]
         /\ listing'[l].approval = "REJECTED"
         /\ listing'[l].slug = listing[l].slug
         /\ listing'[l].seller = listing[l].seller
         /\ \A k \in Listings \ {l} : listing'[k] = listing[k]
         /\ \A k \in Listings : Live(k)' <=> Live(k)
<1>a. /\ ListingTypes /\ ReportTypes /\ SavedTypes /\ FiledTypes
      /\ SinceTypes /\ SlugsIdentify /\ taken \subseteq Requests
  BY InvParts DEF TableTypes
<1>1. p \in Reports /\ Filed(p)
  BY AboutReport DEF ResolveWrite, Doing, ReportSteps
<1>2. report' = [report EXCEPT ![p].status = "RESOLVED"]
  BY DEF ResolveWrite
<1>3. /\ ReportTypes' /\ report'[p].status = "RESOLVED"
      /\ report'[p].listing = l
      /\ \A o \in Reports \ {p} : report'[o] = report[o]
      /\ l \in Listings
  BY <1>1, <1>2, StatusSet
<1>4. Live(l)
  BY <1>1, <1>a DEF FiledTypes
<1>5. listing' = [listing EXCEPT ![l].approval = "REJECTED"]
  BY DEF ResolveWrite, ResolvedApproval
<1>6. /\ ListingTypes' /\ SlugsIdentify'
      /\ Live(l)' /\ listing'[l].approval = "REJECTED"
      /\ listing'[l].slug = listing[l].slug
      /\ listing'[l].seller = listing[l].seller
      /\ \A k \in Listings \ {l} :
           listing'[k] = listing[k] /\ (Live(k)' <=> Live(k))
  <2>1. "REJECTED" \in Approvals
    BY DEF Approvals
  <2>2. QED
    BY <1>3, <1>4, <1>5, <2>1, ApprovalSet
<1>7. \A k \in Listings : Live(k)' <=> Live(k)
  BY <1>3, <1>4, <1>6
<1>8. FiledTypes'
  BY <1>1, <1>3, <1>6, <1>7, <1>a, ReportListings DEF FiledTypes, Filed
<1>9. SavedTypes'
  BY <1>7, <1>a DEF SavedTypes, ResolveWrite
<1>10. SinceTypes'
  BY <1>3, <1>a DEF SinceTypes, ResolveWrite
<1>11. taken' \subseteq Requests
  BY EndsTaken DEF ResolveWrite
<1>12. QED
  BY <1>1, <1>3, <1>4, <1>6, <1>7, <1>8, <1>9, <1>10, <1>11 DEF TableTypes

\* DismissWrite marks one report as reviewed.
LEMMA DismissedTyped ==
  ASSUME CatalogTypeInv, NEW r \in Requests, NEW p, p = About(r),
         DismissWrite(r)
  PROVE  /\ TableTypes' /\ p \in Reports
         /\ report'[p].status = "REVIEWED"
         /\ \A o \in Reports \ {p} : report'[o] = report[o]
<1>a. /\ ListingTypes /\ ReportTypes /\ SavedTypes /\ FiledTypes
      /\ SinceTypes /\ SlugsIdentify /\ taken \subseteq Requests
  BY InvParts DEF TableTypes
<1>1. p \in Reports /\ Filed(p)
  BY AboutReport DEF DismissWrite, Doing, ReportSteps
<1>2. report' = [report EXCEPT ![p].status = "REVIEWED"]
  BY DEF DismissWrite
<1>3. /\ ReportTypes' /\ report'[p].status = "REVIEWED"
      /\ report'[p].listing = report[p].listing
      /\ \A o \in Reports \ {p} : report'[o] = report[o]
  BY <1>1, <1>2, StatusSet
<1>4. UNCHANGED <<listing, saved>> /\ taken' \subseteq Requests
  BY EndsTaken DEF DismissWrite
<1>8. FiledTypes'
  BY <1>1, <1>3, <1>4, <1>a DEF FiledTypes, Filed, Live
<1>10. SinceTypes'
  BY <1>3, <1>a DEF SinceTypes, DismissWrite
<1>12. QED
  BY <1>1, <1>3, <1>4, <1>8, <1>10, <1>a
     DEF TableTypes, ListingTypes, SavedTypes, SlugsIdentify, Live

\* Types and indexes survive every step of the catalogue.
LEMMA CatalogTypesKept ==
    CatalogTypeInv /\ [CatalogNext]_catalogVars => CatalogTypeInv'
<1> SUFFICES ASSUME CatalogTypeInv, [CatalogNext]_catalogVars PROVE TableTypes'
  BY NextRequestTypes, InvParts
     DEF CatalogTypeInv, CatalogTypeOK, RequestTypes, TableTypes, ListingTypes,
         ReportTypes, SavedTypes, SinceTypes, FiledTypes
<1>a. taken \subseteq Requests
  BY DEF CatalogTypeInv, CatalogTypeOK
<1>1. CASE OpenStep
  BY <1>1, <1>a, ViewCounted, TablesKept DEF OpenStep, OpenRead, history
<1>2. CASE TitleStep
  BY <1>2, <1>a, NewRowTyped, EditTyped, TablesKept
     DEF TitleStep, CreateBegins, EditBegins, SlugLook, history
<1>3. CASE RowStep
  BY <1>3, <1>a, UnsavedTyped, TablesKept
     DEF RowStep, SaveRead, RemoveRead, history
<1>4. CASE RowWrite
  BY <1>4, <1>a, SavedTyped, RemovedTyped, TablesKept, EndsTaken
     DEF RowWrite, RequestFails
<1>5. CASE ReportStep
  BY <1>5, <1>a, ReportedTyped, ResolvedTyped, DismissedTyped, TablesKept
     DEF ReportStep, ReportRead, JudgeRead, history
<1>6. CASE Decision
  BY <1>6, ApprovedTyped DEF Decision
<1>7. CASE UNCHANGED catalogVars
  BY <1>7, <1>a, TablesKept DEF catalogVars, history
<1>8. QED
  BY <1>1, <1>2, <1>3, <1>4, <1>5, <1>6, <1>7 DEF CatalogNext, CatalogStep

\* They hold of empty tables.
LEMMA CatalogTypesInit == CatalogInit => CatalogTypeInv
<1> SUFFICES ASSUME CatalogInit PROVE CatalogTypeInv
  OBVIOUS
<1>1. \A l \in Listings : ~Live(l)
  BY DeadRows DEF CatalogInit, Live, Approvals
<1>2. \A p \in Reports : ~Filed(p)
  BY DeadRows DEF CatalogInit, Filed
<1>3. HandlerOK(Idle)
  BY DEF HandlerOK, Idle, At, TitleSteps
<1>4. RequestTypes
  BY <1>3 DEF CatalogInit, RequestTypes
<1>5. TableTypes
  BY <1>1, <1>2
     DEF CatalogInit, TableTypes, ListingTypes, ReportTypes, SavedTypes,
         SinceTypes, FiledTypes, SlugsIdentify
<1>6. QED
  BY <1>4, <1>5, InvParts

\* Rows and handlers have their types and the indexes hold: slugs identify, and
\* favourites and reports go with their listing, whatever handlers overlap.
THEOREM CatalogTypesHold == CatalogSpec => []CatalogTypeOK
<1>1. CatalogTypeInv => CatalogTypeOK
  BY DEF CatalogTypeInv
<1>2. QED
  BY <1>1, CatalogTypesInit, CatalogTypesKept, PTL DEF CatalogSpec

-----------------------------------------------------------------------------
(* Conflicts: the index refuses only who was overtaken                     *)

\* When no slug is stored, a slug that the index refuses was not free, and a
\* handler that had already chosen it had been overtaken before.
LEMMA SlugsStay ==
  ASSUME CatalogTypeInv, ConflictsAreRaces, NEW r \in Requests,
         Doing(r, "write")', ~IndexAllows(Slug(r), About(r))',
         \A k \in Listings : Live(k)'
           => Live(k) /\ listing'[k].slug = listing[k].slug
  PROVE  /\ Doing(r, "write") /\ request'[r] = request[r] => r \in taken
         /\ ~SlugFree(Slug(r)', About(r)')
<1>1. PICK k \in Listings \ {About(r)'} : Live(k)'
      /\ listing'[k].slug = Slug(r)'
  BY DEF IndexAllows
<1>2. Live(k) /\ listing[k].slug = Slug(r)'
  BY <1>1
<1>3. ~SlugFree(Slug(r)', About(r)')
  BY <1>1, <1>2 DEF SlugFree, HasSlug
<1>4. ASSUME request'[r] = request[r] PROVE ~IndexAllows(Slug(r), About(r))
  <2>1. About(r)' = About(r) /\ Slug(r)' = Slug(r)
    BY <1>4 DEF About, Slug
  <2>2. QED
    BY <2>1, <1>1, <1>2 DEF IndexAllows
<1>5. QED
  BY <1>3, <1>4 DEF ConflictsAreRaces

\* A step that stores no slug, by a handler that does not choose one.
LEMMA ConflictsKept ==
  ASSUME CatalogTypeInv, ConflictsAreRaces, NEW r \in Requests, NEW next,
         next.step # "write", Becomes(r, next), taken \ {r} \subseteq taken',
         \A k \in Listings : Live(k)'
           => Live(k) /\ listing'[k].slug = listing[k].slug
  PROVE  ConflictsAreRaces'
<1> SUFFICES ASSUME NEW q \in Requests, Doing(q, "write")',
                    ~IndexAllows(Slug(q), About(q))'
             PROVE  q \in taken'
  BY DEF ConflictsAreRaces
<1>1. request \in [Requests -> Pending \cup {Idle}]
  BY DEF CatalogTypeInv, CatalogTypeOK
<1>2. request'[r] = next /\ (q # r => request'[q] = request[q])
  BY <1>1 DEF Becomes
<1>3. q # r /\ request'[q] = request[q] /\ Doing(q, "write")
  BY <1>2 DEF Doing
<1>4. q \in taken
  BY <1>3, SlugsStay
<1>5. QED
  BY <1>3, <1>4

\* A step that leaves the rows alone stores no slug.
LEMMA SameSlugs == UNCHANGED listing =>
   \A k \in Listings : Live(k)'
     => Live(k) /\ listing'[k].slug = listing[k].slug
BY DEF Live

\* SlugLook chooses a slug that is free at that moment.
LEMMA LookConflicts ==
  ASSUME CatalogTypeInv, ConflictsAreRaces, NEW r \in Requests, SlugLook(r)
  PROVE  ConflictsAreRaces'
<1>0. /\ request \in [Requests -> Pending \cup {Idle}]
      /\ UNCHANGED <<listing, taken>>
      /\ request[r].step = "slug" /\ request[r] \in TitleRequests
  BY RequestsTyped
     DEF CatalogTypeInv, CatalogTypeOK, SlugLook, history, Doing, TitleSteps
<1>2. CASE /\ SlugFree(Slug(r), About(r))
           /\ Becomes(r, [request[r] EXCEPT !.step = "write"])
  <2> SUFFICES ASSUME NEW q \in Requests, Doing(q, "write")',
                      ~IndexAllows(Slug(q), About(q))'
               PROVE  q \in taken'
    BY DEF ConflictsAreRaces
  <2>1. /\ request'[r] = [request[r] EXCEPT !.step = "write"]
        /\ q # r => request'[q] = request[q]
    BY <1>0, <1>2 DEF Becomes
  <2>2. CASE q = r
    <3>1. About(r)' = About(r) /\ Slug(r)' = Slug(r)
      BY <1>0, <2>1 DEF About, Slug, TitleRequests
    <3>2. QED
      BY <1>0, <1>2, <2>2, <3>1, SlugsStay, SameSlugs
  <2>3. CASE q # r
    BY <1>0, <2>1, <2>3, SlugsStay, SameSlugs DEF Doing
  <2>4. QED
    BY <2>2, <2>3
<1>3. CASE Becomes(r, [request[r] EXCEPT !.tried = @ + 1])
  <2>1. [request[r] EXCEPT !.tried = @ + 1].step = "slug"
    BY <1>0 DEF TitleRequests
  <2>2. QED
    BY <1>0, <1>3, <2>1, ConflictsKept, SameSlugs
<1>4. QED
  BY <1>2, <1>3 DEF SlugLook

\* A slug is stored: whoever had chosen the same one is overtaken.
LEMMA StoredConflicts ==
  ASSUME CatalogTypeInv, ConflictsAreRaces, NEW r \in Requests,
         NEW l \in Listings,
         Becomes(r, Idle), taken' = (taken \cup Overtaken(r)) \ {r},
         About(r) \in {l, NoValue},
         listing'[l].slug = Slug(r),
         \A k \in Listings \ {l} :
             listing'[k] = listing[k] /\ (Live(k)' <=> Live(k))
  PROVE  ConflictsAreRaces'
<1> SUFFICES ASSUME NEW q \in Requests, Doing(q, "write")',
                    ~IndexAllows(Slug(q), About(q))'
             PROVE  q \in taken'
  BY DEF ConflictsAreRaces
<1>1. request \in [Requests -> Pending \cup {Idle}]
  BY DEF CatalogTypeInv, CatalogTypeOK
<1>2. q # r /\ request'[q] = request[q]
  BY <1>1 DEF Becomes, Doing, Idle, At
<1>3. Doing(q, "write") /\ About(q)' = About(q) /\ Slug(q)' = Slug(q)
  BY <1>2 DEF Doing, About, Slug
<1>4. PICK k \in Listings \ {About(q)} : Live(k)' /\ listing'[k].slug = Slug(q)
  BY <1>3 DEF IndexAllows
<1>5. CASE k = l
  <2>1. Slug(q) = Slug(r) /\ About(q) # l
    BY <1>4, <1>5
  <2>2. About(q) # About(r) \/ About(q) = NoValue
    BY <2>1
  <2>3. QED
    BY <1>2, <1>3, <2>1, <2>2 DEF Overtaken
<1>6. CASE k # l
  <2>1. ~IndexAllows(Slug(q), About(q))
    BY <1>4, <1>6 DEF IndexAllows
  <2>2. QED
    BY <1>2, <1>3, <2>1 DEF ConflictsAreRaces
<1>7. QED
  BY <1>5, <1>6

\* Every step leaves conflicts explained by a race.
LEMMA ConflictsRacesKept ==
  CatalogTypeInv /\ ConflictsAreRaces /\ [CatalogNext]_catalogVars
    => ConflictsAreRaces'
<1> SUFFICES ASSUME CatalogTypeInv, ConflictsAreRaces,
                    [CatalogNext]_catalogVars
             PROVE  ConflictsAreRaces'
  OBVIOUS
<1> DEFINE SlugsKept ==
      \A k \in Listings :
        Live(k)' => Live(k) /\ listing'[k].slug = listing[k].slug
<1>1. ASSUME NEW r \in Requests, Ends(r), SlugsKept PROVE ConflictsAreRaces'
  <2>1. Idle.step # "write"
    BY DEF Idle, At
  <2>2. QED
    BY <1>1, <2>1, ConflictsKept DEF Ends
<1>2. ASSUME NEW r \in Requests, NEW u, NEW a, NEW t, NEW b, NEW n,
             NEW s \in {"slug", "view", "save", "report", "remove", "resolve",
                        "dismiss"},
             Becomes(r, At(s, u, a, t, b, n)), UNCHANGED <<listing, taken>>
      PROVE  ConflictsAreRaces'
  <2>1. At(s, u, a, t, b, n).step # "write"
    BY DEF At
  <2>2. QED
    BY <1>2, <2>1, ConflictsKept, SameSlugs
<1>3. ASSUME SlugsKept, UNCHANGED <<request, taken>> PROVE ConflictsAreRaces'
  <2> SUFFICES ASSUME NEW q \in Requests, Doing(q, "write")',
                      ~IndexAllows(Slug(q), About(q))'
               PROVE  q \in taken'
    BY DEF ConflictsAreRaces
  <2>1. QED
    BY <1>3, SlugsStay DEF Doing
<1>4. CASE OpenStep
  <2>1. ASSUME NEW r \in Requests, OpenCount(r) PROVE ConflictsAreRaces'
    <3>1. SlugsKept
      BY <2>1, ViewCounted
    <3>2. QED
      BY <2>1, <3>1, <1>1 DEF OpenCount
  <2>2. ASSUME NEW r \in Requests, NEW u, NEW l, OpenRead(r, u, l)
        PROVE  ConflictsAreRaces'
    BY <2>2, <1>2 DEF OpenRead, history
  <2>3. QED
    BY <1>4, <2>1, <2>2 DEF OpenStep
<1>5. CASE TitleStep
  <2>1. ASSUME NEW r \in Requests, NEW u, NEW t, CreateBegins(r, u, t)
        PROVE  ConflictsAreRaces'
    BY <2>1, <1>2 DEF CreateBegins, history
  <2>2. ASSUME NEW r \in Requests, NEW u, NEW l, NEW t, EditBegins(r, u, l, t)
        PROVE  ConflictsAreRaces'
    BY <2>2, <1>2 DEF EditBegins, history
  <2>3. ASSUME NEW r \in Requests, NEW l \in Listings, CreateWrite(r, l)
        PROVE  ConflictsAreRaces'
    BY <2>3, NewRowTyped, StoredConflicts DEF CreateWrite
  <2>4. ASSUME NEW r \in Requests, EditWrite(r) PROVE ConflictsAreRaces'
    BY <2>4, EditTyped, StoredConflicts DEF EditWrite
  <2>5. QED
    BY <1>5, <2>1, <2>2, <2>3, <2>4, LookConflicts DEF TitleStep
<1>6. CASE RowStep
  <2>1. ASSUME NEW r \in Requests, NEW u, NEW l,
               SaveRead(r, u, l) \/ RemoveRead(r, u, l)
        PROVE  ConflictsAreRaces'
    BY <2>1, <1>2 DEF SaveRead, RemoveRead, history
  <2>2. ASSUME NEW u, NEW l, Unsave(u, l) PROVE ConflictsAreRaces'
    BY <2>2, <1>3, SameSlugs DEF Unsave, history
  <2>3. QED
    BY <1>6, <2>1, <2>2 DEF RowStep
<1>7. CASE RowWrite
  <2>1. ASSUME NEW r \in Requests, RemoveWrite(r) PROVE ConflictsAreRaces'
    <3>1. SlugsKept
      BY <2>1, RemovedTyped
    <3>2. QED
      BY <2>1, <3>1, <1>1 DEF RemoveWrite
  <2>2. QED
    BY <1>7, <2>1, <1>1, SameSlugs DEF RowWrite, SaveWrite, RequestFails
<1>8. CASE ReportStep
  <2>1. ASSUME NEW r \in Requests, ResolveWrite(r) PROVE ConflictsAreRaces'
    <3>1. SlugsKept
      BY <2>1, ResolvedTyped
    <3>2. QED
      BY <2>1, <3>1, <1>1 DEF ResolveWrite
  <2>2. ASSUME NEW r \in Requests, NEW u, NEW l, ReportRead(r, u, l)
        PROVE  ConflictsAreRaces'
    BY <2>2, <1>2 DEF ReportRead, history
  <2>3. ASSUME NEW r \in Requests, NEW u, NEW p, NEW s \in ReportSteps,
               JudgeRead(r, u, p, s)
        PROVE  ConflictsAreRaces'
    BY <2>3, <1>2 DEF JudgeRead, history, ReportSteps
  <2>4. ASSUME NEW r \in Requests, NEW p, ReportWrite(r, p) \/ DismissWrite(r)
        PROVE  ConflictsAreRaces'
    BY <2>4, <1>1, SameSlugs DEF ReportWrite, DismissWrite
  <2>5. QED
    BY <1>8, <2>1, <2>2, <2>3, <2>4 DEF ReportStep
<1>9. CASE Decision
  <2>1. PICK l \in Listings, v \in Approvals :
             Live(l) /\ listing' = [listing EXCEPT ![l].approval = v]
             /\ UNCHANGED <<request, taken>>
    BY <1>9 DEF Decision, Approve, Reject, Approvals
  <2>2. SlugsKept
    BY <2>1, ApprovalSet
  <2>3. QED
    BY <2>1, <2>2, <1>3
<1>10. CASE UNCHANGED catalogVars
  BY <1>10, <1>3, SameSlugs DEF catalogVars, history
<1>11. QED
  BY <1>4, <1>5, <1>6, <1>7, <1>8, <1>9, <1>10 DEF CatalogNext, CatalogStep

-----------------------------------------------------------------------------
(* Reports, and what users are shown                                       *)

\* The listing of a resolved report is rejected with it, and shown again only
\* by an approval, which the history notes.
LEMMA ResolvedKept ==
  CatalogTypeInv /\ ResolvedIsOffShow /\ [CatalogNext]_catalogVars
    => ResolvedIsOffShow'
<1> SUFFICES ASSUME CatalogTypeInv, ResolvedIsOffShow,
                    [CatalogNext]_catalogVars
             PROVE  ResolvedIsOffShow'
  OBVIOUS
<1>1. ASSUME UNCHANGED report, approvedSince \subseteq approvedSince',
             \A k \in Listings :
                Live(k) /\ listing'[k].approval = "APPROVED" =>
                \/ listing[k].approval = "APPROVED"
                \/ ResolvedFor(k) \subseteq approvedSince'
      PROVE  ResolvedIsOffShow'
  <2> SUFFICES ASSUME NEW p \in Reports, report[p].status = "RESOLVED",
                      listing'[report[p].listing].approval = "APPROVED"
               PROVE  p \in approvedSince'
    BY <1>1 DEF ResolvedIsOffShow
  <2>1. report[p].listing \in Listings /\ Live(report[p].listing)
    BY ReportListings, InvParts DEF Filed, TableTypes, FiledTypes
  <2>2. QED
    BY <1>1, <2>1 DEF ResolvedIsOffShow, ResolvedFor
<1>2. ASSUME UNCHANGED listing, NEW p \in Reports,
             report'[p].status # "RESOLVED",
             \A o \in Reports \ {p} : report'[o] = report[o],
             approvedSince \ {p} \subseteq approvedSince'
      PROVE  ResolvedIsOffShow'
  BY <1>2 DEF ResolvedIsOffShow
<1>3. CASE OpenStep
  <2>1. ASSUME NEW r \in Requests, OpenCount(r) PROVE ResolvedIsOffShow'
    BY <2>1, <1>1, ViewCounted DEF OpenCount
  <2>2. QED
    BY <1>3, <2>1, <1>1 DEF OpenStep, OpenRead, history
<1>4. CASE TitleStep
  <2>1. ASSUME NEW r \in Requests, NEW l \in Listings, CreateWrite(r, l)
        PROVE  ResolvedIsOffShow'
    BY <2>1, <1>1, NewRowTyped DEF CreateWrite
  <2>2. ASSUME NEW r \in Requests, EditWrite(r) PROVE ResolvedIsOffShow'
    BY <2>2, <1>1, EditTyped DEF EditWrite
  <2>3. QED
    BY <1>4, <2>1, <2>2, <1>1
       DEF TitleStep, CreateBegins, EditBegins, SlugLook, history
<1>5. CASE RowStep
  BY <1>5, <1>1 DEF RowStep, SaveRead, RemoveRead, Unsave, history
<1>6. CASE RowWrite
  <2>1. ASSUME NEW r \in Requests, RemoveWrite(r) PROVE ResolvedIsOffShow'
    <3> SUFFICES ASSUME NEW p \in Reports, report'[p].status = "RESOLVED",
                        listing'[report'[p].listing].approval = "APPROVED"
                 PROVE  p \in approvedSince'
      BY DEF ResolvedIsOffShow
    <3>1. Filed(p)'
      BY DEF Filed
    <3>2. report'[p] = report[p] /\ report[p].listing # About(r)
      BY <2>1, <3>1, RemovedTyped
    <3>3. report[p].listing \in Listings
      BY <3>1, <3>2, ReportListings DEF Filed
    <3>4. listing[report[p].listing].approval = "APPROVED"
      BY <2>1, <3>2, <3>3, RemovedTyped
    <3>5. QED
      BY <2>1, <3>2, <3>4 DEF RemoveWrite, ResolvedIsOffShow
  <2>2. QED
    BY <1>6, <2>1, <1>1 DEF RowWrite, SaveWrite, RequestFails
<1>7. CASE ReportStep
  <2>1. ASSUME NEW r \in Requests, ResolveWrite(r) PROVE ResolvedIsOffShow'
    <3> SUFFICES ASSUME NEW p \in Reports, report'[p].status = "RESOLVED",
                        listing'[report'[p].listing].approval = "APPROVED"
                 PROVE  p \in approvedSince'
      BY DEF ResolvedIsOffShow
    <3>1. p # About(r)
      BY <2>1, ResolvedTyped
    <3>2. report'[p] = report[p]
      BY <2>1, <3>1, ResolvedTyped
    <3>3. report[p].listing \in Listings
      BY <3>2, ReportListings DEF Filed
    <3>4. listing[report[p].listing].approval = "APPROVED"
      BY <2>1, <3>2, <3>3, ResolvedTyped
    <3>5. QED
      BY <2>1, <3>1, <3>2, <3>4 DEF ResolveWrite, ResolvedIsOffShow
  <2>2. ASSUME NEW r \in Requests, DismissWrite(r) PROVE ResolvedIsOffShow'
    BY <2>2, <1>2, DismissedTyped DEF DismissWrite
  <2>3. ASSUME NEW r \in Requests, NEW p \in Reports, ReportWrite(r, p)
        PROVE  ResolvedIsOffShow'
    BY <2>3, <1>2, ReportedTyped DEF ReportWrite
  <2>4. QED
    BY <1>7, <2>1, <2>2, <2>3, <1>1
       DEF ReportStep, ReportRead, JudgeRead, history
<1>8. CASE Decision
  <2>1. ASSUME NEW l \in Listings, Approve(l) PROVE ResolvedIsOffShow'
    <3>1. \A k \in Listings \ {l} : listing'[k] = listing[k]
      BY <2>1, ApprovalSet DEF Approve, Approvals
    <3>2. QED
      BY <2>1, <3>1, <1>1 DEF Approve
  <2>2. ASSUME NEW l \in Listings, Reject(l) PROVE ResolvedIsOffShow'
    <3>1. listing'[l].approval = "REJECTED"
          /\ \A k \in Listings \ {l} : listing'[k] = listing[k]
      BY <2>2, ApprovalSet DEF Reject, Approvals
    <3>2. QED
      BY <2>2, <3>1, <1>1 DEF Reject
  <2>3. QED
    BY <1>8, <2>1, <2>2 DEF Decision
<1>9. CASE UNCHANGED catalogVars
  BY <1>9, <1>1 DEF catalogVars, history
<1>10. QED
  BY <1>3, <1>4, <1>5, <1>6, <1>7, <1>8, <1>9 DEF CatalogNext, CatalogStep

\* A fact of any well-typed state, steps have no part in it: the filters of the
\* lists and the check of the page agree, given that the rows that reports refer
\* to are live, so that the review page lists nothing that has no page.
LEMMA ListsAgree == CatalogTypeOK => ListsAgreeWithPages
<1> SUFFICES ASSUME CatalogTypeOK, NEW u \in Users \cup {NoValue}
             PROVE  LET opens == {l \in Listings : MayOpen(u, l)}
                    IN  /\ \A status \in Approvals :
                             Feed(u, status) \subseteq opens
                        /\ \A s \in Users : SellerPage(u, s) \subseteq opens
                        /\ SavedPage(u) \cup ReviewPage(u) \subseteq opens
                        /\ u \notin Admins
                             => opens = Feed(u, "APPROVED") \cup MyPage(u)
                        /\ MyPage(u) = SellerPage(u, u)
  BY DEF ListsAgreeWithPages
<1> DEFINE opens == {l \in Listings : MayOpen(u, l)}
<1>1. \A l \in Listings : listing[l].approval \in Approvals => Live(l)
  BY DEF Live
<1>2. \A status \in Approvals : Feed(u, status) \subseteq opens
  BY <1>1 DEF Feed, MayOpen, CanMutate
<1>3. \A s \in Users : SellerPage(u, s) \subseteq opens
  BY DEF SellerPage, MayOpen, CanMutate
<1>4. SavedPage(u) \subseteq opens
  BY DEF SavedPage, MayOpen, Live, Approvals
<1>5. ReviewPage(u) \subseteq opens
  <2> SUFFICES ASSUME NEW l \in Listings, u \in Admins,
                      \/ listing[l].approval = "PENDING"
                      \/ \E p \in Reports : report[p].listing = l
               PROVE  Live(l)
    BY DEF ReviewPage, MayOpen, CanMutate
  <2>1. CASE listing[l].approval = "PENDING"
    BY <2>1 DEF Live, Approvals
  <2>2. ASSUME NEW p \in Reports, report[p].listing = l PROVE Live(l)
    <3>1. report[p].listing # NoValue
      BY <2>2, CatalogAssumption
    <3>2. Filed(p)
      BY <3>1, ReportRowed DEF NoReport
    <3>3. QED
      BY <2>2, <3>2 DEF CatalogTypeOK
  <2>3. QED
    BY <2>1, <2>2
<1>6. u \notin Admins => opens = Feed(u, "APPROVED") \cup MyPage(u)
  BY DEF MayOpen, Feed, MyPage, CanMutate, Live, Approvals
<1>7. MyPage(u) = SellerPage(u, u)
  BY DEF MyPage, SellerPage
<1>8. QED
  BY <1>2, <1>3, <1>4, <1>5, <1>6, <1>7

\* The inductive invariant of the catalogue.
CatalogInv == CatalogTypeInv /\ ConflictsAreRaces /\ ResolvedIsOffShow

\* It holds of every reachable state.
LEMMA CatalogInvariant == CatalogSpec => []CatalogInv
<1>1. CatalogInit => CatalogInv
  <2>1. CatalogInit => ConflictsAreRaces
    BY DEF CatalogInit, ConflictsAreRaces, Doing, Idle, At
  <2>2. CatalogInit => ResolvedIsOffShow
    BY DEF CatalogInit, ResolvedIsOffShow, NoReport
  <2>3. QED
    BY <2>1, <2>2, CatalogTypesInit DEF CatalogInv
<1>2. CatalogInv /\ [CatalogNext]_catalogVars => CatalogInv'
  BY CatalogTypesKept, ConflictsRacesKept, ResolvedKept DEF CatalogInv
<1>3. QED
  BY <1>1, <1>2, PTL DEF CatalogSpec

\* A create or an edit meets the unique index only when another request stored
\* the same slug after this one had found it free.
THEOREM ConflictsStayRaces == CatalogSpec => []ConflictsAreRaces
<1>1. CatalogInv => ConflictsAreRaces
  BY DEF CatalogInv
<1>2. QED
  BY <1>1, CatalogInvariant, PTL

\* The listing of a resolved report is off show unless it was approved after
\* the report was resolved.
THEOREM ResolvedStaysOffShow == CatalogSpec => []ResolvedIsOffShow
<1>1. CatalogInv => ResolvedIsOffShow
  BY DEF CatalogInv
<1>2. QED
  BY <1>1, CatalogInvariant, PTL
=============================================================================

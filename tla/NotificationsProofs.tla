------------------------ MODULE NotificationsProofs -------------------------
(***************************************************************************)
(* Notifications runs the catalogue, step by step, so what is proved of    *)
(* the catalogue holds with notices added; and the newest notice of a      *)
(* listing is true, for every number of deciders, listings and notices,    *)
(* or explained by one of the ways in which the code tells nobody.         *)
(*                                                                         *)
(* What makes that inductive is what the deciders between update and       *)
(* notice hold in their hands: unless they were overtaken, the verdict     *)
(* they are going to tell is the approval of the listing, and the seller   *)
(* they are going to tell it to is the one the listing has.                *)
(***************************************************************************)
EXTENDS Notifications, ListingCatalogProofs

\* No step of the catalogue gives a listing another seller, brings one back
\* that is gone, or takes the id of one away.
LEMMA SellersStay ==
  ASSUME CatalogTypeInv, [CatalogNext]_catalogVars, NEW k \in Listings
  PROVE  /\ Live(k)' =>
              \/ Live(k) /\ listing'[k].seller = listing[k].seller
              \/ /\ listing[k].approval = "NONE"
                 /\ listing'[k].approval = "PENDING"
         /\ listing[k].approval # "NONE" => listing'[k].approval # "NONE"
<1> DEFINE Stays ==
             /\ Live(k)' =>
                  \/ Live(k) /\ listing'[k].seller = listing[k].seller
                  \/ /\ listing[k].approval = "NONE"
                     /\ listing'[k].approval = "PENDING"
             /\ listing[k].approval # "NONE" => listing'[k].approval # "NONE"
<1>0. UNCHANGED listing => Stays
  BY DEF Live
<1>a. ASSUME Live(k)', Live(k), listing'[k].seller = listing[k].seller
      PROVE  Stays
  BY <1>a DEF Live, Approvals
<1>b. ASSUME listing'[k] = listing[k] PROVE Stays
  BY <1>b DEF Live
<1>1. CASE OpenStep
  <2>1. ASSUME NEW r \in Requests, OpenCount(r) PROVE Stays
    BY <2>1, ViewCounted DEF Live
  <2>2. QED
    BY <1>0, <1>1, <2>1 DEF OpenStep, OpenRead
<1>2. CASE TitleStep
  <2>1. ASSUME NEW r \in Requests, NEW l \in Listings, CreateWrite(r, l)
        PROVE  Stays
    <3>1. listing[l].approval = "NONE" /\ listing'[l].approval = "PENDING"
      BY <2>1, NewRowTyped DEF CreateWrite
    <3>2. k # l => listing'[k] = listing[k]
      BY <2>1, NewRowTyped
    <3>3. QED
      BY <3>1, <3>2, <1>b
  <2>2. ASSUME NEW r \in Requests, EditWrite(r) PROVE Stays
    BY <2>2, EditTyped, <1>a, <1>b
  <2>3. QED
    BY <1>0, <1>2, <2>1, <2>2 DEF TitleStep, CreateBegins, EditBegins, SlugLook
<1>3. CASE RowStep
  BY <1>0, <1>3 DEF RowStep, SaveRead, RemoveRead, Unsave
<1>4. CASE RowWrite
  <2>1. ASSUME NEW r \in Requests, RemoveWrite(r) PROVE Stays
    <3>1. CASE k = About(r)
      BY <2>1, <3>1, RemovedTyped DEF Live, Approvals
    <3>2. QED
      BY <2>1, <3>1, <1>b, RemovedTyped
  <2>2. QED
    BY <1>0, <1>4, <2>1 DEF RowWrite, SaveWrite, RequestFails
<1>5. CASE ReportStep
  <2>1. ASSUME NEW r \in Requests, ResolveWrite(r) PROVE Stays
    BY <2>1, ResolvedTyped, <1>a, <1>b
  <2>2. QED
    BY <1>0, <1>5, <2>1
       DEF ReportStep, ReportRead, ReportWrite, JudgeRead, DismissWrite
<1>6. CASE Decision
  <2>1. PICK l \in Listings, v \in Approvals :
             Live(l) /\ listing' = [listing EXCEPT ![l].approval = v]
    BY <1>6 DEF Decision, Approve, Reject, Approvals
  <2>2. QED
    BY <2>1, ApprovalSet, <1>a, <1>b
<1>7. CASE UNCHANGED catalogVars
  BY <1>0, <1>7 DEF catalogVars
<1>8. QED
  BY <1>1, <1>2, <1>3, <1>4, <1>5, <1>6, <1>7 DEF CatalogNext, CatalogStep

-----------------------------------------------------------------------------
(* The inductive invariant                                                 *)

Subject(d) == decision[d].listing
Of(l) == {i \in DOMAIN notices : notices[i].listing = l}

\* NoticesTypeOK by parts: decisions, then rows of notices.
DecisionTypes ==
    /\ decision \in [Deciders -> Decisions \cup {NoDecision}]
    /\ outdated \subseteq Untold(Listings)
    /\ astray \subseteq {l \in Listings : Live(l)}
NoticeTypes == notices \in Seq(NoticeRows) /\ Len(notices) <= MaxNotices

\* A notice is its seller's, and so is one that is about to be written.
NoticesToSeller ==
    \A i \in DOMAIN notices :
        LET l == notices[i].listing
        IN  Live(l) => notices[i].user = listing[l].seller
TellersKnow ==
    \A d \in Deciders :
        decision[d].step = "tell" /\ Live(Subject(d))
          => decision[d].seller = listing[Subject(d)].seller

\* Decisions and notices are of listings that were created: a new listing has
\* neither.
DecisionsOfKnown ==
    \A d \in Deciders :
        decision[d].step # "idle" => listing[Subject(d)].approval # "NONE"
NoticesOfKnown ==
    \A i \in DOMAIN notices : listing[notices[i].listing].approval # "NONE"

\* A decision that is about to be told and was not overtaken still holds.
Holding ==
    \A d \in Deciders \ outdated :
        decision[d].step = "tell" /\ Live(Subject(d))
          => decision[d].verdict = listing[Subject(d)].approval

\* The notices of a listing have a newest one.
NewestExists ==
    \A l \in Listings :
        Of(l) # {} => \E i \in Of(l) : \A j \in Of(l) : j <= i

DecisionInv == DecisionTypes /\ TellersKnow /\ DecisionsOfKnown /\ Holding
NoticeInv == NoticeTypes /\ NoticesToSeller /\ NoticesOfKnown /\ NewestExists
NoticesInv == CatalogTypeInv /\ DecisionInv /\ NoticeInv /\ NewestNoticeIsTrue

\* The invariant implies the types.
LEMMA NoticesInvTypes == NoticesInv => NoticesTypeOK
BY DEF CatalogTypeInv, NoticesInv, DecisionInv, NoticeInv, DecisionTypes,
       NoticeTypes, NoticesToSeller, NoticesTypeOK

\* The step of a decider tells what it has in hand.
LEMMA DecisionCases ==
  ASSUME NoticesInv, NEW d \in Deciders
  PROVE  /\ decision[d].step \in {"idle", "write", "tell"}
         /\ decision[d].step = "idle" => decision[d] = NoDecision
         /\ decision[d].step # "idle" =>
              /\ Subject(d) \in Listings /\ decision[d].verdict \in Verdicts
              /\ decision[d] # NoDecision
         /\ decision[d].step = "tell" => decision[d].seller \in Users
<1> DEFINE Writes == [step : {"write"}, listing : Listings,
                      verdict : Verdicts, seller : {NoValue}]
           Tells == [step : {"tell"}, listing : Listings,
                     verdict : Verdicts, seller : Users]
<1>1. decision[d] \in Writes \cup Tells \cup {NoDecision}
  BY DEF NoticesInv, DecisionInv, DecisionTypes, Decisions
<1>2. \A w \in Writes : /\ w.step = "write" /\ w.listing \in Listings
                        /\ w.verdict \in Verdicts
  OBVIOUS
<1>3. \A w \in Tells : /\ w.step = "tell" /\ w.listing \in Listings
                       /\ w.verdict \in Verdicts /\ w.seller \in Users
  OBVIOUS
<1>4. NoDecision.step = "idle"
  BY DEF NoDecision, Deciding
<1>5. QED
  BY <1>1, <1>2, <1>3, <1>4 DEF Subject

-----------------------------------------------------------------------------
(* The steps                                                               *)

\* Every step is one of the catalogue, or leaves the catalogue alone.
LEMMA NoticesAreCatalog ==
  ASSUME NoticesInv, [NoticesNext]_systemVars PROVE [CatalogNext]_catalogVars
<1>1. CASE CatalogStepUntold
  BY <1>1 DEF CatalogStepUntold, CatalogNext
<1>2. CASE DecisionStep
  <2>1. ASSUME NEW d \in Deciders, DecideWrite(d)
        PROVE  CatalogNext \/ UNCHANGED catalogVars
    <3>1. Subject(d) \in Listings
      BY <2>1, DecisionCases DEF DecideWrite, Stores
    <3>2. QED
      BY <2>1, <3>1 DEF DecideWrite, Stores, CatalogNext, Decision, Subject
  <2>2. QED
    BY <1>2, <2>1 DEF DecisionStep, DecideRead, DecideTell, DecideFails
<1>3. CASE ReaderStep
  BY <1>3 DEF ReaderStep, MarkRead, MarkAllRead
<1>4. CASE UNCHANGED systemVars
  BY <1>4 DEF systemVars
<1>5. QED
  BY <1>1, <1>2, <1>3, <1>4 DEF NoticesNext

\* A notice is about a listing.
LEMMA NoticeTyped ==
  ASSUME NoticesInv, NEW i \in DOMAIN notices
  PROVE  notices[i] \in NoticeRows /\ notices[i].listing \in Listings
<1>1. notices[i] \in NoticeRows
  BY DEF NoticesInv, NoticeInv, NoticeTypes
<1>2. \A row \in NoticeRows : row.listing \in Listings
  BY DEF NoticeRows
<1>3. QED
  BY <1>1, <1>2

\* Notices that at most change whether they are read say what they said, and
\* to whom, whatever the catalogue does.
LEMMA NoticesKept ==
  ASSUME NoticesInv, [CatalogNext]_catalogVars, NoticeTypes',
         DOMAIN notices' = DOMAIN notices,
         \A i \in DOMAIN notices : /\ notices'[i].listing = notices[i].listing
                                   /\ notices'[i].user = notices[i].user
                                   /\ notices'[i].says = notices[i].says
  PROVE  NoticeInv' /\ \A l \in Listings : Newest(l)' = Newest(l)
<1>0. NoticeInv /\ CatalogTypeInv
  BY DEF NoticesInv
<1>1. \A l \in Listings : Of(l)' = Of(l)
  BY DEF Of
<1>2. NewestExists'
  BY <1>0, <1>1 DEF NoticeInv, NewestExists
<1>3. ASSUME NEW l \in Listings PROVE Newest(l)' = Newest(l)
  <2> DEFINE i == CHOOSE i \in Of(l) : \A j \in Of(l) : j <= i
  <2>1. Newest(l) = IF Of(l) = {} THEN "PENDING" ELSE notices[i].says
    BY DEF Newest, Of
  <2>2. Newest(l)' = IF Of(l)' = {} THEN "PENDING"
                     ELSE notices'[CHOOSE k \in Of(l)' :
                                     \A j \in Of(l)' : j <= k].says
    BY DEF Newest, Of
  <2>3. Newest(l)' = IF Of(l) = {} THEN "PENDING" ELSE notices'[i].says
    BY <1>1, <2>2
  <2>4. Of(l) # {} => i \in Of(l)
    BY <1>0 DEF NoticeInv, NewestExists
  <2>5. Of(l) # {} => notices'[i].says = notices[i].says
    BY <2>4 DEF Of
  <2> HIDE DEF i
  <2>6. QED
    BY <2>1, <2>3, <2>5
<1>4. NoticesToSeller'
  <2> SUFFICES ASSUME NEW i \in DOMAIN notices, NEW l, l = notices[i].listing,
                      Live(l)'
               PROVE  notices[i].user = listing'[l].seller
    BY DEF NoticesToSeller, Live
  <2>1. l \in Listings /\ listing[l].approval # "NONE"
    BY <1>0, NoticeTyped DEF NoticeInv, NoticesOfKnown
  <2>2. Live(l) /\ listing'[l].seller = listing[l].seller
    BY <1>0, <2>1, SellersStay
  <2>3. QED
    BY <1>0, <2>2 DEF NoticeInv, NoticesToSeller
<1>5. NoticesOfKnown'
  BY <1>0, NoticeTyped, SellersStay DEF NoticeInv, NoticesOfKnown
<1>6. QED
  BY <1>2, <1>3, <1>4, <1>5 DEF NoticeInv

\* So do notices that do not change.
LEMMA NoticesSame ==
  ASSUME NoticesInv, [CatalogNext]_catalogVars, UNCHANGED notices
  PROVE  NoticeInv' /\ \A l \in Listings : Newest(l)' = Newest(l)
BY NoticesKept DEF NoticesInv, NoticeInv, NoticeTypes

\* MarkRead and MarkAllRead change only whether rows are read.
LEMMA MarkTyped ==
  ASSUME NoticesInv, ReaderStep
  PROVE  NoticeInv' /\ \A l \in Listings : Newest(l)' = Newest(l)
<1>0. notices \in Seq(NoticeRows) /\ Len(notices) <= MaxNotices
  BY DEF NoticesInv, NoticeInv, NoticeTypes
<1>1. \A row \in NoticeRows :
        LET m == [row EXCEPT !.isRead = TRUE]
        IN  /\ m \in NoticeRows /\ m.listing = row.listing
            /\ m.user = row.user /\ m.says = row.says
  BY DEF NoticeRows
<1>2. UNCHANGED <<catalogVars, decision, outdated, astray>>
  BY DEF ReaderStep, MarkRead, MarkAllRead
<1> DEFINE Marked(i) == [notices[i] EXCEPT !.isRead = TRUE]
           OnlyMarks ==
             /\ DOMAIN notices' = DOMAIN notices
             /\ \A i \in DOMAIN notices :
                  notices'[i] \in {notices[i], Marked(i)}
             /\ notices' \in Seq(NoticeRows) /\ Len(notices') = Len(notices)
<1>3. OnlyMarks
  <2>0. /\ DOMAIN notices = 1..Len(notices) /\ Len(notices) \in Nat
        /\ \A i \in DOMAIN notices :
             notices[i] \in NoticeRows /\ Marked(i) \in NoticeRows
    BY <1>0, <1>1
  <2>1. ASSUME NEW u \in Users, NEW i \in DOMAIN notices, MarkRead(u, i)
        PROVE  OnlyMarks
    <3>1. notices' = [notices EXCEPT ![i] = Marked(i)]
      BY <2>1 DEF MarkRead
    <3> HIDE DEF Marked
    <3>2. QED
      BY <3>1, <2>0, <1>0
  <2>2. ASSUME NEW u \in Users, MarkAllRead(u) PROVE OnlyMarks
    <3>1. notices' = [i \in DOMAIN notices |->
                        IF notices[i].user = u THEN Marked(i) ELSE notices[i]]
      BY <2>2 DEF MarkAllRead
    <3> HIDE DEF Marked
    <3>2. QED
      BY <3>1, <2>0, <1>0
  <2>3. QED
    BY <2>1, <2>2 DEF ReaderStep
<1>4. NoticeTypes'
  BY <1>0, <1>3 DEF NoticeTypes
<1>5. \A i \in DOMAIN notices : /\ notices'[i].listing = notices[i].listing
                                /\ notices'[i].user = notices[i].user
                                /\ notices'[i].says = notices[i].says
  BY <1>1, <1>3, NoticeTyped
<1>6. QED
  BY <1>2, <1>3, <1>4, <1>5, NoticesKept

\* Only deciders about to tell are overtaken.
LEMMA UntoldDeciders ==
  ASSUME NoticesInv, NEW d \in outdated
  PROVE  d \in Deciders /\ decision[d].step = "tell"
BY DEF NoticesInv, DecisionInv, DecisionTypes, Untold

\* Deciders that stay where they are, while the catalogue moves: whoever was
\* about to tell of a listing that changed is overtaken.
LEMMA CatalogMoves ==
  ASSUME NoticesInv, [CatalogNext]_catalogVars,
         outdated' = outdated \cup Untold(Changed),
         NEW d \in Deciders, decision'[d] = decision[d],
         decision[d].step # "idle",
         NEW l, l = Subject(d)
  PROVE  /\ listing'[l].approval # "NONE"
         /\ decision[d].step = "tell" /\ Live(l)' =>
              /\ decision[d].seller = listing'[l].seller
              /\ d \notin outdated'
                   => decision[d].verdict = listing'[l].approval
<1>1. l \in Listings /\ listing[l].approval # "NONE"
  BY DecisionCases DEF NoticesInv, DecisionInv, DecisionsOfKnown
<1>2. listing'[l].approval # "NONE"
  BY <1>1, SellersStay DEF NoticesInv
<1>3. ASSUME decision[d].step = "tell", Live(l)'
      PROVE  /\ decision[d].seller = listing'[l].seller
             /\ d \notin outdated'
                  => decision[d].verdict = listing'[l].approval
  <2>1. Live(l) /\ listing'[l].seller = listing[l].seller
    BY <1>1, <1>3, SellersStay DEF NoticesInv
  <2>2. decision[d].seller = listing[l].seller
    BY <1>3, <2>1 DEF NoticesInv, DecisionInv, TellersKnow
  <2>3. ASSUME d \notin outdated'
        PROVE  decision[d].verdict = listing'[l].approval
    <3>1. d \notin Untold(Changed) /\ d \notin outdated
      BY <2>3
    <3>2. l \notin Changed
      BY <3>1, <1>3 DEF Untold, Subject
    <3>3. listing'[l].approval = listing[l].approval
      BY <1>1, <2>1, <3>2 DEF Changed
    <3>4. QED
      BY <1>3, <2>1, <3>1, <3>3 DEF NoticesInv, DecisionInv, Holding
  <2>4. QED
    BY <2>1, <2>2, <2>3
<1>4. QED
  BY <1>2, <1>3

\* Edits, reports and removals: a changed listing is astray.
LEMMA CatalogKeepsDecisions ==
  ASSUME NoticesInv, [NoticesNext]_systemVars, CatalogStepUntold
  PROVE  DecisionInv' /\ NewestNoticeIsTrue'
<1>0. CatalogTypeInv /\ [CatalogNext]_catalogVars
  BY NoticesAreCatalog DEF NoticesInv
<1>1. /\ outdated' = outdated \cup Untold(Changed)
      /\ astray' = {l \in astray \cup Changed :
                    listing'[l].approval \in Approvals}
      /\ UNCHANGED <<decision, notices>>
  BY DEF CatalogStepUntold
<1>2. DecisionTypes'
  <2>1. /\ decision \in [Deciders -> Decisions \cup {NoDecision}]
        /\ outdated \subseteq Untold(Listings) /\ astray \subseteq Listings
    BY DEF NoticesInv, DecisionInv, DecisionTypes
  <2>2. Untold(Changed) \subseteq Untold(Listings)
        /\ Changed \subseteq Listings /\ Untold(Listings)' = Untold(Listings)
    BY <1>1 DEF Untold, Changed
  <2>3. QED
    BY <1>1, <2>1, <2>2 DEF DecisionTypes, Live
<1>3. TellersKnow' /\ DecisionsOfKnown' /\ Holding'
  <2>1. \A d \in Deciders : decision[d].step # "idle" =>
         /\ listing'[Subject(d)].approval # "NONE"
         /\ decision[d].step = "tell"
              /\ listing'[Subject(d)].approval \in Approvals =>
                /\ decision[d].seller = listing'[Subject(d)].seller
                /\ d \notin outdated'
                     => decision[d].verdict = listing'[Subject(d)].approval
    BY <1>0, <1>1, CatalogMoves DEF Live, Subject
  <2>2. \A d \in Deciders : Subject(d)' = Subject(d)
    BY <1>1 DEF Subject
  <2>3. QED
    BY <1>1, <2>1, <2>2 DEF TellersKnow, DecisionsOfKnown, Holding, Live
<1>4. NewestNoticeIsTrue'
  <2> SUFFICES ASSUME NEW l \in Listings, Live(l)',
                      Newest(l)' # listing'[l].approval, l \notin astray'
               PROVE  Untold({l})' \ outdated' # {}
    BY DEF NewestNoticeIsTrue
  <2>1. Newest(l)' = Newest(l)
    BY <1>0, <1>1, NoticesSame
  <2>2. CASE Live(l)
    <3>1. l \notin Changed /\ l \notin astray
      BY <1>1 DEF Live
    <3>2. listing'[l].approval = listing[l].approval
      BY <2>2, <3>1 DEF Changed
    <3>3. PICK d \in Untold({l}) : d \notin outdated
      BY <2>1, <2>2, <3>1, <3>2 DEF NoticesInv, NewestNoticeIsTrue
    <3>4. d \notin Untold(Changed) /\ d \in Untold({l})'
      BY <1>1, <3>1, <3>3 DEF Untold
    <3>5. QED
      BY <1>1, <3>3, <3>4
  <2>3. CASE ~Live(l)
    <3>1. listing[l].approval = "NONE" /\ listing'[l].approval = "PENDING"
      BY <1>0, <2>3, SellersStay
    <3>2. Of(l) = {}
      BY <3>1 DEF NoticesInv, NoticeInv, NoticesOfKnown, Of
    <3>3. QED
      BY <2>1, <3>1, <3>2 DEF Newest, Of
  <2>4. QED
    BY <2>2, <2>3
<1>5. QED
  BY <1>2, <1>3, <1>4 DEF DecisionInv

\* A step that leaves the catalogue alone leaves its rows alone.
LEMMA StillCatalog ==
  ASSUME NoticesInv, UNCHANGED catalogVars
  PROVE  /\ UNCHANGED listing /\ [CatalogNext]_catalogVars
         /\ \A l \in Listings : Live(l)' <=> Live(l)
BY DEF catalogVars, Live

\* A decider moves, the others stay.
LEMMA OthersKept ==
  ASSUME NoticesInv, NEW d \in Deciders,
         NEW next \in Decisions \cup {NoDecision}, Reaches(d, next)
  PROVE  /\ decision' \in [Deciders -> Decisions \cup {NoDecision}]
         /\ decision'[d] = next
         /\ \A e \in Deciders \ {d} :
              decision'[e] = decision[e] /\ Subject(e)' = Subject(e)
BY DEF NoticesInv, DecisionInv, DecisionTypes, Reaches, Subject

\* DecideRead: nothing is decided yet.
LEMMA ReadKeepsDecisions ==
  ASSUME NoticesInv, NEW d \in Deciders, NEW l \in Listings,
         NEW verdict \in Verdicts,
         DecideRead(d, l, verdict)
  PROVE  DecisionInv' /\ NewestNoticeIsTrue'
<1> DEFINE next == Deciding("write", l, verdict, NoValue)
<1>0. /\ UNCHANGED listing /\ [CatalogNext]_catalogVars
      /\ \A m \in Listings : Live(m)' <=> Live(m)
  BY StillCatalog DEF DecideRead
<1>1. /\ decision[d].step = "idle"
      /\ next \in Decisions /\ next.step = "write" /\ next.listing = l
  BY DEF DecideRead, NoDecision, Deciding, Decisions
<1>2. /\ decision' \in [Deciders -> Decisions \cup {NoDecision}]
      /\ decision'[d] = next
      /\ \A e \in Deciders \ {d} :
           decision'[e] = decision[e] /\ Subject(e)' = Subject(e)
  <2> HIDE DEF next
  <2>1. QED
    BY <1>1, OthersKept DEF DecideRead, next
<1> HIDE DEF next
<1>3. /\ UNCHANGED <<outdated, astray, notices>>
      /\ listing[l].approval # "NONE"
  BY DEF DecideRead, Live, Approvals
<1>4. \A ls \in SUBSET Listings : Untold(ls)' = Untold(ls)
  BY <1>1, <1>2 DEF Untold
<1>5. DecisionTypes'
  BY <1>0, <1>2, <1>3, <1>4 DEF NoticesInv, DecisionInv, DecisionTypes
<1>6. TellersKnow' /\ DecisionsOfKnown' /\ Holding'
  BY <1>0, <1>1, <1>2, <1>3
     DEF NoticesInv, DecisionInv, TellersKnow, DecisionsOfKnown, Holding,
         Subject, Live
<1>7. NewestNoticeIsTrue'
  BY <1>0, <1>3, <1>4, NoticesSame DEF NoticesInv, NewestNoticeIsTrue, Live
<1>8. QED
  BY <1>5, <1>6, <1>7 DEF DecisionInv

\* DecideWrite: the decision holds, and is about to be told.
LEMMA WriteKeepsDecisions ==
  ASSUME NoticesInv, [NoticesNext]_systemVars, NEW d \in Deciders,
         DecideWrite(d)
  PROVE  DecisionInv' /\ NewestNoticeIsTrue'
<1> PICK l, verdict, seller : /\ l = Subject(d)
                              /\ verdict = decision[d].verdict
                              /\ seller = listing[l].seller
  OBVIOUS
<1> DEFINE next == Deciding("tell", l, verdict, seller)
<1>0. CatalogTypeInv /\ [CatalogNext]_catalogVars
  BY NoticesAreCatalog DEF NoticesInv
<1>1. /\ outdated' = outdated \cup Untold(Changed)
      /\ UNCHANGED <<notices, astray>>
      /\ decision[d].step = "write"
      /\ l \in Listings /\ verdict \in Verdicts
      /\ Reaches(d, next)
      /\ Live(l) /\ listing' = [listing EXCEPT ![l].approval = verdict]
  BY DecisionCases DEF DecideWrite, Stores, Subject, Approve, Reject
<1>2. /\ Live(l)' /\ listing'[l].approval = verdict
      /\ listing'[l].seller = seller
      /\ \A k \in Listings \ {l} :
           listing'[k] = listing[k] /\ (Live(k)' <=> Live(k))
  <2>1. verdict \in Approvals
    BY <1>1 DEF Verdicts, Approvals
  <2>2. QED
    BY <1>0, <1>1, <2>1, ApprovalSet
<1>3. seller \in Users
  <2>1. \A row \in ListingRows : row.seller \in Users
    BY DEF ListingRows
  <2>2. QED
    BY <1>0, <1>1, <2>1, Rowed DEF CatalogTypeInv
<1>4. /\ next \in Decisions /\ next.step = "tell" /\ next.listing = l
      /\ next.verdict = verdict /\ next.seller = seller
  BY <1>1, <1>3 DEF Deciding, Decisions
<1> HIDE DEF next
<1>5. /\ decision' \in [Deciders -> Decisions \cup {NoDecision}]
      /\ decision'[d] = next
      /\ \A e \in Deciders \ {d} :
           decision'[e] = decision[e] /\ Subject(e)' = Subject(e)
  BY <1>1, <1>4, OthersKept
<1>6. d \notin outdated' /\ d \in Untold({l})'
  BY <1>1, <1>4, <1>5, UntoldDeciders DEF Untold
<1>7. Changed \subseteq {l}
  BY <1>2 DEF Changed
<1>8. \A ls \in SUBSET Listings : Untold(ls) \subseteq Untold(ls)'
  BY <1>1, <1>5 DEF Untold
<1>9. DecisionTypes'
  <2>1. outdated' \subseteq Untold(Listings)
    BY <1>1, <1>7 DEF NoticesInv, DecisionInv, DecisionTypes, Untold
  <2>2. astray' \subseteq {k \in Listings : Live(k)'}
    BY <1>1, <1>2 DEF NoticesInv, DecisionInv, DecisionTypes
  <2>3. QED
    BY <2>1, <2>2, <1>5, <1>8 DEF DecisionTypes
<1>10. TellersKnow' /\ DecisionsOfKnown' /\ Holding'
  <2>1. \A e \in Deciders \ {d} : decision[e].step # "idle" =>
         /\ listing'[Subject(e)].approval # "NONE"
         /\ decision[e].step = "tell"
              /\ listing'[Subject(e)].approval \in Approvals =>
                /\ decision[e].seller = listing'[Subject(e)].seller
                /\ e \notin outdated'
                     => decision[e].verdict = listing'[Subject(e)].approval
    BY <1>0, <1>1, <1>5, CatalogMoves DEF Live, Subject
  <2>2. Subject(d)' = l /\ listing'[l].approval # "NONE"
    BY <1>2, <1>4, <1>5 DEF Subject, Live, Approvals
  <2>3. QED
    BY <1>2, <1>4, <1>5, <2>1, <2>2
       DEF TellersKnow, DecisionsOfKnown, Holding, Live
<1>11. NewestNoticeIsTrue'
  <2> SUFFICES ASSUME NEW k \in Listings, Live(k)',
                      Newest(k)' # listing'[k].approval, k \notin astray'
               PROVE  Untold({k})' \ outdated' # {}
    BY DEF NewestNoticeIsTrue
  <2>1. CASE k = l
    BY <1>6, <2>1
  <2>2. CASE k # l
    <3>1. PICK e \in Untold({k}) : e \notin outdated
      BY <1>0, <1>1, <1>2, <2>2, NoticesSame DEF NoticesInv, NewestNoticeIsTrue
    <3>2. e \notin Untold(Changed) /\ e \in Untold({k})'
      BY <1>7, <1>8, <2>2, <3>1 DEF Untold
    <3>3. QED
      BY <1>1, <3>1, <3>2
  <2>3. QED
    BY <2>1, <2>2
<1>12. QED
  BY <1>9, <1>10, <1>11 DEF DecisionInv

\* A decision ends, told or not.
LEMMA EndKeepsDecisions ==
  ASSUME NoticesInv, NEW d \in Deciders, Reaches(d, NoDecision),
         outdated' = outdated \ {d},
         UNCHANGED catalogVars, astray' \subseteq {l \in Listings : Live(l)}
  PROVE  /\ DecisionInv'
         /\ \A l \in Listings :
              Subject(d) # l \/ decision[d].step # "tell"
                => Untold({l})' \ outdated' = Untold({l}) \ outdated
<1>0. /\ UNCHANGED listing /\ [CatalogNext]_catalogVars
      /\ \A m \in Listings : Live(m)' <=> Live(m)
  BY StillCatalog
<1>1. NoDecision.step = "idle"
  BY DEF NoDecision, Deciding
<1>2. /\ decision' \in [Deciders -> Decisions \cup {NoDecision}]
      /\ decision'[d] = NoDecision
      /\ \A e \in Deciders \ {d} :
           decision'[e] = decision[e] /\ Subject(e)' = Subject(e)
  BY OthersKept
<1>3. \A ls \in SUBSET Listings : Untold(ls)' = Untold(ls) \ {d}
  BY <1>1, <1>2 DEF Untold
<1>4. DecisionTypes'
  BY <1>0, <1>2, <1>3 DEF NoticesInv, DecisionInv, DecisionTypes
<1>5. TellersKnow' /\ DecisionsOfKnown' /\ Holding'
  BY <1>0, <1>1, <1>2
     DEF NoticesInv, DecisionInv, TellersKnow, DecisionsOfKnown, Holding, Live
<1>6. ASSUME NEW l \in Listings, Subject(d) # l \/ decision[d].step # "tell"
      PROVE  Untold({l})' \ outdated' = Untold({l}) \ outdated
  <2>1. d \notin Untold({l})
    BY <1>6 DEF Untold, Subject
  <2>2. QED
    BY <2>1, <1>3
<1>7. QED
  BY <1>4, <1>5, <1>6 DEF DecisionInv

\* DecideFails: a listing that was decided and not told of is astray.
LEMMA FailKeepsDecisions ==
  ASSUME NoticesInv, NEW d \in Deciders, DecideFails(d)
  PROVE  DecisionInv' /\ NewestNoticeIsTrue'
<1>0. /\ UNCHANGED listing /\ [CatalogNext]_catalogVars
      /\ \A m \in Listings : Live(m)' <=> Live(m)
  BY StillCatalog DEF DecideFails
<1>1. Subject(d) \in Listings
  BY DecisionCases DEF DecideFails
<1>2. astray \subseteq {l \in Listings : Live(l)}
  BY DEF NoticesInv, DecisionInv, DecisionTypes
<1>3. astray' \subseteq {l \in Listings : Live(l)}
  BY <1>1, <1>2 DEF DecideFails, Subject
<1>4. /\ DecisionInv'
      /\ \A l \in Listings :
           Subject(d) # l \/ decision[d].step # "tell"
             => Untold({l})' \ outdated' = Untold({l}) \ outdated
  BY <1>3, EndKeepsDecisions DEF DecideFails
<1>5. NewestNoticeIsTrue'
  <2> SUFFICES ASSUME NEW k \in Listings, Live(k)',
                      Newest(k)' # listing'[k].approval, k \notin astray'
               PROVE  Untold({k})' \ outdated' # {}
    BY DEF NewestNoticeIsTrue
  <2>1. k \notin astray /\ (Subject(d) # k \/ decision[d].step # "tell")
    BY <1>0 DEF DecideFails, Subject
  <2>2. Newest(k)' = Newest(k)
    BY <1>0, NoticesSame DEF DecideFails
  <2>3. Untold({k}) \ outdated # {}
    BY <1>0, <2>1, <2>2 DEF NoticesInv, NewestNoticeIsTrue
  <2>4. QED
    BY <1>4, <2>1, <2>3
<1>6. QED
  BY <1>4, <1>5

\* The row that DecideTell appends is the newest of its listing.
LEMMA TellWritesNotice ==
  ASSUME NoticesInv, NEW d \in Deciders, DecideTell(d), NEW l, l = Subject(d)
  PROVE  /\ NoticeInv' /\ l \in Listings
         /\ Newest(l)' = decision[d].verdict
         /\ \A k \in Listings \ {l} : Newest(k)' = Newest(k)
<1> DEFINE row == Notice(decision[d])
           n == Len(notices)
<1>0. /\ UNCHANGED listing /\ \A m \in Listings : Live(m)' <=> Live(m)
      /\ NoticeInv
  BY StillCatalog DEF DecideTell, NoticesInv
<1>1. /\ l \in Listings /\ decision[d].verdict \in Verdicts
      /\ decision[d].seller \in Users /\ listing[l].approval # "NONE"
  BY DecisionCases DEF DecideTell, NoticesInv, DecisionInv, DecisionsOfKnown
<1>2. /\ row \in NoticeRows /\ row.listing = l
      /\ row.user = decision[d].seller /\ row.says = decision[d].verdict
  BY <1>1 DEF Notice, NoticeRows, Subject
<1>3. /\ notices \in Seq(NoticeRows) /\ n \in Nat /\ n < MaxNotices
      /\ notices' = Append(notices, row)
  BY DEF DecideTell, NoticesInv, NoticeInv, NoticeTypes
<1> HIDE DEF row
<1>4. /\ DOMAIN notices = 1..n /\ DOMAIN notices' = 1..(n + 1)
      /\ \A i \in 1..n : notices'[i] = notices[i]
      /\ notices'[n + 1] = row
      /\ notices' \in Seq(NoticeRows) /\ Len(notices') = n + 1
  BY <1>2, <1>3
<1> HIDE DEF n
<1>5. \A i \in DOMAIN notices' : i \in DOMAIN notices \/ i = n + 1
  <2>1. \A m \in Nat : \A i \in 1..(m + 1) : i \in 1..m \/ i = m + 1
    OBVIOUS
  <2>2. QED
    BY <1>3, <1>4, <2>1
<1>6. NoticeTypes'
  <2>1. \A a, b \in Nat : a < b => a + 1 <= b
    OBVIOUS
  <2>2. QED
    BY <1>3, <1>4, <2>1, NoticesAssumption DEF NoticeTypes
<1>7. NoticesToSeller'
  <2>1. Live(l) => row.user = listing[l].seller
    BY <1>2 DEF NoticesInv, DecisionInv, TellersKnow, DecideTell
  <2>2. QED
    BY <1>0, <1>2, <1>4, <1>5, <2>1 DEF NoticesToSeller, NoticeInv, Live
<1>8. NoticesOfKnown'
  BY <1>0, <1>1, <1>2, <1>4, <1>5 DEF NoticesOfKnown, NoticeInv
<1>9. Of(l)' = Of(l) \cup {n + 1} /\ \A k \in Listings \ {l} : Of(k)' = Of(k)
  <2>1. /\ n + 1 \in DOMAIN notices' /\ n + 1 \notin DOMAIN notices
        /\ DOMAIN notices \subseteq DOMAIN notices'
    <3>1. \A m \in Nat : /\ m + 1 \in 1..(m + 1) /\ m + 1 \notin 1..m
                         /\ 1..m \subseteq 1..(m + 1)
      OBVIOUS
    <3>2. QED
      BY <1>3, <1>4, <3>1
  <2>2. QED
    BY <1>2, <1>4, <1>5, <2>1 DEF Of
<1>10. n + 1 \in Of(l)' /\ \A j \in Of(l)' : j <= n + 1
  <2>1. \A m \in Nat : \A i \in 1..(m + 1) : i <= m + 1
    OBVIOUS
  <2>2. QED
    BY <1>3, <1>4, <1>9, <2>1 DEF Of
<1>11. NewestExists'
  BY <1>0, <1>9, <1>10 DEF NewestExists, NoticeInv
<1>12. Newest(l)' = decision[d].verdict
  <2> DEFINE i == CHOOSE i \in Of(l)' : \A j \in Of(l)' : j <= i
  <2>1. Newest(l)' = IF Of(l)' = {} THEN "PENDING" ELSE notices'[i].says
    BY DEF Newest, Of
  <2>2. i \in Of(l)' /\ \A j \in Of(l)' : j <= i
    BY <1>10
  <2>3. i = n + 1
    <3>1. \A m \in Nat : \A a \in 1..(m + 1) : m + 1 <= a => a = m + 1
      OBVIOUS
    <3>2. i \in 1..(n + 1) /\ n + 1 <= i
      BY <2>2, <1>10, <1>4 DEF Of
    <3> HIDE DEF i
    <3>3. QED
      BY <3>1, <3>2, <1>3
  <2> HIDE DEF i
  <2>4. QED
    BY <2>1, <2>3, <1>2, <1>4, <1>10
<1>13. ASSUME NEW k \in Listings \ {l} PROVE Newest(k)' = Newest(k)
  <2> DEFINE i == CHOOSE i \in Of(k) : \A j \in Of(k) : j <= i
  <2>1. Newest(k) = IF Of(k) = {} THEN "PENDING" ELSE notices[i].says
    BY DEF Newest, Of
  <2>2. Newest(k)' = IF Of(k)' = {} THEN "PENDING"
                     ELSE notices'[CHOOSE m \in Of(k)' :
                                     \A j \in Of(k)' : j <= m].says
    BY DEF Newest, Of
  <2>3. Newest(k)' = IF Of(k) = {} THEN "PENDING" ELSE notices'[i].says
    BY <1>9, <2>2
  <2>4. Of(k) # {} => i \in Of(k)
    BY <1>0 DEF NoticeInv, NewestExists
  <2>5. Of(k) # {} => notices'[i].says = notices[i].says
    BY <1>4, <2>4 DEF Of
  <2> HIDE DEF i
  <2>6. QED
    BY <2>1, <2>3, <2>5
<1>14. QED
  BY <1>1, <1>6, <1>7, <1>8, <1>11, <1>12, <1>13 DEF NoticeInv

\* DecideTell: the newest notice is true now, or it came too late.
LEMMA TellKeepsDecisions ==
  ASSUME NoticesInv, NEW d \in Deciders, DecideTell(d)
  PROVE  DecisionInv' /\ NoticeInv' /\ NewestNoticeIsTrue'
<1> PICK l : l = Subject(d)
  OBVIOUS
<1>0. /\ UNCHANGED listing /\ [CatalogNext]_catalogVars
      /\ \A m \in Listings : Live(m)' <=> Live(m)
  BY StillCatalog DEF DecideTell
<1>1. /\ NoticeInv' /\ l \in Listings
      /\ Newest(l)' = decision[d].verdict
      /\ \A k \in Listings \ {l} : Newest(k)' = Newest(k)
  BY TellWritesNotice
<1>2. astray \subseteq {k \in Listings : Live(k)}
  BY DEF NoticesInv, DecisionInv, DecisionTypes
<1>a. /\ astray' = IF d \in outdated /\ Live(l) THEN astray \cup {l}
                                                 ELSE astray \ {l}
      /\ decision[d].step = "tell"
  BY DEF DecideTell, Subject
<1>3. astray' \subseteq {k \in Listings : Live(k)}
  BY <1>1, <1>2, <1>a
<1>4. /\ DecisionInv'
      /\ \A k \in Listings :
           Subject(d) # k \/ decision[d].step # "tell"
             => Untold({k})' \ outdated' = Untold({k}) \ outdated
  BY <1>3, EndKeepsDecisions DEF DecideTell
<1>5. NewestNoticeIsTrue'
  <2> SUFFICES ASSUME NEW k \in Listings, Live(k)',
                      Newest(k)' # listing'[k].approval, k \notin astray'
               PROVE  Untold({k})' \ outdated' # {}
    BY DEF NewestNoticeIsTrue
  <2>1. CASE k = l
    <3>1. d \notin outdated /\ Live(l)
      BY <1>0, <1>a, <2>1
    <3>2. decision[d].verdict = listing[l].approval
      BY <1>a, <3>1 DEF NoticesInv, DecisionInv, Holding
    <3>3. QED
      BY <1>0, <1>1, <2>1, <3>2
  <2>2. CASE k # l
    <3>1. k \notin astray
      BY <1>a, <2>2
    <3>2. Untold({k}) \ outdated # {}
      BY <1>0, <1>1, <2>2, <3>1 DEF NoticesInv, NewestNoticeIsTrue
    <3>3. QED
      BY <1>4, <2>2, <3>2
  <2>3. QED
    BY <2>1, <2>2
<1>6. QED
  BY <1>1, <1>4, <1>5

\* A step that moves neither decisions nor what notices say.
LEMMA NothingKeepsDecisions ==
  ASSUME NoticesInv, UNCHANGED <<catalogVars, decision, outdated, astray>>,
         \A l \in Listings : Newest(l)' = Newest(l)
  PROVE  DecisionInv' /\ NewestNoticeIsTrue'
BY DEF NoticesInv, DecisionInv, DecisionTypes, TellersKnow, DecisionsOfKnown,
       Holding, Untold, Live, Subject, catalogVars, NewestNoticeIsTrue

\* Every step keeps the invariant.
LEMMA NoticesStep == NoticesInv /\ [NoticesNext]_systemVars => NoticesInv'
<1> SUFFICES ASSUME NoticesInv, [NoticesNext]_systemVars
             PROVE  DecisionInv' /\ NoticeInv' /\ NewestNoticeIsTrue'
  BY NoticesAreCatalog, CatalogTypesKept DEF NoticesInv
<1>0. [CatalogNext]_catalogVars
  BY NoticesAreCatalog
<1>1. CASE CatalogStepUntold
  BY <1>0, <1>1, CatalogKeepsDecisions, NoticesSame DEF CatalogStepUntold
<1>2. CASE DecisionStep
  <2>1. ASSUME NEW d \in Deciders, NEW l \in Listings,
               NEW verdict \in Verdicts, DecideRead(d, l, verdict)
        PROVE  DecisionInv' /\ NoticeInv' /\ NewestNoticeIsTrue'
    BY <1>0, <2>1, ReadKeepsDecisions, NoticesSame DEF DecideRead
  <2>2. ASSUME NEW d \in Deciders, DecideWrite(d)
        PROVE  DecisionInv' /\ NoticeInv' /\ NewestNoticeIsTrue'
    BY <1>0, <2>2, WriteKeepsDecisions, NoticesSame DEF DecideWrite, Stores
  <2>3. ASSUME NEW d \in Deciders, DecideFails(d)
        PROVE  DecisionInv' /\ NoticeInv' /\ NewestNoticeIsTrue'
    BY <1>0, <2>3, FailKeepsDecisions, NoticesSame DEF DecideFails
  <2>4. QED
    BY <1>2, <2>1, <2>2, <2>3, TellKeepsDecisions DEF DecisionStep
<1>3. CASE ReaderStep
  BY <1>3, MarkTyped, NothingKeepsDecisions
     DEF ReaderStep, MarkRead, MarkAllRead
<1>4. CASE UNCHANGED systemVars
  BY <1>0, <1>4, NoticesSame, NothingKeepsDecisions DEF systemVars, noticeVars
<1>5. QED
  BY <1>1, <1>2, <1>3, <1>4 DEF NoticesNext

\* It holds of every reachable state.
LEMMA NoticesInvariant == NoticesSpec => []NoticesInv
<1>1. NoticesInit => NoticesInv
  <2> SUFFICES ASSUME NoticesInit PROVE NoticesInv
    OBVIOUS
  <2>1. CatalogTypeInv
    BY CatalogTypesInit DEF NoticesInit
  <2>2. \A l \in Listings : ~Live(l)
    BY DeadRows DEF NoticesInit, CatalogInit, Live, Approvals
  <2>3. NoDecision.step = "idle"
    BY DEF NoDecision, Deciding
  <2>4. DecisionInv
    BY <2>2, <2>3
       DEF NoticesInit, DecisionInv, DecisionTypes, TellersKnow,
           DecisionsOfKnown, Holding
  <2>5. NoticeInv
    BY NoticesAssumption
       DEF NoticesInit, NoticeInv, NoticeTypes, NoticesToSeller,
           NoticesOfKnown, NewestExists, Of
  <2>6. NewestNoticeIsTrue
    BY <2>2 DEF NewestNoticeIsTrue
  <2>7. QED
    BY <2>1, <2>4, <2>5, <2>6 DEF NoticesInv
<1>2. QED
  BY <1>1, NoticesStep, PTL DEF NoticesSpec

\* The catalogue keeps its types with notices added, and a notice goes to the
\* seller of its listing.
THEOREM NoticesTypesHold == NoticesSpec => []NoticesTypeOK
BY NoticesInvariant, NoticesInvTypes, PTL

\* The newest notice of a listing is true, or a decision that holds is about to
\* be told, unless the seller was told late or never.
THEOREM NewestNoticeStaysTrue == NoticesSpec => []NewestNoticeIsTrue
<1>1. NoticesInv => NewestNoticeIsTrue
  BY DEF NoticesInv
<1>2. QED
  BY <1>1, NoticesInvariant, PTL

\* The decisions of Notifications, each taken in three statements, implement
\* the decisions that the catalogue lets come at any moment.
THEOREM NoticesImplementCatalog == NoticesSpec => CatalogSpec
<1>1. NoticesInit => CatalogInit
  BY DEF NoticesInit
<1>2. NoticesInv /\ [NoticesNext]_systemVars => [CatalogNext]_catalogVars
  BY NoticesAreCatalog
<1>3. QED
  BY <1>1, <1>2, NoticesInvariant, PTL DEF NoticesSpec, CatalogSpec

\* So the listing of a resolved report is off show also when decisions overlap,
\* and what a viewer is listed, of the rows they leave, can be opened.
THEOREM NoticesKeepLists ==
    NoticesSpec => [](ListsAgreeWithPages /\ ResolvedIsOffShow)
BY NoticesImplementCatalog, CatalogTypesHold, ListsAgree, ResolvedStaysOffShow,
   PTL
=============================================================================

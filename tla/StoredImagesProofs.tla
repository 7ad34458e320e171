------------------------- MODULE StoredImagesProofs -------------------------
(***************************************************************************)
(* Invariants and theorems of StoredImages.                                *)
(***************************************************************************)
EXTENDS StoredImages, TLAPS

\* What the payload of a request keeps.
Spared(q) == IF q.owner \in Listings THEN Shown(q.payload) ELSE Named(q.payload)

ListingSteps == {"write", "clean", "removeClean", "remove"}
AvatarSteps == {"avatarClean", "avatar"}
BeforeWrite == {"write", "removeClean", "remove", "avatarClean", "avatar"}

\* Handlers stay with the row they began with, which once existed.
StepOK(r) ==
    /\ request[r] # Idle => request[r].owner \in live \cup removed
    /\ request[r].step \in ListingSteps => request[r].owner \in Listings
    /\ request[r].step \in AvatarSteps => request[r].owner \in Users
    /\ request[r].step \in {"removeClean", "remove"}
         => request[r].payload = Nothing

\* What is doomed is not kept by the same request.
SpareOK(r) ==
    request[r] # Idle => request[r].doomed \cap Spared(request[r]) = {}

\* A request on time knows everything its write is going to forget.
OweOK(r) ==
    request[r].step \in BeforeWrite /\ r \notin late
        => (Named(images[request[r].owner]) \cap store) \ Spared(request[r])
               \subseteq request[r].doomed

\* An update on time finds its own images while it cleans up.
CleanOK(r) ==
    request[r].step = "clean" /\ r \notin late
        => images[request[r].owner] = request[r].payload

HandlerOK(r) == StepOK(r) /\ SpareOK(r) /\ OweOK(r) /\ CleanOK(r)

ImagesInv == ImagesTypeOK /\ \A r \in Requests : HandlerOK(r)

-----------------------------------------------------------------------------
(* Facts the steps share.                                                  *)

\* Nothing is asked of an idle slot.
LEMMA IdleOK ==
    ASSUME NEW r \in Requests, request'[r] = Idle
    PROVE  HandlerOK(r)'
BY DEF HandlerOK, StepOK, SpareOK, OweOK, CleanOK, Idle, At, ListingSteps,
       AvatarSteps, BeforeWrite

\* A handler that does not move is disturbed by no change of other rows, and
\* by no asset of the store being destroyed.
LEMMA BystanderOK ==
    ASSUME ImagesInv, NEW r \in Requests, request'[r] = request[r],
           r \in late => r \in late',
           live \cup removed \subseteq live' \cup removed',
           r \notin late' /\ request[r] # Idle
             => /\ images'[request[r].owner] = images[request[r].owner]
                /\ Named(images[request[r].owner]) \cap store'
                      \subseteq store
    PROVE  HandlerOK(r)'
<1>1. StepOK(r)' /\ SpareOK(r)'
  BY DEF ImagesInv, HandlerOK, StepOK, SpareOK, Spared, Shown, Named
<1>2. CASE request[r] = Idle
  BY <1>2, IdleOK
<1>3. CASE request[r] # Idle
  <2>1. OweOK(r)'
    BY <1>3 DEF ImagesInv, HandlerOK, OweOK, Spared, Shown, Named
  <2>2. CleanOK(r)'
    BY <1>3 DEF ImagesInv, HandlerOK, CleanOK
  <2>3. QED
    BY <1>1, <2>1, <2>2 DEF HandlerOK
<1>4. QED
  BY <1>2, <1>3

\* A slot that is at some step holds a handler of some owner.
LEMMA BusyIsPending ==
    ASSUME ImagesTypeOK, NEW r \in Requests, request[r].step \in Steps
    PROVE  request[r] \in Pending /\ request[r] # Idle
BY DEF ImagesTypeOK, Idle, At, Pending, Steps

LEMMA NothingIsAPayload == Nothing \in Payloads /\ Shown(Nothing) = {}
BY DEF Nothing, Payloads, Shown

\* The start of a handler: it has read the rows and changes nothing.
LEMMA StartKeepsInv ==
    ASSUME ImagesInv, NEW r \in Requests, NEW next \in Pending,
           request[r] = Idle, Becomes(r, next),
           next.doomed \cup Shown(next.payload) \subseteq uploaded,
           next.step \in {"remove", "avatar"} => next.doomed = {},
           HandlerOK(r)',
           UNCHANGED <<store, uploaded, rowVars, late>>
    PROVE  ImagesInv'
<1>1. /\ request'[r] = next
      /\ \A q \in Requests : q # r => request'[q] = request[q]
  BY DEF ImagesInv, ImagesTypeOK, Becomes
<1>2. ImagesTypeOK'
  BY <1>1 DEF ImagesInv, ImagesTypeOK, rowVars, Becomes
<1>3. ASSUME NEW q \in Requests, q # r  PROVE HandlerOK(q)'
  BY <1>1, <1>3, BystanderOK DEF rowVars
<1>4. QED
  BY <1>2, <1>3 DEF ImagesInv

\* The end of a handler that changes no row.
LEMMA EndKeepsInv ==
    ASSUME ImagesInv, NEW r \in Requests, Ends(r), store' \subseteq store,
           UNCHANGED <<uploaded, rowVars>>
    PROVE  ImagesInv'
<1>1. /\ request'[r] = Idle
      /\ \A q \in Requests : q # r => request'[q] = request[q]
  BY DEF ImagesInv, ImagesTypeOK, Ends, Becomes
<1>2. ImagesTypeOK'
  BY <1>1, NothingIsAPayload
     DEF ImagesInv, ImagesTypeOK, rowVars, Ends, Becomes, Idle, At
<1>3. ASSUME NEW q \in Requests  PROVE HandlerOK(q)'
  <2>1. CASE q = r
    BY <1>1, <2>1, IdleOK
  <2>2. CASE q # r
    BY <1>1, <2>2, BystanderOK DEF rowVars, Ends
  <2>3. QED
    BY <2>1, <2>2
<1>4. QED
  BY <1>2, <1>3 DEF ImagesInv

\* A write of the rows of o: whoever else had read them is late.
LEMMA WriteKeepsOthers ==
    ASSUME ImagesInv, NEW r \in Requests, NEW o \in Owners, NEW next,
           Becomes(r, next), Overtakes(r, o),
           \A p \in Owners \ {o} : images'[p] = images[p],
           UNCHANGED store, live \cup removed \subseteq live' \cup removed',
           NEW q \in Requests, q # r
    PROVE  HandlerOK(q)'
<1>1. request'[q] = request[q]
  BY DEF ImagesInv, ImagesTypeOK, Becomes
<1>2. q \in late \/ request[q].owner = o => q \in late'
  BY DEF Overtakes
<1>3. request[q] # Idle => request[q].owner \in Owners
  BY DEF ImagesInv, ImagesTypeOK, Pending
<1>4. QED
  BY <1>1, <1>2, <1>3, BystanderOK

-----------------------------------------------------------------------------
(* Every step preserves the invariant.                                     *)

LEMMA UploadKeeps ==
    ASSUME ImagesInv, NEW a \in Assets, Upload(a)
    PROVE  ImagesInv'
<1>1. ImagesTypeOK'
  BY DEF ImagesInv, ImagesTypeOK, Upload, rowVars
<1>2. ASSUME NEW q \in Requests  PROVE HandlerOK(q)'
  <2>1. request[q] # Idle => request[q].owner \in Owners
    BY DEF ImagesInv, ImagesTypeOK, Pending
  <2>2. request[q] # Idle
          => Named(images[request[q].owner]) \cap store' \subseteq store
    BY <2>1 DEF ImagesInv, ImagesTypeOK, Upload, Named, Shown
  <2>3. QED
    BY <2>2, BystanderOK DEF Upload, rowVars
<1>3. QED
  BY <1>1, <1>2 DEF ImagesInv

LEMMA CreateKeeps ==
    ASSUME ImagesInv, NEW l \in Listings, NEW p \in Payloads,
           CreateListing(l, p)
    PROVE  ImagesInv'
<1>1. /\ l \in Owners /\ images'[l] = p
      /\ \A o \in Owners \ {l} : images'[o] = images[o]
      /\ Shown(p) \subseteq uploaded
  BY DEF ImagesInv, ImagesTypeOK, CreateListing, Sendable, Owners
<1>2. ImagesTypeOK'
  <2>1. images' \in [Owners -> Payloads]
    BY DEF ImagesInv, ImagesTypeOK, CreateListing
  <2>2. \A o \in Owners : Shown(images'[o]) \subseteq uploaded
    BY <1>1 DEF ImagesInv, ImagesTypeOK
  <2>3. \A o \in Owners \ live' : images'[o] = Nothing
    BY <1>1 DEF ImagesInv, ImagesTypeOK, CreateListing
  <2>4. live' \subseteq Owners /\ Users \subseteq live'
        /\ removed' \subseteq Listings \ live'
    BY <1>1 DEF ImagesInv, ImagesTypeOK, CreateListing
  <2>5. QED
    BY <2>1, <2>2, <2>3, <2>4 DEF ImagesInv, ImagesTypeOK, CreateListing
<1>3. ASSUME NEW q \in Requests  PROVE HandlerOK(q)'
  <2>1. /\ request[q] # Idle => request[q].owner \in Owners
        /\ request[q] # Idle => request[q].owner # l
    BY DEF ImagesInv, ImagesTypeOK, Pending, HandlerOK, StepOK, CreateListing
  <2>2. /\ live \cup removed \subseteq live' \cup removed'
        /\ request' = request /\ late' = late /\ store' = store
    BY DEF CreateListing
  <2>3. QED
    BY <1>1, <2>1, <2>2, BystanderOK
<1>4. QED
  BY <1>2, <1>3 DEF ImagesInv

LEMMA UpdateReadKeeps ==
    ASSUME ImagesInv, NEW r \in Requests, NEW l \in Listings,
           NEW p \in Payloads, UpdateRead(r, l, p)
    PROVE  ImagesInv'
<1> DEFINE next == At("write", l, p, Dropped(images[l], p))
<1>1. /\ next \in Pending /\ l \in Owners
      /\ Named(images[l]) \subseteq uploaded
      /\ Shown(p) \subseteq uploaded
  BY DEF ImagesInv, ImagesTypeOK, UpdateRead, Sendable, At, Pending, Steps,
         Dropped, Named, Shown, Owners
<1>2. request'[r] = next
  BY DEF ImagesInv, ImagesTypeOK, UpdateRead, Becomes
<1>3. HandlerOK(r)'
  BY <1>1, <1>2 DEF HandlerOK, StepOK, SpareOK, OweOK, CleanOK, Spared, At,
     ListingSteps, AvatarSteps, BeforeWrite, Dropped, UpdateRead, rowVars
<1>4. QED
  BY <1>1, <1>3, StartKeepsInv DEF UpdateRead, At, Dropped

LEMMA UpdateWriteKeeps ==
    ASSUME ImagesInv, NEW r \in Requests, UpdateWrite(r)
    PROVE  ImagesInv'
<1> DEFINE q == request[r]
           next == IF q.doomed = {} THEN Idle ELSE [q EXCEPT !.step = "clean"]
<1>1. /\ q \in Pending /\ q # Idle
      /\ q.owner \in Listings
      /\ next \in Pending \cup {Idle}
      /\ q.doomed \cup Shown(q.payload) \subseteq uploaded
  BY BusyIsPending DEF UpdateWrite, Steps, ImagesInv, ImagesTypeOK, HandlerOK,
     StepOK, ListingSteps, Pending
<1>2. /\ request' = [request EXCEPT ![r] = next]
      /\ request'[r] = next
      /\ images' = [images EXCEPT ![q.owner] = q.payload]
      /\ q.owner \in Owners /\ images'[q.owner] = q.payload
      /\ \A o \in Owners \ {q.owner} : images'[o] = images[o]
  BY <1>1 DEF UpdateWrite, Becomes, ImagesInv, ImagesTypeOK, Owners
<1>3. ImagesTypeOK'
  <2>1. images' \in [Owners -> Payloads]
    BY <1>1, <1>2 DEF ImagesInv, ImagesTypeOK, Pending
  <2>2. \A o \in Owners : /\ Shown(images'[o]) \subseteq uploaded
                          /\ o \notin live => images'[o] = Nothing
    BY <1>1, <1>2 DEF ImagesInv, ImagesTypeOK, UpdateWrite, RowFound
  <2>3. \A x \in Requests :
          /\ request'[x].doomed \cup Shown(request'[x].payload) \subseteq uploaded
          /\ request'[x].step \in {"remove", "avatar"}
               => request'[x].doomed = {}
    BY <1>1, <1>2, NothingIsAPayload
       DEF ImagesInv, ImagesTypeOK, Idle, At, Pending
  <2>4. late' \subseteq Requests /\ request' \in [Requests -> Pending \cup {Idle}]
    BY <1>1, <1>2 DEF UpdateWrite, Overtakes, ImagesInv, ImagesTypeOK
  <2>5. QED
    BY <2>1, <2>2, <2>3, <2>4 DEF UpdateWrite, ImagesInv, ImagesTypeOK
<1>4. HandlerOK(r)'
  <2>1. CASE q.doomed = {}
    BY <1>2, <2>1, IdleOK
  <2>2. CASE q.doomed # {}
    BY <1>1, <1>2, <2>2
       DEF UpdateWrite, ImagesInv, HandlerOK, StepOK, SpareOK, OweOK, CleanOK,
           Spared, ListingSteps, AvatarSteps, BeforeWrite, Pending
  <2>3. QED
    BY <2>1, <2>2
<1>5. ASSUME NEW x \in Requests, x # r  PROVE HandlerOK(x)'
  BY <1>2, <1>5, WriteKeepsOthers DEF UpdateWrite
<1>6. QED
  BY <1>3, <1>4, <1>5 DEF ImagesInv

LEMMA RemoveReadKeeps ==
    ASSUME ImagesInv, NEW r \in Requests, NEW l \in Listings, RemoveRead(r, l)
    PROVE  ImagesInv'
<1> DEFINE doomed == Named(images[l])
           next == At(IF doomed = {} THEN "remove" ELSE "removeClean",
                      l, Nothing, doomed)
<1>1. /\ next \in Pending /\ l \in Owners
      /\ doomed \subseteq uploaded
  BY NothingIsAPayload
     DEF ImagesInv, ImagesTypeOK, RemoveRead, At, Pending, Steps, Named, Shown,
         Owners
<1>2. request'[r] = next
  BY DEF ImagesInv, ImagesTypeOK, RemoveRead, RemoveDooms, Becomes
<1>3. HandlerOK(r)'
  BY <1>1, <1>2, NothingIsAPayload
     DEF HandlerOK, StepOK, SpareOK, OweOK, CleanOK, Spared, At, ListingSteps,
         AvatarSteps, BeforeWrite, RemoveRead, rowVars
<1>4. QED
  BY <1>1, <1>3, NothingIsAPayload, StartKeepsInv
     DEF RemoveRead, RemoveDooms, At

LEMMA RemoveWriteKeeps ==
    ASSUME ImagesInv, NEW r \in Requests, RemoveWrite(r)
    PROVE  ImagesInv'
<1> DEFINE l == request[r].owner
<1>1. l \in Listings /\ l \in Owners /\ l \notin Users
  BY ImagesAssumption
     DEF RemoveWrite, ImagesInv, HandlerOK, StepOK, ListingSteps, Owners
<1>2. /\ request' = [request EXCEPT ![r] = Idle]
      /\ request'[r] = Idle
      /\ images' = [images EXCEPT ![l] = Nothing]
      /\ images'[l] = Nothing
      /\ \A o \in Owners \ {l} : images'[o] = images[o]
  BY <1>1 DEF RemoveWrite, Becomes, ImagesInv, ImagesTypeOK
<1>3. ImagesTypeOK'
  <2>1. images' \in [Owners -> Payloads]
    BY <1>1, <1>2, NothingIsAPayload DEF ImagesInv, ImagesTypeOK
  <2>2. \A o \in Owners : /\ Shown(images'[o]) \subseteq uploaded
                          /\ o \notin live' => images'[o] = Nothing
    BY <1>1, <1>2, NothingIsAPayload DEF ImagesInv, ImagesTypeOK, RemoveWrite
  <2>3. \A x \in Requests :
          /\ request'[x].doomed \cup Shown(request'[x].payload) \subseteq uploaded
          /\ request'[x].step \in {"remove", "avatar"}
               => request'[x].doomed = {}
    BY <1>2, NothingIsAPayload DEF ImagesInv, ImagesTypeOK, Idle, At
  <2>4. late' \subseteq Requests /\ request' \in [Requests -> Pending \cup {Idle}]
    BY <1>2 DEF RemoveWrite, Overtakes, ImagesInv, ImagesTypeOK
  <2>5. /\ Users \subseteq live' /\ live' \subseteq Owners
        /\ removed' \subseteq Listings \ live'
    BY <1>1 DEF RemoveWrite, ImagesInv, ImagesTypeOK
  <2>6. QED
    BY <2>1, <2>2, <2>3, <2>4, <2>5 DEF RemoveWrite, ImagesInv, ImagesTypeOK
<1>4. ASSUME NEW x \in Requests, x # r  PROVE HandlerOK(x)'
  BY <1>1, <1>2, <1>4, WriteKeepsOthers DEF RemoveWrite
<1>5. QED
  BY <1>2, <1>3, <1>4, IdleOK DEF ImagesInv

LEMMA AvatarReadKeeps ==
    ASSUME ImagesInv, NEW r \in Requests, NEW u \in Users,
           NEW p \in Payloads, AvatarRead(r, u, p)
    PROVE  ImagesInv'
<1> DEFINE doomed == Replaced(images[u], p)
           next == At(IF doomed = {} THEN "avatar" ELSE "avatarClean",
                      u, p, doomed)
<1>1. /\ next \in Pending /\ u \in Owners /\ u \notin Listings
      /\ u \in live
      /\ Named(images[u]) \subseteq uploaded
      /\ Shown(p) \subseteq uploaded
  BY ImagesAssumption
     DEF ImagesInv, ImagesTypeOK, AvatarRead, Sendable, At, Pending, Steps,
         Replaced, Named, Shown, Owners
<1>2. request'[r] = next
  BY DEF ImagesInv, ImagesTypeOK, AvatarRead, Becomes
<1>3. HandlerOK(r)'
  BY <1>1, <1>2
     DEF HandlerOK, StepOK, SpareOK, OweOK, CleanOK, Spared, At, ListingSteps,
         AvatarSteps, BeforeWrite, Replaced, AvatarRead, rowVars
<1>4. QED
  BY <1>1, <1>3, StartKeepsInv DEF AvatarRead, At, Replaced

LEMMA AvatarWriteKeeps ==
    ASSUME ImagesInv, NEW r \in Requests, AvatarWrite(r)
    PROVE  ImagesInv'
<1> DEFINE q == request[r]
<1>1. /\ q \in Pending
      /\ q.owner \in Users /\ q.owner \in Owners /\ q.owner \in live
      /\ Shown(q.payload) \subseteq uploaded
  BY BusyIsPending DEF AvatarWrite, Steps, ImagesInv, ImagesTypeOK, HandlerOK,
     StepOK, AvatarSteps, Owners
<1>2. /\ request' = [request EXCEPT ![r] = Idle]
      /\ request'[r] = Idle
      /\ images' = [images EXCEPT ![q.owner] = q.payload]
      /\ images'[q.owner] = q.payload
      /\ \A o \in Owners \ {q.owner} : images'[o] = images[o]
  BY <1>1 DEF AvatarWrite, Becomes, ImagesInv, ImagesTypeOK
<1>3. ImagesTypeOK'
  <2>1. images' \in [Owners -> Payloads]
    BY <1>1, <1>2 DEF ImagesInv, ImagesTypeOK, Pending
  <2>2. \A o \in Owners : /\ Shown(images'[o]) \subseteq uploaded
                          /\ o \notin live => images'[o] = Nothing
    BY <1>1, <1>2 DEF ImagesInv, ImagesTypeOK
  <2>3. \A x \in Requests :
          /\ request'[x].doomed \cup Shown(request'[x].payload) \subseteq uploaded
          /\ request'[x].step \in {"remove", "avatar"}
               => request'[x].doomed = {}
    BY <1>2, NothingIsAPayload DEF ImagesInv, ImagesTypeOK, Idle, At
  <2>4. late' \subseteq Requests /\ request' \in [Requests -> Pending \cup {Idle}]
    BY <1>2 DEF AvatarWrite, Overtakes, ImagesInv, ImagesTypeOK
  <2>5. QED
    BY <2>1, <2>2, <2>3, <2>4 DEF AvatarWrite, ImagesInv, ImagesTypeOK
<1>4. ASSUME NEW x \in Requests, x # r  PROVE HandlerOK(x)'
  BY <1>1, <1>2, <1>4, WriteKeepsOthers DEF AvatarWrite
<1>5. QED
  BY <1>2, <1>3, <1>4, IdleOK DEF ImagesInv

\* A handler that goes on with fewer destructions to wait for.
LEMMA CleaningKeeps ==
    ASSUME ImagesInv, NEW r \in Requests, NEW a \in Assets, NEW next \in Pending,
           Cleaning(r), Becomes(r, next), late' = late,
           store' = store \ {a} \/ (store' = store /\ next.step \notin BeforeWrite),
           next.owner = request[r].owner, next.payload = request[r].payload,
           next.doomed = request[r].doomed \ {a},
           next.step \in {"remove", "avatar"} => next.doomed = {},
           \/ next.step = request[r].step
           \/ next.step = "failed"
           \/ request[r].step = "removeClean" /\ next.step = "remove"
           \/ request[r].step = "avatarClean" /\ next.step = "avatar",
           UNCHANGED <<uploaded, rowVars>>
    PROVE  ImagesInv'
<1> DEFINE q == request[r]
<1>1. /\ q \in Pending /\ q # Idle
      /\ q.step \in {"clean", "removeClean", "avatarClean", "failed"}
      /\ q.doomed \cup Shown(q.payload) \subseteq uploaded
  BY BusyIsPending DEF Cleaning, Steps, ImagesInv, ImagesTypeOK
<1>2. /\ request'[r] = next
      /\ \A x \in Requests : x # r => request'[x] = request[x]
  BY DEF ImagesInv, ImagesTypeOK, Becomes
<1>3. ImagesTypeOK'
  <2>1. store' \subseteq uploaded
    BY DEF ImagesInv, ImagesTypeOK
  <2>2. request' \in [Requests -> Pending \cup {Idle}]
    BY DEF ImagesInv, ImagesTypeOK, Becomes
  <2>3. \A x \in Requests :
          /\ request'[x].doomed \cup Shown(request'[x].payload) \subseteq uploaded
          /\ request'[x].step \in {"remove", "avatar"}
               => request'[x].doomed = {}
    BY <1>1, <1>2 DEF ImagesInv, ImagesTypeOK
  <2>4. QED
    BY <2>1, <2>2, <2>3 DEF ImagesInv, ImagesTypeOK, rowVars
<1>4. HandlerOK(r)'
  <2>1. /\ StepOK(r) /\ SpareOK(r) /\ OweOK(r) /\ CleanOK(r)
    BY DEF ImagesInv, HandlerOK
  <2>2. StepOK(r)'
    BY <1>1, <1>2, <2>1 DEF StepOK, ListingSteps, AvatarSteps, rowVars
  <2>3. SpareOK(r)'
    BY <1>1, <1>2, <2>1 DEF SpareOK, Spared
  <2>4. CleanOK(r)'
    BY <1>1, <1>2, <2>1 DEF CleanOK, rowVars
  <2>5. OweOK(r)'
    BY <1>1, <1>2, <2>1 DEF OweOK, Spared, BeforeWrite, rowVars
  <2>6. QED
    BY <2>2, <2>3, <2>4, <2>5 DEF HandlerOK
<1>5. ASSUME NEW x \in Requests, x # r  PROVE HandlerOK(x)'
  BY <1>2, <1>5, BystanderOK DEF rowVars
<1>6. QED
  BY <1>3, <1>4, <1>5 DEF ImagesInv

LEMMA DestroyKeeps ==
    ASSUME ImagesInv, NEW r \in Requests, NEW a \in Assets, DestroyImage(r, a)
    PROVE  ImagesInv'
<1> DEFINE q == request[r]
           next == Continues(q, q.doomed \ {a})
<1>1. /\ q \in Pending
      /\ q.step \in {"clean", "removeClean", "avatarClean", "failed"}
  BY BusyIsPending DEF DestroyImage, Cleaning, Steps, ImagesInv, ImagesTypeOK
<1>2. CASE next = Idle
  BY <1>2, EndKeepsInv DEF DestroyImage, Ends
<1>3. CASE next # Idle
  <2>1. /\ next \in Pending
        /\ next.owner = q.owner /\ next.payload = q.payload
        /\ next.doomed = q.doomed \ {a}
        /\ next.step \in {"remove", "avatar"} => next.doomed = {}
        /\ \/ next.step = q.step
           \/ q.step = "removeClean" /\ next.step = "remove"
           \/ q.step = "avatarClean" /\ next.step = "avatar"
    BY <1>1, <1>3 DEF Continues, At, Pending, Steps
  <2>2. /\ Cleaning(r) /\ Becomes(r, next) /\ late' = late
        /\ store' = store \ {a}
        /\ UNCHANGED <<uploaded, rowVars>>
    BY <1>3 DEF DestroyImage
  <2> HIDE DEF next
  <2>3. QED
    BY <2>1, <2>2, CleaningKeeps
<1>4. QED
  BY <1>2, <1>3

LEMMA DestroyFailsKeeps ==
    ASSUME ImagesInv, NEW r \in Requests, NEW a \in Assets, DestroyFails(r, a)
    PROVE  ImagesInv'
<1> DEFINE q == request[r]
           next == At(IF q.step = "clean" THEN "clean" ELSE "failed",
                      q.owner, q.payload, q.doomed \ {a})
<1>1. /\ q \in Pending
      /\ q.step \in {"clean", "removeClean", "avatarClean", "failed"}
  BY BusyIsPending DEF DestroyFails, Cleaning, Steps, ImagesInv, ImagesTypeOK
<1>2. CASE q.doomed \ {a} = {}
  BY <1>2, EndKeepsInv DEF DestroyFails
<1>3. CASE q.doomed \ {a} # {}
  <2>1. /\ next \in Pending
        /\ next.owner = q.owner /\ next.payload = q.payload
        /\ next.doomed = q.doomed \ {a}
        /\ next.step \in {"failed", q.step} \cap {"failed", "clean"}
    BY <1>1 DEF At, Pending, Steps
  <2>2. /\ Cleaning(r) /\ Becomes(r, next) /\ late' = late
        /\ UNCHANGED <<store, uploaded, rowVars>>
    BY <1>3 DEF DestroyFails
  <2>3. next.step \notin BeforeWrite \cup {"remove", "avatar"}
    BY <2>1 DEF BeforeWrite
  <2> HIDE DEF next
  <2>4. QED
    BY <2>1, <2>2, <2>3, CleaningKeeps
<1>4. QED
  BY <1>2, <1>3

LEMMA InitialInv == ImagesInit => ImagesInv
<1> SUFFICES ASSUME ImagesInit  PROVE ImagesInv
  OBVIOUS
<1>1. ImagesTypeOK
  BY ImagesAssumption, NothingIsAPayload
     DEF ImagesInit, ImagesTypeOK, Owners, Idle, At
<1>2. ASSUME NEW r \in Requests  PROVE HandlerOK(r)
  BY <1>2 DEF ImagesInit, HandlerOK, StepOK, SpareOK, OweOK, CleanOK, Idle, At,
     ListingSteps, AvatarSteps, BeforeWrite
<1>3. QED
  BY <1>1, <1>2 DEF ImagesInv

LEMMA NextInv == ImagesInv /\ [ImagesNext]_imageVars => ImagesInv'
<1> SUFFICES ASSUME ImagesInv, [ImagesNext]_imageVars  PROVE ImagesInv'
  OBVIOUS
<1>1. ASSUME NEW r \in Requests, ListingStep(r)  PROVE ImagesInv'
  BY <1>1, UpdateReadKeeps, UpdateWriteKeeps, RemoveReadKeeps, RemoveWriteKeeps
     DEF ListingStep
<1>2. ASSUME NEW r \in Requests, AvatarStep(r)  PROVE ImagesInv'
  BY <1>2, AvatarReadKeeps, AvatarWriteKeeps DEF AvatarStep
<1>3. ASSUME NEW r \in Requests, StoreStep(r)  PROVE ImagesInv'
  BY <1>3, DestroyKeeps, DestroyFailsKeeps DEF StoreStep
<1>4. ASSUME NEW r \in Requests, RequestFails(r)  PROVE ImagesInv'
  BY <1>4, EndKeepsInv DEF RequestFails
<1>5. ASSUME NEW a \in Assets, Upload(a)  PROVE ImagesInv'
  BY <1>5, UploadKeeps
<1>6. ASSUME NEW l \in Listings, NEW p \in Payloads, CreateListing(l, p)
      PROVE  ImagesInv'
  BY <1>6, CreateKeeps
<1>7. CASE UNCHANGED imageVars
  BY <1>7 DEF imageVars, rowVars, ImagesInv, ImagesTypeOK, HandlerOK, StepOK, SpareOK,
     OweOK, CleanOK, Spared, Shown, Named
<1>8. QED
  BY <1>1, <1>2, <1>3, <1>4, <1>5, <1>6, <1>7 DEF ImagesNext

-----------------------------------------------------------------------------
(* Theorems.                                                               *)

\* The inductive invariant: what handlers that are on time still know of the
\* rows they have read.
THEOREM ImagesInvariant == ImagesSpec => []ImagesInv
BY InitialInv, NextInv, PTL DEF ImagesSpec

\* Rows, assets and handlers keep their types, and listings that are gone show
\* nothing (ImagesTypeOK).
THEOREM ImagesTypeCorrect == ImagesSpec => []ImagesTypeOK
BY ImagesInvariant, PTL DEF ImagesInv

\* Only destroyImage takes assets out of the store.
LEMMA WhoDestroys ==
    ASSUME ImagesInv, [ImagesNext]_imageVars, NEW a \in store \ store'
    PROVE  \E r \in Requests : Cleaning(r) /\ a \in request[r].doomed
BY DEF ImagesInv, ImagesTypeOK, ImagesNext, ListingStep, AvatarStep, StoreStep,
       imageVars, Upload, CreateListing, UpdateRead, UpdateWrite, RemoveRead,
       RemoveWrite, AvatarRead, AvatarWrite, DestroyImage, DestroyFails,
       RequestFails

\* An update that is not overtaken destroys nothing that its listing shows
\* (listings.service.ts, update).
THEOREM ShownImagesAreKept == ImagesSpec => ShownIsKept
<1>1. ASSUME ImagesInv, [ImagesNext]_imageVars, NEW a \in store \ store',
             NEW l \in Listings, a \in Shown(images[l])
      PROVE  \E r \in Requests :
                 /\ a \in request[r].doomed
                 /\ \/ request[r].owner # l
                    \/ r \in late
                    \/ request[r].step # "clean"
  <2>1. PICK r \in Requests : Cleaning(r) /\ a \in request[r].doomed
    BY <1>1, WhoDestroys
  <2>2. request[r] \in Pending /\ request[r] # Idle
    BY <1>1, <2>1, BusyIsPending DEF Cleaning, Steps, ImagesInv
  <2>3. SpareOK(r) /\ CleanOK(r)
    BY <1>1 DEF ImagesInv, HandlerOK
  <2>4. QED
    BY <1>1, <2>1, <2>2, <2>3 DEF SpareOK, CleanOK, Spared
<1>2. ImagesInv /\ [ImagesNext]_imageVars
        => [\A a \in store \ store', l \in Listings :
              a \in Shown(images[l])
                => \E r \in Requests :
                     /\ a \in request[r].doomed
                     /\ \/ request[r].owner # l
                        \/ r \in late
                        \/ request[r].step # "clean"]_imageVars
  BY <1>1
<1>3. QED
  BY <1>2, ImagesInvariant, PTL DEF ImagesSpec, ShownIsKept

\* No request destroys what it stores itself, by the comparison that its
\* handler makes (listings.service.ts, update; users.service.ts, updateMe).
THEOREM OwnImagesAreKept == ImagesSpec => OwnIsKept
<1>1. ASSUME ImagesInv, [ImagesNext]_imageVars, NEW a \in store \ store'
      PROVE  \E r \in Requests :
                 /\ a \in request[r].doomed
                 /\ request[r].payload[a] # "named"
                 /\ request[r].owner \in Listings
                      => request[r].payload[a] = "absent"
  <2>1. PICK r \in Requests : Cleaning(r) /\ a \in request[r].doomed
    BY <1>1, WhoDestroys
  <2>2. request[r] \in Pending /\ request[r] # Idle /\ a \in Assets
    BY <1>1, <2>1, BusyIsPending DEF Cleaning, Steps, ImagesInv, ImagesTypeOK
  <2>3. SpareOK(r)
    BY <1>1 DEF ImagesInv, HandlerOK
  <2>4. QED
    BY <2>1, <2>2, <2>3 DEF SpareOK, Spared, Shown, Named
<1>2. ImagesInv /\ [ImagesNext]_imageVars
        => [\A a \in store \ store' :
              \E r \in Requests :
                 /\ a \in request[r].doomed
                 /\ request[r].payload[a] # "named"
                 /\ request[r].owner \in Listings
                      => request[r].payload[a] = "absent"]_imageVars
  BY <1>1
<1>3. QED
  BY <1>2, ImagesInvariant, PTL DEF ImagesSpec, OwnIsKept

\* Only the three writes take a name off a row.
LEMMA WhoForgets ==
    ASSUME ImagesInv, [ImagesNext]_imageVars, NEW o \in Owners,
           NEW a \in Named(images[o]) \ Named(images'[o])
    PROVE  \E r \in Requests :
               /\ request[r].owner = o
               /\ UpdateWrite(r) \/ RemoveWrite(r) \/ AvatarWrite(r)
<1>1. images'[o] # images[o]
  BY DEF Named
<1>2. CASE \E r \in Requests :
             UpdateWrite(r) \/ RemoveWrite(r) \/ AvatarWrite(r)
  BY <1>1, <1>2 DEF ImagesInv, ImagesTypeOK, UpdateWrite, RemoveWrite,
     AvatarWrite
<1>3. CASE \E l \in Listings, p \in Payloads : CreateListing(l, p)
  <2>1. PICK l \in Listings, p \in Payloads : CreateListing(l, p)
    BY <1>3
  <2>2. images[l] = Nothing /\ (o # l => images'[o] = images[o])
    BY <2>1 DEF CreateListing, ImagesInv, ImagesTypeOK, Owners
  <2>3. QED
    BY <1>1, <2>2 DEF Named, Nothing
<1>4. QED
  BY <1>1, <1>2, <1>3
     DEF ImagesNext, ListingStep, AvatarStep, StoreStep, imageVars, rowVars,
         Upload, UpdateRead, RemoveRead, AvatarRead, DestroyImage,
         DestroyFails, RequestFails

\* A handler that is not overtaken leaves no asset behind that its rows have
\* named (listings.service.ts, update and remove; users.service.ts, updateMe).
THEOREM ForgottenImagesAreDestroyed == ImagesSpec => ForgottenIsDestroyed
<1>1. ASSUME ImagesInv, [ImagesNext]_imageVars, NEW a \in store',
             NEW o \in Owners, a \in Named(images[o]) \ Named(images'[o])
      PROVE  \/ a \in Shown(images'[o])
             \/ \E r \in Requests :
                  /\ request[r].owner = o /\ request'[r] # request[r]
                  /\ r \in late \/ a \in request'[r].doomed
  <2>1. PICK r \in Requests :
               /\ request[r].owner = o
               /\ UpdateWrite(r) \/ RemoveWrite(r) \/ AvatarWrite(r)
    BY <1>1, WhoForgets
  <2>2. /\ request[r] \in Pending /\ store' = store
        /\ request[r].step \in {"write", "remove", "avatar"}
        /\ request'[r].step \notin {"write", "remove", "avatar"}
    BY <1>1, <2>1, BusyIsPending
       DEF UpdateWrite, RemoveWrite, AvatarWrite, Steps, Becomes, Idle, At,
           ImagesInv, ImagesTypeOK, Pending
  <2>3. request'[r] # request[r]
    BY <2>2
  <2>4. r \notin late
          => (Named(images[o]) \cap store) \ Spared(request[r])
                \subseteq request[r].doomed
    BY <1>1, <2>1, <2>2 DEF ImagesInv, HandlerOK, OweOK, BeforeWrite
  <2>5. CASE UpdateWrite(r)
    <3>1. images'[o] = request[r].payload /\ request[r].owner \in Listings
      BY <1>1, <2>1, <2>5
         DEF UpdateWrite, ImagesInv, ImagesTypeOK, HandlerOK, StepOK,
             ListingSteps
    <3>2. request[r].doomed # {} => request'[r].doomed = request[r].doomed
      BY <1>1, <2>2, <2>5
         DEF UpdateWrite, Becomes, ImagesInv, ImagesTypeOK, Pending
    <3>3. QED
      BY <1>1, <2>1, <2>2, <2>3, <2>4, <3>1, <3>2 DEF Spared
  <2>6. CASE RemoveWrite(r) \/ AvatarWrite(r)
    <3>1. request[r].doomed = {}
      BY <1>1, <2>6 DEF RemoveWrite, AvatarWrite, ImagesInv, ImagesTypeOK
    <3>2. a \notin Spared(request[r])
      <4>1. CASE RemoveWrite(r)
        BY <1>1, <4>1, NothingIsAPayload
           DEF RemoveWrite, ImagesInv, HandlerOK, StepOK, ListingSteps, Spared
      <4>2. CASE AvatarWrite(r)
        BY <1>1, <2>1, <4>2, ImagesAssumption
           DEF AvatarWrite, ImagesInv, ImagesTypeOK, HandlerOK, StepOK,
               AvatarSteps, Spared
      <4>3. QED
        BY <2>6, <4>1, <4>2
    <3>3. QED
      BY <1>1, <2>1, <2>2, <2>3, <2>4, <3>1, <3>2
  <2>7. QED
    BY <2>1, <2>5, <2>6
<1>2. ImagesInv /\ [ImagesNext]_imageVars
        => [\A a \in store', o \in Owners :
              a \in Named(images[o]) \ Named(images'[o])
                => \/ a \in Shown(images'[o])
                   \/ \E r \in Requests :
                        /\ request[r].owner = o /\ request'[r] # request[r]
                        /\ r \in late \/ a \in request'[r].doomed]_imageVars
  BY <1>1
<1>3. QED
  BY <1>2, ImagesInvariant, PTL DEF ImagesSpec, ForgottenIsDestroyed
=============================================================================

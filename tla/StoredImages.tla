---------------------------- MODULE StoredImages ----------------------------
(***************************************************************************)
(* The assets in the image store (CloudinaryService) and the rows that     *)
(* refer to them: the images of listings (ListingsService create, update,  *)
(* remove) and the avatars of users (UsersService.updateMe).               *)
(*                                                                         *)
(* The store and the database share no transaction.  update writes first   *)
(* and destroys afterwards; remove and updateMe destroy first.  What is    *)
(* destroyed is computed from a read at the start of the request.          *)
(***************************************************************************)
EXTENDS Naturals, FiniteSets

CONSTANTS
    Listings,
    Users,
    Assets,     \* what an upload returns: a url and its public id
    Requests,   \* request slots
    NoValue     \* stands for "none" in a record

ASSUME ImagesAssumption ==
    /\ Listings \cap Users = {}
    /\ NoValue \notin Listings \cup Users

VARIABLES
    store,     \* assets in the image store
    uploaded,  \* assets that have ever been there
    live,      \* listings and users whose row exists
    removed,   \* listings that have been deleted
    images,    \* images[o]: how the rows of o refer to each asset
    request,   \* request[r]: the handler that slot r is inside of
    late       \* history: requests whose owner's rows were written after
               \*          they had read them

imageVars == <<store, uploaded, live, removed, images, request, late>>
rowVars == <<live, removed, images>>

Owners == Listings \cup Users

\* A row stores the url, and the public id when the client has sent it.
Payloads == [Assets -> {"absent", "url", "named"}]
Nothing == [a \in Assets |-> "absent"]
Shown(p) == {a \in Assets : p[a] # "absent"}
Named(p) == {a \in Assets : p[a] = "named"}

\* Clients send what an upload has once returned to them, and one avatar.
Sendable(o) ==
    {p \in Payloads : /\ Shown(p) \subseteq uploaded
                      /\ o \in Users => Cardinality(Shown(p)) <= 1}

\* doomed are the assets whose destruction has been asked for.
At(step, o, payload, doomed) ==
    [step |-> step, owner |-> o, payload |-> payload, doomed |-> doomed]
Idle == At("idle", NoValue, Nothing, {})
Steps == {"write", "clean", "removeClean", "remove", "avatarClean", "avatar",
          "failed"}
Pending == [step : Steps, owner : Owners, payload : Payloads,
            doomed : SUBSET Assets]

ImagesInit ==
    /\ store = {} /\ uploaded = {}
    /\ live = Users /\ removed = {}
    /\ images = [o \in Owners |-> Nothing]
    /\ request = [r \in Requests |-> Idle]
    /\ late = {}

Becomes(r, next) == request' = [request EXCEPT ![r] = next]
Ends(r) == Becomes(r, Idle) /\ late' = late \ {r}

\* r has written the rows of o: others that had read them are late.
Overtakes(r, o) ==
    late' = IF request'[r] = Idle
              THEN (late \cup {q \in Requests : request[q].owner = o}) \ {r}
              ELSE late \cup {q \in Requests \ {r} : request[q].owner = o}

-----------------------------------------------------------------------------
(* UploadsService, create                                                  *)

\* uploadImages and uploadAvatar.
Upload(a) ==
    /\ a \notin uploaded
    /\ uploaded' = uploaded \cup {a}
    /\ store' = store \cup {a}
    /\ UNCHANGED <<rowVars, request, late>>

CreateListing(l, p) ==
    /\ l \in Listings \ (live \cup removed)
    /\ p \in Sendable(l)
    /\ live' = live \cup {l}
    /\ images' = [images EXCEPT ![l] = p]
    /\ UNCHANGED <<store, uploaded, removed, request, late>>

-----------------------------------------------------------------------------
(* ListingsService.update                                                  *)

\* Mutant: kept images are recognised by public id alone.
UnnamedAreDropped(old, new) == Named(old) \ Named(new)

\* removedImagePublicIds: no next image has the public id or the url.
Dropped(old, new) == Named(old) \ Shown(new)

UpdateRead(r, l, p) ==
    /\ request[r] = Idle
    /\ l \in live
    /\ p \in Sendable(l)
    /\ Becomes(r, At("write", l, p, Dropped(images[l], p)))
    /\ UNCHANGED <<store, uploaded, rowVars, late>>

\* Mutant: upsert.
AnyRow(l) == TRUE

\* listing.update throws when there is no such row.
RowFound(l) == l \in live

\* One transaction replaces all images.
UpdateWrite(r) ==
    LET q == request[r] IN
    /\ q.step = "write"
    /\ RowFound(q.owner)
    /\ images' = [images EXCEPT ![q.owner] = q.payload]
    /\ Becomes(r, IF q.doomed = {} THEN Idle ELSE [q EXCEPT !.step = "clean"])
    /\ Overtakes(r, q.owner)
    /\ UNCHANGED <<store, uploaded, live, removed>>

-----------------------------------------------------------------------------
(* ListingsService.remove                                                  *)

\* Mutant: the row is deleted and the images are left to themselves.
RemoveForgets(l) == {}

RemoveDooms(l) == Named(images[l])

RemoveRead(r, l) ==
    /\ request[r] = Idle
    /\ l \in live \cap Listings
    /\ Becomes(r, At(IF RemoveDooms(l) = {} THEN "remove" ELSE "removeClean",
                     l, Nothing, RemoveDooms(l)))
    /\ UNCHANGED <<store, uploaded, rowVars, late>>

\* listing_images rows are deleted with their listing.
RemoveWrite(r) ==
    LET l == request[r].owner IN
    /\ request[r].step = "remove"
    /\ RowFound(l)
    /\ live' = live \ {l}
    /\ removed' = removed \cup {l}
    /\ images' = [images EXCEPT ![l] = Nothing]
    /\ Becomes(r, Idle)
    /\ Overtakes(r, l)
    /\ UNCHANGED <<store, uploaded>>

-----------------------------------------------------------------------------
(* UsersService.updateMe, its avatar part                                  *)

\* Mutant: the old avatar is destroyed also when the new one is the same.
ReplacesAlways(old, new) == Named(old)

\* existing.avatarPublicId, unless the payload names the same one.
Replaced(old, new) == Named(old) \ Named(new)

AvatarRead(r, u, p) ==
    /\ request[r] = Idle
    /\ u \in Users
    /\ p \in Sendable(u)
    /\ LET doomed == Replaced(images[u], p)
       IN  Becomes(r, At(IF doomed = {} THEN "avatar" ELSE "avatarClean",
                         u, p, doomed))
    /\ UNCHANGED <<store, uploaded, rowVars, late>>

AvatarWrite(r) ==
    LET q == request[r] IN
    /\ q.step = "avatar"
    /\ images' = [images EXCEPT ![q.owner] = q.payload]
    /\ Becomes(r, Idle)
    /\ Overtakes(r, q.owner)
    /\ UNCHANGED <<store, uploaded, live, removed>>

-----------------------------------------------------------------------------
(* destroyImage                                                            *)

\* What follows when the last of the destructions has been answered.
Continues(q, rest) ==
    IF rest # {} THEN [q EXCEPT !.doomed = rest]
    ELSE IF q.step \in {"removeClean", "avatarClean"}
      THEN At(IF q.step = "removeClean" THEN "remove" ELSE "avatar",
              q.owner, q.payload, {})
      ELSE Idle

Cleaning(r) == request[r].step \in {"clean", "removeClean", "avatarClean",
                                    "failed"}

\* The calls of one request run side by side.  The store answers as well when
\* the asset is gone already.
DestroyImage(r, a) ==
    LET next == Continues(request[r], request[r].doomed \ {a}) IN
    /\ Cleaning(r)
    /\ a \in request[r].doomed
    /\ store' = store \ {a}
    /\ Becomes(r, next)
    /\ late' = IF next = Idle THEN late \ {r} ELSE late
    /\ UNCHANGED <<uploaded, rowVars>>

\* One call fails: the request fails, and the other calls go on.  (An update
\* has nothing left to do but them.)
DestroyFails(r, a) ==
    LET q == request[r]
        rest == q.doomed \ {a}
    IN
    /\ Cleaning(r)
    /\ a \in q.doomed
    /\ IF rest = {}
         THEN Ends(r)
         ELSE /\ Becomes(r, At(IF q.step = "clean" THEN "clean" ELSE "failed",
                               q.owner, q.payload, rest))
              /\ UNCHANGED late
    /\ UNCHANGED <<store, uploaded, rowVars>>

\* A statement fails (the listing may be gone), or the process dies.
RequestFails(r) ==
    /\ request[r] # Idle
    /\ Ends(r)
    /\ UNCHANGED <<store, uploaded, rowVars>>

ListingStep(r) ==
    \/ \E l \in Listings, p \in Payloads : UpdateRead(r, l, p)
    \/ UpdateWrite(r)
    \/ \E l \in Listings : RemoveRead(r, l)
    \/ RemoveWrite(r)

AvatarStep(r) ==
    \/ \E u \in Users, p \in Payloads : AvatarRead(r, u, p)
    \/ AvatarWrite(r)

StoreStep(r) == \E a \in Assets : DestroyImage(r, a) \/ DestroyFails(r, a)

ImagesNext ==
    \/ \E r \in Requests : \/ ListingStep(r)
                           \/ AvatarStep(r)
                           \/ StoreStep(r)
                           \/ RequestFails(r)
    \/ \E a \in Assets : Upload(a)
    \/ \E l \in Listings, p \in Payloads : CreateListing(l, p)

ImagesSpec == ImagesInit /\ [][ImagesNext]_imageVars

-----------------------------------------------------------------------------
(* Properties                                                              *)

\* Every variable has its type; only what was uploaded is stored, shown or
\* destroyed, and a listing that is gone shows nothing.
ImagesTypeOK ==
    /\ store \subseteq uploaded /\ uploaded \subseteq Assets
    /\ Users \subseteq live /\ live \subseteq Owners
    /\ removed \subseteq Listings \ live
    /\ images \in [Owners -> Payloads]
    /\ request \in [Requests -> Pending \cup {Idle}]
    /\ late \subseteq Requests
    /\ \A o \in Owners : Shown(images[o]) \subseteq uploaded
    /\ \A o \in Owners \ live : images[o] = Nothing
    /\ \A r \in Requests :
         /\ request[r].doomed \cup Shown(request[r].payload) \subseteq uploaded
         /\ request[r].step \in {"remove", "avatar"} => request[r].doomed = {}

\* An asset is destroyed under a listing that shows it only by its removal, by
\* a request that another one has overtaken, or when a second owner shows the
\* same asset: an update that runs alone destroys nothing that it keeps, by
\* public id or by url.
ShownIsKept ==
    [][\A a \in store \ store', l \in Listings :
        a \in Shown(images[l])
            => \E r \in Requests :
                 /\ a \in request[r].doomed
                 /\ \/ request[r].owner # l
                    \/ r \in late
                    \/ request[r].step # "clean"]_imageVars

\* No request destroys what it has stored or is about to store itself: not by
\* public id, and in a listing not by url either.  (An avatar that is sent
\* again without its public id is destroyed: updateMe does not compare urls.)
OwnIsKept ==
    [][\A a \in store \ store' :
        \E r \in Requests :
            /\ a \in request[r].doomed
            /\ request[r].payload[a] # "named"
            /\ request[r].owner \in Listings
                 => request[r].payload[a] = "absent"]_imageVars

\* When rows stop naming an asset, it is gone from the store or about to be,
\* still shown by its url, or the writer has been overtaken: a request that
\* runs alone leaves nothing in the store that no row can lead to.
ForgottenIsDestroyed ==
    [][\A a \in store', o \in Owners :
        a \in Named(images[o]) \ Named(images'[o])
            => \/ a \in Shown(images'[o])
               \/ \E r \in Requests :
                    /\ request[r].owner = o /\ request'[r] # request[r]
                    /\ r \in late \/ a \in request'[r].doomed]_imageVars

=============================================================================

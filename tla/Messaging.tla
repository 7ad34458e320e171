------------------------------ MODULE Messaging ------------------------------
(***************************************************************************)
(* Conversations and messages: ConversationsService (create, sendMessage   *)
(* over HTTP and socket, markRead, unread counts), the blocks that         *)
(* UsersService keeps, and the notification of each message.               *)
(*                                                                         *)
(* Every handler is a sequence of statements: what it has checked may be   *)
(* out of date when it writes, and its clock value is taken before the     *)
(* write that stores it.  A conversation has two participants, which never *)
(* change, and is never deleted.                                           *)
(***************************************************************************)
EXTENDS Integers, FiniteSets

CONSTANTS
    Users,
    Topics,          \* listings that conversations may be about
    Conversations,   \* rows of conversations
    Messages,        \* rows of messages
    Requests,        \* request slots
    NoValue,         \* null, and "none" in a record
    MaxDrafts,       \* bound: what one user has to say in one conversation
    MaxClock         \* bound: clock values

\* What a client wants to send: it tries again until it is acknowledged.
Drafts == Users \X Conversations \X (1..MaxDrafts)
Author(d) == d[1]
Place(d) == d[2]

ASSUME MessagingAssumption ==
    /\ NoValue \notin Users \cup Topics \cup Conversations \cup Messages
    /\ NoValue \notin Drafts
    /\ MaxDrafts \in Nat
    /\ MaxClock \in Nat \ {0}

VARIABLES
    topics,         \* listings that exist
    conv,           \* conv[c]: its row, or NoConversation
    lastMessageAt,  \* lastMessageAt[c], 0 when null
    lastReadAt,     \* lastReadAt[c, u] of a participant, 0 when null
    msg,            \* msg[m]: the row, or NoMessage
    blocks,         \* <<u, v>>: u has blocked v
    notified,       \* messages whose recipient has a notification
    request,        \* request[r]: the handler that slot r is inside of
    clock,
    acked,          \* drafts that the client knows to be sent
    late,           \* history: <<r, why>>, what request r has been overtaken by
    doubled,        \* history: conversations created by a late request
    orphaned,       \* history: conversations whose listing was deleted
    unheard         \* history: drafts stored by a request that then failed

history == <<late, doubled, orphaned, unheard>>
convVars == <<topics, conv, orphaned, doubled>>
readVars == <<lastReadAt, clock>>
sendVars == <<msg, lastMessageAt, notified, acked, unheard>>
messagingVars == <<convVars, readVars, sendVars, blocks, request, late>>

Pairs == {{u, v} : u \in Users, v \in Users} \ {{u} : u \in Users}
ConversationRows == [pair : Pairs, topic : Topics \cup {NoValue}]
NoConversation == [pair |-> {}, topic |-> NoValue]
MessageRows == [draft : Drafts, at : 1..MaxClock]
NoMessage == [draft |-> NoValue, at |-> 0]

\* what is the pair and topic of a new conversation, the draft of a message,
\* or the participant <<c, u>> of a read mark.
At(step, what, stamp, m) ==
    [step |-> step, what |-> what, stamp |-> stamp, message |-> m]
Idle == At("idle", NoValue, 0, NoValue)
CreateSteps == {"create"}
SendSteps == {"insert", "commit", "notify", "reply"}
Pending == [step : CreateSteps, what : ConversationRows, stamp : {0},
            message : {NoValue}]
           \cup [step : SendSteps, what : Drafts, stamp : 0..MaxClock,
                 message : Messages \cup {NoValue}]
           \cup [step : {"mark"}, what : Conversations \X Users,
                 stamp : 1..MaxClock, message : {NoValue}]

MessagingInit ==
    /\ topics = Topics
    /\ conv = [c \in Conversations |-> NoConversation]
    /\ lastMessageAt = [c \in Conversations |-> 0]
    /\ lastReadAt = [p \in Conversations \X Users |-> 0]
    /\ msg = [m \in Messages |-> NoMessage]
    /\ blocks = {}
    /\ notified = {}
    /\ request = [r \in Requests |-> Idle]
    /\ clock = 1
    /\ acked = {}
    /\ late = {}
    /\ doubled = {}
    /\ orphaned = {}
    /\ unheard = {}

\* What can overtake a request between its statements.
Overtakings == {"create", "block", "message", "read"}
Overtaken(r) == {<<r, why>> : why \in Overtakings}
Overtakes(why, r, others) == late' = (late \ Overtaken(r)) \cup
                                     {<<q, why>> : q \in others \ {r}}

Becomes(r, next) == request' = [request EXCEPT ![r] = next]
Stored(d) == {m \in Messages : msg[m].draft = d}
Participants(c) == conv[c].pair
Recipients(d) == Participants(Place(d)) \ {Author(d)}

\* Mutant: whoever knows the id of a conversation may use it.
EntersAny(c, u) == TRUE

\* getConversationParticipantData finds the conversation.
Enters(c, u) == u \in Participants(c)

-----------------------------------------------------------------------------
(* ConversationsService.create                                             *)

\* Mutant: the lookup is skipped for conversations without a listing.
FoundAboutListing(row) ==
    row.topic # NoValue /\ \E c \in Conversations : conv[c] = row

\* findFirst: the same listing (or none) and exactly these two participants.
Found(row) == \E c \in Conversations : conv[c] = row

\* A request that finds the conversation returns it and changes nothing.
CreateRead(r, row) ==
    /\ request[r] = Idle
    /\ row.topic # NoValue => row.topic \in topics
    /\ ~Found(row)
    /\ Becomes(r, At("create", row, 0, NoValue))
    /\ UNCHANGED <<convVars, readVars, sendVars, blocks, late>>

\* No index keeps two rows for one pair and listing apart; the foreign key
\* refuses a listing that has been deleted.
CreateWrite(r, c) ==
    LET row == request[r].what IN
    /\ request[r].step = "create"
    /\ row.topic # NoValue => row.topic \in topics
    /\ conv[c] = NoConversation
    /\ conv' = [conv EXCEPT ![c] = row]
    /\ doubled' = IF <<r, "create">> \in late THEN doubled \cup {c} ELSE doubled
    /\ Becomes(r, Idle)
    /\ Overtakes("create", r, {q \in Requests : /\ request[q].step = "create"
                                                /\ request[q].what = row})
    /\ UNCHANGED <<topics, orphaned, readVars, sendVars, blocks>>

\* onDelete: SetNull.
LinksCleared(t) ==
    [c \in Conversations |-> IF conv[c].topic = t
                               THEN [conv[c] EXCEPT !.topic = NoValue]
                               ELSE conv[c]]

\* A listing is deleted: its conversations stay, with listingId null.
DeleteListing(t) ==
    /\ t \in topics
    /\ topics' = topics \ {t}
    /\ conv' = LinksCleared(t)
    /\ orphaned' = orphaned \cup {c \in Conversations : conv[c].topic = t}
    /\ UNCHANGED <<doubled, readVars, sendVars, blocks, request, late>>

-----------------------------------------------------------------------------
(* sendMessageInternal                                                     *)

\* Mutant: who has blocked whom is confused.
BlockedBySender(d) == \E v \in Recipients(d) : <<Author(d), v>> \in blocks

\* The recipient has blocked the sender.
Blocked(d) == \E v \in Recipients(d) : <<v, Author(d)>> \in blocks

InFlight(q, d) == request[q].step \in SendSteps /\ request[q].what = d

\* A client sends a draft that is neither acknowledged nor on its way.  The
\* participants are read first, but they cannot change.
SendCheck(r, d) ==
    /\ request[r] = Idle
    /\ d \notin acked
    /\ \A q \in Requests : ~InFlight(q, d)
    /\ Enters(Place(d), Author(d))
    /\ ~Blocked(d)
    /\ Becomes(r, At("insert", d, 0, NoValue))
    /\ UNCHANGED <<convVars, readVars, sendVars, blocks, late>>

\* The clock values of the transaction, lastMessageAt's and createdAt's, are
\* taken, here as one; it commits later.
SendInsert(r) ==
    /\ request[r].step = "insert"
    /\ Becomes(r, [request[r] EXCEPT !.step = "commit", !.stamp = clock])
    /\ UNCHANGED <<convVars, readVars, sendVars, blocks, late>>

StoreMessage(r, m) ==
    LET d == request[r].what IN
    /\ request[r].step = "commit"
    /\ msg[m] = NoMessage
    /\ msg' = [msg EXCEPT ![m] = [draft |-> d, at |-> request[r].stamp]]
    /\ Overtakes("message", r, {q \in Requests :
                                  /\ request[q].step = "commit"
                                  /\ Place(request[q].what) = Place(d)})
    /\ UNCHANGED <<convVars, readVars, notified, acked, unheard, blocks>>

\* Mutant: the conversation keeps the time of its first message.
CommitKeepsTime(r, m) ==
    /\ StoreMessage(r, m)
    /\ lastMessageAt' = [lastMessageAt EXCEPT
            ![Place(request[r].what)] = IF @ = 0 THEN request[r].stamp ELSE @]
    /\ Becomes(r, [request[r] EXCEPT !.step = "notify", !.message = m])

\* Message and lastMessageAt are stored in one transaction.
SendCommit(r, m) ==
    /\ StoreMessage(r, m)
    /\ lastMessageAt' = [lastMessageAt EXCEPT
                           ![Place(request[r].what)] = request[r].stamp]
    /\ Becomes(r, [request[r] EXCEPT !.step = "notify", !.message = m])

\* Mutant: the reply does not wait for the notification.
NotifyLater(r) ==
    /\ request[r].step = "notify"
    /\ Becomes(r, [request[r] EXCEPT !.step = "reply"])
    /\ UNCHANGED <<convVars, readVars, sendVars, blocks, late>>

\* NotificationsService.create, awaited.
SendNotify(r) ==
    /\ request[r].step = "notify"
    /\ notified' = notified \cup {request[r].message}
    /\ Becomes(r, [request[r] EXCEPT !.step = "reply"])
    /\ UNCHANGED <<convVars, readVars, msg, lastMessageAt, acked, unheard,
                   blocks, late>>

SendReply(r) ==
    /\ request[r].step = "reply"
    /\ acked' = acked \cup {request[r].what}
    /\ Becomes(r, Idle)
    /\ UNCHANGED <<convVars, readVars, msg, lastMessageAt, notified, unheard,
                   blocks, late>>

-----------------------------------------------------------------------------
(* markRead, blocks, time and faults                                       *)

\* The clock value is taken before the update runs.
MarkRead(r, c, u) ==
    /\ request[r] = Idle
    /\ Enters(c, u)
    /\ Becomes(r, At("mark", <<c, u>>, clock, NoValue))
    /\ UNCHANGED <<convVars, readVars, sendVars, blocks, late>>

\* Mutant: the read mark of every participant is set.
MarksOfConversation(p) == {p[1]} \X Users

\* The row that the update addresses.
MarksOf(p) == {p}

MarkWrite(r) ==
    LET p == request[r].what IN
    /\ request[r].step = "mark"
    /\ lastReadAt' = [q \in Conversations \X Users |->
                        IF q \in MarksOf(p) THEN request[r].stamp
                                            ELSE lastReadAt[q]]
    /\ Becomes(r, Idle)
    /\ Overtakes("read", r,
                 {q \in Requests : \/ /\ request[q].step = "mark"
                                     /\ request[q].what = p
                                  \/ /\ request[q].step = "commit"
                                     /\ Place(request[q].what) = p[1]
                                     /\ p[2] \in Recipients(request[q].what)})
    /\ UNCHANGED <<convVars, clock, sendVars, blocks>>

BlockUser(u, v) ==
    /\ u # v
    /\ <<u, v>> \notin blocks
    /\ blocks' = blocks \cup {<<u, v>>}
    /\ late' = late \cup {<<q, "block">> : q \in {r \in Requests :
                            /\ request[r].step \in {"insert", "commit"}
                            /\ Author(request[r].what) = v
                            /\ u \in Recipients(request[r].what)}}
    /\ UNCHANGED <<convVars, readVars, sendVars, request>>

UnblockUser(u, v) ==
    /\ <<u, v>> \in blocks
    /\ blocks' = blocks \ {<<u, v>>}
    /\ UNCHANGED <<convVars, readVars, sendVars, request, late>>

\* A statement fails or the process dies: the client sees an error, also when
\* the message is stored.
RequestFails(r) ==
    /\ request[r] # Idle
    /\ Becomes(r, Idle)
    /\ late' = late \ Overtaken(r)
    /\ unheard' = IF request[r].step \in {"notify", "reply"}
                    THEN unheard \cup {request[r].what} ELSE unheard
    /\ UNCHANGED <<convVars, readVars, msg, lastMessageAt, notified, acked,
                   blocks>>

Tick == /\ clock < MaxClock
        /\ clock' = clock + 1
        /\ UNCHANGED <<convVars, lastReadAt, sendVars, blocks, request, late>>

CreateStep(r) == \/ \E row \in ConversationRows : CreateRead(r, row)
                 \/ \E c \in Conversations : CreateWrite(r, c)

SendStep(r) == \/ \E d \in Drafts : SendCheck(r, d)
               \/ SendInsert(r)
               \/ \E m \in Messages : SendCommit(r, m)
               \/ SendNotify(r)
               \/ SendReply(r)

MarkStep(r) == \/ \E c \in Conversations, u \in Users : MarkRead(r, c, u)
               \/ MarkWrite(r)

MessagingNext ==
    \/ \E r \in Requests : \/ CreateStep(r)
                           \/ SendStep(r)
                           \/ MarkStep(r)
                           \/ RequestFails(r)
    \/ \E u, v \in Users : BlockUser(u, v) \/ UnblockUser(u, v)
    \/ \E t \in Topics : DeleteListing(t)
    \/ Tick

MessagingSpec == MessagingInit /\ [][MessagingNext]_messagingVars

-----------------------------------------------------------------------------
(* Properties                                                              *)

\* What findMine counts for participant u, and mapMessage calls unread.
Unread(c, u) == {m \in Messages : /\ msg[m] # NoMessage
                                  /\ Place(msg[m].draft) = c
                                  /\ Author(msg[m].draft) # u
                                  /\ msg[m].at > lastReadAt[<<c, u>>]}

\* Every variable has its type; messages are in conversations of their author.
MessagingTypeOK ==
    /\ topics \subseteq Topics
    /\ conv \in [Conversations -> ConversationRows \cup {NoConversation}]
    /\ lastMessageAt \in [Conversations -> 0..MaxClock]
    /\ lastReadAt \in [Conversations \X Users -> 0..MaxClock]
    /\ msg \in [Messages -> MessageRows \cup {NoMessage}]
    /\ blocks \subseteq Users \X Users
    /\ notified \subseteq Messages
    /\ request \in [Requests -> Pending \cup {Idle}]
    /\ clock \in 1..MaxClock
    /\ acked \subseteq Drafts /\ unheard \subseteq Drafts
    /\ late \subseteq Requests \X Overtakings
    /\ doubled \subseteq Conversations /\ orphaned \subseteq Conversations
    /\ \A c \in Conversations : conv[c].topic \in topics \cup {NoValue}
    /\ \A m \in Messages : msg[m] # NoMessage =>
         Author(msg[m].draft) \in Participants(Place(msg[m].draft))

\* Two people have one conversation about one listing, and one about none,
\* unless two requests opened it at the same time or a listing was deleted.
OneConversation ==
    \A c, d \in Conversations :
        c # d /\ conv[c] # NoConversation /\ conv[c] = conv[d]
            => \/ {c, d} \cap doubled # {}
               \/ conv[c].topic = NoValue /\ {c, d} \cap orphaned # {}

\* The request that stores the new message m in this step.
Storing(r, m) == /\ msg[m] = NoMessage /\ msg'[m] # NoMessage
                 /\ request[r].step = "commit"
                 /\ request[r].what = msg'[m].draft

\* Nothing is stored from a sender who is blocked, except by a request that
\* had looked for the block before it was set (conversations.service.ts:251).
BlockedIsSilent ==
    [][\A m \in Messages, r \in Requests, v \in Users :
        LET d == msg'[m].draft
        IN  Storing(r, m) /\ v \in Recipients(d) /\ <<v, Author(d)>> \in blocks
              => <<r, "block">> \in late]_messagingVars

\* What a sender can rely on, from the rows that the requests leave.
Delivery == INSTANCE MessageDelivery WITH
    copies  <- [d \in Drafts |-> Cardinality(Stored(d))],
    noticed <- {d \in Drafts : Stored(d) \cap notified # {}},
    failed  <- unheard

\* sendMessage delivers: a sender is told of success only when the message is
\* stored and its recipient notified, and a draft is stored twice only for a
\* sender who was told SEND_FAILED after it had been stored.
DeliveryIsImplemented == Delivery!DeliverySpec

\* What counts as read changes only by the reader's own markRead, and turns
\* unread again only by one that took its clock value before another's.
UnreadIsOwn ==
    [][\A c \in Conversations, u \in Users, m \in Messages :
        LET was == m \in Unread(c, u)
            is == m \in Unread(c, u)'
            marks(r) == /\ request[r].step = "mark"
                        /\ request[r].what = <<c, u>>
                        /\ request'[r] = Idle
        IN  msg[m] # NoMessage /\ was # is
              => \E r \in Requests : /\ marks(r)
                                     /\ is => <<r, "read">> \in late
       ]_messagingVars

\* A new message is unread to its recipient, unless that user has read the
\* conversation in the same millisecond or between the clock value and the
\* commit: then it is never counted, and was not there to be seen.
NewIsUnread ==
    [][\A m \in Messages, r \in Requests, c \in Conversations, u \in Users :
        Storing(r, m) /\ c = Place(msg'[m].draft) /\ u \in Recipients(msg'[m].draft)
            => \/ m \in Unread(c, u)'
               \/ lastReadAt[<<c, u>>] = msg'[m].at
               \/ <<r, "read">> \in late]_messagingVars

\* A conversation is listed by its newest message once a message is stored
\* whose transaction no other message of the conversation has overtaken.
ListedByNewest ==
    [][\A m, n \in Messages, r \in Requests :
        Storing(r, m) /\ <<r, "message">> \notin late /\ msg'[n] # NoMessage
            => LET c == Place(msg'[m].draft)
               IN  Place(msg'[n].draft) = c
                     => msg'[n].at <= lastMessageAt'[c]]_messagingVars

=============================================================================

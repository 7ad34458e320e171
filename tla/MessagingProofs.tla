-------------------------- MODULE MessagingProofs ---------------------------
(***************************************************************************)
(* Conversations and messages, for every number of users, listings,        *)
(* conversations, messages and requests: the types, one conversation for a *)
(* pair and a listing, blocks, what is unread and what a conversation is   *)
(* listed by, and that sendMessage delivers as MessageDelivery says.       *)
(*                                                                         *)
(* Each of these excuses a request that has been overtaken, so what makes  *)
(* them inductive is that a request knows: whatever it had looked for and  *)
(* would not find now has marked it late.  That a draft is stored twice    *)
(* only after an error needs what becomes of a stored draft: its request   *)
(* is on the way to the reply, or it is acknowledged or reported failed.   *)
(***************************************************************************)
EXTENDS Messaging, FiniteSetTheorems, TLAPS

-----------------------------------------------------------------------------
(* Rows and requests                                                       *)

\* A draft is of a user, in a conversation.
LEMMA DraftParts ==
  ASSUME NEW d \in Drafts
  PROVE  Author(d) \in Users /\ Place(d) \in Conversations
BY DEF Drafts, Author, Place

\* An unused id is told apart from every row, and from every draft.
LEMMA NoRows ==
  /\ NoMessage \notin MessageRows /\ NoMessage.draft \notin Drafts
  /\ NoConversation \notin ConversationRows
  /\ NoConversation.pair = {} /\ NoConversation.topic = NoValue
<1>1. NoMessage.draft = NoValue /\ NoMessage.at = 0
  BY DEF NoMessage
<1>2. \A row \in MessageRows : row.at # 0
  BY DEF MessageRows
<1>3. \A row \in ConversationRows : row.pair # {}
  BY DEF ConversationRows, Pairs
<1>4. NoConversation.pair = {} /\ NoConversation.topic = NoValue
  BY DEF NoConversation
<1>5. QED
  BY <1>1, <1>2, <1>3, <1>4, MessagingAssumption

\* What rows consist of.
LEMMA RowFields ==
  /\ \A row \in MessageRows : row.draft \in Drafts /\ row.at \in 1..MaxClock
  /\ \A row \in ConversationRows :
       row.pair \in Pairs /\ row.topic \in Topics \cup {NoValue}
BY DEF MessageRows, ConversationRows

\* What a request holds depends on the statement that it has come to.
LEMMA PendingCases ==
  ASSUME NEW w \in Pending \cup {Idle}
  PROVE  /\ w.step \in {"idle", "create", "mark"} \cup SendSteps
         /\ w.step = "idle" <=> w = Idle
         /\ w.step = "create" => w.what \in ConversationRows
         /\ w.step \in SendSteps =>
              /\ w.what \in Drafts /\ w.stamp \in 0..MaxClock
              /\ w.message \in Messages \cup {NoValue}
         /\ w.step = "mark" =>
              w.what \in Conversations \X Users /\ w.stamp \in 1..MaxClock
<1> DEFINE Creates == [step : CreateSteps, what : ConversationRows,
                       stamp : {0}, message : {NoValue}]
           Sends == [step : SendSteps, what : Drafts, stamp : 0..MaxClock,
                     message : Messages \cup {NoValue}]
           Marks == [step : {"mark"}, what : Conversations \X Users,
                     stamp : 1..MaxClock, message : {NoValue}]
<1>1. w \in Creates \cup Sends \cup Marks \cup {Idle}
  BY DEF Pending
<1>2. \A x \in Creates : x.step = "create" /\ x.what \in ConversationRows
  BY DEF CreateSteps
<1>3. \A x \in Sends : /\ x.step \in SendSteps /\ x.what \in Drafts
                       /\ x.stamp \in 0..MaxClock
                       /\ x.message \in Messages \cup {NoValue}
  OBVIOUS
<1>4. \A x \in Marks : /\ x.step = "mark" /\ x.what \in Conversations \X Users
                       /\ x.stamp \in 1..MaxClock
  OBVIOUS
<1>5. Idle.step = "idle"
  BY DEF Idle, At
<1> HIDE DEF Creates, Sends, Marks
<1>6. \A x \in SendSteps : x \notin {"idle", "create", "mark"}
  BY DEF SendSteps
<1>7. QED
  BY <1>1, <1>2, <1>3, <1>4, <1>5, <1>6

\* The same of a request in a typed state.
LEMMA RequestCases ==
  ASSUME MessagingTypeOK, NEW r \in Requests
  PROVE  /\ request[r] \in Pending \cup {Idle}
         /\ request[r].step \in {"idle", "create", "mark"} \cup SendSteps
         /\ request[r].step = "idle" <=> request[r] = Idle
         /\ request[r].step = "create" => request[r].what \in ConversationRows
         /\ request[r].step \in SendSteps =>
              /\ request[r].what \in Drafts /\ request[r].stamp \in 0..MaxClock
              /\ request[r].message \in Messages \cup {NoValue}
         /\ request[r].step = "mark" =>
              request[r].what \in Conversations \X Users
              /\ request[r].stamp \in 1..MaxClock
<1>1. request[r] \in Pending \cup {Idle}
  BY DEF MessagingTypeOK
<1>2. QED
  BY <1>1, PendingCases

\* A request that moves leaves the others where they are.
LEMMA Moved ==
  ASSUME MessagingTypeOK, NEW r \in Requests, NEW next, Becomes(r, next)
  PROVE  /\ request'[r] = next
         /\ \A q \in Requests \ {r} : request'[q] = request[q]
         /\ next \in Pending \cup {Idle}
              => request' \in [Requests -> Pending \cup {Idle}]
BY DEF MessagingTypeOK, Becomes

\* What the statements of sendMessageInternal change of a request.
LEMMA Fields ==
  ASSUME NEW w \in Pending \cup {Idle}, NEW v
  PROVE  /\ [w EXCEPT !.step = "commit", !.stamp = v].step = "commit"
         /\ [w EXCEPT !.step = "commit", !.stamp = v].stamp = v
         /\ [w EXCEPT !.step = "commit", !.stamp = v].what = w.what
         /\ [w EXCEPT !.step = "notify", !.message = v].step = "notify"
         /\ [w EXCEPT !.step = "notify", !.message = v].message = v
         /\ [w EXCEPT !.step = "notify", !.message = v].what = w.what
         /\ [w EXCEPT !.step = "reply"].step = "reply"
         /\ [w EXCEPT !.step = "reply"].what = w.what
BY DEF Pending, Idle, At

\* Overtaking keeps the type of late.
LEMMA LateTyped ==
  ASSUME MessagingTypeOK, NEW why \in Overtakings, NEW r \in Requests,
         NEW others \in SUBSET Requests, Overtakes(why, r, others)
  PROVE  late' \subseteq Requests \X Overtakings
BY DEF MessagingTypeOK, Overtakes, Overtaken

\* The statements of sendMessageInternal lead from one to the next.
LEMMA SendMoves ==
  ASSUME MessagingTypeOK, NEW r \in Requests, request[r].step \in SendSteps,
         NEW step \in SendSteps
  PROVE  /\ \A stamp \in 0..MaxClock :
              [request[r] EXCEPT !.step = step, !.stamp = stamp] \in Pending
         /\ \A m \in Messages :
              [request[r] EXCEPT !.step = step, !.message = m] \in Pending
         /\ [request[r] EXCEPT !.step = step] \in Pending
<1> DEFINE Sends == [step : SendSteps, what : Drafts, stamp : 0..MaxClock,
                     message : Messages \cup {NoValue}]
<1>1. request[r] \in Sends
  <2>1. request[r] \in Pending \cup {Idle}
    BY DEF MessagingTypeOK
  <2>2. \A w \in Pending \cup {Idle} : w.step \in SendSteps => w \in Sends
    BY DEF Pending, Idle, At, SendSteps, CreateSteps
  <2>3. QED
    BY <2>1, <2>2
<1>2. \A w \in Sends : /\ \A stamp \in 0..MaxClock :
                            [w EXCEPT !.step = step, !.stamp = stamp] \in Sends
                       /\ \A m \in Messages :
                            [w EXCEPT !.step = step, !.message = m] \in Sends
                       /\ [w EXCEPT !.step = step] \in Sends
  OBVIOUS
<1>3. Sends \subseteq Pending
  BY DEF Pending
<1>4. QED
  BY <1>1, <1>2, <1>3

-----------------------------------------------------------------------------
(* The inductive invariant                                                 *)

\* Nothing is stored or read later than now.
MessagesPast == \A m \in Messages : msg[m] # NoMessage => msg[m].at <= clock
ReadsPast == \A p \in Conversations \X Users : lastReadAt[p] <= clock

\* Whoever is sending a draft is a participant, and has not been told that it
\* is sent.
SenderOK(r) ==
    request[r].step \in SendSteps =>
      /\ Author(request[r].what) \in Participants(Place(request[r].what))
      /\ request[r].what \notin acked

\* A clock value in hand was taken before now.
StampOK(r) == /\ request[r].step = "commit" => request[r].stamp \in 1..clock
              /\ request[r].step = "mark" => request[r].stamp <= clock

\* Between commit and reply the message is stored, and then notified.
RowOK(r) ==
    /\ request[r].step = "notify" =>
         /\ request[r].message \in Messages
         /\ request[r].message \in Stored(request[r].what)
    /\ request[r].step = "reply" => Stored(request[r].what) \cap notified # {}

\* A client sends a draft by one request at a time.
OneInFlight ==
    \A q, r \in Requests :
        /\ request[q].step \in SendSteps /\ request[r].step \in SendSteps
        /\ request[q].what = request[r].what
        => q = r

SendInv ==
    OneInFlight /\ \A r \in Requests : SenderOK(r) /\ StampOK(r) /\ RowOK(r)
ClockInv == MessagesPast /\ ReadsPast

\* A conversation like the one that a request is about to create was created
\* since it looked, or its listing was deleted.
CreateKnown(r) ==
    request[r].step = "create" =>
      \A c \in Conversations : conv[c] = request[r].what =>
        \/ <<r, "create">> \in late
        \/ conv[c].topic = NoValue /\ c \in orphaned

\* A block of the sender was set since the request looked for one.
BlockKnown(r) ==
    request[r].step \in {"insert", "commit"} =>
      \A v \in Recipients(request[r].what) :
        <<v, Author(request[r].what)>> \in blocks => <<r, "block">> \in late

\* A message with a later time than the one in hand overtook the request.
MessageKnown(r) ==
    request[r].step = "commit" =>
      \A m \in Messages :
        msg[m] # NoMessage /\ Place(msg[m].draft) = Place(request[r].what) =>
          msg[m].at <= request[r].stamp \/ <<r, "message">> \in late

\* So did a read mark of a recipient with a later time.
ReadKnown(r) ==
    request[r].step = "commit" =>
      \A u \in Recipients(request[r].what) :
        \/ lastReadAt[<<Place(request[r].what), u>>] <= request[r].stamp
        \/ <<r, "read">> \in late

\* So did another read mark of the same participant.
MarkKnown(r) ==
    request[r].step = "mark" =>
      lastReadAt[request[r].what] <= request[r].stamp \/ <<r, "read">> \in late
KnownInv == \A r \in Requests : /\ CreateKnown(r) /\ BlockKnown(r)
                                /\ MessageKnown(r) /\ ReadKnown(r)
                                /\ MarkKnown(r)

\* A stored draft is acknowledged, reported as failed, or on its way to that.
Answered ==
    \A d \in Drafts : Stored(d) # {} =>
        \/ d \in acked \cup unheard
        \/ \E r \in Requests : /\ request[r].step \in {"notify", "reply"}
                               /\ request[r].what = d

\* There are notifications of stored messages only.
NoticesOfStored == \A m \in notified : msg[m] # NoMessage

StoredInv ==
    Answered /\ NoticesOfStored /\ \A d \in Drafts : IsFiniteSet(Stored(d))

\* What the properties need, together.
MessagingInv == /\ MessagingTypeOK /\ SendInv /\ ClockInv
                /\ KnownInv /\ StoredInv /\ OneConversation

-----------------------------------------------------------------------------
(* What a step does                                                        *)

\* Deleting a listing takes its topic from a conversation, and nothing else.
LEMMA LinksAreCleared ==
  ASSUME MessagingTypeOK, NEW t \in Topics, DeleteListing(t),
         NEW c \in Conversations
  PROVE  IF conv[c].topic = t
           THEN /\ conv'[c] \in ConversationRows /\ c \in orphaned'
                /\ conv'[c].pair = conv[c].pair
                /\ conv'[c].topic = NoValue
           ELSE conv'[c] = conv[c]
<1>1. conv'[c] = IF conv[c].topic = t THEN [conv[c] EXCEPT !.topic = NoValue]
                                      ELSE conv[c]
  BY DEF DeleteListing, LinksCleared
<1>2. \A row \in ConversationRows :
        LET cleared == [row EXCEPT !.topic = NoValue]
        IN  /\ cleared \in ConversationRows
            /\ cleared.pair = row.pair /\ cleared.topic = NoValue
  BY DEF ConversationRows
<1>3. conv[c].topic = t => conv[c] \in ConversationRows
  BY NoRows, MessagingAssumption DEF MessagingTypeOK
<1>4. conv[c].topic = t => c \in orphaned'
  BY DEF DeleteListing
<1>5. QED
  BY <1>1, <1>2, <1>3, <1>4

\* Every step keeps the types: a message is stored for a participant.
LEMMA TypesKept ==
  ASSUME MessagingTypeOK, SendInv, [MessagingNext]_messagingVars
  PROVE  MessagingTypeOK'
<1>1. ASSUME NEW r \in Requests, NEW row \in ConversationRows,
             CreateRead(r, row)
      PROVE  MessagingTypeOK'
  <2>1. At("create", row, 0, NoValue) \in Pending
    BY DEF At, Pending, CreateSteps
  <2>2. request' \in [Requests -> Pending \cup {Idle}]
    BY <1>1, <2>1, Moved DEF CreateRead
  <2>3. QED
    BY <1>1, <2>2
       DEF MessagingTypeOK, CreateRead, convVars, readVars, sendVars,
           Participants
<1>2. ASSUME NEW r \in Requests, NEW c \in Conversations, CreateWrite(r, c)
      PROVE  MessagingTypeOK'
  <2> PICK row : row = request[r].what
    OBVIOUS
  <2>1. request' \in [Requests -> Pending \cup {Idle}]
    BY <1>2, Moved DEF CreateWrite
  <2>2. late' \subseteq Requests \X Overtakings
    BY <1>2, LateTyped DEF CreateWrite, Overtakings
  <2>3. row \in ConversationRows /\ row.topic \in topics \cup {NoValue}
    BY <1>2, RequestCases, RowFields DEF CreateWrite
  <2>4. conv' = [conv EXCEPT ![c] = row] /\ conv[c].pair = {}
    BY <1>2, NoRows DEF CreateWrite
  <2>5. conv' \in [Conversations -> ConversationRows \cup {NoConversation}]
    BY <2>3, <2>4 DEF MessagingTypeOK
  <2>6. /\ UNCHANGED <<topics, orphaned, readVars, sendVars, blocks>>
        /\ doubled' \subseteq doubled \cup {c}
    BY <1>2 DEF CreateWrite
  <2>7. \A k \in Conversations : conv'[k].topic \in topics \cup {NoValue}
    BY <2>3, <2>4 DEF MessagingTypeOK
  <2>8. \A m \in Messages :
          msg[m] # NoMessage =>
            Author(msg[m].draft) \in conv'[Place(msg[m].draft)].pair
    BY <2>4 DEF MessagingTypeOK, Participants
  <2>9. QED
    BY <2>1, <2>2, <2>5, <2>6, <2>7, <2>8
       DEF MessagingTypeOK, Participants, readVars, sendVars
<1>3. ASSUME NEW t \in Topics, DeleteListing(t) PROVE MessagingTypeOK'
  <2>1. /\ conv' = LinksCleared(t)
        /\ topics' = topics \ {t} /\ orphaned' \subseteq Conversations
        /\ UNCHANGED <<doubled, readVars, sendVars, blocks, request, late>>
    BY <1>3 DEF DeleteListing, MessagingTypeOK
  <2>2. /\ conv' \in [Conversations -> ConversationRows \cup {NoConversation}]
        /\ \A c \in Conversations : conv'[c].pair = conv[c].pair
        /\ \A c \in Conversations :
             conv'[c].topic \in (topics \ {t}) \cup {NoValue}
    BY <1>3, <2>1, LinksAreCleared DEF MessagingTypeOK, LinksCleared
  <2>3. \A m \in Messages :
          msg[m] # NoMessage => Place(msg[m].draft) \in Conversations
    BY DraftParts, RowFields DEF MessagingTypeOK
  <2>4. QED
    BY <2>1, <2>2, <2>3 DEF MessagingTypeOK, Participants, readVars, sendVars
<1>4. ASSUME NEW r \in Requests, NEW d \in Drafts, SendCheck(r, d)
      PROVE  MessagingTypeOK'
  <2>1. At("insert", d, 0, NoValue) \in Pending
    BY MessagingAssumption DEF At, Pending, SendSteps
  <2>2. request' \in [Requests -> Pending \cup {Idle}]
    BY <1>4, <2>1, Moved DEF SendCheck
  <2>3. QED
    BY <1>4, <2>2
       DEF MessagingTypeOK, SendCheck, convVars, readVars, sendVars,
           Participants
<1>5. ASSUME NEW r \in Requests, SendInsert(r) PROVE MessagingTypeOK'
  <2>0. clock \in 0..MaxClock /\ request[r].step \in SendSteps
    BY <1>5, MessagingAssumption DEF SendInsert, SendSteps, MessagingTypeOK
  <2>1. [request[r] EXCEPT !.step = "commit", !.stamp = clock] \in Pending
    BY <2>0, SendMoves DEF SendSteps
  <2>2. request' \in [Requests -> Pending \cup {Idle}]
    BY <1>5, <2>1, Moved DEF SendInsert
  <2>3. QED
    BY <1>5, <2>2
       DEF MessagingTypeOK, SendInsert, convVars, readVars, sendVars,
           Participants
<1>6. ASSUME NEW r \in Requests, NEW m \in Messages, SendCommit(r, m)
      PROVE  MessagingTypeOK'
  <2> PICK d : d = request[r].what
    OBVIOUS
  <2>1. [request[r] EXCEPT !.step = "notify", !.message = m] \in Pending
    BY <1>6, SendMoves, RequestCases DEF SendCommit, StoreMessage, SendSteps
  <2>2. request' \in [Requests -> Pending \cup {Idle}]
    BY <1>6, <2>1, Moved DEF SendCommit
  <2>3. late' \subseteq Requests \X Overtakings
    BY <1>6, LateTyped DEF SendCommit, StoreMessage, Overtakings
  <2>4. /\ d \in Drafts /\ request[r].stamp \in 1..MaxClock
        /\ Place(d) \in Conversations /\ Author(d) \in Participants(Place(d))
    <3>1. \A a, b, s \in Nat : s \in 1..a /\ a <= b => s \in 1..b
      OBVIOUS
    <3>2. request[r].stamp \in 1..clock /\ clock \in 1..MaxClock
      BY <1>6 DEF SendCommit, StoreMessage, SendInv, StampOK, MessagingTypeOK
    <3>3. QED
      BY <1>6, <3>1, <3>2, RequestCases, DraftParts, MessagingAssumption
         DEF SendCommit, StoreMessage, SendSteps, SendInv, SenderOK
  <2>5. [draft |-> d, at |-> request[r].stamp] \in MessageRows
    BY <2>4 DEF MessageRows
  <2>6. /\ msg' = [msg EXCEPT ![m] = [draft |-> d, at |-> request[r].stamp]]
        /\ lastMessageAt' = [lastMessageAt EXCEPT
                                ![Place(d)] = request[r].stamp]
        /\ UNCHANGED <<convVars, readVars, notified, acked, unheard, blocks>>
    BY <1>6 DEF SendCommit, StoreMessage
  <2>7. /\ msg' \in [Messages -> MessageRows \cup {NoMessage}]
        /\ lastMessageAt' \in [Conversations -> 0..MaxClock]
    BY <2>4, <2>5, <2>6 DEF MessagingTypeOK
  <2>8. \A n \in Messages :
          msg'[n] # NoMessage =>
            Author(msg'[n].draft) \in Participants(Place(msg'[n].draft))
    <3>1. \A n \in Messages :
            msg'[n] = IF n = m THEN [draft |-> d, at |-> request[r].stamp]
                               ELSE msg[n]
      BY <2>6 DEF MessagingTypeOK
    <3>2. QED
      BY <3>1, <2>4 DEF MessagingTypeOK
  <2>9. QED
    BY <2>2, <2>3, <2>6, <2>7, <2>8
       DEF MessagingTypeOK, convVars, readVars, Participants
<1>7. ASSUME NEW r \in Requests, SendNotify(r) PROVE MessagingTypeOK'
  <2>1. [request[r] EXCEPT !.step = "reply"] \in Pending
    BY <1>7, SendMoves DEF SendNotify, SendSteps
  <2>2. request' \in [Requests -> Pending \cup {Idle}]
    BY <1>7, <2>1, Moved DEF SendNotify
  <2>3. request[r].message \in Messages
    BY <1>7 DEF SendNotify, SendInv, RowOK
  <2>4. QED
    BY <1>7, <2>2, <2>3
       DEF MessagingTypeOK, SendNotify, convVars, readVars, Participants
<1>8. ASSUME NEW r \in Requests, SendReply(r) PROVE MessagingTypeOK'
  <2>2. request' \in [Requests -> Pending \cup {Idle}]
    BY <1>8, Moved DEF SendReply
  <2>3. request[r].what \in Drafts
    BY <1>8, RequestCases DEF SendReply, SendSteps
  <2>4. QED
    BY <1>8, <2>2, <2>3
       DEF MessagingTypeOK, SendReply, convVars, readVars, Participants
<1>9. ASSUME NEW r \in Requests, NEW c \in Conversations, NEW u \in Users,
             MarkRead(r, c, u)
      PROVE  MessagingTypeOK'
  <2>1. At("mark", <<c, u>>, clock, NoValue) \in Pending
    BY DEF At, Pending, MessagingTypeOK
  <2>2. request' \in [Requests -> Pending \cup {Idle}]
    BY <1>9, <2>1, Moved DEF MarkRead
  <2>3. QED
    BY <1>9, <2>2
       DEF MessagingTypeOK, MarkRead, convVars, readVars, sendVars,
           Participants
<1>10. ASSUME NEW r \in Requests, MarkWrite(r) PROVE MessagingTypeOK'
  <2>2. request' \in [Requests -> Pending \cup {Idle}]
    BY <1>10, Moved DEF MarkWrite
  <2>3. late' \subseteq Requests \X Overtakings
    BY <1>10, LateTyped DEF MarkWrite, Overtakings
  <2>4. request[r].stamp \in 0..MaxClock
    BY <1>10, RequestCases, MessagingAssumption DEF MarkWrite
  <2>5. lastReadAt' \in [Conversations \X Users -> 0..MaxClock]
    BY <1>10, <2>4 DEF MarkWrite, MessagingTypeOK
  <2>6. QED
    BY <1>10, <2>2, <2>3, <2>5
       DEF MessagingTypeOK, MarkWrite, convVars, sendVars, Participants
<1>11. ASSUME NEW r \in Requests, RequestFails(r) PROVE MessagingTypeOK'
  <2>2. request' \in [Requests -> Pending \cup {Idle}]
    BY <1>11, Moved DEF RequestFails
  <2>3. request[r].step \in {"notify", "reply"} => request[r].what \in Drafts
    BY RequestCases DEF SendSteps
  <2>4. QED
    BY <1>11, <2>2, <2>3
       DEF MessagingTypeOK, RequestFails, convVars, readVars, Participants
<1>12. ASSUME NEW u \in Users, NEW v \in Users,
              BlockUser(u, v) \/ UnblockUser(u, v)
       PROVE  MessagingTypeOK'
  <2>1. /\ UNCHANGED <<convVars, readVars, sendVars, request>>
        /\ blocks' \subseteq Users \X Users
        /\ late' \subseteq Requests \X Overtakings
    BY <1>12 DEF BlockUser, UnblockUser, MessagingTypeOK, Overtakings
  <2>2. QED
    BY <2>1 DEF MessagingTypeOK, convVars, readVars, sendVars, Participants
<1>13. CASE Tick
  <2>1. clock' \in 1..MaxClock
    <3>1. \A a, b \in Nat : a \in 1..b /\ a < b => a + 1 \in 1..b
      OBVIOUS
    <3>2. QED
      BY <1>13, <3>1, MessagingAssumption DEF Tick, MessagingTypeOK
  <2>2. QED
    BY <1>13, <2>1 DEF Tick, MessagingTypeOK, convVars, sendVars, Participants
<1>14. CASE UNCHANGED messagingVars
  BY <1>14
     DEF messagingVars, MessagingTypeOK, convVars, readVars, sendVars,
         Participants
<1>15. QED
  BY <1>1, <1>2, <1>3, <1>4, <1>5, <1>6, <1>7, <1>8, <1>9, <1>10, <1>11, <1>12,
     <1>13, <1>14
     DEF MessagingNext, CreateStep, SendStep, MarkStep

\* Participants, messages, notices and answers stay, and time goes on.
RowsGrow ==
    /\ \A c \in Conversations :
         Participants(c) # {} => Participants(c)' = Participants(c)
    /\ \A m \in Messages : msg[m] # NoMessage => msg'[m] = msg[m]
    /\ acked \subseteq acked' /\ unheard \subseteq unheard'
    /\ notified \subseteq notified'
    /\ clock \in Nat /\ clock' \in Nat /\ clock <= clock'

\* No step takes any of them away.
LEMMA RowsStay ==
  ASSUME MessagingTypeOK, [MessagingNext]_messagingVars PROVE RowsGrow
<1>0. clock \in Nat /\ \A a \in Nat : a + 1 \in Nat /\ a <= a + 1 /\ a <= a
  <2>1. \A b \in Nat : \A a \in 1..b : a \in Nat
    OBVIOUS
  <2>2. QED
    BY <2>1, MessagingAssumption DEF MessagingTypeOK, RowsGrow
<1>1. UNCHANGED <<conv, sendVars, clock>> => RowsGrow
  BY <1>0 DEF sendVars, Participants, RowsGrow
<1>2. ASSUME NEW r \in Requests, NEW c \in Conversations, CreateWrite(r, c)
      PROVE  RowsGrow
  <2>1. conv[c].pair = {} /\ \A k \in Conversations \ {c} : conv'[k] = conv[k]
    BY <1>2, NoRows DEF CreateWrite, MessagingTypeOK
  <2>2. UNCHANGED <<sendVars, clock>>
    BY <1>2 DEF CreateWrite, readVars
  <2>3. QED
    BY <1>0, <2>1, <2>2 DEF Participants, sendVars, RowsGrow
<1>3. ASSUME NEW t \in Topics, DeleteListing(t) PROVE RowsGrow
  <2>1. UNCHANGED <<sendVars, clock>>
    BY <1>3 DEF DeleteListing, readVars
  <2>2. QED
    BY <1>0, <1>3, <2>1, LinksAreCleared DEF Participants, sendVars, RowsGrow
<1>4. ASSUME NEW r \in Requests, NEW m \in Messages, SendCommit(r, m)
      PROVE  RowsGrow
  <2>1. msg[m] = NoMessage /\ \A n \in Messages \ {m} : msg'[n] = msg[n]
    BY <1>4 DEF SendCommit, StoreMessage, MessagingTypeOK
  <2>2. UNCHANGED <<conv, acked, unheard, notified, clock>>
    BY <1>4 DEF SendCommit, StoreMessage, convVars, readVars
  <2>3. QED
    BY <1>0, <2>1, <2>2 DEF Participants, RowsGrow
<1>5. ASSUME NEW r \in Requests,
             SendNotify(r) \/ SendReply(r) \/ RequestFails(r)
      PROVE  RowsGrow
  BY <1>0, <1>5
     DEF SendNotify, SendReply, RequestFails, convVars, readVars, Participants,
         RowsGrow
<1>6. CASE Tick
  BY <1>0, <1>6 DEF Tick, convVars, sendVars, Participants, RowsGrow
<1>7. QED
  BY <1>1, <1>2, <1>3, <1>4, <1>5, <1>6
     DEF MessagingNext, CreateStep, SendStep, MarkStep, messagingVars,
         convVars, readVars, CreateRead, SendCheck, SendInsert, MarkRead,
         MarkWrite, BlockUser, UnblockUser

\* How a request can move: forward, or out.
Moves(r) ==
  \/ \E row \in ConversationRows : CreateRead(r, row)
  \/ \E d \in Drafts : SendCheck(r, d)
  \/ SendInsert(r)
  \/ \E m \in Messages : SendCommit(r, m)
  \/ SendNotify(r)
  \/ \E c \in Conversations, u \in Users : MarkRead(r, c, u)
  \/ request'[r] = Idle

\* A request stays where it is, or takes one of its statements.
LEMMA StaysOrMoves ==
  ASSUME MessagingTypeOK, [MessagingNext]_messagingVars, NEW r \in Requests
  PROVE  request'[r] = request[r] \/ Moves(r)
<1>1. ASSUME NEW q \in Requests,
             CreateStep(q) \/ SendStep(q) \/ MarkStep(q) \/ RequestFails(q)
      PROVE  request'[r] = request[r] \/ Moves(r)
  <2>1. \A next : Becomes(q, next) /\ q # r => request'[r] = request[r]
    BY Moved
  <2>2. Becomes(q, Idle) /\ q = r => request'[r] = Idle
    BY Moved
  <2>3. CASE q = r
    BY <1>1, <2>2, <2>3
       DEF Moves, CreateStep, SendStep, MarkStep, CreateWrite, SendReply,
           MarkWrite, RequestFails
  <2>4. CASE q # r
    BY <1>1, <2>1, <2>4
       DEF CreateStep, SendStep, MarkStep, CreateRead, CreateWrite, SendCheck,
           SendInsert, SendCommit, SendNotify, SendReply, MarkRead, MarkWrite,
           RequestFails
  <2>5. QED
    BY <2>3, <2>4
<1>2. QED
  BY <1>1
     DEF MessagingNext, messagingVars, BlockUser, UnblockUser, DeleteListing,
         Tick

\* A request that stays where it is stays late.
LEMMA LateStays ==
  ASSUME MessagingTypeOK, [MessagingNext]_messagingVars, NEW r \in Requests,
         request[r] # Idle, request'[r] = request[r],
         NEW why, <<r, why>> \in late
  PROVE  <<r, why>> \in late'
<1>1. Idle.step = "idle"
  BY DEF Idle, At
<1>2. ASSUME NEW q \in Requests, NEW next, Becomes(q, next), next # request[q],
             NEW w, NEW others, Overtakes(w, q, others)
      PROVE  <<r, why>> \in late'
  <2>1. q # r
    BY <1>2, Moved
  <2>2. QED
    BY <1>2, <2>1 DEF Overtakes, Overtaken
<1>3. ASSUME NEW q \in Requests, NEW m \in Messages, SendCommit(q, m)
      PROVE  <<r, why>> \in late'
  <2>1. [request[q] EXCEPT !.step = "notify", !.message = m] # request[q]
    <3>1. request[q] \in Pending \cup {Idle} /\ request[q].step = "commit"
      BY <1>3 DEF SendCommit, StoreMessage, MessagingTypeOK
    <3>2. [request[q] EXCEPT !.step = "notify", !.message = m].step = "notify"
      BY <3>1, Fields
    <3>3. QED
      BY <3>1, <3>2
  <2>2. QED
    BY <1>2, <1>3, <2>1 DEF SendCommit, StoreMessage
<1>4. ASSUME NEW q \in Requests,
             CreateStep(q) \/ SendStep(q) \/ MarkStep(q) \/ RequestFails(q)
      PROVE  <<r, why>> \in late'
  <2>1. ASSUME RequestFails(q) PROVE <<r, why>> \in late'
    <3>1. q # r
      BY <2>1, Moved DEF RequestFails
    <3>2. QED
      BY <2>1, <3>1 DEF RequestFails, Overtaken
  <2>2. ASSUME NEW c \in Conversations, CreateWrite(q, c)
        PROVE  <<r, why>> \in late'
    BY <1>1, <1>2, <2>2 DEF CreateWrite
  <2>3. ASSUME MarkWrite(q) PROVE <<r, why>> \in late'
    BY <1>1, <1>2, <2>3 DEF MarkWrite
  <2>4. QED
    BY <1>3, <1>4, <2>1, <2>2, <2>3
       DEF CreateStep, SendStep, MarkStep, CreateRead, SendCheck, SendInsert,
           SendNotify, SendReply, MarkRead
<1>5. QED
  BY <1>4
     DEF MessagingNext, messagingVars, BlockUser, UnblockUser, DeleteListing,
         Tick

\* Who changes what: messages are written by SendCommit, read marks by
\* MarkWrite, conversations by CreateWrite or the deletion of a listing.
Writers ==
    /\ \A m \in Messages :
         msg'[m] # msg[m] => \E q \in Requests : SendCommit(q, m)
    /\ \A p \in Conversations \X Users :
         lastReadAt'[p] # lastReadAt[p] =>
           \E q \in Requests : MarkWrite(q) /\ request[q].what = p
    /\ \A c \in Conversations :
         conv'[c] # conv[c] =>
           \/ \E q \in Requests :
                CreateWrite(q, c) /\ conv'[c] = request[q].what
           \/ conv'[c].topic = NoValue /\ c \in orphaned'
    /\ orphaned \subseteq orphaned' /\ doubled \subseteq doubled'
    /\ blocks' # blocks =>
         \E u, v \in Users : BlockUser(u, v) \/ UnblockUser(u, v)
    /\ acked' # acked => \E q \in Requests : SendReply(q)

\* No step changes any of it otherwise.
LEMMA WhoChanges ==
  ASSUME MessagingTypeOK, [MessagingNext]_messagingVars PROVE Writers
<1>1. UNCHANGED <<msg, lastReadAt, convVars, blocks, acked>> => Writers
  BY DEF convVars, Writers
<1>2. ASSUME NEW q \in Requests, NEW c \in Conversations, CreateWrite(q, c)
      PROVE  Writers
  <2>1. /\ conv'[c] = request[q].what
        /\ \A k \in Conversations \ {c} : conv'[k] = conv[k]
        /\ doubled \subseteq doubled'
        /\ UNCHANGED <<msg, lastReadAt, orphaned, blocks, acked>>
    BY <1>2 DEF CreateWrite, MessagingTypeOK, readVars, sendVars
  <2>2. QED
    BY <1>2, <2>1 DEF Writers
<1>3. ASSUME NEW t \in Topics, DeleteListing(t) PROVE Writers
  <2>1. /\ orphaned \subseteq orphaned'
        /\ UNCHANGED <<msg, lastReadAt, doubled, blocks, acked>>
    BY <1>3 DEF DeleteListing, readVars, sendVars
  <2>2. QED
    BY <1>3, <2>1, LinksAreCleared DEF Writers
<1>4. ASSUME NEW q \in Requests, NEW m \in Messages, SendCommit(q, m)
      PROVE  Writers
  <2>1. /\ \A n \in Messages \ {m} : msg'[n] = msg[n]
        /\ UNCHANGED <<convVars, lastReadAt, blocks, acked>>
    BY <1>4 DEF SendCommit, StoreMessage, MessagingTypeOK, readVars
  <2>2. QED
    BY <1>4, <2>1 DEF convVars, Writers
<1>5. ASSUME NEW q \in Requests, MarkWrite(q) PROVE Writers
  <2>1. /\ \A p \in Conversations \X Users : p # request[q].what
             => lastReadAt'[p] = lastReadAt[p]
        /\ UNCHANGED <<convVars, msg, blocks, acked>>
    BY <1>5 DEF MarkWrite, MarksOf, sendVars
  <2>2. QED
    BY <1>5, <2>1 DEF convVars, Writers
<1>6. ASSUME NEW q \in Requests, SendReply(q) PROVE Writers
  BY <1>6 DEF SendReply, convVars, readVars, Writers
<1>7. ASSUME NEW u \in Users, NEW v \in Users,
             BlockUser(u, v) \/ UnblockUser(u, v)
      PROVE  Writers
  BY <1>7 DEF BlockUser, UnblockUser, convVars, readVars, sendVars, Writers
<1>8. ASSUME NEW q \in Requests,
             CreateStep(q) \/ SendStep(q) \/ MarkStep(q) \/ RequestFails(q)
      PROVE  Writers
  BY <1>1, <1>2, <1>4, <1>5, <1>6, <1>8
     DEF CreateStep, SendStep, MarkStep, readVars, sendVars, CreateRead,
         SendCheck, SendInsert, SendNotify, MarkRead, RequestFails, Writers
<1>9. Tick \/ UNCHANGED messagingVars => Writers
  BY <1>1 DEF Tick, messagingVars, readVars, sendVars, Writers
<1>10. QED
  BY <1>3, <1>7, <1>8, <1>9 DEF MessagingNext

\* What a request has found when it comes to a statement.
Arrived(r, d) ==
    /\ request'[r].step = "create" => ~Found(d) /\ UNCHANGED conv
    /\ request'[r].step = "insert" =>
         /\ d \in Drafts \ acked /\ ~Blocked(d)
         /\ Author(d) \in Participants(Place(d))
         /\ \A q \in Requests : ~InFlight(q, d)
         /\ \A q \in Requests \ {r} : request'[q] = request[q]
         /\ UNCHANGED <<conv, acked, blocks>>
    /\ request'[r].step = "commit" =>
         /\ request[r].step = "insert" /\ d = request[r].what
         /\ request'[r].stamp = clock
         /\ UNCHANGED <<conv, clock, lastReadAt, msg, acked, blocks, late>>
    /\ request'[r].step = "notify" =>
         /\ request[r].step = "commit" /\ d = request[r].what
         /\ request'[r].message \in Messages
         /\ msg'[request'[r].message].draft = d
         /\ UNCHANGED <<conv, acked>>
    /\ request'[r].step = "reply" =>
         /\ request[r].step = "notify" /\ d = request[r].what
         /\ request[r].message \in notified'
         /\ UNCHANGED <<conv, msg, acked>>
    /\ request'[r].step = "mark" =>
         /\ d \in Conversations \X Users /\ request'[r].stamp = clock
         /\ UNCHANGED readVars

\* A request that has moved has found it.
LEMMA Arrives ==
  ASSUME MessagingTypeOK, [MessagingNext]_messagingVars, NEW r \in Requests,
         request'[r] # request[r], NEW d, d = request'[r].what
  PROVE  Arrived(r, d)
<1>0. /\ Idle.step = "idle" /\ request[r] \in Pending \cup {Idle}
      /\ \A w, t, m : /\ At("create", w, t, m).step = "create"
                      /\ At("create", w, t, m).what = w
                      /\ At("insert", w, t, m).step = "insert"
                      /\ At("insert", w, t, m).what = w
                      /\ At("mark", w, t, m).step = "mark"
                      /\ At("mark", w, t, m).what = w
                      /\ At("mark", w, t, m).stamp = t
  BY DEF Idle, At, MessagingTypeOK
<1>1. ASSUME NEW row \in ConversationRows, CreateRead(r, row)
      PROVE  Arrived(r, d)
  <2>1. /\ request'[r] = At("create", row, 0, NoValue)
        /\ UNCHANGED conv /\ ~Found(row)
    BY <1>1, Moved DEF CreateRead, convVars
  <2>2. QED
    BY <1>0, <2>1 DEF Arrived
<1>2. ASSUME NEW e \in Drafts, SendCheck(r, e) PROVE Arrived(r, d)
  <2>1. /\ request'[r] = At("insert", e, 0, NoValue)
        /\ \A q \in Requests \ {r} : request'[q] = request[q]
    BY <1>2, Moved DEF SendCheck
  <2>2. QED
    BY <1>0, <1>2, <2>1 DEF SendCheck, Enters, convVars, sendVars, Arrived
<1>3. ASSUME SendInsert(r) PROVE Arrived(r, d)
  <2>1. /\ request'[r] = [request[r] EXCEPT !.step = "commit", !.stamp = clock]
        /\ request[r].step = "insert"
    BY <1>3, Moved DEF SendInsert
  <2>2. UNCHANGED <<conv, clock, lastReadAt, msg, acked, blocks, late>>
    BY <1>3 DEF SendInsert, convVars, sendVars, readVars
  <2>3. /\ request'[r].step = "commit" /\ request'[r].stamp = clock
        /\ d = request[r].what
    BY <1>0, <2>1, Fields
  <2>4. QED
    BY <2>1, <2>2, <2>3 DEF Arrived
<1>4. ASSUME NEW m \in Messages, SendCommit(r, m) PROVE Arrived(r, d)
  <2>1. /\ request'[r] = [request[r] EXCEPT !.step = "notify", !.message = m]
        /\ request[r].step = "commit"
    BY <1>4, Moved DEF SendCommit, StoreMessage
  <2>2. UNCHANGED <<conv, acked>> /\ msg'[m].draft = request[r].what
    BY <1>4 DEF SendCommit, StoreMessage, convVars, MessagingTypeOK
  <2>3. /\ request'[r].step = "notify" /\ request'[r].message = m
        /\ d = request[r].what
    BY <1>0, <2>1, Fields
  <2>4. QED
    BY <2>1, <2>2, <2>3 DEF Arrived
<1>5. ASSUME SendNotify(r) PROVE Arrived(r, d)
  <2>1. /\ request'[r] = [request[r] EXCEPT !.step = "reply"]
        /\ request[r].step = "notify"
    BY <1>5, Moved DEF SendNotify
  <2>2. UNCHANGED <<conv, msg, acked>> /\ request[r].message \in notified'
    BY <1>5 DEF SendNotify, convVars
  <2>3. request'[r].step = "reply" /\ d = request[r].what
    BY <1>0, <2>1, Fields
  <2>4. QED
    BY <2>1, <2>2, <2>3 DEF Arrived
<1>6. ASSUME NEW c \in Conversations, NEW u \in Users, MarkRead(r, c, u)
      PROVE  Arrived(r, d)
  <2>1. /\ request'[r] = At("mark", <<c, u>>, clock, NoValue)
        /\ UNCHANGED readVars
    BY <1>6, Moved DEF MarkRead
  <2>2. QED
    BY <1>0, <2>1 DEF Arrived
<1>7. CASE request'[r] = Idle
  BY <1>0, <1>7 DEF Arrived
<1>8. QED
  BY <1>1, <1>2, <1>3, <1>4, <1>5, <1>6, <1>7, StaysOrMoves DEF Moves

\* A request that commits goes on to the notification.
LEMMA CommitMoves ==
  ASSUME MessagingTypeOK, NEW q \in Requests, NEW m \in Messages,
         SendCommit(q, m)
  PROVE  request'[q].step = "notify" /\ request'[q].what = request[q].what
<1>1. request'[q] = [request[q] EXCEPT !.step = "notify", !.message = m]
  BY Moved DEF SendCommit
<1>2. QED
  BY <1>1, RequestCases, Fields

-----------------------------------------------------------------------------
(* Every step keeps the invariant                                          *)

\* Times are taken from the clock.
LEMMA ClockKept ==
  ASSUME MessagingTypeOK, SendInv, ClockInv, [MessagingNext]_messagingVars
  PROVE  ClockInv'
<1>0. /\ clock \in Nat /\ clock' \in Nat /\ clock <= clock'
      /\ \A m \in Messages : msg[m] # NoMessage => msg'[m] = msg[m]
  BY RowsStay DEF RowsGrow
<1>1. /\ MessagingTypeOK' /\ \A a, b, c \in Nat : a <= b /\ b <= c => a <= c
      /\ \A a, b \in Nat : \A c \in a..b : c \in Nat /\ c <= b
  BY TypesKept
<1>2. MessagesPast'
  <2> SUFFICES ASSUME NEW m \in Messages, msg'[m] # NoMessage
               PROVE  msg'[m].at <= clock'
    BY DEF MessagesPast
  <2>1. CASE msg'[m] = msg[m]
    <3>1. msg[m].at <= clock /\ msg[m].at \in Nat
      BY <1>1, <2>1, RowFields, MessagingAssumption
         DEF MessagingTypeOK, ClockInv, MessagesPast
    <3>2. QED
      BY <1>0, <1>1, <2>1, <3>1
  <2>2. CASE msg'[m] # msg[m]
    <3>1. PICK q \in Requests : SendCommit(q, m)
      BY <2>2, WhoChanges DEF Writers
    <3>2. msg'[m].at = request[q].stamp /\ request[q].stamp \in 1..clock
      BY <3>1 DEF SendCommit, StoreMessage, MessagingTypeOK, SendInv, StampOK
    <3>3. QED
      BY <1>0, <1>1, <3>2
  <2>3. QED
    BY <2>1, <2>2
<1>3. ReadsPast'
  <2> SUFFICES ASSUME NEW p \in Conversations \X Users
               PROVE  lastReadAt'[p] <= clock'
    BY DEF ReadsPast
  <2>1. CASE lastReadAt'[p] = lastReadAt[p]
    <3>1. lastReadAt[p] <= clock /\ lastReadAt[p] \in Nat
      BY <1>1, MessagingAssumption DEF MessagingTypeOK, ClockInv, ReadsPast
    <3>2. QED
      BY <1>0, <1>1, <2>1, <3>1
  <2>2. CASE lastReadAt'[p] # lastReadAt[p]
    <3>1. PICK q \in Requests : MarkWrite(q) /\ request[q].what = p
      BY <2>2, WhoChanges DEF Writers
    <3>2. lastReadAt'[p] = request[q].stamp /\ request[q].stamp <= clock
      BY <3>1 DEF MarkWrite, MarksOf, SendInv, StampOK
    <3>3. request[q].stamp \in Nat
      BY <3>1, <1>1, RequestCases, MessagingAssumption DEF MarkWrite
    <3>4. QED
      BY <1>0, <1>1, <3>2, <3>3
  <2>3. QED
    BY <2>1, <2>2
<1>4. QED
  BY <1>2, <1>3 DEF ClockInv

\* A sender stays alone, a participant and unanswered until the reply, and
\* replies after the notification of its own message.
LEMMA SendKept ==
  ASSUME MessagingTypeOK, SendInv, [MessagingNext]_messagingVars
  PROVE  SendInv'
<1>0. MessagingTypeOK'
  BY TypesKept
<1>1. OneInFlight'
  <2> SUFFICES ASSUME NEW q \in Requests, NEW r \in Requests, q # r,
                      request'[q].step \in SendSteps,
                      request'[r].step \in SendSteps,
                      request'[q].what = request'[r].what
               PROVE  FALSE
    BY DEF OneInFlight
  <2>1. ASSUME NEW s \in {q, r}, request'[s].step = "insert",
               request'[s] # request[s]
        PROVE  FALSE
    <3>1. \A x \in Requests : ~InFlight(x, request'[s].what)
      BY <2>1, Arrives DEF Arrived
    <3>2. \A x \in Requests \ {s} : request'[x] = request[x]
      BY <2>1, Arrives DEF Arrived
    <3>3. QED
      BY <2>1, <3>1, <3>2 DEF InFlight
  <2>2. ASSUME NEW s \in {q, r}
        PROVE  /\ request[s].step \in SendSteps
               /\ request[s].what = request'[s].what
    <3>1. request'[s] = request[s] \/ request'[s].step # "insert"
      BY <2>1
    <3>2. /\ request'[s].step \in {"commit", "notify", "reply"}
          /\ request'[s] # request[s]
          => /\ request[s].step \in {"insert", "commit", "notify"}
             /\ request[s].what = request'[s].what
      BY Arrives DEF Arrived
    <3>3. QED
      BY <3>1, <3>2 DEF SendSteps
  <2>3. QED
    BY <2>2 DEF SendInv, OneInFlight
<1>2. ASSUME NEW r \in Requests PROVE SenderOK(r)'
  <2> SUFFICES ASSUME request'[r].step \in SendSteps,
                      NEW d, d = request'[r].what
               PROVE  Author(d) \in Participants(Place(d))' /\ d \notin acked'
    BY DEF SenderOK, Participants
  <2>1. d \in Drafts /\ Place(d) \in Conversations
    <3>1. request'[r] \in Pending \cup {Idle}
      BY <1>0 DEF MessagingTypeOK
    <3>2. QED
      BY <3>1, PendingCases, DraftParts
  <2>2. CASE request'[r] = request[r]
    <3>1. Author(d) \in Participants(Place(d)) /\ d \notin acked
      BY <2>2 DEF SendInv, SenderOK
    <3>2. ASSUME d \in acked' PROVE FALSE
      <4>1. PICK q \in Requests : SendReply(q)
        BY <3>1, <3>2, WhoChanges DEF Writers
      <4>2. /\ request[q].what = d /\ request[q].step \in SendSteps
            /\ request'[q] = Idle
        BY <3>1, <3>2, <4>1, Moved DEF SendReply, SendSteps
      <4>3. q = r
        BY <2>2, <4>2 DEF SendInv, OneInFlight
      <4>4. QED
        BY <2>2, <4>2, <4>3 DEF Idle, At, SendSteps
    <3>3. QED
      BY <2>1, <3>1, <3>2, RowsStay DEF RowsGrow
  <2>3. CASE request'[r] # request[r]
    <3>1. CASE request'[r].step = "insert"
      BY <2>3, <3>1, Arrives DEF Participants, Arrived
    <3>2. CASE request'[r].step # "insert"
      <4>1. /\ request[r].step \in SendSteps /\ d = request[r].what
            /\ UNCHANGED <<conv, acked>>
        BY <2>3, <3>2, Arrives DEF SendSteps, Arrived
      <4>2. QED
        BY <4>1 DEF SendInv, SenderOK, Participants
    <3>3. QED
      BY <3>1, <3>2
  <2>4. QED
    BY <2>2, <2>3
<1>3. ASSUME NEW r \in Requests PROVE StampOK(r)'
  <2>1. /\ clock \in Nat /\ clock' \in Nat
        /\ clock <= clock' /\ clock \in 1..MaxClock
    BY RowsStay DEF MessagingTypeOK, RowsGrow
  <2>2. \A a, b \in Nat : a <= b => /\ \A c \in 1..a : c \in 1..b
                                    /\ \A c \in Nat : c <= a => c <= b
    OBVIOUS
  <2>3. clock \in 1..clock'
    BY <2>1, MessagingAssumption
  <2>4. request[r].step = "mark" => request[r].stamp \in Nat
    BY RequestCases, MessagingAssumption
  <2>5. CASE request'[r] = request[r]
    BY <2>1, <2>2, <2>4, <2>5 DEF SendInv, StampOK
  <2>6. CASE request'[r] # request[r]
    BY <2>1, <2>3, <2>6, Arrives DEF StampOK, Arrived
  <2>7. QED
    BY <2>5, <2>6
<1>4. ASSUME NEW r \in Requests PROVE RowOK(r)'
  <2> SUFFICES ASSUME NEW d, d = request'[r].what,
                      request'[r].step \in {"notify", "reply"}
               PROVE  /\ request'[r].step = "notify" =>
                           /\ request'[r].message \in Messages
                           /\ msg'[request'[r].message].draft = d
                      /\ request'[r].step = "reply" =>
                           \E m \in Messages :
                             msg'[m].draft = d /\ m \in notified'
    BY DEF RowOK, Stored
  <2>0. /\ d \in Drafts
        /\ \A m \in Messages : msg[m].draft = d => msg'[m] = msg[m]
    <3>1. request'[r] \in Pending \cup {Idle}
      BY <1>0 DEF MessagingTypeOK
    <3>2. d \in Drafts
      BY <3>1, PendingCases DEF SendSteps
    <3>3. QED
      BY <3>2, RowsStay, NoRows DEF RowsGrow
  <2>1. RowOK(r)
    BY DEF SendInv
  <2>2. CASE request'[r] = request[r]
    BY <2>0, <2>1, <2>2, RowsStay DEF RowOK, Stored, RowsGrow
  <2>3. CASE request'[r] # request[r]
    BY <2>0, <2>1, <2>3, Arrives DEF RowOK, Stored, Arrived
  <2>4. QED
    BY <2>2, <2>3
<1>5. QED
  BY <1>1, <1>2, <1>3, <1>4 DEF SendInv

\* A request that stays where it is learns what has overtaken it: the same
\* conversation is created,
LEMMA OvertakenByCreate ==
  ASSUME MessagingTypeOK, NEW r \in Requests, request'[r] = request[r],
         request[r].step = "create",
         NEW q \in Requests, NEW c \in Conversations, CreateWrite(q, c),
         request[r].what = request[q].what
  PROVE  <<r, "create">> \in late'
<1>1. q # r
  BY Moved DEF CreateWrite, Idle, At
<1>2. QED
  BY <1>1 DEF CreateWrite, Overtakes

\* a message is stored in the conversation,
LEMMA OvertakenByMessage ==
  ASSUME MessagingTypeOK, NEW r \in Requests, request'[r] = request[r],
         request[r].step = "commit", NEW q \in Requests, NEW m \in Messages,
         SendCommit(q, m), Place(request[r].what) = Place(request[q].what)
  PROVE  <<r, "message">> \in late'
<1>1. q # r
  BY CommitMoves
<1>2. QED
  BY <1>1 DEF SendCommit, StoreMessage, Overtakes

\* a recipient, or the same participant, has marked it as read.
LEMMA OvertakenByRead ==
  ASSUME MessagingTypeOK, NEW r \in Requests, request'[r] = request[r],
         NEW q \in Requests, MarkWrite(q), NEW c, NEW u,
         request[q].what = <<c, u>>,
         \/ request[r].step = "mark" /\ request[r].what = <<c, u>>
         \/ /\ request[r].step = "commit" /\ Place(request[r].what) = c
            /\ u \in Recipients(request[r].what)
  PROVE  <<r, "read">> \in late'
<1>1. q # r
  BY Moved DEF MarkWrite, Idle, At
<1>2. QED
  BY <1>1 DEF MarkWrite, Overtakes

\* The lookup of create is up to date, or the request is late.
LEMMA CreateKept ==
  ASSUME MessagingInv, [MessagingNext]_messagingVars, NEW r \in Requests
  PROVE  CreateKnown(r)'
<1> SUFFICES ASSUME request'[r].step = "create", NEW c \in Conversations,
                    conv'[c] = request'[r].what
             PROVE  \/ <<r, "create">> \in late'
                    \/ conv'[c].topic = NoValue /\ c \in orphaned'
  BY DEF CreateKnown
<1>0. MessagingTypeOK /\ CreateKnown(r)
  BY DEF MessagingInv, KnownInv
<1>1. CASE request'[r] # request[r]
  BY <1>0, <1>1, Arrives DEF Found, Arrived
<1>2. CASE request'[r] = request[r] /\ conv'[c] = conv[c]
  <2>1. request[r] # Idle
    BY <1>2 DEF Idle, At
  <2>2. QED
    BY <1>0, <1>2, <2>1, LateStays, WhoChanges DEF CreateKnown, Writers
<1>3. CASE request'[r] = request[r] /\ conv'[c] # conv[c]
  BY <1>0, <1>3, WhoChanges, OvertakenByCreate DEF Writers
<1>4. QED
  BY <1>1, <1>2, <1>3

\* A draft on its way keeps its recipients.
LEMMA SendersStay ==
  ASSUME MessagingInv, [MessagingNext]_messagingVars, NEW r \in Requests,
         request'[r] = request[r], request[r].step \in SendSteps,
         NEW d, d = request[r].what
  PROVE  /\ d \in Drafts /\ Author(d) \in Users /\ Place(d) \in Conversations
         /\ Recipients(d)' = Recipients(d) /\ request[r] # Idle
         /\ Recipients(d) \subseteq Users
<1>0. MessagingTypeOK /\ SenderOK(r)
  BY DEF MessagingInv, SendInv
<1>1. d \in Drafts
  BY <1>0, RequestCases
<1>2. Author(d) \in Users /\ Place(d) \in Conversations
  BY <1>1, DraftParts
<1>3. Participants(Place(d)) # {}
  BY <1>0 DEF SenderOK
<1>4. Participants(Place(d))' = Participants(Place(d))
  BY <1>0, <1>2, <1>3, RowsStay DEF RowsGrow
<1>5. request[r] # Idle
  BY DEF Idle, At, SendSteps
<1>6. Recipients(d) \subseteq Users
  <2>1. conv[Place(d)] \in ConversationRows
    BY <1>0, <1>2, <1>3, NoRows DEF MessagingTypeOK, Participants
  <2>2. \A p \in Pairs : p \subseteq Users
    BY DEF Pairs
  <2>3. QED
    BY <2>1, <2>2, RowFields DEF Recipients, Participants
<1>7. QED
  BY <1>1, <1>2, <1>4, <1>5, <1>6 DEF Recipients

\* So is the look for a block,
LEMMA BlockKept ==
  ASSUME MessagingInv, [MessagingNext]_messagingVars, NEW r \in Requests
  PROVE  BlockKnown(r)'
<1> SUFFICES ASSUME request'[r].step \in {"insert", "commit"},
                    NEW d, d = request'[r].what,
                    NEW v \in Recipients(d)', <<v, Author(d)>> \in blocks'
             PROVE  <<r, "block">> \in late'
  BY DEF BlockKnown, Recipients, Participants
<1>0. MessagingTypeOK /\ BlockKnown(r)
  BY DEF MessagingInv, KnownInv
<1>1. CASE request'[r] # request[r]
  <2>1. CASE request'[r].step = "insert"
    BY <1>0, <1>1, <2>1, Arrives DEF Blocked, Recipients, Participants, Arrived
  <2>2. CASE request'[r].step = "commit"
    BY <1>0, <1>1, <2>2, Arrives
       DEF BlockKnown, Recipients, Participants, Arrived
  <2>3. QED
    BY <2>1, <2>2
<1>2. CASE request'[r] = request[r]
  <2>0. d = request[r].what /\ request[r].step \in SendSteps
    BY <1>2 DEF SendSteps
  <2>1. v \in Recipients(d) /\ request[r] # Idle
    BY <1>2, <2>0, SendersStay
  <2>2. CASE <<v, Author(d)>> \in blocks
    BY <1>0, <1>2, <2>1, <2>2, LateStays DEF BlockKnown
  <2>3. CASE <<v, Author(d)>> \notin blocks
    <3>1. PICK x, y \in Users : BlockUser(x, y) \/ UnblockUser(x, y)
      BY <1>0, <2>3, WhoChanges DEF Writers
    <3>2. BlockUser(x, y) /\ x = v /\ y = Author(d)
      BY <2>3, <3>1 DEF BlockUser, UnblockUser
    <3>3. QED
      BY <1>2, <2>1, <3>2 DEF BlockUser
  <2>4. QED
    BY <2>2, <2>3
<1>3. QED
  BY <1>1, <1>2

\* the time of the transaction, compared with other messages,
LEMMA MessageKept ==
  ASSUME MessagingInv, [MessagingNext]_messagingVars, NEW r \in Requests
  PROVE  MessageKnown(r)'
<1> SUFFICES ASSUME request'[r].step = "commit", NEW m \in Messages,
                    msg'[m] # NoMessage,
                    Place(msg'[m].draft) = Place(request'[r].what)
             PROVE  \/ msg'[m].at <= request'[r].stamp
                    \/ <<r, "message">> \in late'
  BY DEF MessageKnown
<1>0. MessagingTypeOK /\ MessageKnown(r) /\ MessagesPast
  BY DEF MessagingInv, KnownInv, ClockInv
<1>1. CASE request'[r] # request[r]
  BY <1>0, <1>1, Arrives DEF MessagesPast, Arrived
<1>2. CASE request'[r] = request[r] /\ msg'[m] = msg[m]
  <2>1. request[r] # Idle
    BY <1>2 DEF Idle, At
  <2>2. QED
    BY <1>0, <1>2, <2>1, LateStays DEF MessageKnown
<1>3. CASE request'[r] = request[r] /\ msg'[m] # msg[m]
  <2>1. PICK q \in Requests : SendCommit(q, m)
    BY <1>0, <1>3, WhoChanges DEF Writers
  <2>2. msg'[m].draft = request[q].what
    BY <1>0, <2>1 DEF SendCommit, StoreMessage, MessagingTypeOK
  <2>3. QED
    BY <1>0, <1>3, <2>1, <2>2, OvertakenByMessage
<1>4. QED
  BY <1>1, <1>2, <1>3

\* and with read marks,
LEMMA ReadKept ==
  ASSUME MessagingInv, [MessagingNext]_messagingVars, NEW r \in Requests
  PROVE  ReadKnown(r)'
<1> SUFFICES ASSUME request'[r].step = "commit", NEW d, d = request'[r].what,
                    NEW u \in Recipients(d)'
             PROVE  \/ lastReadAt'[<<Place(d), u>>] <= request'[r].stamp
                    \/ <<r, "read">> \in late'
  BY DEF ReadKnown, Recipients, Participants
<1>0. MessagingTypeOK /\ ReadKnown(r) /\ ReadsPast
  BY DEF MessagingInv, KnownInv, ClockInv
<1>1. CASE request'[r] # request[r]
  <2>1. /\ request[r].step = "insert" /\ d = request[r].what /\ UNCHANGED conv
        /\ request'[r].stamp = clock /\ lastReadAt' = lastReadAt
    BY <1>0, <1>1, Arrives DEF Arrived
  <2>2. /\ d \in Drafts /\ Place(d) \in Conversations
        /\ u \in Participants(Place(d))
    BY <1>0, <2>1, RequestCases, DraftParts
       DEF SendSteps, Recipients, Participants
  <2>3. u \in Users
    <3>1. conv[Place(d)] \in ConversationRows
      BY <1>0, <2>2, NoRows DEF MessagingTypeOK, Participants
    <3>2. \A p \in Pairs : p \subseteq Users
      BY DEF Pairs
    <3>3. QED
      BY <2>2, <3>1, <3>2, RowFields DEF Participants
  <2>4. QED
    BY <1>0, <2>1, <2>2, <2>3 DEF ReadsPast
<1>2. CASE request'[r] = request[r]
  <2>0. /\ d = request[r].what /\ request[r].step = "commit"
        /\ request[r].step \in SendSteps
    BY <1>2 DEF SendSteps
  <2>1. /\ u \in Recipients(d) /\ u \in Users /\ Place(d) \in Conversations
        /\ request[r] # Idle
    BY <1>2, <2>0, SendersStay
  <2>2. CASE lastReadAt'[<<Place(d), u>>] = lastReadAt[<<Place(d), u>>]
    BY <1>0, <1>2, <2>0, <2>1, <2>2, LateStays DEF ReadKnown
  <2>3. CASE lastReadAt'[<<Place(d), u>>] # lastReadAt[<<Place(d), u>>]
    <3>1. PICK q \in Requests :
            MarkWrite(q) /\ request[q].what = <<Place(d), u>>
      BY <1>0, <2>1, <2>3, WhoChanges DEF Writers
    <3>2. QED
      BY <1>0, <1>2, <2>0, <2>1, <3>1, OvertakenByRead
  <2>4. QED
    BY <2>2, <2>3
<1>3. QED
  BY <1>1, <1>2

\* and the time of a read mark.
LEMMA MarkKept ==
  ASSUME MessagingInv, [MessagingNext]_messagingVars, NEW r \in Requests
  PROVE  MarkKnown(r)'
<1> SUFFICES ASSUME request'[r].step = "mark", NEW p, p = request'[r].what
             PROVE  \/ lastReadAt'[p] <= request'[r].stamp
                    \/ <<r, "read">> \in late'
  BY DEF MarkKnown
<1>0. MessagingTypeOK /\ MarkKnown(r) /\ ReadsPast
  BY DEF MessagingInv, KnownInv, ClockInv
<1>1. CASE request'[r] # request[r]
  BY <1>0, <1>1, Arrives DEF ReadsPast, readVars, Arrived
<1>2. CASE request'[r] = request[r]
  <2>1. request[r] # Idle /\ p \in Conversations \X Users
    BY <1>0, <1>2, RequestCases DEF Idle, At
  <2>2. CASE lastReadAt'[p] = lastReadAt[p]
    BY <1>0, <1>2, <2>1, <2>2, LateStays DEF MarkKnown
  <2>3. CASE lastReadAt'[p] # lastReadAt[p]
    <3>1. PICK q \in Requests : MarkWrite(q) /\ request[q].what = p
      BY <1>0, <2>1, <2>3, WhoChanges DEF Writers
    <3>2. PICK c \in Conversations, u \in Users : p = <<c, u>>
      BY <2>1
    <3>3. QED
      BY <1>0, <1>2, <3>1, <3>2, OvertakenByRead
  <2>4. QED
    BY <2>2, <2>3
<1>3. QED
  BY <1>1, <1>2

\* Only SendCommit writes messages.
LEMMA SendOnlyStores ==
  ASSUME MessagingTypeOK, [MessagingNext]_messagingVars, ~UNCHANGED msg
  PROVE  \E q \in Requests, n \in Messages : SendCommit(q, n)
<1>1. UNCHANGED sendVars => UNCHANGED msg
  BY DEF sendVars
<1>2. QED
  BY <1>1
     DEF MessagingNext, CreateStep, SendStep, MarkStep, messagingVars,
         CreateRead, CreateWrite, SendCheck, SendInsert, SendNotify, SendReply,
         MarkRead, MarkWrite, RequestFails, BlockUser, UnblockUser,
         DeleteListing, Tick

\* A request that has stored its draft goes on to the reply, acknowledges it
\* or reports a failure.
LEMMA Answers ==
  ASSUME MessagingTypeOK, [MessagingNext]_messagingVars, NEW r \in Requests,
         request[r].step \in {"notify", "reply"}, request'[r] # request[r],
         NEW d, d = request[r].what
  PROVE  \/ request'[r].step = "reply" /\ request'[r].what = d
         \/ d \in acked' \cup unheard'
<1>1. PICK q \in Requests :
        CreateStep(q) \/ SendStep(q) \/ MarkStep(q) \/ RequestFails(q)
  BY DEF MessagingNext, messagingVars, BlockUser, UnblockUser, DeleteListing,
         Tick
<1>2. q = r
  <2>1. q # r => \A next : Becomes(q, next) => request'[r] = request[r]
    BY Moved
  <2>2. \E next : Becomes(q, next)
    BY <1>1
       DEF CreateStep, SendStep, MarkStep, CreateRead, CreateWrite, SendCheck,
           SendInsert, SendCommit, SendNotify, SendReply, MarkRead, MarkWrite,
           RequestFails
  <2>3. QED
    BY <2>1, <2>2
<1>3. request[r] # Idle
  BY DEF Idle, At
<1>4. ~CreateStep(r) /\ ~MarkStep(r)
  BY <1>3
     DEF CreateStep, MarkStep, CreateRead, CreateWrite, MarkRead, MarkWrite
<1>5. SendNotify(r) \/ SendReply(r) \/ RequestFails(r)
  BY <1>1, <1>2, <1>3, <1>4
     DEF SendStep, SendCheck, SendInsert, SendCommit, StoreMessage
<1>6. CASE SendNotify(r)
  <2>1. request'[r] = [request[r] EXCEPT !.step = "reply"]
    BY <1>6, Moved DEF SendNotify
  <2>2. QED
    BY <2>1, RequestCases, Fields
<1>7. QED
  BY <1>5, <1>6 DEF SendReply, RequestFails

\* What is stored is answered, and notified once it is stored.
LEMMA StoredKept ==
  ASSUME MessagingInv, [MessagingNext]_messagingVars
  PROVE  StoredInv'
<1>0. MessagingTypeOK /\ SendInv /\ StoredInv /\ SendInv'
  BY SendKept DEF MessagingInv
<1>1. ASSUME NEW d \in Drafts, Stored(d)' # {}
      PROVE  \/ d \in acked' \cup unheard'
             \/ \E r \in Requests : /\ request'[r].step \in {"notify", "reply"}
                                    /\ request'[r].what = d
  <2>1. CASE Stored(d) # {}
    <3>1. CASE d \in acked \cup unheard
      BY <1>0, <3>1, RowsStay DEF RowsGrow
    <3>2. CASE d \notin acked \cup unheard
      <4>1. PICK r \in Requests : /\ request[r].step \in {"notify", "reply"}
                                  /\ request[r].what = d
        BY <1>0, <2>1, <3>2 DEF StoredInv, Answered
      <4>2. CASE request'[r] = request[r]
        BY <4>1, <4>2
      <4>3. CASE request'[r] # request[r]
        BY <1>0, <4>1, <4>3, Answers
      <4>4. QED
        BY <4>2, <4>3
    <3>3. QED
      BY <3>1, <3>2
  <2>2. CASE Stored(d) = {}
    <3>1. PICK m \in Messages : msg'[m].draft = d /\ msg'[m] # msg[m]
      BY <1>1, <2>2 DEF Stored
    <3>2. PICK q \in Requests : SendCommit(q, m)
      BY <1>0, <3>1, WhoChanges DEF Writers
    <3>4. request[q].what = d
      BY <1>0, <3>1, <3>2 DEF SendCommit, StoreMessage, MessagingTypeOK
    <3>5. QED
      BY <1>0, <3>2, <3>4, CommitMoves
  <2>3. QED
    BY <2>1, <2>2
<1>2. ASSUME NEW d \in Drafts PROVE IsFiniteSet(Stored(d)')
  <2>1. IsFiniteSet(Stored(d))
    BY <1>0 DEF StoredInv
  <2>2. PICK m : \A n \in Messages : msg'[n] # msg[n] => n = m
    <3>1. CASE UNCHANGED msg
      BY <3>1
    <3>2. ASSUME NEW q \in Requests, NEW n \in Messages, SendCommit(q, n)
          PROVE  \A k \in Messages : msg'[k] # msg[k] => k = n
      BY <1>0, <3>2 DEF SendCommit, StoreMessage, MessagingTypeOK
    <3>3. CASE ~UNCHANGED msg
      <4>1. \E q \in Requests, n \in Messages : SendCommit(q, n)
        BY <1>0, <3>3, SendOnlyStores
      <4>2. QED
        BY <3>2, <4>1
    <3>4. QED
      BY <3>1, <3>3
  <2>3. Stored(d)' \subseteq Stored(d) \cup {m}
    BY <2>2 DEF Stored
  <2>4. IsFiniteSet(Stored(d) \cup {m})
    BY <2>1, FS_AddElement
  <2>5. QED
    BY <2>3, <2>4, FS_Subset
<1>3. NoticesOfStored'
  <2> SUFFICES ASSUME NEW m \in notified' PROVE msg'[m] # NoMessage
    BY DEF NoticesOfStored
  <2>0. notified' \subseteq Messages
    BY TypesKept, <1>0 DEF MessagingTypeOK
  <2>1. CASE m \in notified
    BY <1>0, <2>0, <2>1, RowsStay DEF StoredInv, NoticesOfStored, RowsGrow
  <2>2. CASE m \notin notified
    <3>1. PICK q \in Requests : SendNotify(q)
      BY <2>2
         DEF MessagingNext, CreateStep, SendStep, MarkStep, messagingVars,
             sendVars, CreateRead, CreateWrite, SendCheck, SendInsert,
             SendCommit, StoreMessage, SendReply, MarkRead, MarkWrite,
             RequestFails, BlockUser, UnblockUser, DeleteListing, Tick
    <3>2. m = request[q].message /\ msg' = msg /\ request[q].step = "notify"
      BY <2>2, <3>1 DEF SendNotify
    <3>3. msg[m].draft \in Drafts
      BY <1>0, <3>2, RequestCases DEF SendInv, RowOK, Stored, SendSteps
    <3>4. QED
      BY <3>2, <3>3, NoRows
  <2>3. QED
    BY <2>1, <2>2
<1>4. QED
  BY <1>1, <1>2, <1>3 DEF StoredInv, Answered

\* The conversation of a pair about a listing stays the only one.
LEMMA ConversationsKept ==
  ASSUME MessagingInv, [MessagingNext]_messagingVars
  PROVE  OneConversation'
<1>0. MessagingTypeOK /\ OneConversation /\ \A r \in Requests : CreateKnown(r)
  BY DEF MessagingInv, KnownInv
<1> SUFFICES ASSUME NEW c \in Conversations, NEW d \in Conversations, c # d,
                    conv'[c] # NoConversation, conv'[c] = conv'[d]
             PROVE  \/ {c, d} \cap doubled' # {}
                    \/ conv'[c].topic = NoValue /\ {c, d} \cap orphaned' # {}
  BY DEF OneConversation
<1>1. CASE conv'[c] = conv[c] /\ conv'[d] = conv[d]
  BY <1>0, <1>1, WhoChanges DEF OneConversation, Writers
<1>2. ASSUME NEW q \in Requests, NEW k \in {c, d}, CreateWrite(q, k)
      PROVE  \/ {c, d} \cap doubled' # {}
             \/ conv'[c].topic = NoValue /\ {c, d} \cap orphaned' # {}
  <2> PICK l \in {c, d} : l # k
    OBVIOUS
  <2>1. /\ conv'[l] = conv[l] /\ conv'[k] = request[q].what
        /\ request[q].step = "create"
    BY <1>0, <1>2 DEF CreateWrite, MessagingTypeOK
  <2>2. <<q, "create">> \in late \/ (conv[l].topic = NoValue /\ l \in orphaned)
    BY <1>0, <2>1 DEF CreateKnown
  <2>3. orphaned' = orphaned /\ (<<q, "create">> \in late => k \in doubled')
    BY <1>2 DEF CreateWrite
  <2>4. QED
    BY <2>1, <2>2, <2>3
<1>3. QED
  BY <1>0, <1>1, <1>2, WhoChanges DEF Writers

\* Every step keeps the invariant.
LEMMA MessagingStep ==
    MessagingInv /\ [MessagingNext]_messagingVars => MessagingInv'
<1> SUFFICES ASSUME MessagingInv, [MessagingNext]_messagingVars
             PROVE  MessagingInv'
  OBVIOUS
<1>1. MessagingTypeOK' /\ SendInv' /\ ClockInv'
  BY TypesKept, SendKept, ClockKept DEF MessagingInv
<1>2. KnownInv'
  BY CreateKept, BlockKept, MessageKept, ReadKept, MarkKept DEF KnownInv
<1>3. QED
  BY <1>1, <1>2, StoredKept, ConversationsKept DEF MessagingInv

\* It holds when nothing is stored.
LEMMA MessagingStart == MessagingInit => MessagingInv
<1> SUFFICES ASSUME MessagingInit PROVE MessagingInv
  OBVIOUS
<1>0. /\ 0 \in 0..MaxClock /\ 1 \in 1..MaxClock
      /\ Idle.step = "idle" /\ \A x \in SendSteps : x # "idle"
  BY MessagingAssumption DEF Idle, At, SendSteps
<1>1. \A r \in Requests : request[r].step = "idle"
  BY <1>0 DEF MessagingInit
<1>2. MessagingTypeOK
  BY <1>0, NoRows DEF MessagingInit, MessagingTypeOK
<1>3. SendInv /\ KnownInv
  BY <1>0, <1>1
     DEF SendInv, OneInFlight, SenderOK, StampOK, RowOK, KnownInv, CreateKnown,
         BlockKnown, MessageKnown, ReadKnown, MarkKnown
<1>4. ClockInv /\ OneConversation
  BY DEF MessagingInit, ClockInv, MessagesPast, ReadsPast, OneConversation
<1>5. \A d \in Drafts : Stored(d) = {}
  BY NoRows DEF MessagingInit, Stored
<1>6. StoredInv
  BY <1>5, FS_EmptySet DEF StoredInv, Answered, NoticesOfStored, MessagingInit
<1>7. QED
  BY <1>2, <1>3, <1>4, <1>6 DEF MessagingInv

\* It holds of every reachable state.
LEMMA MessagingInvariant == MessagingSpec => []MessagingInv
BY MessagingStart, MessagingStep, PTL DEF MessagingSpec

-----------------------------------------------------------------------------
(* The properties                                                          *)

\* Every variable has its type, and a message is in a conversation that its
\* author takes part in.
THEOREM MessagingTypesHold == MessagingSpec => []MessagingTypeOK
<1>1. MessagingInv => MessagingTypeOK
  BY DEF MessagingInv
<1>2. QED
  BY <1>1, MessagingInvariant, PTL

\* ConversationsService.create gives two people one conversation about one
\* listing, unless two requests opened it at the same time or a listing was
\* deleted.
THEOREM ConversationsAreOne == MessagingSpec => []OneConversation
<1>1. MessagingInv => OneConversation
  BY DEF MessagingInv
<1>2. QED
  BY <1>1, MessagingInvariant, PTL

\* The request that stores a message in a step is the one that commits.
LEMMA StoringCommits ==
  ASSUME MessagingInv, [MessagingNext]_messagingVars,
         NEW m \in Messages, NEW r \in Requests, Storing(r, m),
         NEW d, d = msg'[m].draft
  PROVE  /\ SendCommit(r, m) /\ d = request[r].what /\ d \in Drafts
         /\ msg'[m].at = request[r].stamp /\ request[r].stamp \in Nat
         /\ UNCHANGED <<conv, lastReadAt>>
<1>0. MessagingTypeOK /\ SendInv
  BY DEF MessagingInv
<1>1. PICK q \in Requests : SendCommit(q, m)
  BY <1>0, WhoChanges DEF Storing, Writers
<1>2. msg'[m].draft = request[q].what /\ msg'[m].at = request[q].stamp
  BY <1>0, <1>1 DEF SendCommit, StoreMessage, MessagingTypeOK
<1>3. q = r
  BY <1>0, <1>1, <1>2
     DEF SendInv, OneInFlight, SendSteps, SendCommit, StoreMessage, Storing
<1>4. d \in Drafts /\ request[r].stamp \in Nat
  BY <1>0, RequestCases, MessagingAssumption DEF Storing, SendSteps
<1>5. UNCHANGED <<conv, lastReadAt>>
  BY <1>1 DEF SendCommit, StoreMessage, convVars, readVars
<1>6. QED
  BY <1>1, <1>2, <1>3, <1>4, <1>5

\* Nothing is stored from a sender who is blocked, except by a request that
\* had looked for the block before it was set.
THEOREM BlocksSilence == MessagingSpec => BlockedIsSilent
<1>1. ASSUME MessagingInv, [MessagingNext]_messagingVars, NEW m \in Messages,
             NEW r \in Requests, NEW v \in Users,
             Storing(r, m), v \in Recipients(msg'[m].draft),
             <<v, Author(msg'[m].draft)>> \in blocks
      PROVE  <<r, "block">> \in late
  <2>1. BlockKnown(r)
    BY <1>1 DEF MessagingInv, KnownInv
  <2>2. QED
    BY <1>1, <2>1 DEF BlockKnown, Storing
<1>2. MessagingInv /\ [MessagingNext]_messagingVars =>
        [\A m \in Messages, r \in Requests, v \in Users :
          LET d == msg'[m].draft
          IN  Storing(r, m) /\ v \in Recipients(d)
                /\ <<v, Author(d)>> \in blocks
                => <<r, "block">> \in late]_messagingVars
  BY <1>1
<1>3. QED
  BY <1>2, MessagingInvariant, PTL DEF MessagingSpec, BlockedIsSilent

\* A new message is unread to its recipient, unless that user has read the
\* conversation in the same millisecond or since the clock value was taken.
THEOREM NewMessagesAreUnread == MessagingSpec => NewIsUnread
<1>1. ASSUME MessagingInv, [MessagingNext]_messagingVars, NEW m \in Messages,
             NEW r \in Requests, NEW c \in Conversations, NEW u \in Users,
             Storing(r, m), c = Place(msg'[m].draft),
             u \in Recipients(msg'[m].draft)
      PROVE  \/ m \in Unread(c, u)'
             \/ lastReadAt[<<c, u>>] = msg'[m].at
             \/ <<r, "read">> \in late
  <2>1. ReadKnown(r) /\ MessagingTypeOK
    BY <1>1 DEF MessagingInv, KnownInv
  <2>2. /\ request[r].what = msg'[m].draft /\ request[r].step = "commit"
        /\ msg'[m].at = request[r].stamp /\ request[r].stamp \in Nat
        /\ lastReadAt' = lastReadAt
    BY <1>1, StoringCommits DEF Storing
  <2>3. lastReadAt[<<c, u>>] <= request[r].stamp \/ <<r, "read">> \in late
    BY <1>1, <2>1, <2>2 DEF ReadKnown
  <2>4. lastReadAt[<<c, u>>] \in Nat
    BY <2>1, MessagingAssumption DEF MessagingTypeOK
  <2>5. \A a, b \in Nat : a <= b => b > a \/ a = b
    OBVIOUS
  <2>6. Author(msg'[m].draft) # u /\ msg'[m] # NoMessage
    BY <1>1 DEF Recipients, Storing
  <2>7. QED
    BY <1>1, <2>2, <2>3, <2>4, <2>5, <2>6 DEF Unread
<1>2. MessagingInv /\ [MessagingNext]_messagingVars =>
        [\A m \in Messages, r \in Requests, c \in Conversations, u \in Users :
          Storing(r, m) /\ c = Place(msg'[m].draft)
            /\ u \in Recipients(msg'[m].draft)
            => \/ m \in Unread(c, u)'
               \/ lastReadAt[<<c, u>>] = msg'[m].at
               \/ <<r, "read">> \in late]_messagingVars
  BY <1>1
<1>3. QED
  BY <1>2, MessagingInvariant, PTL DEF MessagingSpec, NewIsUnread

\* A conversation is listed by its newest message once a message is stored
\* that no other has overtaken.
THEOREM NewestIsListed == MessagingSpec => ListedByNewest
<1>1. ASSUME MessagingInv, [MessagingNext]_messagingVars, NEW m \in Messages,
             NEW n \in Messages, NEW r \in Requests, NEW c,
             Storing(r, m), <<r, "message">> \notin late, msg'[n] # NoMessage,
             c = Place(msg'[m].draft), Place(msg'[n].draft) = c
      PROVE  msg'[n].at <= lastMessageAt'[c]
  <2>1. MessageKnown(r) /\ MessagingTypeOK
    BY <1>1 DEF MessagingInv, KnownInv
  <2>2. /\ SendCommit(r, m) /\ request[r].what = msg'[m].draft
        /\ request[r].step = "commit"
        /\ msg'[m].at = request[r].stamp /\ request[r].stamp \in Nat
        /\ request[r].what \in Drafts
    BY <1>1, StoringCommits DEF Storing
  <2>3. lastMessageAt'[c] = request[r].stamp
    BY <1>1, <2>1, <2>2, DraftParts DEF SendCommit, MessagingTypeOK
  <2>4. CASE n = m
    BY <2>2, <2>3, <2>4
  <2>5. CASE n # m
    <3>1. msg'[n] = msg[n]
      BY <2>1, <2>2, <2>5 DEF SendCommit, StoreMessage, MessagingTypeOK
    <3>2. QED
      BY <1>1, <2>1, <2>2, <2>3, <3>1 DEF MessageKnown
  <2>6. QED
    BY <2>4, <2>5
<1>2. MessagingInv /\ [MessagingNext]_messagingVars =>
        [\A m, n \in Messages, r \in Requests :
          Storing(r, m) /\ <<r, "message">> \notin late /\ msg'[n] # NoMessage
            => LET c == Place(msg'[m].draft)
               IN  Place(msg'[n].draft) = c
                     => msg'[n].at <= lastMessageAt'[c]]_messagingVars
  BY <1>1
<1>3. QED
  BY <1>2, MessagingInvariant, PTL DEF MessagingSpec, ListedByNewest

\* Only the reader's own markRead changes what counts as read, and it turns a
\* message unread again only if another one has overtaken it.
THEOREM UnreadStaysOwn == MessagingSpec => UnreadIsOwn
<1>1. ASSUME MessagingInv, [MessagingNext]_messagingVars,
             NEW c \in Conversations, NEW u \in Users,
             NEW m \in Messages, msg[m] # NoMessage,
             (m \in Unread(c, u)) # (m \in Unread(c, u)')
      PROVE  \E r \in Requests :
               /\ request[r].step = "mark" /\ request[r].what = <<c, u>>
               /\ request'[r] = Idle
               /\ m \in Unread(c, u)' => <<r, "read">> \in late
  <2>0. MessagingTypeOK /\ MessagingTypeOK'
    BY <1>1, MessagingStep DEF MessagingInv
  <2>1. msg'[m] = msg[m]
    BY <1>1, <2>0, RowsStay DEF RowsGrow
  <2>2. lastReadAt'[<<c, u>>] # lastReadAt[<<c, u>>]
    BY <1>1, <2>1 DEF Unread
  <2>3. PICK r \in Requests : MarkWrite(r) /\ request[r].what = <<c, u>>
    BY <1>1, <2>0, <2>2, WhoChanges DEF Writers
  <2>4. request'[r] = Idle /\ request[r].step = "mark"
    BY <2>0, <2>3, Moved DEF MarkWrite
  <2>5. lastReadAt'[<<c, u>>] = request[r].stamp
    BY <2>3 DEF MarkWrite, MarksOf
  <2>6. ASSUME m \in Unread(c, u)' PROVE <<r, "read">> \in late
    <3>1. msg[m].at > request[r].stamp /\ ~(msg[m].at > lastReadAt[<<c, u>>])
      BY <1>1, <2>1, <2>5, <2>6 DEF Unread
    <3>2. lastReadAt[<<c, u>>] <= request[r].stamp \/ <<r, "read">> \in late
      BY <1>1, <2>3, <2>4 DEF MessagingInv, KnownInv, MarkKnown
    <3>3. /\ msg[m].at \in Nat /\ lastReadAt[<<c, u>>] \in Nat
          /\ request[r].stamp \in Nat
      BY <1>1, <2>0, <2>4, RowFields, RequestCases, MessagingAssumption
         DEF MessagingTypeOK
    <3>4. \A a, b, s \in Nat : a > s /\ ~(a > b) => ~(b <= s)
      OBVIOUS
    <3>5. QED
      BY <3>1, <3>2, <3>3, <3>4
  <2>7. QED
    BY <2>3, <2>4, <2>6
<1>2. MessagingInv /\ [MessagingNext]_messagingVars =>
        [\A c \in Conversations, u \in Users, m \in Messages :
          LET was == m \in Unread(c, u)
              is == m \in Unread(c, u)'
              marks(r) == /\ request[r].step = "mark"
                          /\ request[r].what = <<c, u>>
                          /\ request'[r] = Idle
          IN  msg[m] # NoMessage /\ was # is
                => \E r \in Requests : /\ marks(r)
                                       /\ is => <<r, "read">> \in late
         ]_messagingVars
  BY <1>1
<1>3. QED
  BY <1>2, MessagingInvariant, PTL DEF MessagingSpec, UnreadIsOwn

-----------------------------------------------------------------------------
(* sendMessage delivers                                                    *)

\* The variables of MessageDelivery: how often a draft is stored, and whether
\* its recipient is notified.
Copies == [d \in Drafts |-> Cardinality(Stored(d))]
Noticed == {d \in Drafts : Stored(d) \cap notified # {}}

\* They change with messages and notifications only.
LEMMA SameRowsSameCopies ==
  ASSUME UNCHANGED <<msg, notified>>
  PROVE  UNCHANGED <<Copies, Noticed>>
BY DEF Copies, Noticed, Stored

\* A draft is stored when its copies are not none.
LEMMA CopiesCount ==
  ASSUME MessagingInv, NEW d \in Drafts
  PROVE  Copies[d] \in Nat /\ (Copies[d] > 0 <=> Stored(d) # {})
<1>1. IsFiniteSet(Stored(d))
  BY DEF MessagingInv, StoredInv
<1>2. /\ Cardinality(Stored(d)) \in Nat
      /\ Cardinality(Stored(d)) = 0 <=> Stored(d) = {}
  BY <1>1, FS_CardinalityType, FS_EmptySet
<1>3. Copies[d] = Cardinality(Stored(d))
  BY DEF Copies
<1>4. \A n \in Nat : n > 0 <=> n # 0
  OBVIOUS
<1>5. QED
  BY <1>2, <1>3, <1>4

\* SendCommit stores a draft: the first time, or after a failure.
LEMMA CommitStores ==
  ASSUME MessagingInv, [MessagingNext]_messagingVars,
         NEW r \in Requests, NEW m \in Messages, SendCommit(r, m),
         NEW d, d = request[r].what
  PROVE  d \in Drafts /\ Delivery!Store(d)
<1>0. MessagingTypeOK /\ SendInv /\ StoredInv
  BY DEF MessagingInv
<1>1. /\ d \in Drafts /\ request[r].step = "commit"
      /\ request[r].step \in SendSteps
      /\ msg[m] = NoMessage
      /\ msg' = [msg EXCEPT ![m] = [draft |-> d, at |-> request[r].stamp]]
      /\ UNCHANGED <<notified, acked, unheard>>
  BY <1>0, RequestCases DEF SendCommit, StoreMessage, SendSteps
<1>2. /\ \A n \in Messages \ {m} : msg'[n] = msg[n]
      /\ msg'[m].draft = d
  BY <1>0, <1>1 DEF MessagingTypeOK
<1>3. /\ Stored(d)' = Stored(d) \cup {m} /\ m \notin Stored(d)
      /\ \A e \in Drafts \ {d} : Stored(e)' = Stored(e)
  BY <1>1, <1>2, NoRows DEF Stored
<1>4. Cardinality(Stored(d)') = Cardinality(Stored(d)) + 1
  <2>1. IsFiniteSet(Stored(d))
    BY <1>0, <1>1 DEF StoredInv
  <2>2. QED
    BY <1>3, <2>1, FS_AddElement
<1>5. Copies' = [Copies EXCEPT ![d] = @ + 1]
  BY <1>1, <1>3, <1>4 DEF Copies
<1>6. d \notin acked
  BY <1>0, <1>1 DEF SendInv, SenderOK
<1>7. Copies[d] > 0 => d \in unheard
  <2>1. ASSUME Stored(d) # {}, d \notin unheard PROVE FALSE
    <3>1. PICK q \in Requests : /\ request[q].step \in {"notify", "reply"}
                                /\ request[q].what = d
      BY <1>0, <1>1, <1>6, <2>1 DEF StoredInv, Answered
    <3>2. QED
      BY <1>0, <1>1, <3>1 DEF SendInv, OneInFlight, SendSteps
  <2>2. QED
    BY <1>1, <2>1, CopiesCount
<1>8. Noticed' = Noticed
  <2>1. m \notin notified
    BY <1>0, <1>1 DEF StoredInv, NoticesOfStored
  <2>2. QED
    BY <1>1, <1>3, <2>1 DEF Noticed
<1>9. QED
  BY <1>1, <1>5, <1>6, <1>7, <1>8 DEF Delivery!Store, Copies, Noticed

\* SendNotify notifies the recipient of a stored draft.
LEMMA NotifyNotices ==
  ASSUME MessagingInv, NEW r \in Requests, SendNotify(r),
         NEW d, d = request[r].what
  PROVE  d \in Drafts /\ Delivery!Notice(d)
<1>0. MessagingTypeOK /\ SenderOK(r) /\ RowOK(r)
  BY DEF MessagingInv, SendInv
<1> PICK m : m = request[r].message
  OBVIOUS
<1>1. /\ d \in Drafts /\ m \in Stored(d) /\ d \notin acked
      /\ notified' = notified \cup {m} /\ UNCHANGED <<msg, acked, unheard>>
  BY <1>0, RequestCases DEF SendNotify, SendSteps, SenderOK, RowOK
<1>2. \A e \in Drafts : Stored(e)' = Stored(e) /\ (m \in Stored(e) <=> e = d)
  BY <1>1 DEF Stored
<1>3. Copies' = Copies
  BY <1>2 DEF Copies
<1>4. Noticed' = Noticed \cup {d}
  BY <1>1, <1>2 DEF Noticed
<1>5. Copies[d] > 0
  BY <1>1, CopiesCount
<1>6. QED
  BY <1>1, <1>3, <1>4, <1>5 DEF Delivery!Notice, Copies, Noticed

\* SendReply acknowledges a draft that is stored and notified.
LEMMA ReplyAcknowledges ==
  ASSUME MessagingInv, NEW r \in Requests, SendReply(r),
         NEW d, d = request[r].what
  PROVE  d \in Drafts /\ Delivery!Acknowledge(d)
<1>0. MessagingTypeOK /\ RowOK(r)
  BY DEF MessagingInv, SendInv
<1>1. /\ d \in Drafts /\ Stored(d) \cap notified # {}
      /\ acked' = acked \cup {d} /\ UNCHANGED <<msg, notified, unheard>>
  BY <1>0, RequestCases DEF SendReply, SendSteps, RowOK
<1>2. UNCHANGED <<Copies, Noticed>>
  BY <1>1, SameRowsSameCopies
<1>3. QED
  BY <1>1, <1>2 DEF Delivery!Acknowledge, Copies, Noticed

\* A request that fails after the commit reports a stored draft as failed; any
\* other failure changes nothing that a sender relies on.
LEMMA FailureIsReported ==
  ASSUME MessagingInv, NEW r \in Requests, RequestFails(r),
         NEW d, d = request[r].what
  PROVE  (d \in Drafts /\ Delivery!Fail(d)) \/ UNCHANGED Delivery!deliveryVars
<1>0. MessagingTypeOK /\ SenderOK(r) /\ RowOK(r)
  BY DEF MessagingInv, SendInv
<1>1. UNCHANGED <<msg, notified, acked>>
  BY DEF RequestFails
<1>2. UNCHANGED <<Copies, Noticed>>
  BY <1>1, SameRowsSameCopies
<1>3. CASE request[r].step \in {"notify", "reply"}
  <2>1. /\ d \in Drafts /\ d \notin acked /\ Stored(d) # {}
        /\ unheard' = unheard \cup {d}
    BY <1>0, <1>3, RequestCases DEF RequestFails, SendSteps, SenderOK, RowOK
  <2>2. Copies[d] > 0
    BY <2>1, CopiesCount
  <2>3. QED
    BY <1>1, <1>2, <2>1, <2>2 DEF Delivery!Fail, Copies, Noticed
<1>4. CASE request[r].step \notin {"notify", "reply"}
  BY <1>1, <1>2, <1>4 DEF RequestFails, Delivery!deliveryVars, Copies, Noticed
<1>5. QED
  BY <1>3, <1>4

\* Every other step leaves the delivery alone.
LEMMA StepsDeliver ==
  MessagingInv /\ [MessagingNext]_messagingVars
    => [Delivery!DeliveryNext]_Delivery!deliveryVars
<1> SUFFICES ASSUME MessagingInv, [MessagingNext]_messagingVars
             PROVE  Delivery!DeliveryNext \/ UNCHANGED Delivery!deliveryVars
  OBVIOUS
<1>1. UNCHANGED sendVars => UNCHANGED Delivery!deliveryVars
  BY SameRowsSameCopies DEF sendVars, Delivery!deliveryVars, Copies, Noticed
<1>2. ASSUME NEW r \in Requests, SendStep(r)
      PROVE  Delivery!DeliveryNext \/ UNCHANGED Delivery!deliveryVars
  <2>1. ASSUME NEW m \in Messages, SendCommit(r, m) PROVE Delivery!DeliveryNext
    BY <2>1, CommitStores DEF Delivery!DeliveryNext
  <2>2. ASSUME SendNotify(r) PROVE Delivery!DeliveryNext
    BY <2>2, NotifyNotices DEF Delivery!DeliveryNext
  <2>3. ASSUME SendReply(r) PROVE Delivery!DeliveryNext
    BY <2>3, ReplyAcknowledges DEF Delivery!DeliveryNext
  <2>4. QED
    BY <1>1, <1>2, <2>1, <2>2, <2>3 DEF SendStep, SendCheck, SendInsert
<1>3. ASSUME NEW r \in Requests, RequestFails(r)
      PROVE  Delivery!DeliveryNext \/ UNCHANGED Delivery!deliveryVars
  BY <1>3, FailureIsReported DEF Delivery!DeliveryNext
<1>4. QED
  BY <1>1, <1>2, <1>3
     DEF MessagingNext, CreateStep, MarkStep, messagingVars, CreateRead,
         CreateWrite, MarkRead, MarkWrite, BlockUser, UnblockUser,
         DeleteListing, Tick

\* Nothing is stored at the start.
LEMMA StartDelivers == MessagingInit => Delivery!DeliveryInit
<1> SUFFICES ASSUME MessagingInit PROVE Delivery!DeliveryInit
  OBVIOUS
<1>1. \A d \in Drafts : Stored(d) = {}
  BY NoRows DEF MessagingInit, Stored
<1>2. Cardinality({}) = 0
  BY FS_EmptySet
<1>3. Copies = [d \in Drafts |-> 0] /\ Noticed = {}
  BY <1>1, <1>2 DEF Copies, Noticed
<1>4. QED
  BY <1>3 DEF MessagingInit, Delivery!DeliveryInit, Copies, Noticed

\* A sender is told of success only when the message is stored and its
\* recipient notified, and a draft is stored twice only for a sender who was
\* told that it failed.
THEOREM MessagingDelivers == MessagingSpec => DeliveryIsImplemented
BY StartDelivers, StepsDeliver, MessagingInvariant, PTL
   DEF MessagingSpec, DeliveryIsImplemented, Delivery!DeliverySpec

\* What follows for a sender: an acknowledged draft is stored with a
\* notification, and one that is stored twice was reported as failed.
Promised ==
    \A d \in Drafts : /\ d \in acked => Stored(d) \cap notified # {}
                      /\ Cardinality(Stored(d)) > 1 => d \in unheard

\* The same of the variables of MessageDelivery.
PromiseInv ==
    /\ Copies \in [Drafts -> Nat]
    /\ acked \subseteq Noticed
    /\ \A d \in Drafts : Copies[d] > 1 => d \in unheard

\* Every step of MessageDelivery keeps it.
LEMMA PromiseStep ==
  ASSUME PromiseInv, [Delivery!DeliveryNext]_(Delivery!deliveryVars)
  PROVE  PromiseInv'
<1> USE DEF PromiseInv
<1>1. ASSUME NEW d \in Drafts, Delivery!Store(d) PROVE PromiseInv'
  <2>1. /\ Copies' = [Copies EXCEPT ![d] = @ + 1] /\ Noticed' = Noticed
        /\ acked' = acked /\ unheard' = unheard
        /\ Copies[d] > 0 => d \in unheard
    BY <1>1 DEF Delivery!Store, Copies, Noticed
  <2>2. QED
    BY <2>1
<1>2. ASSUME NEW d \in Drafts, Delivery!Notice(d) PROVE PromiseInv'
  <2>1. /\ Copies' = Copies /\ Noticed' = Noticed \cup {d}
        /\ acked' = acked /\ unheard' = unheard
    BY <1>2 DEF Delivery!Notice, Copies, Noticed
  <2>2. QED
    BY <2>1
<1>3. ASSUME NEW d \in Drafts, Delivery!Acknowledge(d) PROVE PromiseInv'
  <2>1. /\ Copies' = Copies /\ Noticed' = Noticed /\ d \in Noticed
        /\ acked' = acked \cup {d} /\ unheard' = unheard
    BY <1>3 DEF Delivery!Acknowledge, Copies, Noticed
  <2>2. QED
    BY <2>1
<1>4. ASSUME NEW d \in Drafts, Delivery!Fail(d) PROVE PromiseInv'
  <2>1. /\ Copies' = Copies /\ Noticed' = Noticed
        /\ acked' = acked /\ unheard' = unheard \cup {d}
    BY <1>4 DEF Delivery!Fail, Copies, Noticed
  <2>2. QED
    BY <2>1
<1>5. CASE UNCHANGED Delivery!deliveryVars
  <2>1. /\ Copies' = Copies /\ Noticed' = Noticed
        /\ acked' = acked /\ unheard' = unheard
    BY <1>5 DEF Delivery!deliveryVars, Copies, Noticed
  <2>2. QED
    BY <2>1
<1>6. QED
  BY <1>1, <1>2, <1>3, <1>4, <1>5 DEF Delivery!DeliveryNext

\* A client that sends again until it is acknowledged can rely on both:
\* SEND_FAILED after a commit is the only way to a second copy.
THEOREM SendersCanRely == MessagingSpec => []Promised
<1>1. Delivery!DeliveryInit => PromiseInv
  <2>1. SUFFICES ASSUME Delivery!DeliveryInit PROVE PromiseInv
    OBVIOUS
  <2>2. Copies = [d \in Drafts |-> 0] /\ acked = {}
    BY <2>1 DEF Delivery!DeliveryInit, Copies
  <2>3. QED
    BY <2>2 DEF PromiseInv
<1>2. PromiseInv => Promised
  BY DEF PromiseInv, Promised, Copies, Noticed
<1>3. QED
  BY <1>1, <1>2, PromiseStep, MessagingDelivers, PTL
     DEF DeliveryIsImplemented, Delivery!DeliverySpec
=============================================================================

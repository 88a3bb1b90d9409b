----------------------------- MODULE Messaging -----------------------------
(***************************************************************************)
(* Conversations, messages and the mark of what was read                   *)
(* (services/messageService.js).  A conversation opens by looking for one  *)
(* with the same two participants and creating it otherwise; no index      *)
(* forbids a second one.  Whether a conversation has unread messages is    *)
(* computed from its last message and from lastReadAt, a time.  Messages   *)
(* and marks bear the time at which their statement was made, which is     *)
(* before it is committed; times are milliseconds, in which several things *)
(* may happen.                                                             *)
(***************************************************************************)
EXTENDS Integers, FiniteSets

CONSTANTS Users, Role,  \* Role[u] \in {"client", "instructor", "admin"}
          Conversations, Requests,
          MaxTime       \* bound: the milliseconds, from 1

MessagingAssumption ==
    /\ Role \in [Users -> {"client", "instructor", "admin"}]
    /\ MaxTime \in Nat \ {0} /\ Users # {} /\ IsFiniteSet(Users)

VARIABLES
    members,   \* members[c]: the participants, {} while the conversation does not exist
    messages,  \* messages[c]: the stored messages, [from, at]
    lastRead,  \* lastRead[c][u]: lastReadAt, 0 for null
    banned,    \* the users that are banned
    clock,     \* the millisecond
    pc,        \* pc[q]: the next statement of q
    actor,     \* actor[q]: the user q acts for
    about,     \* about[q]: the other participant, or the conversation
    stamp,     \* stamp[q]: the time q gives to its message or mark
    fresh,     \* history: fresh[c][u], the messages of others stored since u last wrote or
               \* marked, but for those that u missed
    missed,    \* history: missed[q], the users who wrote or marked while the message of q was
               \* on its way, or in the millisecond in which it was written
    twice      \* history: the pairs that were looked for in vain by a request while another
               \* was creating their conversation

vars == <<members, messages, lastRead, banned, clock, pc, actor, about, stamp, fresh, missed,
          twice>>

locals == <<actor, about, stamp>>
news == <<fresh, missed>>

Messages == [from : Users, at : 1..MaxTime]

TypeOK ==
    /\ members \in [Conversations -> SUBSET Users]
    /\ messages \in [Conversations -> SUBSET Messages]
    /\ lastRead \in [Conversations -> [Users -> 0..MaxTime]]
    /\ banned \subseteq Users
    /\ clock \in 1..MaxTime
    /\ pc \in [Requests -> {"idle", "create", "send", "mark"}]
    /\ actor \in [Requests -> Users]
    /\ about \in [Requests -> Users \cup Conversations]
    /\ stamp \in [Requests -> 0..MaxTime]
    /\ fresh \in [Conversations -> [Users -> SUBSET Messages]]
    /\ missed \in [Requests -> SUBSET Users]
    /\ twice \subseteq SUBSET Users

someone == CHOOSE u \in Users : TRUE

Init ==
    /\ members = [c \in Conversations |-> {}]
    /\ messages = [c \in Conversations |-> {}]
    /\ lastRead = [c \in Conversations |-> [u \in Users |-> 0]]
    /\ banned = {}
    /\ clock = 1
    /\ pc = [q \in Requests |-> "idle"]
    /\ actor = [q \in Requests |-> someone]
    /\ about = [q \in Requests |-> someone]
    /\ stamp = [q \in Requests |-> 0]
    /\ fresh = [c \in Conversations |-> [u \in Users |-> {}]]
    /\ missed = [q \in Requests |-> {}]
    /\ twice = {}

Goto(q, where) == pc' = [pc EXCEPT ![q] = where]
Finish(q) ==
    /\ Goto(q, "idle")
    /\ actor' = [actor EXCEPT ![q] = someone]
    /\ about' = [about EXCEPT ![q] = someone]
    /\ stamp' = [stamp EXCEPT ![q] = 0]

\* listAllowedContacts: clients and instructors do not write to their own kind.
Allowed(u) == {v \in Users \ (banned \cup {u}) : Role[u] = "admin" \/ Role[v] # Role[u]}

\* listConversations: the last message is of another and later than lastReadAt.  Of several
\* of one millisecond any may be the last: the conversation shows as unread whichever it is.
Last(c) == {m \in messages[c] : \A o \in messages[c] : o.at <= m.at}
HasUnread(c, u) ==
    messages[c] # {} /\ \A m \in Last(c) : m.from # u /\ m.at > lastRead[c][u]

\* A millisecond passes.
Tick ==
    /\ clock < MaxTime
    /\ clock' = clock + 1
    /\ UNCHANGED <<members, messages, lastRead, banned, pc, locals, news, twice>>

-----------------------------------------------------------------------------
(* Opening a conversation *)

\* Mutant: a conversation counts once something was written in it.
ExistingIfUsed(u, v) == {c \in Conversations : members[c] = {u, v} /\ messages[c] # {}}

\* The conversations whose participants are these two, whoever started them.
Existing(u, v) == {c \in Conversations : members[c] = {u, v}}

\* Where there is one, the request returns it and changes nothing.
FindConversation(q, u, v) ==
    /\ pc[q] = "idle" /\ v \in Allowed(u) /\ Existing(u, v) = {}
    /\ actor' = [actor EXCEPT ![q] = u]
    /\ about' = [about EXCEPT ![q] = v]
    /\ Goto(q, "create")
    /\ twice' = IF \E o \in Requests : pc[o] = "create" /\ {actor[o], about[o]} = {u, v}
                THEN twice \cup {{u, v}} ELSE twice
    /\ UNCHANGED <<members, messages, lastRead, banned, clock, stamp, news>>

CreateConversation(q) ==
    /\ pc[q] = "create"
    /\ \E c \in Conversations :
          /\ members[c] = {}
          /\ members' = [members EXCEPT ![c] = {actor[q], about[q]}]
    /\ Finish(q)
    /\ UNCHANGED <<messages, lastRead, banned, clock, news, twice>>

-----------------------------------------------------------------------------
(* Writing and marking *)

\* Those who have marked or written in c in this very millisecond.
ThisMoment(c) ==
    {u \in Users : \/ lastRead[c][u] = clock
                   \/ [from |-> u, at |-> clock] \in messages[c]
                   \/ \E o \in Requests : /\ pc[o] = "mark" /\ about[o] = c
                                         /\ actor[o] = u /\ stamp[o] = clock}

\* With q, u overtakes the other messages that are under way in c.
Overtake(q, c, u) ==
    missed' = [o \in Requests |-> IF o = q THEN {}
                                  ELSE IF pc[o] = "send" /\ about[o] = c THEN missed[o] \cup {u}
                                  ELSE missed[o]]

\* The request q of u about c takes the time.
Begin(q, u, c, where) ==
    /\ pc[q] = "idle" /\ u \in members[c]
    /\ actor' = [actor EXCEPT ![q] = u]
    /\ about' = [about EXCEPT ![q] = c]
    /\ stamp' = [stamp EXCEPT ![q] = clock]
    /\ Goto(q, where)
    /\ UNCHANGED <<members, messages, lastRead, banned, clock, twice>>

\* createMessage checks the access, then its transaction starts: the message has its time.
BeginMessage(q, u, c) ==
    /\ Begin(q, u, c, "send")
    /\ missed' = [missed EXCEPT ![q] = ThisMoment(c)]
    /\ UNCHANGED fresh

Store(q) ==
    LET c == about[q]
        m == [from |-> actor[q], at |-> stamp[q]]
    IN  /\ messages' = [messages EXCEPT ![c] = @ \cup {m}]
        /\ fresh' = [fresh EXCEPT ![c] = [u \in Users |->
                        IF u = actor[q] THEN {}
                        ELSE IF u \in members[c] \ missed[q] THEN @[u] \cup {m} ELSE @[u]]]
        /\ Overtake(q, c, actor[q])

\* Mutant: the message counts as read by everybody.
CommitMessageRead(q) ==
    /\ pc[q] = "send"
    /\ Store(q)
    /\ lastRead' = [lastRead EXCEPT ![about[q]] = [u \in Users |-> stamp[q]]]
    /\ Finish(q)
    /\ UNCHANGED <<members, banned, clock, twice>>

\* The message, the date of the conversation and the mark of the writer, in one commit.
CommitMessage(q) ==
    /\ pc[q] = "send"
    /\ Store(q)
    /\ lastRead' = [lastRead EXCEPT ![about[q]][actor[q]] = stamp[q]]
    /\ Finish(q)
    /\ UNCHANGED <<members, banned, clock, twice>>

\* markConversationRead takes the time of the call, whatever the page shows...
BeginMark(q, u, c) ==
    /\ Begin(q, u, c, "mark")
    /\ fresh' = [fresh EXCEPT ![c][u] = {}]
    /\ Overtake(q, c, u)

\* ... and stores it as lastReadAt, over a later one too.
CommitMark(q) ==
    /\ pc[q] = "mark"
    /\ lastRead' = [lastRead EXCEPT ![about[q]][actor[q]] = stamp[q]]
    /\ Finish(q)
    /\ UNCHANGED <<members, messages, banned, clock, news, twice>>

\* A ban ends the contact, not the conversations there are.
SetBanned(u) ==
    /\ Role[u] # "admin"
    /\ banned' = IF u \in banned THEN banned \ {u} ELSE banned \cup {u}
    /\ UNCHANGED <<members, messages, lastRead, clock, pc, locals, news, twice>>

Next ==
    \/ \E q \in Requests :
          \/ \E u, v \in Users : FindConversation(q, u, v)
          \/ CreateConversation(q)
          \/ \E u \in Users, c \in Conversations : BeginMessage(q, u, c) \/ BeginMark(q, u, c)
          \/ CommitMessage(q) \/ CommitMark(q)
    \/ \E u \in Users : SetBanned(u)
    \/ Tick

Spec == Init /\ [][Next]_vars

-----------------------------------------------------------------------------
(* Properties *)

\* Two users share one conversation, whoever opens it and how often (messageService.js:63):
\* else each writes in a thread of which the other shows another.  Only a request that looked
\* for it while another was creating it can make a second one.
OnePerPair ==
    \A c, d \in Conversations :
        c # d /\ members[c] # {} /\ members[c] = members[d] => members[c] \in twice

\* A message makes the conversation unread until its receiver writes or marks it, although
\* only the last message and a time are kept and a late mark may lower it
\* (messageService.js:143).  Only a message can be missed that was on its way when the
\* receiver did so, or that bears the very millisecond of it.
NewsIsUnread ==
    \A c \in Conversations : \A u \in members[c] : fresh[c][u] # {} => HasUnread(c, u)

\* A message reaches the thread its receiver looks at, and shows there.
MessagesReach == OnePerPair /\ NewsIsUnread
=============================================================================

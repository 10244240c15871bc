------------------------------- MODULE Chats -------------------------------
(***************************************************************************)
(* Chats of two and chats of a group, the module chat: ChatService,        *)
(* ChatGroupService, and the guard of the controllers and of the socket    *)
(* gateway, ChatAuthService.  A method reads the chat with its             *)
(* participants, and later decides on what it has read: the owner, the     *)
(* participants and whether the chat is blocked may have changed by then.  *)
(*                                                                         *)
(* A participant row has an id of its own, which is not used again: one    *)
(* who leaves and is added again has a new row.  No key keeps an account   *)
(* from having two rows in a chat: its creator may name itself among the   *)
(* others, and who is added may be named twice.  Messages are counted, by  *)
(* chat.  An answer holds the latest of them only; whether a participant   *)
(* has been shown that one is kept beside its row.                         *)
(***************************************************************************)
EXTENDS Requests

CONSTANTS
    Chatters,     \* account ids
    MaxChats, MaxParts, MaxMessages  \* bounds: chats, participant rows, messages per chat

ASSUME ChattersAssumption == IsFiniteSet(Chatters)
ASSUME MaxMessagesAssumption == MaxMessages \in Nat

VARIABLES
    chat,  \* Chat rows; live: not deleted
    part   \* ChatParticipant rows; unseen: the latest message is of another, and new to it

chatVars == <<chat, part>>

Chat(a, group) == [live |-> TRUE, group |-> group, owner |-> a, blocked |-> FALSE, sent |-> 0]
Part(c, a) == [live |-> TRUE, chat |-> c, account |-> a, read |-> FALSE, unseen |-> FALSE]

LiveChats == {c \in DOMAIN chat : chat[c].live}
Groups == {c \in LiveChats : chat[c].group}
PartsOf(c) == {p \in DOMAIN part : part[p].live /\ part[p].chat = c}
Own(c, a) == {p \in PartsOf(c) : part[p].account = a}
AccountsOf(parts) == {part[p].account : p \in parts}

About(c) == {<<"chat", c>>}

ChatRequest(h, op, at, a, c, arg, seen) ==
    /\ Begin(h, [op |-> op, at |-> at, by |-> a, on |-> About(c),
                 arg |-> <<c, arg>>, seen |-> seen])
    /\ UNCHANGED chatVars

Is(h, op, at, a, c, arg) == At(h, op, at) /\ req[h].by = a /\ req[h].arg = <<c, arg>>

\* A deleted row: what it held is gone.
Gone(p) == [live |-> FALSE, chat |-> part[p].chat, account |-> part[p].account,
            read |-> FALSE, unseen |-> FALSE]
Delete(p) == part' = [part EXCEPT ![p] = Gone(p)]

\* Mutant: the participants of a deleted chat stay.
DeleteChatAlone(c) ==
    /\ chat' = [chat EXCEPT ![c] = [Chat(@.owner, FALSE) EXCEPT !.live = FALSE]]
    /\ UNCHANGED part

\* onDelete: Cascade.
DeleteChat(c) ==
    /\ chat' = [chat EXCEPT ![c] = [Chat(@.owner, FALSE) EXCEPT !.live = FALSE]]
    /\ part' = [p \in DOMAIN part |-> IF part[p].chat = c THEN Gone(p) ELSE part[p]]

\* A new chat and its participants, of whom the creator may be one more time.
Open(a, b, group) ==
    /\ NextId(chat) <= MaxChats /\ NextId(part) + Cardinality(b) <= MaxParts
    /\ chat' = Insert(chat, Chat(a, group))
    /\ \E ids \in [NextId(part)..(NextId(part) + Cardinality(b)) -> b \cup {a}] :
          \* The creator comes first, the others follow in the order they are named.
          /\ ids[NextId(part)] = a
          /\ {ids[i] : i \in DOMAIN ids \ {NextId(part)}} = b
          /\ part' = [p \in DOMAIN part \cup DOMAIN ids |->
                         IF p \in DOMAIN part THEN part[p] ELSE Part(NextId(chat), ids[p])]

-----------------------------------------------------------------------------
(* Chats of two. *)

\* getChatToAccountByAccountId: a chat of two all of whose participants are a or b; a
\* chat with oneself is one of these, whoever b is.
ChatsTo(a, b) ==
    {c \in LiveChats \ Groups : AccountsOf(PartsOf(c)) \subseteq {a, b}}

CreateChat(h, a, b) ==
    \/ /\ ChatsTo(a, b) = {}
       /\ Begin(h, [op |-> "chat", at |-> "create", by |-> a, on |-> {<<"pair", {a, b}>>},
                    arg |-> b, seen |-> 0])
       /\ UNCHANGED chatVars
    \/ /\ At(h, "chat", "create") /\ req[h].by = a /\ req[h].arg = b
       /\ Open(a, {b}, FALSE)
       /\ End(h)

\* The latest message is now one of a: it is new to all the others, of whom those listed
\* become unread.
Deliver(c, a, others) ==
    [p \in DOMAIN part |->
        IF p \notin PartsOf(c) THEN part[p]
        ELSE [part[p] EXCEPT !.unseen = part[p].account # a,
                             !.read = @ /\ part[p].account \notin others]]

\* sendChatMessage: the message refers to the sender's row, and the other participants
\* that were read become unread.
SendChatMessage(h, a, c) ==
    \/ /\ Own(c, a) # {} /\ ~ chat[c].blocked
       /\ ChatRequest(h, "send", "commit", a, c, 0, PartsOf(c))
    \/ /\ Is(h, "send", "commit", a, c, 0)
       /\ \E me \in {p \in req[h].seen : part[p].account = a} :
             IF ~ part[me].live THEN UNCHANGED chatVars
             ELSE /\ chat[c].sent < MaxMessages
                  /\ chat' = [chat EXCEPT ![c].sent = @ + 1]
                  /\ part' = Deliver(c, a, AccountsOf(req[h].seen) \ {a})
       /\ End(h)

\* blockChat and unblockChat; there is no blocking a group.
SetBlocked(h, op, a, c, blocked) ==
    \/ /\ Own(c, a) # {} /\ chat[c].blocked # blocked
       /\ blocked => ~ chat[c].group
       /\ ChatRequest(h, op, "write", a, c, 0, 0)
    \/ /\ Is(h, op, "write", a, c, 0)
       /\ IF c \in LiveChats THEN chat' = [chat EXCEPT ![c].blocked = blocked]
          ELSE UNCHANGED chat
       /\ UNCHANGED part
       /\ End(h)

BlockChat(h, a, c) == SetBlocked(h, "block", a, c, TRUE)
UnblockChat(h, a, c) == SetBlocked(h, "unblock", a, c, FALSE)

\* getChatInclude: an answer takes one message, the latest.
Show(c, a) == [p \in DOMAIN part |-> [part[p] EXCEPT !.unseen = @ /\ p \notin Own(c, a)]]

\* Mutant: what is shown is read before the participant is marked.
ReadChatEarly(h, a, c) ==
    \/ \E p \in Own(c, a) :
          /\ Begin(h, [op |-> "read", at |-> "write", by |-> a, on |-> About(c),
                       arg |-> <<c, 0>>, seen |-> p])
          /\ part' = Show(c, a)
          /\ UNCHANGED chat
    \/ /\ Is(h, "read", "write", a, c, 0)
       /\ part' = [part EXCEPT ![req[h].seen].read = part[req[h].seen].live]
       /\ UNCHANGED chat
       /\ End(h)

\* readChat: a row of the account, its mark, and then the latest message in the answer.
ReadChat(h, a, c) ==
    \/ \E p \in Own(c, a) : ChatRequest(h, "read", "write", a, c, 0, p)
    \/ /\ Is(h, "read", "write", a, c, 0)
       /\ IF part[req[h].seen].live
          THEN /\ part' = [part EXCEPT ![req[h].seen].read = TRUE]
               /\ Goto(h, "output", 0)
          ELSE UNCHANGED part /\ End(h)
       /\ UNCHANGED chat
    \/ /\ Is(h, "read", "output", a, c, 0)
       /\ part' = Show(c, a)
       /\ UNCHANGED chat
       /\ End(h)

-----------------------------------------------------------------------------
(* Chats of a group. *)

\* createChatGroup; the accounts named are there, each named once.
CreateChatGroup(h, a, to) ==
    /\ ~ Busy(h) /\ UNCHANGED requestVars
    /\ Open(a, to, TRUE)

\* validateIsChatGroupOwner, which also reads the participants.
AsOwner(h, op, at, a, c, x) ==
    /\ c \in Groups /\ Own(c, a) # {} /\ chat[c].owner = a
    /\ ChatRequest(h, op, at, a, c, x, PartsOf(c))

DeleteChatGroup(h, a, c) ==
    \/ AsOwner(h, "delete", "write", a, c, 0)
    \/ /\ Is(h, "delete", "write", a, c, 0)
       /\ IF c \in LiveChats THEN DeleteChat(c) ELSE UNCHANGED chatVars
       /\ End(h)

MakeParticipantChatGroupOwner(h, a, c, x) ==
    \/ AsOwner(h, "makeOwner", "find", a, c, x)
    \/ /\ Is(h, "makeOwner", "find", a, c, x)
       /\ IF Own(c, x) # {} THEN Goto(h, "write", 0) ELSE End(h)
       /\ UNCHANGED chatVars
    \/ /\ Is(h, "makeOwner", "write", a, c, x)
       /\ IF c \in LiveChats THEN chat' = [chat EXCEPT ![c].owner = x] ELSE UNCHANGED chat
       /\ UNCHANGED part
       /\ End(h)

\* One account at a time, which may be named twice.
AddParticipantToChatGroup(h, a, c, x) ==
    \/ AsOwner(h, "add", "find", a, c, x)
    \/ /\ Is(h, "add", "find", a, c, x)
       /\ IF Own(c, x) = {} THEN Goto(h, "write", 0) ELSE End(h)
       /\ UNCHANGED chatVars
    \/ /\ Is(h, "add", "write", a, c, x)
       /\ IF c \in LiveChats
          THEN \E last \in {NextId(part), NextId(part) + 1} :
                  /\ last <= MaxParts
                  /\ part' = [p \in DOMAIN part \cup NextId(part)..last |->
                                 IF p \in DOMAIN part THEN part[p] ELSE Part(c, x)]
          ELSE UNCHANGED part
       /\ UNCHANGED chat
       /\ End(h)

\* The row it deletes is one of those it has read; if that is gone the query rejects.
RemoveParticipantFromChatGroup(h, a, c, x) ==
    \/ /\ x # a /\ Own(c, x) # {}
       /\ AsOwner(h, "remove", "write", a, c, x)
    \/ /\ Is(h, "remove", "write", a, c, x)
       /\ \E p \in req[h].seen :
             /\ part[p].account = x
             /\ IF part[p].live THEN Delete(p) ELSE UNCHANGED part
       /\ UNCHANGED chat
       /\ End(h)

\* Mutant: any chat can be left.
LeaveReadAny(h, a, c) ==
    /\ c \in LiveChats /\ Own(c, a) # {}
    /\ ChatRequest(h, "leave", "write", a, c, 0,
                   [owner |-> chat[c].owner, parts |-> PartsOf(c)])

LeaveRead(h, a, c) ==
    /\ c \in Groups /\ Own(c, a) # {}
    /\ ChatRequest(h, "leave", "write", a, c, 0,
                   [owner |-> chat[c].owner, parts |-> PartsOf(c)])

\* Mutant: the owner leaves without a successor.
LeaveUnowned(h, a, c) ==
    \/ LeaveRead(h, a, c)
    \/ /\ Is(h, "leave", "write", a, c, 0)
       /\ \E p \in req[h].seen.parts : part[p].account = a /\ Delete(p)
       /\ UNCHANGED chat
       /\ End(h)

\* The last row deletes the chat.  An owner hands it to another account it has read; if
\* all the rows were its own there is none, the method throws, and nothing is written.
LeaveChatGroup(h, a, c) ==
    \/ LeaveRead(h, a, c)
    \/ /\ Is(h, "leave", "write", a, c, 0)
       /\ LET s == req[h].seen
              others == AccountsOf(s.parts) \ {a}
          IN  \/ /\ Cardinality(s.parts) = 1
                 /\ IF c \in LiveChats THEN DeleteChat(c) ELSE UNCHANGED chatVars
              \/ /\ Cardinality(s.parts) > 1
                 /\ \E p \in s.parts :
                       /\ part[p].account = a
                       /\ \/ /\ ~ part[p].live \/ (s.owner = a /\ others = {})
                             /\ UNCHANGED chatVars
                          \/ /\ part[p].live
                             /\ Delete(p)
                             /\ IF s.owner = a
                                THEN \E q \in others : chat' = [chat EXCEPT ![c].owner = q]
                                ELSE UNCHANGED chat
       /\ End(h)

-----------------------------------------------------------------------------

ChatsInit == chat = <<>> /\ part = <<>>

OfGroup(h, a, c) ==
    \/ DeleteChatGroup(h, a, c) \/ LeaveChatGroup(h, a, c)
    \/ \E x \in Chatters : \/ MakeParticipantChatGroupOwner(h, a, c, x)
                           \/ AddParticipantToChatGroup(h, a, c, x)
                           \/ RemoveParticipantFromChatGroup(h, a, c, x)

ChatsNext ==
    \E h \in Handlers :
        \/ \E a, b \in Chatters : CreateChat(h, a, b)
        \/ \E a \in Chatters, to \in SUBSET Chatters : CreateChatGroup(h, a, to)
        \/ \E a \in Chatters, c \in DOMAIN chat :
              \/ SendChatMessage(h, a, c) \/ ReadChat(h, a, c)
              \/ BlockChat(h, a, c) \/ UnblockChat(h, a, c)
              \/ OfGroup(h, a, c)
        \/ Abort(h) /\ UNCHANGED chatVars

chatsVars == <<requestVars, chatVars>>
ChatsSpec == RequestsInit /\ ChatsInit /\ [][ChatsNext]_chatsVars

-----------------------------------------------------------------------------
(* Properties. *)

\* The tables are well formed: no row is left of a chat that is deleted, and the group
\* operations never reach a chat of two, which keeps the two rows it was created with.
ChatsTypeOK ==
    /\ DOMAIN chat = 1..Cardinality(DOMAIN chat)
    /\ DOMAIN part = 1..Cardinality(DOMAIN part)
    /\ chat \in [DOMAIN chat -> [live : BOOLEAN, group : BOOLEAN, owner : Chatters,
                                 blocked : BOOLEAN, sent : 0..MaxMessages]]
    /\ part \in [DOMAIN part -> [live : BOOLEAN, chat : DOMAIN chat,
                                 account : Chatters, read : BOOLEAN, unseen : BOOLEAN]]
    /\ \A p \in DOMAIN part : part[p].live => chat[part[p].chat].live
    /\ \A c \in LiveChats \ Groups : Cardinality(PartsOf(c)) = 2

\* While requests about a group keep apart, it is owned by one of its participants,
\* whoever leaves, is removed or made its owner; so it is not deserted either.
GroupOwnerTakesPart ==
    manner \in {"subject", "serial"} =>
        \A c \in Groups : chat[c].owner \in AccountsOf(PartsOf(c))

Reading(c, a) == \E h \in Handlers :
    req[h].op = "read" /\ req[h].by = a /\ req[h].arg = <<c, 0>>

\* A participant of a chat of two that is marked as having read it, with no readChat under
\* way, has been shown its latest message, or sent it, however messages and reads cross;
\* in a group only while requests about it keep apart, as a message marks as unread those
\* who took part when its handler looked.  Nothing is said of the messages before: those
\* between two answers are marked as read and are in neither.
ReadSeesLatest ==
    ~ failing =>
        \A p \in DOMAIN part :
            LET c == part[p].chat
            IN  /\ part[p].live /\ part[p].read /\ ~ Reading(c, part[p].account)
                /\ chat[c].group => manner \in {"subject", "serial"}
                => ~ part[p].unseen
=============================================================================

-------------------------------- MODULE Support --------------------------------
(***************************************************************************)
(* Support chats of a customer, and which agents are shown as online.      *)
(*   apps/support-service/src/modules/support/support.service.ts           *)
(*   apps/support-service/src/modules/support/support.gateway.ts           *)
(* An HTTP request or a socket message reads the chat, decides, and writes *)
(* it by id some awaits later.  A socket's connection and its              *)
(* disconnection are two handlers that may run at once.  What is kept of a *)
(* message is what it does to its chat.                                    *)
(***************************************************************************)
EXTENDS Naturals, Sequences, FiniteSets

CONSTANTS
    Agents,
    Supers,     \* agents with isSuperAdmin
    Clients,    \* bound: each makes one request or opens one socket
    AtOnce,     \* bound on the requests and socket handlers under way
    MaxChats,   \* bound on the rows
    Nobody

ASSUME SupportAssumption ==
    /\ Supers \subseteq Agents
    /\ AtOnce \in Nat
    /\ MaxChats \in Nat \ {0}
    /\ Nobody \notin Agents

VARIABLES
    chats,      \* ChatSession rows of one customer; marks and ratings count
                \* the writes of firstResponseAt and csat
    tickets,    \* Ticket rows made from a chat; sourceChatSessionId is unique
    presence,   \* AgentPresence rows
    conns,      \* agentConnections, in the memory of the gateway
    req,        \* requests
    socket,     \* sockets of agents
    restarted,  \* bound: the gateway restarts once
    taken,      \* history: whom the last pick-up or transfer gave a chat to
    moved,      \* history: chats that were transferred after their end
    reopened,   \* history: chats that were open again after their end
    contested,  \* history: chats two requests were about at once; 0: creation
    muddled,    \* history: agents whose presence writes overlapped or failed,
                \* or who set it by hand
    dropped     \* history: agents who lost a socket since they came online

desk == <<chats, tickets, req, taken, moved>>
gateway == <<presence, conns, socket, restarted, muddled, dropped>>
vars == <<desk, gateway, reopened, contested>>

Chat == [status : {"WAITING", "ACTIVE", "CLOSED"}, agent : Agents \cup {Nobody},
         marks : Nat, ratings : Nat]
NewChat == [status |-> "WAITING", agent |-> Nobody, marks |-> 0, ratings |-> 0]

NoRequest == [kind |-> "none", pc |-> "idle", who |-> Nobody, chat |-> 0,
              to |-> Nobody, seen |-> NewChat]
NoSocket == [who |-> Nobody, pc |-> "idle", up |-> FALSE, closing |-> FALSE,
             ghost |-> FALSE]

Fresh(c) == req[c].pc = "idle" /\ socket[c].pc = "idle"
Running == {c \in Clients : req[c].pc \notin {"idle", "over"}}
Handling(c) == socket[c].pc \in {"auth", "online"} \/ socket[c].closing
Busy == Running \cup {c \in Clients : Handling(c)}

Init ==
    /\ \/ /\ chats = << >> /\ taken = [c \in 1..MaxChats |-> Nobody]
       \/ \E a \in Agents, status \in {"ACTIVE", "CLOSED"} :
             /\ chats = <<[NewChat EXCEPT !.status = status, !.agent = a]>>
             /\ taken = [c \in 1..MaxChats |-> IF c = 1 THEN a ELSE Nobody]
       \/ /\ chats = <<NewChat>> /\ taken = [c \in 1..MaxChats |-> Nobody]
    /\ tickets = {}
    /\ presence = [a \in Agents |-> "none"]
    /\ conns = [a \in Agents |-> {}]
    /\ req = [c \in Clients |-> NoRequest]
    /\ socket = [c \in Clients |-> NoSocket]
    /\ restarted = FALSE
    /\ moved = {} /\ reopened = {} /\ contested = {}
    /\ muddled = {} /\ dropped = {}

-----------------------------------------------------------------------------
(* Requests.                                                               *)

Open(s) == chats[s].status # "CLOSED"

Ask(c, kind, who, s, to, pc) ==
    /\ Fresh(c) /\ Cardinality(Busy) < AtOnce
    /\ req' = [req EXCEPT ![c] =
                  [kind |-> kind, pc |-> pc, who |-> who, chat |-> s, to |-> to,
                   seen |-> IF s = 0 THEN NewChat ELSE chats[s]]]
    /\ UNCHANGED <<chats, tickets, taken, moved, gateway>>

At(c, kind, pc) == req[c].kind = kind /\ req[c].pc = pc
End(c) == req' = [req EXCEPT ![c] = [NoRequest EXCEPT !.pc = "over"]]
Save(s, chat) == chats' = [chats EXCEPT ![s] = chat]

\* Mutant: a chat an agent has taken is not looked for.
CreateUnlessWaiting(c) ==
    /\ \A s \in DOMAIN chats : chats[s].status # "WAITING"
    /\ Ask(c, "create", Nobody, 0, Nobody, "write")

\* The customer is given the open chat, or, if there is none, a new one.
CreateSession(c) ==
    /\ \A s \in DOMAIN chats : ~Open(s)
    /\ Ask(c, "create", Nobody, 0, Nobody, "write")

InsertSession(c) ==
    /\ At(c, "create", "write")
    /\ Len(chats) < MaxChats
    /\ chats' = Append(chats, NewChat)
    /\ End(c)
    /\ UNCHANGED <<tickets, taken, moved, gateway>>

\* chat:message asks first whether the agent may see the chat ...
AgentMessage(c, a, s) ==
    /\ a \in Supers \/ chats[s].agent \in {a, Nobody}
    /\ Ask(c, "message", a, s, Nobody, "read")

\* Mutant: a message to a closed chat is not refused.
ReadChatAnyway(c) ==
    /\ At(c, "message", "read")
    /\ req' = [req EXCEPT ![c].pc = "write", ![c].seen = chats[req[c].chat]]
    /\ UNCHANGED <<chats, tickets, taken, moved, gateway>>

\* ... then sendMessage reads it, refuses a closed one, stores the message ...
ReadChat(c) ==
    /\ At(c, "message", "read") /\ Open(req[c].chat)
    /\ req' = [req EXCEPT ![c].pc = "write", ![c].seen = chats[req[c].chat]]
    /\ UNCHANGED <<chats, tickets, taken, moved, gateway>>

\* Mutant: whoever answers takes the chat over.
AnswerTakesOver(c) ==
    LET s == req[c].chat IN
    /\ At(c, "message", "write")
    /\ Save(s, [chats[s] EXCEPT
                   !.status = "ACTIVE", !.agent = req[c].who,
                   !.marks = IF req[c].seen.marks = 0 THEN @ + 1 ELSE @])
    /\ End(c)
    /\ UNCHANGED <<tickets, taken, moved, gateway>>

\* ... and makes it active, with a first response and an agent if it had none.
Answer(c) ==
    LET s == req[c].chat IN
    /\ At(c, "message", "write")
    /\ Save(s, [chats[s] EXCEPT
                   !.status = "ACTIVE",
                   !.marks = IF req[c].seen.marks = 0 THEN @ + 1 ELSE @,
                   !.agent = IF req[c].seen.agent = Nobody THEN req[c].who ELSE @])
    /\ End(c)
    /\ UNCHANGED <<tickets, taken, moved, gateway>>

PickUp(c, a, s) == Open(s) /\ Ask(c, "assign", a, s, a, "write")

\* reassign: not the status, but who holds the chat is looked at.
Reassign(c, a, s, to) ==
    /\ a \in Supers \/ chats[s].agent \in {a, Nobody}
    /\ Ask(c, "transfer", a, s, to, "write")

\* Both write the agent and ACTIVE.
Assign(c) ==
    LET s == req[c].chat IN
    /\ At(c, "assign", "write") \/ At(c, "transfer", "write")
    /\ Save(s, [chats[s] EXCEPT !.status = "ACTIVE", !.agent = req[c].to])
    /\ taken' = [taken EXCEPT ![s] = req[c].to]
    /\ moved' = IF req[c].kind = "transfer" /\ ~Open(s) THEN moved \cup {s} ELSE moved
    /\ End(c)
    /\ UNCHANGED <<tickets, gateway>>

CloseSession(c, s) == Open(s) /\ Ask(c, "close", Nobody, s, Nobody, "write")

Close(c) ==
    LET s == req[c].chat IN
    /\ At(c, "close", "write")
    /\ Save(s, [chats[s] EXCEPT !.status = "CLOSED"])
    /\ End(c)
    /\ UNCHANGED <<tickets, taken, moved, gateway>>

RateSession(c, s) ==
    chats[s].ratings = 0 /\ Ask(c, "rate", Nobody, s, Nobody, "write")

Rate(c) ==
    LET s == req[c].chat IN
    /\ At(c, "rate", "write")
    /\ Save(s, [chats[s] EXCEPT !.ratings = @ + 1])
    /\ End(c)
    /\ UNCHANGED <<tickets, taken, moved, gateway>>

ConvertSession(c, s) ==
    /\ \A t \in tickets : t.chat # s
    /\ Ask(c, "convert", Nobody, s, Nobody, "write")

Convert(c) ==
    /\ At(c, "convert", "write")
    /\ \A t \in tickets : t.chat # req[c].chat
    /\ tickets' = tickets \cup {[chat |-> req[c].chat, by |-> c]}
    /\ End(c)
    /\ UNCHANGED <<chats, taken, moved, gateway>>

\* Refused by a check or a unique key, or cut off.
GiveUp(c) ==
    /\ c \in Running
    /\ End(c)
    /\ UNCHANGED <<chats, tickets, taken, moved, gateway>>

-----------------------------------------------------------------------------
(* Sockets and presence.                                                   *)

SocketsOf(a) == {c \in Clients : socket[c].who = a /\ socket[c].up}
Coming(a) == \E c \in Clients : socket[c].who = a /\ socket[c].pc = "online"
Leaving(a) == \E c \in Clients : socket[c].who = a /\ socket[c].closing
Muddle(a) == muddled' = muddled \cup {a}
Set(c, r) == socket' = [socket EXCEPT ![c] = r]
Chatless == UNCHANGED <<desk, restarted>>

\* The upsert of setPresence.
SetPresence(a, status) == presence' = [presence EXCEPT ![a] = status]

\* PATCH support/presence.
ChoosePresence(c, a, status) ==
    /\ Fresh(c) /\ Cardinality(Busy) < AtOnce
    /\ SetPresence(a, status)
    /\ req' = [req EXCEPT ![c].pc = "over"]
    /\ Muddle(a)
    /\ UNCHANGED <<chats, tickets, taken, moved, conns, socket, restarted,
                   dropped>>

\* handleConnection authenticates the client ...
OpenSocket(c, a) ==
    /\ Fresh(c) /\ Cardinality(Busy) < AtOnce
    /\ Set(c, [NoSocket EXCEPT !.who = a, !.pc = "auth", !.up = TRUE])
    /\ UNCHANGED <<presence, conns, muddled, dropped>> /\ Chatless

\* ... registers it, even if it has gone away meanwhile ...
Register(c) ==
    LET a == socket[c].who IN
    /\ socket[c].pc = "auth"
    /\ conns' = [conns EXCEPT ![a] = @ \cup {c}]
    /\ Set(c, [socket[c] EXCEPT !.pc = "online", !.ghost = ~socket[c].up])
    /\ muddled' = IF ~socket[c].up \/ Leaving(a) THEN muddled \cup {a} ELSE muddled
    /\ UNCHANGED <<presence, dropped>> /\ Chatless

\* ... and shows the agent as online.
ComeOnline(c) ==
    LET a == socket[c].who IN
    /\ socket[c].pc = "online"
    /\ SetPresence(a, "ONLINE")
    /\ Set(c, [socket[c] EXCEPT !.pc = "open"])
    /\ dropped' = dropped \ {a}
    /\ UNCHANGED <<conns, muddled>> /\ Chatless

\* handleDisconnect: a client that is not authenticated yet is nobody's.
Disconnect(c) ==
    LET a == socket[c].who IN
    /\ socket[c].up
    /\ IF socket[c].pc = "auth"
         THEN /\ Set(c, [socket[c] EXCEPT !.up = FALSE])
              /\ UNCHANGED <<conns, muddled, dropped>>
         ELSE /\ conns' = [conns EXCEPT ![a] = @ \ {c}]
              /\ Set(c, [socket[c] EXCEPT !.up = FALSE, !.closing = TRUE])
              /\ dropped' = dropped \cup {a}
              /\ muddled' = IF Coming(a) THEN muddled \cup {a} ELSE muddled
    /\ UNCHANGED presence /\ Chatless

\* Mutant: an agent is taken offline when other sockets remain, not when the
\* last one is gone.
GoOfflineUnlessLast(c) ==
    LET a == socket[c].who IN
    /\ socket[c].closing
    /\ IF conns[a] = {} THEN UNCHANGED presence ELSE SetPresence(a, "OFFLINE")
    /\ Set(c, [socket[c] EXCEPT !.closing = FALSE])
    /\ UNCHANGED <<conns, muddled, dropped>> /\ Chatless

\* The agent is shown as offline, whatever other sockets are open.
GoOffline(c) ==
    LET a == socket[c].who IN
    /\ socket[c].closing
    /\ SetPresence(a, "OFFLINE")
    /\ Set(c, [socket[c] EXCEPT !.closing = FALSE])
    /\ UNCHANGED <<conns, muddled, dropped>> /\ Chatless

\* A presence write fails; one of handleConnection ends the connection.
PresenceFails(c) ==
    LET a == socket[c].who IN
    /\ \/ /\ socket[c].closing
          /\ Set(c, [socket[c] EXCEPT !.closing = FALSE])
          /\ UNCHANGED conns
       \/ /\ socket[c].pc = "online"
          /\ Set(c, [socket[c] EXCEPT !.pc = "open", !.up = FALSE,
                                      !.closing = @ \/ socket[c].up])
          /\ conns' = IF socket[c].up THEN [conns EXCEPT ![a] = @ \ {c}] ELSE conns
    /\ Muddle(a)
    /\ dropped' = dropped \cup {a}
    /\ UNCHANGED presence /\ Chatless

\* The process stops and starts again: rows stay, memory and sockets do not.
Restart ==
    /\ ~restarted
    /\ \E c \in Clients : socket[c].pc # "idle"
    /\ restarted' = TRUE
    /\ conns' = [a \in Agents |-> {}]
    /\ socket' = [c \in Clients |-> IF socket[c].pc = "idle" THEN NoSocket
                                    ELSE [NoSocket EXCEPT !.pc = "open"]]
    /\ req' = [c \in Clients |-> IF c \in Running
                                   THEN [NoRequest EXCEPT !.pc = "over"]
                                   ELSE req[c]]
    /\ muddled' = muddled \cup
          {a \in Agents : \E c \in Clients : /\ socket[c].who = a
                                             /\ socket[c].up \/ Handling(c)}
    /\ UNCHANGED <<chats, tickets, taken, moved, presence, dropped>>

-----------------------------------------------------------------------------

Request(c) ==
    \/ CreateSession(c)
    \/ \E s \in DOMAIN chats :
          \/ CloseSession(c, s) \/ RateSession(c, s) \/ ConvertSession(c, s)
          \/ \E a \in Agents :
                \/ AgentMessage(c, a, s) \/ PickUp(c, a, s)
                \/ \E to \in Agents : Reassign(c, a, s, to)
    \/ \E a \in Agents, status \in {"ONLINE", "AWAY", "OFFLINE"} :
          ChoosePresence(c, a, status)

Write(c) ==
    \/ InsertSession(c) \/ ReadChat(c) \/ Answer(c) \/ Assign(c)
    \/ Close(c) \/ Rate(c) \/ Convert(c) \/ GiveUp(c)

Gateway(c) ==
    \/ \E a \in Agents : OpenSocket(c, a)
    \/ Register(c) \/ ComeOnline(c) \/ Disconnect(c) \/ GoOffline(c)
    \/ PresenceFails(c)

\* Every client has come and gone.
Finished ==
    /\ \A c \in Clients : ~Fresh(c) /\ ~socket[c].up
    /\ Busy = {}
    /\ UNCHANGED <<desk, gateway>>

Step ==
    \/ \E c \in Clients : Request(c) \/ Write(c) \/ Gateway(c)
    \/ Restart
    \/ Finished

Shared(s) ==
    \E c, d \in Running : c # d /\ req[c].chat = s /\ req[d].chat = s

Record ==
    /\ reopened' = reopened \cup
          {s \in DOMAIN chats : chats[s].status = "CLOSED"
                                /\ chats'[s].status # "CLOSED"}
    /\ contested' = contested \cup
          {s \in 0..Len(chats) : Shared(s)'}

Next == Step /\ Record

Spec == Init /\ [][Next]_vars

-----------------------------------------------------------------------------

\* Rows have the shape of the schema; a chat is made a ticket once, however
\* many agents convert it at a time (support.service.ts:381-406).
SupportTypeOK ==
    /\ \A s \in DOMAIN chats : chats[s] \in Chat
    /\ \A s, t \in tickets : s.chat = t.chat => s = t
    /\ \A a \in Agents : presence[a] \in {"none", "ONLINE", "AWAY", "OFFLINE"}

\* A customer has one open chat at a time, unless two requests to open one
\* overlapped or an ended one was opened again (support.service.ts:73-92).
OneOpenChat ==
    0 \notin contested =>
        Cardinality({s \in DOMAIN chats \ reopened : Open(s)}) <= 1

\* An ended chat is open again only because it was transferred, or because a
\* request that had seen it open overlapped with its end
\* (support.service.ts:230, 284 and 302-313).
ClosedStaysClosed == reopened \subseteq moved \cup contested

\* A chat waits exactly as long as it has no agent: no interleaving of
\* answers, pick-ups, transfers and ends leaves an active chat that is nobody's
\* or an assigned one in the queue (support.service.ts:265-273, 287-290).
ActiveIsSomebodys ==
    \A s \in DOMAIN chats :
        /\ chats[s].status = "ACTIVE" => chats[s].agent # Nobody
        /\ chats[s].status = "WAITING" => chats[s].agent = Nobody

\* An agent who picked a chat up, or was given it, keeps it until the next
\* pick-up or transfer, whoever else answers in it, unless requests about the
\* chat overlapped (support.service.ts:269, 287-290).
TakenIsKept ==
    \A s \in DOMAIN chats \ contested :
        taken[s] # Nobody => chats[s].agent = taken[s]

\* The first response of a chat is timed once and its rating given once,
\* unless requests about it overlapped (support.service.ts:268, 374).
FirstsAreKept ==
    \A s \in DOMAIN chats \ contested : chats[s].marks <= 1 /\ chats[s].ratings <= 1

\* The rows are well formed, a chat is in somebody's hands exactly when it is
\* active, stays in the hands it was given to, and has one first response, but
\* where requests about it overlapped (support.service.ts:265-290, 374-406).
SupportInv == SupportTypeOK /\ ActiveIsSomebodys /\ TakenIsKept /\ FirstsAreKept

\* An agent whose sockets are all gone is shown as offline, once the handlers
\* have ended, unless writes of the agent's presence overlapped or failed, the
\* agent set it by hand, the gateway restarted, or a socket closed before it
\* was authenticated (support.gateway.ts:50-77 and 136-151).
GoneIsOffline ==
    \A a \in Agents \ muddled :
        SocketsOf(a) = {} /\ ~Coming(a) /\ ~Leaving(a)
        => presence[a] \in {"none", "OFFLINE"}

\* An agent with an open socket is shown as online, unless another of the
\* agent's sockets has closed since, or for one of the reasons above
\* (support.gateway.ts:66-69 and 150).
ConnectedIsOnline ==
    \A a \in Agents \ (muddled \cup dropped) :
        (\E c \in SocketsOf(a) : socket[c].pc = "open") => presence[a] = "ONLINE"

\* What the gateway counts as connections are open sockets, but for those that
\* closed while they were being authenticated (support.gateway.ts:62-64, 142-148).
ConnectionsAreReal ==
    \A a \in Agents : \A c \in conns[a] :
        socket[c].who = a /\ (socket[c].up \/ socket[c].ghost)

\* Who is shown as online: the gateway counts the sockets that are there, and
\* the presence follows them, up to the races the three parts name
\* (support.gateway.ts:50-77 and 136-151).
PresenceIsTrue == ConnectionsAreReal /\ GoneIsOffline /\ ConnectedIsOnline
===============================================================================

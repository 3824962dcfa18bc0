----------------------------- MODULE SupportProofs -----------------------------
(***************************************************************************)
(* The chats and the presence of Support, for any number of agents,        *)
(* clients and chats: what its run checks on a small instance.             *)
(*                                                                         *)
(* The two halves share nothing but the clients, so each has an inductive  *)
(* invariant.  At the desk it says what a request that has read its chat   *)
(* may rely on when it writes: what it saw is still there, unless a second *)
(* request was about that chat.  At the gateway it says which socket       *)
(* stands behind the presence of an agent.                                 *)
(***************************************************************************)
EXTENDS Support, FiniteSetTheorems, TLAPS

-------------------------------------------------------------------------------
(***************************************************************************)
(* The invariant of the desk.                                              *)
(***************************************************************************)

Kinds == {"none", "create", "message", "assign", "transfer", "close", "rate",
          "convert"}

\* The shape of the requests.
RequestRow ==
    [kind : Kinds, pc : {"idle", "read", "write", "over"},
     who : Agents \cup {Nobody}, chat : Nat, to : Agents \cup {Nobody},
     seen : Chat]

\* The variables of the desk have their types.
DeskTypes ==
    /\ chats \in Seq(Chat) /\ Len(chats) <= MaxChats
    /\ req \in [Clients -> RequestRow]
    /\ taken \in [1..MaxChats -> Agents \cup {Nobody}]

\* What request c is about, and what it has checked on what it has seen.
Purpose(c) ==
    /\ req[c].chat \in 0..Len(chats)
    /\ req[c].chat = 0 <=> req[c].kind = "create"
    /\ req[c].kind \in {"assign", "transfer"} => req[c].to \in Agents
    /\ req[c].kind = "message" => req[c].who \in Agents
    /\ \/ req[c].kind = "assign"
       \/ req[c].kind = "message" /\ req[c].pc = "write"
       => req[c].seen.status # "CLOSED"
    /\ req[c].kind = "rate" => req[c].seen.ratings = 0

\* A chat that had an agent when it was read still has one; and what was read
\* is still the row, unless two requests were about the chat.
Reading(c) ==
    req[c].chat # 0 =>
        /\ req[c].seen.agent # Nobody => chats[req[c].chat].agent # Nobody
        /\ req[c].chat \notin contested => req[c].seen = chats[req[c].chat]

\* Requests that are under way have a purpose, and know what they have read.
RequestsInv == \A c \in Running : Purpose(c) /\ Reading(c)

\* Two requests about one chat are on record.
Overlaps == \A s \in Nat : Shared(s) => s \in contested

\* Nobody is given a chat before it is there.
NotTakenYet == \A s \in 1..MaxChats : s > Len(chats) => taken[s] = Nobody

\* One chat at a time is open, and none while one is created.
OneAtATime ==
    0 \notin contested =>
        /\ \A s, t \in DOMAIN chats \ reopened : Open(s) /\ Open(t) => s = t
        /\ \A c \in Running : req[c].kind = "create" =>
              \A s \in DOMAIN chats \ reopened : ~Open(s)

\* A chat is made a ticket once.
OneTicket == \A s, t \in tickets : s.chat = t.chat => s = t

DeskInv ==
    /\ DeskTypes /\ RequestsInv /\ Overlaps /\ NotTakenYet /\ OneAtATime
    /\ OneTicket /\ ActiveIsSomebodys /\ TakenIsKept /\ FirstsAreKept
    /\ ClosedStaysClosed

-------------------------------------------------------------------------------
(***************************************************************************)
(* The invariant of the gateway.                                           *)
(***************************************************************************)

Statuses == {"none", "ONLINE", "AWAY", "OFFLINE"}

\* The shape of the sockets.
SocketRow ==
    [who : Agents \cup {Nobody}, pc : {"idle", "auth", "online", "open"},
     up : BOOLEAN, closing : BOOLEAN, ghost : BOOLEAN]

\* The variables of the gateway have their types.
GatewayTypes ==
    /\ presence \in [Agents -> Statuses]
    /\ conns \in [Agents -> SUBSET Clients]
    /\ socket \in [Clients -> SocketRow]
    /\ muddled \subseteq Agents /\ dropped \subseteq Agents

\* A client that has not come has no socket; a socket whose handlers are not
\* through is an agent's.
SocketsInv ==
    \A c \in Clients :
        /\ socket[c].pc = "idle" => ~socket[c].up /\ ~socket[c].closing
        /\ socket[c].up \/ Handling(c) => socket[c].who \in Agents

\* A connection that is counted was registered, and is there or was never
\* told that it had gone.
ConnectionsInv ==
    \A a \in Agents : \A c \in conns[a] :
        /\ socket[c].pc \in {"online", "open"}
        /\ socket[c].who = a
        /\ socket[c].up \/ socket[c].ghost

Serving(a) ==
    \E c \in Clients : socket[c].who = a /\ socket[c].pc = "open" /\ socket[c].up

\* Agent a, whose handlers did not overlap: a socket that is coming online is
\* still there; none is while one is leaving; who is not shown as offline is
\* served or leaving; who is served and lost no socket is shown as online.
PresenceOf(a) ==
    /\ \A c \in Clients :
          socket[c].who = a /\ socket[c].pc = "online" => socket[c].up
    /\ Leaving(a) => ~Coming(a) /\ a \in dropped
    /\ presence[a] \notin {"none", "OFFLINE"} => Leaving(a) \/ Serving(a)
    /\ a \notin dropped /\ Serving(a) => presence[a] = "ONLINE"

GatewayInv ==
    /\ GatewayTypes /\ SocketsInv /\ ConnectionsInv
    /\ \A a \in Agents \ muddled : PresenceOf(a)

-------------------------------------------------------------------------------
(***************************************************************************)
(* The steps of the gateway.                                               *)
(***************************************************************************)

\* Setting one socket leaves the others.
LEMMA SetOne ==
    ASSUME GatewayTypes, NEW c \in Clients, NEW r \in SocketRow, Set(c, r)
    PROVE  /\ socket' \in [Clients -> SocketRow]
           /\ socket'[c] = r
           /\ \A d \in Clients \ {c} : socket'[d] = socket[d]
BY DEF GatewayTypes, Set

\* What is true of an agent stays true when a socket of another one is set.
LEMMA Bystanders ==
    ASSUME GatewayTypes, SocketsInv,
           NEW c \in Clients, NEW r \in SocketRow, Set(c, r),
           NEW a \in Agents, r.who = a,
           socket[c].who = a \/ socket[c].pc = "idle",
           NEW b \in Agents \ {a},
           presence'[b] = presence[b],
           b \in dropped' <=> b \in dropped,
           PresenceOf(b)
    PROVE  PresenceOf(b)'
<1>1. /\ socket'[c].who = a
      /\ \A d \in Clients \ {c} : socket'[d] = socket[d]
  BY SetOne
<1>2. a # b /\ (socket[c].who = b =>
          socket[c].pc = "idle" /\ ~socket[c].up /\ ~socket[c].closing)
  BY DEF SocketsInv
<1>3. \A d \in Clients : socket'[d].who = b => d # c /\ socket'[d] = socket[d]
  BY <1>1, <1>2
<1>4. Leaving(b)' <=> Leaving(b)
  <2>1. ASSUME NEW d \in Clients, socket[d].who = b, socket[d].closing
        PROVE  d # c
    BY <2>1, <1>2
  <2>. QED  BY <2>1, <1>1, <1>3 DEF Leaving
<1>5. Coming(b)' <=> Coming(b)
  <2>1. ASSUME NEW d \in Clients, socket[d].who = b, socket[d].pc = "online"
        PROVE  d # c
    BY <2>1, <1>2
  <2>. QED  BY <2>1, <1>1, <1>3 DEF Coming
<1>6. Serving(b)' <=> Serving(b)
  <2>1. ASSUME NEW d \in Clients, socket[d].who = b, socket[d].pc = "open"
        PROVE  d # c
    BY <2>1, <1>2
  <2>. QED  BY <2>1, <1>1, <1>3 DEF Serving
<1>7. \A d \in Clients :
          socket'[d].who = b /\ socket'[d].pc = "online" => socket'[d].up
  BY <1>3 DEF PresenceOf
<1>. QED  BY <1>4, <1>5, <1>6, <1>7 DEF PresenceOf

\* A socket is opened: nothing is known of it yet.
LEMMA OpenSocketKeeps ==
    ASSUME GatewayInv, NEW c \in Clients, NEW a \in Agents, OpenSocket(c, a)
    PROVE  GatewayInv'
<1> DEFINE r == [NoSocket EXCEPT !.who = a, !.pc = "auth", !.up = TRUE]
<1>1. /\ GatewayTypes /\ SocketsInv /\ ConnectionsInv
      /\ Set(c, r)
      /\ socket[c].pc = "idle"
      /\ UNCHANGED <<presence, conns, muddled, dropped>>
  BY DEF GatewayInv, OpenSocket, Fresh
<1>2. /\ r \in SocketRow
      /\ r.who = a /\ r.pc = "auth" /\ r.up /\ ~r.closing /\ ~r.ghost
  BY DEF SocketRow, NoSocket
<1> HIDE DEF r
<1>3. /\ socket' \in [Clients -> SocketRow]
      /\ socket'[c] = r
      /\ \A d \in Clients \ {c} : socket'[d] = socket[d]
  BY <1>1, <1>2, SetOne
<1>4. GatewayTypes'
  BY <1>1, <1>3 DEF GatewayTypes
<1>5. SocketsInv'
  BY <1>1, <1>2, <1>3 DEF SocketsInv, Handling
<1>6. ConnectionsInv'
  BY <1>1, <1>2, <1>3 DEF ConnectionsInv, GatewayTypes
<1>7. ASSUME NEW b \in Agents \ muddled'
      PROVE  PresenceOf(b)'
  <2>1. PresenceOf(b)
    BY <1>1, <1>7 DEF GatewayInv
  <2>2. CASE b # a
    BY <2>1, <2>2, <1>1, <1>2, Bystanders
  <2>3. CASE b = a
    <3>1. (Leaving(a)' <=> Leaving(a)) /\ (Coming(a)' <=> Coming(a))
      BY <1>1, <1>2, <1>3 DEF Leaving, Coming, SocketsInv
    <3>2. Serving(a)' <=> Serving(a)
      BY <1>1, <1>2, <1>3 DEF Serving
    <3>3. \A d \in Clients :
             socket'[d].who = a /\ socket'[d].pc = "online" => socket'[d].up
      BY <1>2, <1>3, <2>1, <2>3 DEF PresenceOf
    <3>. QED  BY <3>1, <3>2, <3>3, <2>1, <2>3, <1>1 DEF PresenceOf
  <2>. QED  BY <2>2, <2>3
<1>. QED  BY <1>4, <1>5, <1>6, <1>7 DEF GatewayInv

\* A socket is registered: one that is gone, or whose agent is leaving, leaves
\* the agent muddled.
LEMMA RegisterKeeps ==
    ASSUME GatewayInv, NEW c \in Clients, Register(c)
    PROVE  GatewayInv'
<1> DEFINE a == socket[c].who
           r == [socket[c] EXCEPT !.pc = "online", !.ghost = ~socket[c].up]
<1>1. /\ GatewayTypes /\ SocketsInv /\ ConnectionsInv
      /\ Set(c, r)
      /\ socket[c].pc = "auth"
      /\ socket[c] \in SocketRow
      /\ UNCHANGED <<presence, dropped>>
      /\ conns' = [conns EXCEPT ![a] = @ \cup {c}]
      /\ muddled' = IF ~socket[c].up \/ Leaving(a) THEN muddled \cup {a} ELSE muddled
  BY DEF GatewayInv, Register, GatewayTypes
<1>2. a \in Agents
  BY <1>1 DEF SocketsInv, Handling
<1>3. /\ r \in SocketRow
      /\ r.who = a /\ r.pc = "online" /\ r.up = socket[c].up
      /\ r.closing = socket[c].closing /\ r.ghost = ~socket[c].up
  BY <1>1 DEF SocketRow
<1>a. PICK x \in Agents : x = a
  BY <1>2
<1>r. PICK y \in SocketRow : y = r
  BY <1>3
<1> HIDE DEF a, r
<1>4. /\ socket' \in [Clients -> SocketRow]
      /\ socket'[c] = y
      /\ \A d \in Clients \ {c} : socket'[d] = socket[d]
  BY <1>1, <1>r, SetOne
<1>5. GatewayTypes'
  BY <1>1, <1>4, <1>2 DEF GatewayTypes
<1>6. SocketsInv'
  BY <1>1, <1>2, <1>3, <1>r, <1>4 DEF SocketsInv, Handling
<1>7. ConnectionsInv'
  <2>1. conns' = [conns EXCEPT ![x] = conns[x] \cup {c}]
    BY <1>1, <1>a
  <2>2. conns \in [Agents -> SUBSET Clients]
    BY <1>1 DEF GatewayTypes
  <2>3. ASSUME NEW b \in Agents, NEW d \in conns'[b]
        PROVE  d \in conns[b] \/ (d = c /\ b = x)
    BY <2>1, <2>2, <2>3
  <2>4. /\ y.pc \in {"online", "open"} /\ y.who = x /\ (y.up \/ y.ghost)
    BY <1>3, <1>r, <1>a
  <2>5. ASSUME NEW b \in Agents, NEW d \in conns[b]
        PROVE  d \in Clients \ {c}
    BY <2>2, <2>5, <1>1 DEF ConnectionsInv
  <2>6. ASSUME NEW b \in Agents, NEW d \in conns'[b]
        PROVE  /\ socket'[d].pc \in {"online", "open"}
               /\ socket'[d].who = b
               /\ socket'[d].up \/ socket'[d].ghost
    <3>1. CASE d = c /\ b = x
      BY <3>1, <2>4, <1>4
    <3>2. CASE d \in conns[b]
      BY <3>2, <2>5, <1>4, <1>1 DEF ConnectionsInv
    <3>. QED  BY <3>1, <3>2, <2>3, <2>6
  <2>. QED  BY <2>6 DEF ConnectionsInv
<1>8. ASSUME NEW b \in Agents \ muddled'
      PROVE  PresenceOf(b)'
  <2>1. PresenceOf(b)
    BY <1>1, <1>8 DEF GatewayInv
  <2>2. CASE b # x
    BY <2>1, <2>2, <1>1, <1>3, <1>a, <1>r, Bystanders DEF a
  <2>3. CASE b = x
    <3>1. socket[c].up /\ ~Leaving(x)
      BY <2>3, <1>1, <1>8, <1>a
    <3>2. ~Leaving(x)'
      BY <3>1, <1>3, <1>4, <1>r, <1>a DEF Leaving, a
    <3>3. Serving(x)' <=> Serving(x)
      BY <1>1, <1>3, <1>r, <1>4 DEF Serving
    <3>4. \A d \in Clients :
             socket'[d].who = x /\ socket'[d].pc = "online" => socket'[d].up
      BY <1>3, <1>r, <1>4, <3>1, <2>1, <2>3 DEF PresenceOf
    <3>. QED  BY <3>1, <3>2, <3>3, <3>4, <2>1, <2>3, <1>1 DEF PresenceOf
  <2>. QED  BY <2>2, <2>3
<1>. QED  BY <1>5, <1>6, <1>7, <1>8 DEF GatewayInv

\* An agent comes online: a socket that was registered in time serves it.
LEMMA ComeOnlineKeeps ==
    ASSUME GatewayInv, NEW c \in Clients, ComeOnline(c)
    PROVE  GatewayInv'
<1> DEFINE a == socket[c].who
           r == [socket[c] EXCEPT !.pc = "open"]
<1>1. /\ GatewayTypes /\ SocketsInv /\ ConnectionsInv
      /\ Set(c, r)
      /\ socket[c].pc = "online"
      /\ socket[c] \in SocketRow
      /\ UNCHANGED <<conns, muddled>>
      /\ presence' = [presence EXCEPT ![a] = "ONLINE"]
      /\ dropped' = dropped \ {a}
  BY DEF GatewayInv, ComeOnline, SetPresence, GatewayTypes
<1>2. a \in Agents
  BY <1>1 DEF SocketsInv, Handling
<1>3. /\ r \in SocketRow
      /\ r.who = a /\ r.pc = "open" /\ r.up = socket[c].up
      /\ r.closing = socket[c].closing /\ r.ghost = socket[c].ghost
  BY <1>1 DEF SocketRow
<1>a. PICK x \in Agents : x = a
  BY <1>2
<1>r. PICK y \in SocketRow : y = r
  BY <1>3
<1> HIDE DEF a, r
<1>4. /\ socket' \in [Clients -> SocketRow]
      /\ socket'[c] = y
      /\ \A d \in Clients \ {c} : socket'[d] = socket[d]
  BY <1>1, <1>r, SetOne
<1>5. GatewayTypes'
  BY <1>1, <1>4, <1>2 DEF GatewayTypes, Statuses
<1>6. SocketsInv'
  BY <1>1, <1>2, <1>3, <1>r, <1>4 DEF SocketsInv, Handling
<1>7. ConnectionsInv'
  BY <1>1, <1>3, <1>a, <1>r, <1>4 DEF ConnectionsInv, GatewayTypes, a
<1>8. ASSUME NEW b \in Agents \ muddled'
      PROVE  PresenceOf(b)'
  <2>1. PresenceOf(b)
    BY <1>1, <1>8 DEF GatewayInv
  <2>2. CASE b # x
    <3>1. presence'[b] = presence[b] /\ (b \in dropped' <=> b \in dropped)
      BY <2>2, <1>1, <1>a DEF GatewayTypes
    <3>. QED  BY <3>1, <2>1, <2>2, <1>1, <1>3, <1>a, <1>r, Bystanders DEF a
  <2>3. CASE b = x
    <3>1. socket[c].up /\ ~Leaving(x)
      BY <2>1, <2>3, <1>1, <1>a DEF PresenceOf, Coming, a
    <3>2. ~Leaving(x)'
      BY <3>1, <1>3, <1>4, <1>r, <1>a DEF Leaving, a
    <3>3. Serving(x)'
      BY <1>1, <1>3, <1>r, <1>a, <1>4, <3>1 DEF Serving
    <3>4. \A d \in Clients :
             socket'[d].who = x /\ socket'[d].pc = "online" => socket'[d].up
      BY <1>3, <1>r, <1>4, <3>1, <2>1, <2>3 DEF PresenceOf
    <3>5. presence'[x] = "ONLINE"
      BY <1>1, <1>a DEF GatewayTypes
    <3>. QED  BY <3>2, <3>3, <3>4, <3>5, <2>3 DEF PresenceOf
  <2>. QED  BY <2>2, <2>3
<1>. QED  BY <1>5, <1>6, <1>7, <1>8 DEF GatewayInv

\* A client goes away while it is authenticated: it served nobody.
LEMMA LeaveEarlyKeeps ==
    ASSUME GatewayInv, NEW c \in Clients, Disconnect(c), socket[c].pc = "auth"
    PROVE  GatewayInv'
<1> DEFINE a == socket[c].who
           r == [socket[c] EXCEPT !.up = FALSE]
<1>1. /\ GatewayTypes /\ SocketsInv /\ ConnectionsInv
      /\ Set(c, r)
      /\ socket[c].up
      /\ socket[c] \in SocketRow
      /\ UNCHANGED <<presence, conns, muddled, dropped>>
  BY DEF GatewayInv, Disconnect, GatewayTypes
<1>2. a \in Agents
  BY <1>1 DEF SocketsInv
<1>3. /\ r \in SocketRow
      /\ r.who = a /\ r.pc = "auth" /\ ~r.up
      /\ r.closing = socket[c].closing /\ r.ghost = socket[c].ghost
  BY <1>1 DEF SocketRow
<1>a. PICK x \in Agents : x = a
  BY <1>2
<1>r. PICK y \in SocketRow : y = r
  BY <1>3
<1> HIDE DEF a, r
<1>4. /\ socket' \in [Clients -> SocketRow]
      /\ socket'[c] = y
      /\ \A d \in Clients \ {c} : socket'[d] = socket[d]
  BY <1>1, <1>r, SetOne
<1>5. GatewayTypes'
  BY <1>1, <1>4 DEF GatewayTypes
<1>6. SocketsInv'
  BY <1>1, <1>2, <1>3, <1>r, <1>4 DEF SocketsInv, Handling
<1>7. ConnectionsInv'
  BY <1>1, <1>4 DEF ConnectionsInv, GatewayTypes
<1>8. ASSUME NEW b \in Agents \ muddled'
      PROVE  PresenceOf(b)'
  <2>1. PresenceOf(b)
    BY <1>1, <1>8 DEF GatewayInv
  <2>2. CASE b # x
    BY <2>1, <2>2, <1>1, <1>3, <1>a, <1>r, Bystanders DEF a
  <2>3. CASE b = x
    <3>1. (Leaving(x)' <=> Leaving(x)) /\ (Coming(x)' <=> Coming(x))
      BY <1>1, <1>3, <1>r, <1>a, <1>4 DEF Leaving, Coming, a
    <3>2. Serving(x)' <=> Serving(x)
      BY <1>1, <1>3, <1>r, <1>4 DEF Serving
    <3>3. \A d \in Clients :
             socket'[d].who = x /\ socket'[d].pc = "online" => socket'[d].up
      BY <1>3, <1>r, <1>4, <2>1, <2>3 DEF PresenceOf
    <3>. QED  BY <3>1, <3>2, <3>3, <2>1, <2>3, <1>1 DEF PresenceOf
  <2>. QED  BY <2>2, <2>3
<1>. QED  BY <1>5, <1>6, <1>7, <1>8 DEF GatewayInv

\* A registered client goes away: its agent is leaving, and has lost a socket.
LEMMA DisconnectKeeps ==
    ASSUME GatewayInv, NEW c \in Clients, Disconnect(c), socket[c].pc # "auth"
    PROVE  GatewayInv'
<1> DEFINE a == socket[c].who
           r == [socket[c] EXCEPT !.up = FALSE, !.closing = TRUE]
<1>1. /\ GatewayTypes /\ SocketsInv /\ ConnectionsInv
      /\ Set(c, r)
      /\ socket[c].up
      /\ socket[c] \in SocketRow
      /\ UNCHANGED presence
      /\ conns' = [conns EXCEPT ![a] = @ \ {c}]
      /\ dropped' = dropped \cup {a}
      /\ muddled' = IF Coming(a) THEN muddled \cup {a} ELSE muddled
  BY DEF GatewayInv, Disconnect, GatewayTypes
<1>2. a \in Agents /\ socket[c].pc \in {"online", "open"}
  BY <1>1 DEF SocketsInv, SocketRow
<1>3. /\ r \in SocketRow
      /\ r.who = a /\ r.pc = socket[c].pc /\ ~r.up
      /\ r.closing /\ r.ghost = socket[c].ghost
  BY <1>1 DEF SocketRow
<1>a. PICK x \in Agents : x = a
  BY <1>2
<1>r. PICK y \in SocketRow : y = r
  BY <1>3
<1> HIDE DEF a, r
<1>4. /\ socket' \in [Clients -> SocketRow]
      /\ socket'[c] = y
      /\ \A d \in Clients \ {c} : socket'[d] = socket[d]
  BY <1>1, <1>r, SetOne
<1>5. GatewayTypes'
  BY <1>1, <1>4, <1>2 DEF GatewayTypes
<1>6. SocketsInv'
  BY <1>1, <1>2, <1>3, <1>r, <1>4 DEF SocketsInv, Handling
<1>7. ConnectionsInv'
  <2>1. conns' = [conns EXCEPT ![x] = conns[x] \ {c}]
    BY <1>1, <1>a
  <2>2. conns \in [Agents -> SUBSET Clients]
    BY <1>1 DEF GatewayTypes
  <2>3. ASSUME NEW b \in Agents, NEW d \in conns'[b]
        PROVE  d \in conns[b] /\ d \in Clients \ {c}
    <3>1. d \in conns[b] /\ (b = x => d # c)
      BY <2>1, <2>2, <2>3
    <3>2. socket[d].who = b
      BY <3>1, <1>1 DEF ConnectionsInv
    <3>. QED  BY <3>1, <3>2, <2>2, <1>a DEF a
  <2>. QED  BY <2>3, <1>4, <1>1 DEF ConnectionsInv
<1>8. ASSUME NEW b \in Agents \ muddled'
      PROVE  PresenceOf(b)'
  <2>1. PresenceOf(b)
    BY <1>1, <1>8 DEF GatewayInv
  <2>2. CASE b # x
    <3>1. b \in dropped' <=> b \in dropped
      BY <2>2, <1>1, <1>a
    <3>. QED  BY <3>1, <2>1, <2>2, <1>1, <1>3, <1>a, <1>r, Bystanders DEF a
  <2>3. CASE b = x
    <3>1. ~Coming(x) /\ x \in dropped'
      BY <2>3, <1>1, <1>8, <1>a
    <3>2. ~Coming(x)'
      BY <3>1, <1>3, <1>4, <1>r, <1>a DEF Coming, a
    <3>3. Leaving(x)'
      BY <1>3, <1>r, <1>a, <1>4 DEF Leaving
    <3>4. \A d \in Clients :
             ~(socket'[d].who = x /\ socket'[d].pc = "online")
      BY <3>2 DEF Coming
    <3>. QED  BY <3>1, <3>2, <3>3, <3>4, <2>3 DEF PresenceOf
  <2>. QED  BY <2>2, <2>3
<1>. QED  BY <1>5, <1>6, <1>7, <1>8 DEF GatewayInv

\* A leaving agent is shown as offline, and had lost a socket.
LEMMA GoOfflineKeeps ==
    ASSUME GatewayInv, NEW c \in Clients, GoOffline(c)
    PROVE  GatewayInv'
<1> DEFINE a == socket[c].who
           r == [socket[c] EXCEPT !.closing = FALSE]
<1>1. /\ GatewayTypes /\ SocketsInv /\ ConnectionsInv
      /\ Set(c, r)
      /\ socket[c].closing
      /\ socket[c] \in SocketRow
      /\ UNCHANGED <<conns, muddled, dropped>>
      /\ presence' = [presence EXCEPT ![a] = "OFFLINE"]
  BY DEF GatewayInv, GoOffline, SetPresence, GatewayTypes
<1>2. a \in Agents
  BY <1>1 DEF SocketsInv, Handling
<1>3. /\ r \in SocketRow
      /\ r.who = a /\ r.pc = socket[c].pc /\ r.up = socket[c].up
      /\ ~r.closing /\ r.ghost = socket[c].ghost
  BY <1>1 DEF SocketRow
<1>a. PICK x \in Agents : x = a
  BY <1>2
<1>r. PICK y \in SocketRow : y = r
  BY <1>3
<1> HIDE DEF a, r
<1>4. /\ socket' \in [Clients -> SocketRow]
      /\ socket'[c] = y
      /\ \A d \in Clients \ {c} : socket'[d] = socket[d]
  BY <1>1, <1>r, SetOne
<1>5. GatewayTypes'
  BY <1>1, <1>4, <1>2 DEF GatewayTypes, Statuses
<1>6. SocketsInv'
  BY <1>1, <1>2, <1>3, <1>r, <1>4 DEF SocketsInv, Handling
<1>7. ConnectionsInv'
  BY <1>1, <1>3, <1>a, <1>r, <1>4 DEF ConnectionsInv, GatewayTypes, a
<1>8. ASSUME NEW b \in Agents \ muddled'
      PROVE  PresenceOf(b)'
  <2>1. PresenceOf(b)
    BY <1>1, <1>8 DEF GatewayInv
  <2>2. CASE b # x
    <3>1. presence'[b] = presence[b]
      BY <2>2, <1>1, <1>a DEF GatewayTypes
    <3>. QED  BY <3>1, <2>1, <2>2, <1>1, <1>3, <1>a, <1>r, Bystanders DEF a
  <2>3. CASE b = x
    <3>1. ~Coming(x) /\ x \in dropped
      BY <2>1, <2>3, <1>1, <1>a DEF PresenceOf, Leaving, a
    <3>2. ~Coming(x)'
      BY <3>1, <1>3, <1>4, <1>r, <1>a DEF Coming, a
    <3>3. presence'[x] = "OFFLINE"
      BY <1>1, <1>a DEF GatewayTypes
    <3>4. \A d \in Clients :
             ~(socket'[d].who = x /\ socket'[d].pc = "online")
      BY <3>2 DEF Coming
    <3>. QED  BY <3>1, <3>2, <3>3, <3>4, <2>3, <1>1 DEF PresenceOf
  <2>. QED  BY <2>2, <2>3
<1>. QED  BY <1>5, <1>6, <1>7, <1>8 DEF GatewayInv

\* A write of the presence fails: nothing is said of the agent any more.
LEMMA PresenceFailsKeeps ==
    ASSUME GatewayInv, NEW c \in Clients, PresenceFails(c)
    PROVE  GatewayInv'
<1> DEFINE a == socket[c].who
<1>1. /\ GatewayTypes /\ SocketsInv /\ ConnectionsInv
      /\ socket[c] \in SocketRow
      /\ UNCHANGED presence
      /\ muddled' = muddled \cup {a}
      /\ dropped' = dropped \cup {a}
  BY DEF GatewayInv, PresenceFails, Muddle, GatewayTypes
<1>2. a \in Agents
  BY <1>1 DEF SocketsInv, Handling, PresenceFails
<1>a. PICK x \in Agents : x = a
  BY <1>2
<1>3. PICK y \in SocketRow :
        /\ Set(c, y)
        /\ y.who = x
        /\ \/ /\ y.pc = socket[c].pc /\ y.up = socket[c].up /\ ~y.closing
              /\ y.ghost = socket[c].ghost
              /\ socket[c].closing /\ UNCHANGED conns
           \/ /\ y.pc = "open" /\ ~y.up /\ y.ghost = socket[c].ghost
              /\ socket[c].pc = "online"
              /\ conns' = IF socket[c].up THEN [conns EXCEPT ![a] = @ \ {c}]
                                          ELSE conns
  <2>1. CASE /\ socket[c].closing
             /\ Set(c, [socket[c] EXCEPT !.closing = FALSE])
             /\ UNCHANGED conns
    <3> DEFINE r == [socket[c] EXCEPT !.closing = FALSE]
    <3>1. /\ r \in SocketRow
          /\ r.who = x /\ r.pc = socket[c].pc /\ r.up = socket[c].up
          /\ ~r.closing /\ r.ghost = socket[c].ghost
      BY <1>1, <1>a DEF SocketRow
    <3>. QED  BY <3>1, <2>1
  <2>2. CASE /\ socket[c].pc = "online"
             /\ Set(c, [socket[c] EXCEPT !.pc = "open", !.up = FALSE,
                                         !.closing = @ \/ socket[c].up])
             /\ conns' = IF socket[c].up THEN [conns EXCEPT ![a] = @ \ {c}]
                                         ELSE conns
    <3> DEFINE r == [socket[c] EXCEPT !.pc = "open", !.up = FALSE,
                                      !.closing = @ \/ socket[c].up]
    <3>1. /\ r \in SocketRow
          /\ r.who = x /\ r.pc = "open" /\ ~r.up
          /\ r.ghost = socket[c].ghost
      BY <1>1, <1>a DEF SocketRow
    <3>. QED  BY <3>1, <2>2
  <2>. QED  BY <2>1, <2>2 DEF PresenceFails
<1>4. /\ socket' \in [Clients -> SocketRow]
      /\ socket'[c] = y
      /\ \A d \in Clients \ {c} : socket'[d] = socket[d]
  BY <1>1, <1>3, SetOne
<1> HIDE DEF a
<1>5. GatewayTypes'
  BY <1>1, <1>2, <1>3, <1>4 DEF GatewayTypes
<1>6. SocketsInv'
  BY <1>1, <1>2, <1>3, <1>a, <1>4 DEF SocketsInv, Handling
<1>7. ConnectionsInv'
  <2>1. conns \in [Agents -> SUBSET Clients]
    BY <1>1 DEF GatewayTypes
  <2>2. ASSUME NEW b \in Agents, NEW d \in conns'[b]
        PROVE  d \in conns[b]
    BY <2>1, <2>2, <1>3, <1>a
  <2>3. ASSUME NEW b \in Agents, NEW d \in conns'[b]
        PROVE  /\ socket'[d].pc \in {"online", "open"}
               /\ socket'[d].who = b
               /\ socket'[d].up \/ socket'[d].ghost
    <3>1. /\ d \in Clients /\ socket[d].who = b
          /\ socket[d].pc \in {"online", "open"}
          /\ socket[d].up \/ socket[d].ghost
      BY <2>1, <2>2, <2>3, <1>1 DEF ConnectionsInv
    <3>2. CASE d # c
      BY <3>1, <3>2, <1>4
    <3>3. CASE d = c
      <4>1. b = x
        BY <3>1, <3>3, <1>a DEF a
      <4>2. CASE socket[c].up /\ ~y.up
        <5>1. conns' = [conns EXCEPT ![x] = conns[x] \ {c}]
          BY <4>2, <1>3, <1>a
        <5>. QED  BY <5>1, <2>1, <2>3, <3>3, <4>1
      <4>3. CASE ~(socket[c].up /\ ~y.up)
        BY <4>1, <4>3, <3>1, <3>3, <1>3, <1>4
      <4>. QED  BY <4>2, <4>3
    <3>. QED  BY <3>2, <3>3
  <2>. QED  BY <2>3 DEF ConnectionsInv
<1>8. ASSUME NEW b \in Agents \ muddled'
      PROVE  PresenceOf(b)'
  <2>1. PresenceOf(b) /\ b # x
    BY <1>1, <1>8, <1>a DEF GatewayInv
  <2>2. b \in dropped' <=> b \in dropped
    BY <2>1, <1>1, <1>a
  <2>3. socket[c].who = x
    BY <1>a DEF a
  <2>. QED  BY <2>1, <2>2, <2>3, <1>1, <1>3, Bystanders
<1>. QED  BY <1>5, <1>6, <1>7, <1>8 DEF GatewayInv

\* After a restart nobody is connected; who was is muddled, and the others were
\* shown as offline.
LEMMA RestartKeeps ==
    ASSUME GatewayInv, Restart
    PROVE  GatewayInv'
<1>1. /\ GatewayTypes /\ SocketsInv
      /\ conns' = [a \in Agents |-> {}]
      /\ UNCHANGED <<presence, dropped>>
      /\ muddled' = muddled \cup
            {a \in Agents : \E c \in Clients : /\ socket[c].who = a
                                               /\ socket[c].up \/ Handling(c)}
  BY DEF GatewayInv, Restart
<1>2. \A c \in Clients :
        /\ socket'[c] \in SocketRow
        /\ socket'[c].pc \in {"idle", "open"}
        /\ ~socket'[c].up /\ ~socket'[c].closing
  BY DEF Restart, NoSocket, SocketRow
<1>3. socket' \in [Clients -> SocketRow]
  BY <1>2 DEF Restart
<1>4. GatewayTypes'
  BY <1>1, <1>3 DEF GatewayTypes
<1>5. SocketsInv'
  BY <1>2 DEF SocketsInv, Handling
<1>6. ConnectionsInv'
  BY <1>1 DEF ConnectionsInv
<1>7. ASSUME NEW b \in Agents \ muddled'
      PROVE  PresenceOf(b)'
  <2>1. PresenceOf(b)
    BY <1>1, <1>7 DEF GatewayInv
  <2>2. ~Leaving(b) /\ ~Serving(b)
    BY <1>1, <1>7 DEF Leaving, Serving, Handling
  <2>3. ~Leaving(b)' /\ ~Serving(b)' /\ ~Coming(b)'
    BY <1>2 DEF Leaving, Serving, Coming
  <2>4. \A c \in Clients : socket'[c].pc # "online"
    BY <1>2
  <2>. QED  BY <2>1, <2>2, <2>3, <2>4, <1>1 DEF PresenceOf
<1>. QED  BY <1>4, <1>5, <1>6, <1>7 DEF GatewayInv

\* Who sets a presence by hand is muddled.
LEMMA ChoosePresenceKeeps ==
    ASSUME GatewayInv, NEW c \in Clients, NEW a \in Agents,
           NEW status \in {"ONLINE", "AWAY", "OFFLINE"},
           ChoosePresence(c, a, status)
    PROVE  GatewayInv'
<1>1. /\ GatewayTypes /\ SocketsInv /\ ConnectionsInv
      /\ UNCHANGED <<conns, socket, dropped>>
      /\ presence' = [presence EXCEPT ![a] = status]
      /\ muddled' = muddled \cup {a}
  BY DEF GatewayInv, ChoosePresence, SetPresence, Muddle
<1>2. GatewayTypes'
  BY <1>1 DEF GatewayTypes, Statuses
<1>3. SocketsInv' /\ ConnectionsInv'
  BY <1>1 DEF SocketsInv, Handling, ConnectionsInv
<1>4. ASSUME NEW b \in Agents \ muddled'
      PROVE  PresenceOf(b)'
  <2>1. PresenceOf(b) /\ presence'[b] = presence[b]
    BY <1>1, <1>4 DEF GatewayInv, GatewayTypes
  <2>2. /\ Leaving(b)' <=> Leaving(b)
        /\ Coming(b)' <=> Coming(b)
        /\ Serving(b)' <=> Serving(b)
    BY <1>1 DEF Leaving, Coming, Serving
  <2>. QED  BY <2>1, <2>2, <1>1 DEF PresenceOf
<1>. QED  BY <1>2, <1>3, <1>4 DEF GatewayInv

\* The other requests do not touch the gateway.
LEMMA GatewayAside ==
    ASSUME GatewayInv, UNCHANGED gateway
    PROVE  GatewayInv'
<1>1. UNCHANGED <<presence, conns, socket, muddled, dropped>>
  BY DEF gateway
<1>2. GatewayTypes' /\ SocketsInv' /\ ConnectionsInv'
  BY <1>1 DEF GatewayInv, GatewayTypes, SocketsInv, Handling, ConnectionsInv
<1>3. ASSUME NEW b \in Agents \ muddled'
      PROVE  PresenceOf(b)'
  <2>1. PresenceOf(b)
    BY <1>1, <1>3 DEF GatewayInv
  <2>2. /\ Leaving(b)' <=> Leaving(b)
        /\ Coming(b)' <=> Coming(b)
        /\ Serving(b)' <=> Serving(b)
    BY <1>1 DEF Leaving, Coming, Serving
  <2>. QED  BY <2>1, <2>2, <1>1 DEF PresenceOf
<1>. QED  BY <1>2, <1>3 DEF GatewayInv

\* Every step of a request but the presence by hand leaves the gateway alone.
LEMMA RequestsAside ==
    ASSUME NEW c \in Clients, Request(c) \/ Write(c)
    PROVE  \/ UNCHANGED gateway
           \/ \E a \in Agents, status \in {"ONLINE", "AWAY", "OFFLINE"} :
                 ChoosePresence(c, a, status)
<1>1. CASE Write(c)
  BY <1>1 DEF Write, InsertSession, ReadChat, Answer, Assign, Close, Rate,
              Convert, GiveUp, gateway
<1>2. CASE Request(c)
  BY <1>2 DEF Request, CreateSession, CloseSession, RateSession, ConvertSession,
              AgentMessage, PickUp, Reassign, Ask
<1>. QED  BY <1>1, <1>2

\* The gateway's invariant is inductive.
THEOREM GatewayHolds == Spec => []GatewayInv
<1>1. Init => GatewayInv
  <2> SUFFICES ASSUME Init PROVE GatewayInv
    OBVIOUS
  <2>1. /\ presence = [a \in Agents |-> "none"]
        /\ conns = [a \in Agents |-> {}]
        /\ socket = [c \in Clients |-> NoSocket]
        /\ muddled = {} /\ dropped = {}
    BY DEF Init
  <2>2. NoSocket \in SocketRow
    BY DEF NoSocket, SocketRow
  <2>3. GatewayTypes
    BY <2>1, <2>2 DEF GatewayTypes, Statuses
  <2>4. SocketsInv /\ ConnectionsInv
    BY <2>1 DEF SocketsInv, ConnectionsInv, Handling, NoSocket
  <2>5. \A a \in Agents : PresenceOf(a)
    BY <2>1 DEF PresenceOf, Leaving, Serving, Coming, NoSocket
  <2>. QED  BY <2>3, <2>4, <2>5 DEF GatewayInv
<1>2. GatewayInv /\ [Next]_vars => GatewayInv'
  <2> SUFFICES ASSUME GatewayInv, [Next]_vars PROVE GatewayInv'
    OBVIOUS
  <2>1. ASSUME NEW c \in Clients, Request(c) \/ Write(c)
        PROVE  GatewayInv'
    BY <2>1, RequestsAside, GatewayAside, ChoosePresenceKeeps
  <2>2. ASSUME NEW c \in Clients, Gateway(c)
        PROVE  GatewayInv'
    BY <2>2, OpenSocketKeeps, RegisterKeeps, ComeOnlineKeeps, LeaveEarlyKeeps,
       DisconnectKeeps, GoOfflineKeeps, PresenceFailsKeeps DEF Gateway
  <2>3. CASE Restart
    BY <2>3, RestartKeeps
  <2>4. CASE UNCHANGED gateway
    BY <2>4, GatewayAside
  <2>. QED  BY <2>1, <2>2, <2>3, <2>4 DEF Next, Step, Finished, vars
<1>. QED  BY <1>1, <1>2, PTL DEF Spec

\* The gateway counts the sockets that are there, and the presence of an agent
\* follows them: gone agents are shown as offline, connected ones as online, up
\* to the races that the property names (support.gateway.ts:50-77, 136-151).
THEOREM PresenceFollows == Spec => []PresenceIsTrue
<1>1. GatewayInv => PresenceIsTrue
  <2> SUFFICES ASSUME GatewayInv PROVE PresenceIsTrue
    OBVIOUS
  <2>1. ConnectionsAreReal
    BY DEF GatewayInv, ConnectionsInv, ConnectionsAreReal
  <2>2. GoneIsOffline
    BY DEF GatewayInv, GoneIsOffline, PresenceOf, Serving, SocketsOf
  <2>3. ConnectedIsOnline
    BY DEF GatewayInv, ConnectedIsOnline, PresenceOf, Serving, SocketsOf
  <2>. QED  BY <2>1, <2>2, <2>3 DEF PresenceIsTrue
<1>. QED  BY <1>1, GatewayHolds, PTL

-------------------------------------------------------------------------------
(***************************************************************************)
(* The steps at the desk.                                                  *)
(***************************************************************************)

\* What was recorded stays recorded.
LEMMA Recorded ==
    ASSUME Record
    PROVE  /\ contested \subseteq contested' /\ reopened \subseteq reopened'
           /\ \A s \in DOMAIN chats :
                 chats[s].status = "CLOSED" /\ chats'[s].status # "CLOSED"
                 => s \in reopened'
           /\ \A s \in reopened' :
                 \/ s \in reopened
                 \/ /\ s \in DOMAIN chats
                    /\ chats[s].status = "CLOSED" /\ chats'[s].status # "CLOSED"
BY DEF Record

\* Overlaps are recorded as they begin.
LEMMA OverlapsAre ==
    ASSUME Record, \A c \in Running' : req'[c].chat \in 0..Len(chats)
    PROVE  Overlaps'
<1> SUFFICES ASSUME NEW s \in Nat, Shared(s)' PROVE s \in contested'
  BY DEF Overlaps
<1>1. s \in 0..Len(chats)
  BY DEF Shared
<1>. QED  BY <1>1 DEF Record

\* Two requests under way about one chat: the chat is contested.
LEMMA Company ==
    ASSUME DeskTypes, Overlaps, NEW c \in Running, NEW d \in Running, c # d,
           req[c].chat = req[d].chat
    PROVE  req[c].chat \in contested
<1>1. req[c].chat \in Nat
  BY DEF DeskTypes, RequestRow, Running
<1>. QED  BY <1>1 DEF Overlaps, Shared

\* A request ends: the others are as they were, none of them about an
\* uncontested chat of the request's.
LEMMA Ended ==
    ASSUME DeskInv, Record, NEW c \in Running, End(c)
    PROVE  /\ req' \in [Clients -> RequestRow]
           /\ Running' = Running \ {c}
           /\ \A d \in Running' : d \in Clients /\ d # c /\ req'[d] = req[d]
           /\ Overlaps'
           /\ \A d \in Running' : req[d].chat = req[c].chat => req[c].chat \in contested
<1>1. DeskTypes /\ Overlaps /\ c \in Clients
  BY DEF DeskInv, Running
<1>2. [NoRequest EXCEPT !.pc = "over"] \in RequestRow
  BY DEF NoRequest, RequestRow, Kinds, NewChat, Chat
<1>3. /\ req' \in [Clients -> RequestRow]
      /\ req'[c].pc = "over"
      /\ \A d \in Clients \ {c} : req'[d] = req[d]
  BY <1>1, <1>2 DEF End, DeskTypes, NoRequest
<1>4. Running' = Running \ {c}
  BY <1>3 DEF Running
<1>5. \A d \in Running' : d \in Clients /\ d # c /\ req'[d] = req[d]
  BY <1>3, <1>4 DEF Running
<1>6. \A d \in Running' : req'[d].chat \in 0..Len(chats)
  BY <1>4, <1>5 DEF DeskInv, RequestsInv, Purpose
<1>7. Overlaps'
  BY <1>6, OverlapsAre
<1>. QED  BY <1>1, <1>3, <1>4, <1>5, <1>7, Company

\* A request that ends without a write leaves everything as it was.
LEMMA EndKeeps ==
    ASSUME DeskInv, Record, NEW c \in Running, End(c),
           UNCHANGED <<chats, taken, moved>>, OneTicket'
    PROVE  DeskInv'
<1>1. /\ DeskTypes /\ RequestsInv /\ NotTakenYet /\ OneAtATime
      /\ ActiveIsSomebodys /\ TakenIsKept /\ FirstsAreKept /\ ClosedStaysClosed
  BY DEF DeskInv
<1>2. /\ req' \in [Clients -> RequestRow]
      /\ Running' = Running \ {c}
      /\ \A d \in Running' : d \in Clients /\ d # c /\ req'[d] = req[d]
      /\ Overlaps'
  BY Ended
<1>3. /\ contested \subseteq contested' /\ reopened' = reopened
  BY DEF Record
<1>4. DeskTypes' /\ NotTakenYet' /\ ActiveIsSomebodys'
  BY <1>1, <1>2 DEF DeskTypes, NotTakenYet, ActiveIsSomebodys
<1>5. RequestsInv'
  BY <1>1, <1>2, <1>3 DEF RequestsInv, Purpose, Reading
<1>6. OneAtATime'
  BY <1>1, <1>2, <1>3 DEF OneAtATime, Open
<1>7. TakenIsKept' /\ FirstsAreKept' /\ ClosedStaysClosed'
  BY <1>1, <1>3 DEF TakenIsKept, FirstsAreKept, ClosedStaysClosed
<1>. QED  BY <1>2, <1>4, <1>5, <1>6, <1>7 DEF DeskInv

\* A row is written over.
LEMMA Saved ==
    ASSUME chats \in Seq(Chat), NEW s \in DOMAIN chats, NEW row \in Chat,
           Save(s, row)
    PROVE  /\ chats' \in Seq(Chat)
           /\ Len(chats') = Len(chats) /\ DOMAIN chats' = DOMAIN chats
           /\ chats'[s] = row
           /\ \A t \in DOMAIN chats \ {s} : chats'[t] = chats[t]
BY DEF Save

\* A request writes its chat s: the row it writes keeps an agent, is nobody's
\* only if it waits, and is in the hands of whom it was given to; a chat that
\* had ended stays so, unless the property excepts it.
LEMMA SaveKeeps ==
    ASSUME DeskInv, Record, NEW c \in Running, End(c), UNCHANGED tickets,
           NEW s \in DOMAIN chats, s = req[c].chat,
           NEW row \in Chat, Save(s, row),
           chats[s].agent # Nobody => row.agent # Nobody,
           row.status = "ACTIVE" => row.agent # Nobody,
           row.status = "WAITING" => row.agent = Nobody,
           taken' \in [1..MaxChats -> Agents \cup {Nobody}],
           \A t \in 1..MaxChats \ {s} : taken'[t] = taken[t],
           s \notin contested /\ taken'[s] # Nobody => row.agent = taken'[s],
           s \notin contested => row.marks <= 1 /\ row.ratings <= 1,
           moved \subseteq moved',
           chats[s].status = "CLOSED" /\ row.status # "CLOSED"
               => s \in moved' \cup contested
    PROVE  DeskInv'
<1>1. /\ DeskTypes /\ RequestsInv /\ NotTakenYet /\ OneAtATime /\ OneTicket
      /\ ActiveIsSomebodys /\ TakenIsKept /\ FirstsAreKept /\ ClosedStaysClosed
  BY DEF DeskInv
<1>2. /\ req' \in [Clients -> RequestRow]
      /\ Running' = Running \ {c}
      /\ \A d \in Running' : d \in Clients /\ d # c /\ req'[d] = req[d]
      /\ Overlaps'
      /\ \A d \in Running' : req[d].chat = s => s \in contested
  BY Ended
<1>3. /\ contested \subseteq contested' /\ reopened \subseteq reopened'
      /\ \A t \in DOMAIN chats :
            chats[t].status = "CLOSED" /\ chats'[t].status # "CLOSED"
            => t \in reopened'
      /\ \A t \in reopened' :
            \/ t \in reopened
            \/ /\ t \in DOMAIN chats
               /\ chats[t].status = "CLOSED" /\ chats'[t].status # "CLOSED"
  BY Recorded
<1>4. /\ chats' \in Seq(Chat)
      /\ Len(chats') = Len(chats) /\ DOMAIN chats' = DOMAIN chats
      /\ chats'[s] = row
      /\ \A t \in DOMAIN chats \ {s} : chats'[t] = chats[t]
  BY <1>1, Saved DEF DeskTypes
<1>5. DeskTypes'
  BY <1>1, <1>2, <1>4 DEF DeskTypes
<1>6. NotTakenYet'
  <2>1. s \in 1..Len(chats)
    BY <1>1 DEF DeskTypes
  <2>. QED  BY <1>1, <1>4, <2>1 DEF NotTakenYet, DeskTypes
<1>7. RequestsInv'
  <2> SUFFICES ASSUME NEW d \in Running' PROVE Purpose(d)' /\ Reading(d)'
    BY DEF RequestsInv
  <2>1. d \in Running /\ req'[d] = req[d] /\ Purpose(d) /\ Reading(d)
    BY <1>1, <1>2 DEF RequestsInv
  <2>2. Purpose(d)'
    BY <2>1, <1>4 DEF Purpose
  <2>3. Reading(d)'
    <3>1. CASE req[d].chat = s
      BY <3>1, <2>1, <1>2, <1>3, <1>4 DEF Reading
    <3>2. CASE req[d].chat # s
      <4>1. req[d].chat # 0 => req[d].chat \in DOMAIN chats
        BY <2>1, <1>1 DEF Purpose, DeskTypes
      <4>. QED  BY <3>2, <4>1, <2>1, <1>3, <1>4 DEF Reading
    <3>. QED  BY <3>1, <3>2
  <2>. QED  BY <2>2, <2>3
<1>8. OneAtATime'
  <2>1. \A t \in DOMAIN chats' \ reopened' :
           Open(t)' => t \in DOMAIN chats \ reopened /\ Open(t)
    BY <1>3, <1>4 DEF Open
  <2>. QED  BY <2>1, <1>1, <1>2, <1>3 DEF OneAtATime
<1>9. ActiveIsSomebodys'
  BY <1>1, <1>4 DEF ActiveIsSomebodys
<1>10. TakenIsKept'
  <2>1. DOMAIN chats \subseteq 1..MaxChats
    BY <1>1, SupportAssumption DEF DeskTypes
  <2>. QED  BY <2>1, <1>1, <1>3, <1>4 DEF TakenIsKept
<1>11. FirstsAreKept'
  BY <1>1, <1>3, <1>4 DEF FirstsAreKept
<1>12. ClosedStaysClosed'
  BY <1>1, <1>3, <1>4 DEF ClosedStaysClosed
<1>13. OneTicket'
  BY <1>1 DEF OneTicket
<1>. QED  BY <1>2, <1>5, <1>6, <1>7, <1>8, <1>9, <1>10, <1>11, <1>12, <1>13
          DEF DeskInv

\* A request begins with what it sees.
LEMMA AskKeeps ==
    ASSUME DeskInv, Record, NEW c \in Clients,
           NEW kind \in Kinds \ {"none"}, NEW who \in Agents \cup {Nobody},
           NEW s \in 0..Len(chats), NEW to \in Agents \cup {Nobody},
           NEW pc \in {"read", "write"},
           Ask(c, kind, who, s, to, pc),
           s = 0 <=> kind = "create",
           kind \in {"assign", "transfer"} => to \in Agents,
           kind = "message" => who \in Agents /\ pc = "read",
           kind = "assign" => Open(s),
           kind = "rate" => chats[s].ratings = 0,
           kind = "create" => \A t \in DOMAIN chats : ~Open(t)
    PROVE  DeskInv'
<1>1. /\ DeskTypes /\ RequestsInv /\ NotTakenYet /\ OneAtATime /\ OneTicket
      /\ Overlaps
      /\ ActiveIsSomebodys /\ TakenIsKept /\ FirstsAreKept /\ ClosedStaysClosed
  BY DEF DeskInv
<1> DEFINE row == [kind |-> kind, pc |-> pc, who |-> who, chat |-> s, to |-> to,
                   seen |-> IF s = 0 THEN NewChat ELSE chats[s]]
<1>2. /\ req' = [req EXCEPT ![c] = row]
      /\ req[c].pc = "idle"
      /\ UNCHANGED <<chats, tickets, taken, moved>>
  BY DEF Ask, Fresh
<1>3. /\ row \in RequestRow
      /\ row.kind = kind /\ row.pc = pc /\ row.who = who /\ row.chat = s
      /\ row.to = to
      /\ s # 0 => row.seen = chats[s]
  <2>1. s # 0 => chats[s] \in Chat
    BY <1>1 DEF DeskTypes
  <2>2. NewChat \in Chat
    BY DEF NewChat, Chat
  <2>. QED  BY <2>1, <2>2 DEF RequestRow
<1>r. PICK y \in RequestRow : y = row
  BY <1>3
<1> HIDE DEF row
<1>4. /\ req' \in [Clients -> RequestRow]
      /\ req'[c] = y
      /\ \A d \in Clients \ {c} : req'[d] = req[d]
  BY <1>1, <1>2, <1>r DEF DeskTypes
<1>5. Running' = Running \cup {c} /\ c \notin Running
  BY <1>2, <1>3, <1>r, <1>4 DEF Running
<1>6. /\ contested \subseteq contested' /\ reopened' = reopened
  BY <1>2 DEF Record
<1>7. DeskTypes' /\ NotTakenYet' /\ ActiveIsSomebodys' /\ OneTicket'
  BY <1>1, <1>2, <1>4 DEF DeskTypes, NotTakenYet, ActiveIsSomebodys, OneTicket
<1>8. RequestsInv'
  <2>1. Purpose(c)' /\ Reading(c)'
    BY <1>2, <1>3, <1>4, <1>r DEF Purpose, Reading, Open
  <2>2. ASSUME NEW d \in Running PROVE Purpose(d)' /\ Reading(d)'
    <3>1. req'[d] = req[d]
      BY <1>4, <1>5 DEF Running
    <3>. QED  BY <3>1, <1>1, <1>2, <1>6 DEF RequestsInv, Purpose, Reading
  <2>. QED  BY <2>1, <2>2, <1>5 DEF RequestsInv
<1>9. Overlaps'
  <2>1. \A d \in Running' : req'[d].chat \in 0..Len(chats)
    BY <1>8, <1>2 DEF RequestsInv, Purpose
  <2>. QED  BY <2>1, OverlapsAre
<1>10. OneAtATime'
  <2> SUFFICES ASSUME 0 \notin contested'
               PROVE  /\ \A t, u \in DOMAIN chats \ reopened :
                            Open(t) /\ Open(u) => t = u
                      /\ \A d \in Running' : req'[d].kind = "create" =>
                            \A t \in DOMAIN chats \ reopened : ~Open(t)
    BY <1>2, <1>6 DEF OneAtATime, Open
  <2>1. ASSUME NEW d \in Running, req'[d].kind = "create"
        PROVE  \A t \in DOMAIN chats \ reopened : ~Open(t)
    <3>1. req'[d] = req[d]
      BY <1>4, <1>5 DEF Running
    <3>. QED  BY <3>1, <2>1, <1>1, <1>6 DEF OneAtATime
  <2>2. ASSUME req'[c].kind = "create"
        PROVE  \A t \in DOMAIN chats \ reopened : ~Open(t)
    BY <2>2, <1>3, <1>4, <1>r
  <2>. QED  BY <2>1, <2>2, <1>1, <1>5, <1>6 DEF OneAtATime
<1>11. TakenIsKept' /\ FirstsAreKept' /\ ClosedStaysClosed'
  BY <1>1, <1>2, <1>6 DEF TakenIsKept, FirstsAreKept, ClosedStaysClosed
<1>. QED  BY <1>7, <1>8, <1>9, <1>10, <1>11 DEF DeskInv

\* A message reads its chat again, which is open.
LEMMA ReadChatKeeps ==
    ASSUME DeskInv, Record, NEW c \in Clients, ReadChat(c)
    PROVE  DeskInv'
<1>1. /\ DeskTypes /\ RequestsInv /\ NotTakenYet /\ OneAtATime /\ OneTicket
      /\ Overlaps
      /\ ActiveIsSomebodys /\ TakenIsKept /\ FirstsAreKept /\ ClosedStaysClosed
  BY DEF DeskInv
<1>2. /\ c \in Running /\ req[c] \in RequestRow
      /\ req[c].kind = "message" /\ Open(req[c].chat)
      /\ Purpose(c)
      /\ req' = [req EXCEPT ![c].pc = "write", ![c].seen = chats[req[c].chat]]
      /\ UNCHANGED <<chats, tickets, taken, moved>>
  BY <1>1 DEF ReadChat, At, Running, RequestsInv, DeskTypes
<1>3. req[c].chat \in DOMAIN chats
  BY <1>1, <1>2 DEF Purpose, DeskTypes
<1>4. /\ req' \in [Clients -> RequestRow]
      /\ req'[c].kind = "message" /\ req'[c].pc = "write"
      /\ req'[c].chat = req[c].chat /\ req'[c].who = req[c].who
      /\ req'[c].to = req[c].to
      /\ req'[c].seen = chats[req[c].chat]
      /\ \A d \in Clients \ {c} : req'[d] = req[d]
  <2>1. chats[req[c].chat] \in Chat
    BY <1>1, <1>3 DEF DeskTypes
  <2>. QED  BY <2>1, <1>1, <1>2 DEF DeskTypes, RequestRow
<1>5. Running' = Running
  BY <1>2, <1>4 DEF Running
<1>6. contested \subseteq contested' /\ reopened' = reopened
  BY <1>2 DEF Record
<1>7. DeskTypes' /\ NotTakenYet' /\ ActiveIsSomebodys' /\ OneTicket'
  BY <1>1, <1>2, <1>4 DEF DeskTypes, NotTakenYet, ActiveIsSomebodys, OneTicket
<1>8. RequestsInv'
  <2>1. Purpose(c)' /\ Reading(c)'
    BY <1>2, <1>4 DEF Purpose, Reading, Open
  <2>2. ASSUME NEW d \in Running \ {c} PROVE Purpose(d)' /\ Reading(d)'
    <3>1. req'[d] = req[d]
      BY <1>4 DEF Running
    <3>. QED  BY <3>1, <1>1, <1>2, <1>6 DEF RequestsInv, Purpose, Reading
  <2>. QED  BY <2>1, <2>2, <1>5 DEF RequestsInv
<1>9. Overlaps'
  <2>1. \A d \in Running' : req'[d].chat \in 0..Len(chats)
    BY <1>8, <1>2 DEF RequestsInv, Purpose
  <2>. QED  BY <2>1, OverlapsAre
<1>10. OneAtATime'
  <2>1. \A d \in Running : req'[d].kind = req[d].kind
    BY <1>2, <1>4 DEF Running
  <2>. QED  BY <2>1, <1>1, <1>2, <1>5, <1>6 DEF OneAtATime, Open
<1>11. TakenIsKept' /\ FirstsAreKept' /\ ClosedStaysClosed'
  BY <1>1, <1>2, <1>6 DEF TakenIsKept, FirstsAreKept, ClosedStaysClosed
<1>. QED  BY <1>7, <1>8, <1>9, <1>10, <1>11 DEF DeskInv

\* A chat is created: while it was asked for, none was open, or two were asked
\* for at once.
LEMMA InsertKeeps ==
    ASSUME DeskInv, Record, NEW c \in Clients, InsertSession(c)
    PROVE  DeskInv'
<1>1. /\ DeskTypes /\ RequestsInv /\ NotTakenYet /\ OneAtATime /\ OneTicket
      /\ Overlaps
      /\ ActiveIsSomebodys /\ TakenIsKept /\ FirstsAreKept /\ ClosedStaysClosed
  BY DEF DeskInv
<1>2. /\ c \in Running /\ Purpose(c)
      /\ req[c].kind = "create" /\ req[c].chat = 0
      /\ Len(chats) < MaxChats
      /\ chats' = Append(chats, NewChat)
      /\ End(c)
      /\ UNCHANGED <<tickets, taken, moved>>
  BY <1>1 DEF InsertSession, At, Running, RequestsInv, Purpose
<1>3. /\ req' \in [Clients -> RequestRow]
      /\ Running' = Running \ {c}
      /\ \A d \in Running' : d \in Clients /\ d # c /\ req'[d] = req[d]
      /\ Overlaps'
      /\ \A d \in Running' : req[d].chat = 0 => 0 \in contested
  BY <1>2, Ended
<1> DEFINE n == Len(chats) + 1
<1>4. /\ chats' \in Seq(Chat) /\ Len(chats') = n
      /\ n \in Nat /\ n <= MaxChats /\ n # 0
      /\ DOMAIN chats = 1..Len(chats)
      /\ DOMAIN chats' = DOMAIN chats \cup {n} /\ n \notin DOMAIN chats
      /\ chats'[n] = NewChat
      /\ \A t \in DOMAIN chats : chats'[t] = chats[t]
  <2>1. NewChat \in Chat
    BY DEF NewChat, Chat
  <2>2. chats \in Seq(Chat) /\ Len(chats) \in Nat
    BY <1>1 DEF DeskTypes
  <2>. QED  BY <2>1, <2>2, <1>2, SupportAssumption
<1>5. /\ NewChat.status = "WAITING" /\ NewChat.agent = Nobody
      /\ NewChat.marks = 0 /\ NewChat.ratings = 0
  BY DEF NewChat
<1> HIDE DEF n
<1>6. contested \subseteq contested' /\ reopened' = reopened
  BY <1>4 DEF Record
<1>7. DeskTypes' /\ ActiveIsSomebodys' /\ OneTicket'
  BY <1>1, <1>2, <1>3, <1>4, <1>5
     DEF DeskTypes, ActiveIsSomebodys, OneTicket
<1>8. NotTakenYet'
  BY <1>1, <1>2, <1>4 DEF NotTakenYet, DeskTypes, n
<1>9. RequestsInv'
  <2> SUFFICES ASSUME NEW d \in Running' PROVE Purpose(d)' /\ Reading(d)'
    BY DEF RequestsInv
  <2>1. /\ d \in Running /\ req'[d] = req[d] /\ Purpose(d) /\ Reading(d)
        /\ req[d].chat # 0 => req[d].chat \in DOMAIN chats
    BY <1>1, <1>3, <1>4 DEF RequestsInv, Purpose
  <2>2. Purpose(d)'
    BY <2>1, <1>4 DEF Purpose, n
  <2>3. Reading(d)'
    BY <2>1, <1>4, <1>6 DEF Reading
  <2>. QED  BY <2>2, <2>3
<1>10. OneAtATime'
  <2> SUFFICES ASSUME 0 \notin contested'
               PROVE  /\ \A t, u \in DOMAIN chats' \ reopened :
                            Open(t)' /\ Open(u)' => t = u
                      /\ \A d \in Running' : req'[d].kind # "create"
    BY <1>6 DEF OneAtATime
  <2>1. \A t \in DOMAIN chats \ reopened : ~Open(t)
    BY <1>1, <1>2, <1>6 DEF OneAtATime
  <2>2. \A t \in DOMAIN chats' \ reopened : Open(t)' => t = n
    BY <2>1, <1>4 DEF Open
  <2>3. \A d \in Running' : req'[d].kind # "create"
    BY <1>1, <1>3, <1>6 DEF RequestsInv, Purpose
  <2>. QED  BY <2>2, <2>3
<1>11. TakenIsKept'
  <2>1. taken'[n] = Nobody
    BY <1>1, <1>2, <1>4 DEF NotTakenYet, n
  <2>. QED  BY <2>1, <1>1, <1>2, <1>4, <1>6 DEF TakenIsKept
<1>12. FirstsAreKept'
  BY <1>1, <1>4, <1>5, <1>6 DEF FirstsAreKept
<1>13. ClosedStaysClosed'
  BY <1>1, <1>2, <1>6 DEF ClosedStaysClosed
<1>. QED  BY <1>3, <1>7, <1>8, <1>9, <1>10, <1>11, <1>12, <1>13 DEF DeskInv

\* A request that is about to write has read its chat, which is there.
LEMMA Writing ==
    ASSUME DeskInv, NEW c \in Clients, req[c].pc = "write",
           req[c].kind \in {"message", "assign", "transfer", "close", "rate"}
    PROVE  /\ c \in Running /\ Purpose(c) /\ Reading(c)
           /\ req[c].chat \in DOMAIN chats /\ req[c].chat # 0
           /\ chats[req[c].chat] \in Chat /\ req[c].seen \in Chat
           /\ DOMAIN chats \subseteq 1..MaxChats
           /\ taken \in [1..MaxChats -> Agents \cup {Nobody}]
<1>1. c \in Running
  BY DEF Running
<1>2. /\ Purpose(c) /\ Reading(c)
      /\ chats \in Seq(Chat) /\ Len(chats) <= MaxChats
      /\ req[c] \in RequestRow
      /\ taken \in [1..MaxChats -> Agents \cup {Nobody}]
  BY <1>1 DEF DeskInv, RequestsInv, DeskTypes
<1>3. req[c].chat \in 1..Len(chats)
  BY <1>2 DEF Purpose
<1>. QED  BY <1>1, <1>2, <1>3, SupportAssumption DEF RequestRow

\* An answer gives the chat an agent if it had none, and is the first response
\* only once.
LEMMA AnswerKeeps ==
    ASSUME DeskInv, Record, NEW c \in Clients, Answer(c)
    PROVE  DeskInv'
<1> DEFINE s == req[c].chat
           row == [chats[s] EXCEPT
                      !.status = "ACTIVE",
                      !.marks = IF req[c].seen.marks = 0 THEN @ + 1 ELSE @,
                      !.agent = IF req[c].seen.agent = Nobody THEN req[c].who ELSE @]
<1>1. /\ c \in Running /\ Purpose(c) /\ Reading(c)
      /\ s \in DOMAIN chats /\ s # 0
      /\ chats[s] \in Chat /\ req[c].seen \in Chat
      /\ s \in 1..MaxChats
      /\ taken \in [1..MaxChats -> Agents \cup {Nobody}]
  BY Writing DEF Answer, At
<1>2. /\ Save(s, row) /\ End(c)
      /\ UNCHANGED <<tickets, taken, moved>>
      /\ req[c].kind = "message" /\ req[c].pc = "write"
  BY DEF Answer, At
<1>3. /\ req[c].who \in Agents /\ req[c].seen.status # "CLOSED"
      /\ req[c].seen.agent # Nobody => chats[s].agent # Nobody
      /\ s \notin contested => req[c].seen = chats[s]
  BY <1>1, <1>2 DEF Purpose, Reading
<1>4. /\ row \in Chat
      /\ row.status = "ACTIVE"
      /\ row.agent = IF req[c].seen.agent = Nobody THEN req[c].who
                                                   ELSE chats[s].agent
      /\ row.marks = IF req[c].seen.marks = 0 THEN chats[s].marks + 1
                                              ELSE chats[s].marks
      /\ row.ratings = chats[s].ratings
  <2>1. PICK m \in Nat : m = IF req[c].seen.marks = 0 THEN chats[s].marks + 1
                                                     ELSE chats[s].marks
    BY <1>1 DEF Chat
  <2>2. PICK g \in Agents \cup {Nobody} :
           g = IF req[c].seen.agent = Nobody THEN req[c].who ELSE chats[s].agent
    BY <1>1, <1>3 DEF Chat
  <2>3. row = [chats[s] EXCEPT !.status = "ACTIVE", !.marks = m, !.agent = g]
    BY <2>1, <2>2
  <2>. QED  BY <2>1, <2>2, <2>3, <1>1 DEF Chat
<1>5. Nobody \notin Agents
  BY SupportAssumption
<1>6. /\ s \notin contested /\ taken[s] # Nobody => chats[s].agent = taken[s]
      /\ s \notin contested => chats[s].marks <= 1 /\ chats[s].ratings <= 1
  BY <1>1 DEF DeskInv, TakenIsKept, FirstsAreKept
<1>7. row.agent # Nobody
  BY <1>3, <1>4, <1>5
<1>8. s \notin contested /\ taken'[s] # Nobody => row.agent = taken'[s]
  BY <1>2, <1>3, <1>4, <1>6
<1>9. s \notin contested => row.marks <= 1 /\ row.ratings <= 1
  BY <1>3, <1>4, <1>6
<1>10. chats[s].status = "CLOSED" => s \in contested
  BY <1>3
<1>r. PICK y \in Chat : y = row
  BY <1>4
<1>s. PICK t \in DOMAIN chats : t = s
  BY <1>1
<1> HIDE DEF row, s
<1>. QED  BY <1>1, <1>2, <1>4, <1>7, <1>8, <1>9, <1>10, <1>r, <1>s, SaveKeeps
          DEF s

\* A pick-up or a transfer puts the chat in the hands it is meant for.
LEMMA AssignKeeps ==
    ASSUME DeskInv, Record, NEW c \in Clients, Assign(c)
    PROVE  DeskInv'
<1> DEFINE s == req[c].chat
           row == [chats[s] EXCEPT !.status = "ACTIVE", !.agent = req[c].to]
<1>1. /\ c \in Running /\ Purpose(c) /\ Reading(c)
      /\ s \in DOMAIN chats /\ s # 0
      /\ chats[s] \in Chat /\ req[c].seen \in Chat
      /\ s \in 1..MaxChats
      /\ taken \in [1..MaxChats -> Agents \cup {Nobody}]
  BY Writing DEF Assign, At
<1>2. /\ Save(s, row) /\ End(c)
      /\ UNCHANGED tickets
      /\ req[c].kind \in {"assign", "transfer"}
      /\ taken' = [taken EXCEPT ![s] = req[c].to]
      /\ moved' = IF req[c].kind = "transfer" /\ ~Open(s) THEN moved \cup {s}
                                                          ELSE moved
  BY DEF Assign, At
<1>3. /\ req[c].to \in Agents
      /\ req[c].kind = "assign" => req[c].seen.status # "CLOSED"
      /\ s \notin contested => req[c].seen = chats[s]
  BY <1>1, <1>2 DEF Purpose, Reading
<1>4. /\ row \in Chat
      /\ row.status = "ACTIVE" /\ row.agent = req[c].to
      /\ row.marks = chats[s].marks /\ row.ratings = chats[s].ratings
  BY <1>1, <1>3 DEF Chat
<1>5. row.agent # Nobody
  BY <1>3, <1>4, SupportAssumption
<1>6. s \notin contested => row.marks <= 1 /\ row.ratings <= 1
  BY <1>1, <1>4 DEF DeskInv, FirstsAreKept
<1>7. /\ taken' \in [1..MaxChats -> Agents \cup {Nobody}]
      /\ \A t \in 1..MaxChats \ {s} : taken'[t] = taken[t]
      /\ taken'[s] = row.agent
  BY <1>1, <1>2, <1>3, <1>4
<1>8. moved \subseteq moved'
  BY <1>2
<1>9. chats[s].status = "CLOSED" => s \in moved' \cup contested
  BY <1>2, <1>3 DEF Open
<1>r. PICK y \in Chat : y = row
  BY <1>4
<1>s. PICK t \in DOMAIN chats : t = s
  BY <1>1
<1> HIDE DEF row, s
<1>. QED  BY <1>1, <1>2, <1>4, <1>5, <1>6, <1>7, <1>8, <1>9, <1>r, <1>s, SaveKeeps
          DEF s

\* An end changes the status alone.
LEMMA CloseKeeps ==
    ASSUME DeskInv, Record, NEW c \in Clients, Close(c)
    PROVE  DeskInv'
<1> DEFINE s == req[c].chat
           row == [chats[s] EXCEPT !.status = "CLOSED"]
<1>1. /\ c \in Running
      /\ s \in DOMAIN chats /\ s # 0
      /\ chats[s] \in Chat /\ s \in 1..MaxChats
      /\ taken \in [1..MaxChats -> Agents \cup {Nobody}]
  BY Writing DEF Close, At
<1>2. /\ Save(s, row) /\ End(c)
      /\ UNCHANGED <<tickets, taken, moved>>
  BY DEF Close
<1>3. /\ row \in Chat
      /\ row.status = "CLOSED" /\ row.agent = chats[s].agent
      /\ row.marks = chats[s].marks /\ row.ratings = chats[s].ratings
  BY <1>1 DEF Chat
<1>4. /\ s \notin contested /\ taken'[s] # Nobody => row.agent = taken'[s]
      /\ s \notin contested => row.marks <= 1 /\ row.ratings <= 1
  BY <1>1, <1>2, <1>3 DEF DeskInv, TakenIsKept, FirstsAreKept
<1>r. PICK y \in Chat : y = row
  BY <1>3
<1>s. PICK t \in DOMAIN chats : t = s
  BY <1>1
<1> HIDE DEF row, s
<1>. QED  BY <1>1, <1>2, <1>3, <1>4, <1>r, <1>s, SaveKeeps DEF s

\* A rating counts the first time.
LEMMA RateKeeps ==
    ASSUME DeskInv, Record, NEW c \in Clients, Rate(c)
    PROVE  DeskInv'
<1> DEFINE s == req[c].chat
           row == [chats[s] EXCEPT !.ratings = @ + 1]
<1>1. /\ c \in Running /\ Purpose(c) /\ Reading(c)
      /\ s \in DOMAIN chats /\ s # 0
      /\ chats[s] \in Chat /\ s \in 1..MaxChats
      /\ taken \in [1..MaxChats -> Agents \cup {Nobody}]
  BY Writing DEF Rate, At
<1>2. /\ Save(s, row) /\ End(c)
      /\ req[c].kind = "rate"
      /\ UNCHANGED <<tickets, taken, moved>>
  BY DEF Rate, At
<1>3. s \notin contested => chats[s].ratings = 0
  BY <1>1, <1>2 DEF Purpose, Reading
<1>4. /\ row \in Chat
      /\ row.status = chats[s].status /\ row.agent = chats[s].agent
      /\ row.marks = chats[s].marks /\ row.ratings = chats[s].ratings + 1
  BY <1>1 DEF Chat
<1>5. /\ s \notin contested /\ taken'[s] # Nobody => row.agent = taken'[s]
      /\ s \notin contested => row.marks <= 1 /\ row.ratings <= 1
  BY <1>1, <1>2, <1>3, <1>4 DEF DeskInv, TakenIsKept, FirstsAreKept
<1>6. /\ chats[s].status = "ACTIVE" => chats[s].agent # Nobody
      /\ chats[s].status = "WAITING" => chats[s].agent = Nobody
  BY <1>1 DEF DeskInv, ActiveIsSomebodys
<1>r. PICK y \in Chat : y = row
  BY <1>4
<1>s. PICK t \in DOMAIN chats : t = s
  BY <1>1
<1> HIDE DEF row, s
<1>. QED  BY <1>1, <1>2, <1>4, <1>5, <1>6, <1>r, <1>s, SaveKeeps DEF s

\* A conversion inserts a ticket if the chat has none.
LEMMA ConvertKeeps ==
    ASSUME DeskInv, Record, NEW c \in Clients, Convert(c)
    PROVE  DeskInv'
<1>1. /\ c \in Running /\ End(c) /\ UNCHANGED <<chats, taken, moved>>
      /\ \A t \in tickets : t.chat # req[c].chat
      /\ tickets' = tickets \cup {[chat |-> req[c].chat, by |-> c]}
  BY DEF Convert, At, Running
<1>2. OneTicket'
  <2>1. OneTicket
    BY DEF DeskInv
  <2>2. ASSUME NEW t \in tickets', NEW u \in tickets', t.chat = u.chat
        PROVE  t = u
    BY <2>1, <2>2, <1>1 DEF OneTicket
  <2>. QED  BY <2>2 DEF OneTicket
<1>. QED  BY <1>1, <1>2, EndKeeps

\* A request gives up.
LEMMA GiveUpKeeps ==
    ASSUME DeskInv, Record, NEW c \in Clients, GiveUp(c)
    PROVE  DeskInv'
<1>1. c \in Running /\ End(c) /\ UNCHANGED <<chats, tickets, taken, moved>>
  BY DEF GiveUp
<1>2. OneTicket'
  BY <1>1 DEF DeskInv, OneTicket
<1>. QED  BY <1>1, <1>2, EndKeeps

\* Requests may end without having been under way, or all at once: the tables
\* stay, and what is under way was.
LEMMA FewerKeeps ==
    ASSUME DeskInv, Record,
           UNCHANGED <<chats, tickets, taken, moved>>,
           req' \in [Clients -> RequestRow],
           \A d \in Running' : d \in Running /\ req'[d] = req[d]
    PROVE  DeskInv'
<1>1. /\ DeskTypes /\ RequestsInv /\ NotTakenYet /\ OneAtATime /\ OneTicket
      /\ ActiveIsSomebodys /\ TakenIsKept /\ FirstsAreKept /\ ClosedStaysClosed
  BY DEF DeskInv
<1>2. contested \subseteq contested' /\ reopened' = reopened
  BY DEF Record
<1>3. DeskTypes' /\ NotTakenYet' /\ ActiveIsSomebodys' /\ OneTicket'
  BY <1>1 DEF DeskTypes, NotTakenYet, ActiveIsSomebodys, OneTicket
<1>4. RequestsInv'
  BY <1>1, <1>2 DEF RequestsInv, Purpose, Reading
<1>5. Overlaps'
  <2>1. \A d \in Running' : req'[d].chat \in 0..Len(chats)
    BY <1>4 DEF RequestsInv, Purpose
  <2>. QED  BY <2>1, OverlapsAre
<1>6. OneAtATime'
  BY <1>1, <1>2 DEF OneAtATime, Open
<1>7. TakenIsKept' /\ FirstsAreKept' /\ ClosedStaysClosed'
  BY <1>1, <1>2 DEF TakenIsKept, FirstsAreKept, ClosedStaysClosed
<1>. QED  BY <1>3, <1>4, <1>5, <1>6, <1>7 DEF DeskInv

\* What a client asks for begins a request.
LEMMA RequestKeeps ==
    ASSUME DeskInv, Record, NEW c \in Clients, Request(c)
    PROVE  DeskInv'
<1>1. /\ DOMAIN chats = 1..Len(chats) /\ Len(chats) \in Nat
      /\ req \in [Clients -> RequestRow]
  BY DEF DeskInv, DeskTypes
<1>2. CASE CreateSession(c)
  BY <1>1, <1>2, AskKeeps DEF CreateSession, Kinds
<1>3. ASSUME NEW s \in DOMAIN chats, CloseSession(c, s)
      PROVE  DeskInv'
  BY <1>1, <1>3, AskKeeps DEF CloseSession, Kinds
<1>4. ASSUME NEW s \in DOMAIN chats, RateSession(c, s)
      PROVE  DeskInv'
  <2>1. s \in 0..Len(chats) /\ s # 0
    BY <1>1
  <2>2. chats[s].ratings = 0 /\ Ask(c, "rate", Nobody, s, Nobody, "write")
    BY <1>4 DEF RateSession
  <2>3. PICK kind \in Kinds \ {"none"} : kind = "rate"
    BY DEF Kinds
  <2>. QED  BY <2>1, <2>2, <2>3, AskKeeps
<1>5. ASSUME NEW s \in DOMAIN chats, ConvertSession(c, s)
      PROVE  DeskInv'
  BY <1>1, <1>5, AskKeeps DEF ConvertSession, Kinds
<1>6. ASSUME NEW s \in DOMAIN chats, NEW a \in Agents, AgentMessage(c, a, s)
      PROVE  DeskInv'
  BY <1>1, <1>6, AskKeeps DEF AgentMessage, Kinds
<1>7. ASSUME NEW s \in DOMAIN chats, NEW a \in Agents, PickUp(c, a, s)
      PROVE  DeskInv'
  BY <1>1, <1>7, AskKeeps DEF PickUp, Kinds
<1>8. ASSUME NEW s \in DOMAIN chats, NEW a \in Agents, NEW to \in Agents,
             Reassign(c, a, s, to)
      PROVE  DeskInv'
  BY <1>1, <1>8, AskKeeps DEF Reassign, Kinds
<1>9. ASSUME NEW a \in Agents, NEW status \in {"ONLINE", "AWAY", "OFFLINE"},
             ChoosePresence(c, a, status)
      PROVE  DeskInv'
  <2>1. /\ UNCHANGED <<chats, tickets, taken, moved>>
        /\ req' = [req EXCEPT ![c].pc = "over"]
    BY <1>9 DEF ChoosePresence
  <2>2. req' \in [Clients -> RequestRow]
    BY <2>1, <1>1 DEF RequestRow
  <2>3. \A d \in Running' : d \in Running /\ req'[d] = req[d]
    BY <2>1, <1>1 DEF Running, RequestRow
  <2>. QED  BY <2>1, <2>2, <2>3, FewerKeeps
<1>. QED  BY <1>2, <1>3, <1>4, <1>5, <1>6, <1>7, <1>8, <1>9 DEF Request

\* A step that leaves the desk alone.
LEMMA DeskAside ==
    ASSUME DeskInv, Record, UNCHANGED desk
    PROVE  DeskInv'
<1>1. UNCHANGED <<chats, tickets, req, taken, moved>>
  BY DEF desk
<1>2. req' \in [Clients -> RequestRow]
  BY <1>1 DEF DeskInv, DeskTypes
<1>3. \A d \in Running' : d \in Running /\ req'[d] = req[d]
  BY <1>1 DEF Running
<1>. QED  BY <1>1, <1>2, <1>3, FewerKeeps

\* A restart ends what is under way.
LEMMA RestartEnds ==
    ASSUME DeskInv, Record, Restart
    PROVE  DeskInv'
<1>1. /\ UNCHANGED <<chats, tickets, taken, moved>>
      /\ req \in [Clients -> RequestRow]
      /\ req' = [c \in Clients |-> IF c \in Running
                                     THEN [NoRequest EXCEPT !.pc = "over"]
                                     ELSE req[c]]
  BY DEF Restart, DeskInv, DeskTypes
<1>2. /\ [NoRequest EXCEPT !.pc = "over"] \in RequestRow
      /\ [NoRequest EXCEPT !.pc = "over"].pc = "over"
  BY DEF NoRequest, RequestRow, Kinds, NewChat, Chat
<1>3. req' \in [Clients -> RequestRow]
  BY <1>1, <1>2
<1>4. Running' = {}
  BY <1>1, <1>2 DEF Running
<1>. QED  BY <1>1, <1>3, <1>4, FewerKeeps

\* The desk's invariant is inductive.
THEOREM DeskHolds == Spec => []DeskInv
<1>1. Init => DeskInv
  <2> SUFFICES ASSUME Init PROVE DeskInv
    OBVIOUS
  <2>1. /\ req = [c \in Clients |-> NoRequest]
        /\ tickets = {} /\ contested = {} /\ reopened = {} /\ moved = {}
    BY DEF Init
  <2>2. Running = {}
    BY <2>1 DEF Running, NoRequest
  <2>3. NewChat \in Chat /\ NoRequest \in RequestRow
    BY DEF NewChat, Chat, NoRequest, RequestRow, Kinds
  <2>4. /\ RequestsInv /\ Overlaps /\ OneTicket /\ ClosedStaysClosed
    BY <2>1, <2>2 DEF RequestsInv, Overlaps, Shared, OneTicket, ClosedStaysClosed
  <2>5. CASE chats = << >> /\ taken = [c \in 1..MaxChats |-> Nobody]
    <3>1. DeskTypes /\ NotTakenYet
      BY <2>1, <2>3, <2>5, SupportAssumption DEF DeskTypes, NotTakenYet
    <3>2. OneAtATime /\ ActiveIsSomebodys /\ TakenIsKept /\ FirstsAreKept
      BY <2>2, <2>5 DEF OneAtATime, ActiveIsSomebodys, TakenIsKept, FirstsAreKept
    <3>. QED  BY <2>4, <3>1, <3>2 DEF DeskInv
  <2>6. ASSUME NEW row \in Chat, chats = <<row>>,
               row.marks = 0 /\ row.ratings = 0,
               row.status = "WAITING" <=> row.agent = Nobody,
               taken = [c \in 1..MaxChats |-> IF c = 1 THEN row.agent ELSE Nobody]
        PROVE  DeskInv
    <3>1. DOMAIN chats = {1} /\ chats[1] = row /\ Len(chats) = 1 /\ chats \in Seq(Chat)
      BY <2>6
    <3>2. row.agent \in Agents \cup {Nobody}
      BY DEF Chat
    <3>3. DeskTypes /\ NotTakenYet
      BY <2>1, <2>3, <2>6, <3>1, <3>2, SupportAssumption DEF DeskTypes, NotTakenYet
    <3>4. OneAtATime /\ ActiveIsSomebodys /\ FirstsAreKept
      BY <2>2, <2>6, <3>1 DEF OneAtATime, ActiveIsSomebodys, FirstsAreKept
    <3>5. TakenIsKept
      BY <2>6, <3>1, SupportAssumption DEF TakenIsKept
    <3>. QED  BY <2>4, <3>3, <3>4, <3>5 DEF DeskInv
  <2>7. ASSUME NEW a \in Agents, NEW status \in {"ACTIVE", "CLOSED"},
               chats = <<[NewChat EXCEPT !.status = status, !.agent = a]>>,
               taken = [c \in 1..MaxChats |-> IF c = 1 THEN a ELSE Nobody]
        PROVE  DeskInv
    <3> DEFINE row == [NewChat EXCEPT !.status = status, !.agent = a]
    <3>1. /\ row \in Chat /\ row.marks = 0 /\ row.ratings = 0
          /\ row.status = status /\ row.agent = a
      BY DEF NewChat, Chat
    <3>2. a # Nobody
      BY SupportAssumption
    <3> HIDE DEF row
    <3>. QED  BY <2>6, <2>7, <3>1, <3>2 DEF row
  <2>8. CASE chats = <<NewChat>> /\ taken = [c \in 1..MaxChats |-> Nobody]
    <3>1. /\ NewChat.marks = 0 /\ NewChat.ratings = 0
          /\ NewChat.status = "WAITING" /\ NewChat.agent = Nobody
      BY DEF NewChat
    <3>. QED  BY <2>3, <2>6, <2>8, <3>1
  <2>. QED  BY <2>5, <2>7, <2>8 DEF Init
<1>2. DeskInv /\ [Next]_vars => DeskInv'
  <2> SUFFICES ASSUME DeskInv, [Next]_vars PROVE DeskInv'
    OBVIOUS
  <2>1. CASE Next
    <3>1. Record
      BY <2>1 DEF Next
    <3>2. ASSUME NEW c \in Clients, Write(c)
          PROVE  DeskInv'
      BY <3>1, <3>2, InsertKeeps, ReadChatKeeps, AnswerKeeps, AssignKeeps,
         CloseKeeps, RateKeeps, ConvertKeeps, GiveUpKeeps DEF Write
    <3>3. ASSUME NEW c \in Clients, Gateway(c)
          PROVE  UNCHANGED desk
      BY <3>3 DEF Gateway, OpenSocket, Register, ComeOnline, Disconnect,
                  GoOffline, PresenceFails, Chatless
    <3>. QED  BY <2>1, <3>1, <3>2, <3>3, RequestKeeps, RestartEnds, DeskAside
              DEF Next, Step, Finished
  <2>2. CASE UNCHANGED vars
    <3>1. UNCHANGED <<chats, tickets, req, taken, moved, reopened, contested>>
      BY <2>2 DEF vars, desk
    <3>2. DeskTypes' /\ NotTakenYet' /\ ActiveIsSomebodys' /\ OneTicket'
      BY <3>1 DEF DeskInv, DeskTypes, NotTakenYet, ActiveIsSomebodys, OneTicket
    <3>3. RequestsInv' /\ Overlaps'
      BY <3>1 DEF DeskInv, RequestsInv, Running, Purpose, Reading, Overlaps, Shared
    <3>4. OneAtATime' /\ TakenIsKept' /\ FirstsAreKept' /\ ClosedStaysClosed'
      BY <3>1 DEF DeskInv, OneAtATime, Running, Open, TakenIsKept, FirstsAreKept,
                  ClosedStaysClosed
    <3>. QED  BY <3>2, <3>3, <3>4 DEF DeskInv
  <2>. QED  BY <2>1, <2>2
<1>. QED  BY <1>1, <1>2, PTL DEF Spec

\* The rows are well formed; a chat is in somebody's hands exactly when it is
\* active, stays in the hands it was given to, and has one first response and
\* one rating, unless requests about it overlapped
\* (support.service.ts:265-290, 374-406).
THEOREM ChatsAreInOrder == Spec => []SupportInv
<1>1. DeskInv /\ GatewayInv => SupportInv
  <2> SUFFICES ASSUME DeskInv, GatewayInv PROVE SupportInv
    OBVIOUS
  <2>1. SupportTypeOK
    BY DEF SupportTypeOK, DeskInv, DeskTypes, OneTicket, GatewayInv,
           GatewayTypes, Statuses
  <2>. QED  BY <2>1 DEF SupportInv, DeskInv
<1>. QED  BY <1>1, DeskHolds, GatewayHolds, PTL

\* A customer has one open chat at a time, unless two requests to open one
\* overlapped or an ended chat was opened again (support.service.ts:73-92).
THEOREM OneChatIsOpen == Spec => []OneOpenChat
<1>1. DeskInv => OneOpenChat
  <2> SUFFICES ASSUME DeskInv, 0 \notin contested
               PROVE  Cardinality({s \in DOMAIN chats \ reopened : Open(s)}) <= 1
    BY DEF OneOpenChat
  <2> DEFINE S == {s \in DOMAIN chats \ reopened : Open(s)}
  <2>1. \A s, t \in S : s = t
    BY DEF DeskInv, OneAtATime
  <2>2. CASE S = {}
    BY <2>2, FS_EmptySet
  <2>3. CASE S # {}
    <3>1. PICK s : S = {s}
      BY <2>1, <2>3
    <3>. QED  BY <3>1, FS_Singleton
  <2>. QED  BY <2>2, <2>3
<1>. QED  BY <1>1, DeskHolds, PTL

\* An ended chat is open again only because it was transferred, or because a
\* request that had seen it open overlapped with its end
\* (support.service.ts:230, 284 and 302-313).
THEOREM EndedChatsStay == Spec => []ClosedStaysClosed
<1>1. DeskInv => ClosedStaysClosed
  BY DEF DeskInv
<1>. QED  BY <1>1, DeskHolds, PTL
===============================================================================

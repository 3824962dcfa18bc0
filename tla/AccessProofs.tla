------------------------------ MODULE AccessProofs ------------------------------
(***************************************************************************)
(* The rows of Access, for any number of customers, addresses and requests *)
(* that overlap: what its run checks on a small instance.                  *)
(*                                                                         *)
(* A request that is alone on its side of a customer achieves its effect   *)
(* statement by statement: the inductive invariant says which part of it   *)
(* is there, by the statements that are still due.  A request that ended   *)
(* alone has achieved all of it, and no other request has begun there      *)
(* since.                                                                  *)
(***************************************************************************)
EXTENDS Access, FiniteSetTheorems, TLAPS

-------------------------------------------------------------------------------
(***************************************************************************)
(* The inductive invariant.                                                *)
(***************************************************************************)

Attrs == Lines \cup Replies
Logins == {"activate", "activate until", "deactivate"}
Ops == {"idle", "rate"} \cup Logins \cup Profiles
SideOf(op) == IF op \in Logins THEN "login" ELSE "profile"

Command ==
    [do : {"find", "write", "delete", "leave", "join", "clash", "rowClash",
           "save", "kick", "refuse"},
     attr : Attrs]

\* The shape of the requests, and of what has settled.
RequestRow ==
    [op : Ops, user : Customers \cup {Nobody}, side : Sides, todo : Seq(Command),
     found : Nat, ip : Ips \cup {Nobody}, mask : BOOLEAN, alone : BOOLEAN]

\* The variables have their types.
Types ==
    /\ rows \subseteq Row
    /\ lastId \in Nat
    /\ group \in [Customers -> Profiles]
    /\ staticIp \in [Customers -> Ips \cup {Nobody}]
    /\ online \in [Customers -> BOOLEAN]
    /\ kick \in [Customers -> {"none", "sent", "arrived", "lost"}]
    /\ req \in [Requests -> RequestRow]
    /\ settled \in [Customers -> [Sides -> RequestRow]]
    /\ begun \subseteq Requests

\* A row id is used once.
Numbered ==
    /\ \A x, y \in rows : x.id = y.id => x = y
    /\ \A x \in rows : x.id <= lastId

\* The statements a request of a kind may have.
May(op, ip, c) ==
    \/ /\ op \in {"activate", "activate until"}
       /\ \/ c.do \in {"find", "write"} /\ c.attr = "password"
          \/ c.do = "delete" /\ c.attr \in {"reject", "expiry"}
    \/ op = "activate until" /\ c.do \in {"find", "write"} /\ c.attr = "expiry"
    \/ op = "deactivate" /\ c.do \in {"find", "write", "kick"} /\ c.attr = "reject"
    \/ op = "rate" /\ c.do \in {"find", "write"} /\ c.attr = "rate"
    \/ /\ op \in Profiles
       /\ \/ c.do \in {"leave", "join"} /\ c.attr = "ip"
          \/ c.do = "delete" /\ c.attr = "rate"
    \/ op \in {"none", "dynamic"} /\ c.do = "delete" /\ c.attr \in {"ip", "netmask"}
    \/ op = "static" /\ ip = Nobody /\ c.do = "refuse" /\ c.attr = "ip"
    \/ /\ op = "static" /\ ip # Nobody
       /\ \/ c.do \in {"clash", "rowClash", "save", "find", "write"} /\ c.attr = "ip"
          \/ c.do \in {"find", "write", "delete"} /\ c.attr = "netmask"

\* Their order: a row is looked for just before it is written, a group is left
\* just before it is joined, an expiry is dropped before it is written, a
\* session is ended last, and a static profile without an address is refused.
InOrder(op, ip, todo, i) ==
    /\ May(op, ip, todo[i])
    /\ todo[i].do = "write" =>
          \/ i = 1
          \/ todo[i - 1].do = "find" /\ todo[i - 1].attr = todo[i].attr
    /\ todo[i].do = "leave" => i < Len(todo) /\ todo[i + 1].do = "join"
    /\ /\ op = "activate until" /\ todo[i].do = "delete" /\ todo[i].attr = "expiry"
       => \E j \in i+1..Len(todo) :
             todo[j].do = "write" /\ todo[j].attr = "expiry"

Last(op, ip, c) ==
    /\ op = "deactivate" => c.do = "kick"
    /\ op = "static" /\ ip = Nobody => c.do = "refuse"

Orders(op, ip, todo) ==
    /\ \A i \in 1..Len(todo) : InOrder(op, ip, todo, i)
    /\ todo # << >> => Last(op, ip, todo[Len(todo)])

\* A request that is running.
Ordered(r) ==
    /\ r \in begun
    /\ req[r].user \in Customers
    /\ req[r].op # "idle" /\ req[r].side = SideOf(req[r].op)
    /\ Orders(req[r].op, req[r].ip, req[r].todo)
    /\ req[r].found <= lastId

\* A statement that is still to be run.
Due(todo, what, attr) ==
    \E i \in 1..Len(todo) : todo[i].do = what /\ todo[i].attr = attr

\* What the statements that are not due any more have achieved.
Reached(op, u, ip, todo) ==
    /\ op \in {"activate", "activate until"} =>
          /\ Due(todo, "write", "password") \/ RowsOf(u, "password") # {}
          /\ Due(todo, "delete", "reject") \/ RowsOf(u, "reject") = {}
    /\ op = "activate" =>
          Due(todo, "delete", "expiry") \/ RowsOf(u, "expiry") = {}
    /\ op = "activate until" =>
          Due(todo, "write", "expiry") \/ RowsOf(u, "expiry") # {}
    /\ op = "deactivate" =>
          Due(todo, "write", "reject") \/ RowsOf(u, "reject") # {}
    /\ op \in Profiles =>
          /\ Due(todo, "join", "ip") \/ group[u] = op
          /\ Due(todo, "delete", "rate") \/ RowsOf(u, "rate") = {}
    /\ op \in {"none", "dynamic"} =>
          Due(todo, "delete", "ip") \/ RowsOf(u, "ip") = {}
    /\ op = "static" /\ ip # Nobody =>
          /\ Due(todo, "save", "ip") \/ staticIp[u] = ip
          /\ Due(todo, "write", "ip") \/ \E x \in RowsOf(u, "ip") : x.value = ip

\* What a request that ran alone to its end leaves.
Done(op, u, ip) ==
    /\ Reached(op, u, ip, << >>)
    /\ op = "deactivate" => (online[u] => kick[u] \in {"sent", "lost"})
    /\ op = "static" => ip # Nobody

\* What was found is a row of the customer's, or was, and for a request that is
\* alone still is.
Found(r) ==
    LET u == req[r].user
        c == req[r].todo[1]
        id == req[r].found
    IN  c.do = "write" =>
          /\ \A x \in rows : x.id = id => x.user = u /\ x.attr = c.attr
          /\ req[r].alone /\ id = 0 => RowsOf(u, c.attr) = {}
          /\ req[r].alone /\ id # 0 => \E x \in rows : x.id = id

\* A request that is alone has achieved what is not due any more.
Achieved(r) ==
    req[r].alone => Reached(req[r].op, req[r].user, req[r].ip, req[r].todo)

OrdersInv == \A r \in Running : Ordered(r)
FoundInv == \A r \in Running : Found(r)
ReachedInv == \A r \in Running : Achieved(r)

\* A request that is alone has no rival, and one that is not was marked.
AloneInv ==
    /\ \A r, q \in Running :
          /\ r # q /\ req[r].user = req[q].user /\ req[r].side = req[q].side
          => ~req[r].alone
    /\ \A r \in Running :
          req[r].alone \/ <<req[r].user, req[r].side>> \in raced

\* What has settled stands, and nobody is at work on it.
Settled(u, s) ==
    settled[u][s].op # "idle" =>
        /\ SideOf(settled[u][s].op) = s
        /\ Done(settled[u][s].op, u, settled[u][s].ip)
        /\ \A r \in Running : req[r].user # u \/ req[r].side # s

SettledInv == \A u \in Customers, s \in Sides : Settled(u, s)

\* One row for an attribute where requests did not overlap.
OneRow ==
    \A x, y \in rows :
        /\ x.user = y.user /\ x.attr = y.attr
        /\ <<x.user, Side(x.attr)>> \notin raced
        => x = y

\* The unique column.
OneAddress ==
    \A u, v \in Customers : staticIp[u] = staticIp[v] => u = v \/ staticIp[u] = Nobody

\* The inductive invariant.
AccessIInv ==
    /\ Types /\ Numbered /\ OrdersInv /\ FoundInv /\ ReachedInv /\ AloneInv
    /\ SettledInv /\ OneRow /\ OneAddress

-------------------------------------------------------------------------------
(***************************************************************************)
(* Lists of statements.                                                    *)
(***************************************************************************)

\* The first statement, and the others.
LEMMA Tails ==
    ASSUME NEW todo \in Seq(Command), todo # << >>
    PROVE  /\ Len(todo) \in Nat \ {0}
           /\ Head(todo) = todo[1] /\ todo[1] \in Command
           /\ Tail(todo) \in Seq(Command)
           /\ Len(Tail(todo)) = Len(todo) - 1
           /\ \A i \in 1..Len(todo) - 1 : Tail(todo)[i] = todo[i + 1]
           /\ Tail(todo) = << >> <=> Len(todo) = 1
<1>1. /\ Len(todo) \in Nat \ {0}
      /\ Head(todo) = todo[1] /\ todo[1] \in Command
  OBVIOUS
<1>2. /\ Tail(todo) \in Seq(Command)
      /\ Len(Tail(todo)) = Len(todo) - 1
      /\ \A i \in 1..Len(todo) - 1 : Tail(todo)[i] = todo[i + 1]
  BY <1>1
<1>3. Tail(todo) = << >> <=> Len(Tail(todo)) = 0
  <2>1. ASSUME NEW t \in Seq(Command)
        PROVE  t = << >> <=> Len(t) = 0
    BY <2>1
  <2>. QED  BY <2>1, <1>2
<1>. QED  BY <1>1, <1>2, <1>3

\* What is due is the first statement or among the others.
LEMMA DueTail ==
    ASSUME NEW todo \in Seq(Command), todo # << >>, NEW what, NEW attr
    PROVE  Due(todo, what, attr) <=>
              \/ todo[1].do = what /\ todo[1].attr = attr
              \/ Due(Tail(todo), what, attr)
<1> DEFINE n == Len(todo)
<1>1. /\ n \in Nat \ {0} /\ Len(Tail(todo)) = n - 1
      /\ \A i \in 1..n - 1 : Tail(todo)[i] = todo[i + 1]
  BY Tails
<1> HIDE DEF n
<1>2. ASSUME NEW i \in 1..n, todo[i].do = what, todo[i].attr = attr, i # 1
      PROVE  Due(Tail(todo), what, attr)
  <2>1. i - 1 \in 1..n - 1 /\ Tail(todo)[i - 1] = todo[i]
    BY <1>1, <1>2
  <2>. QED  BY <2>1, <1>1, <1>2 DEF Due
<1>3. ASSUME NEW i \in 1..n - 1, Tail(todo)[i].do = what, Tail(todo)[i].attr = attr
      PROVE  Due(todo, what, attr)
  <2>1. i + 1 \in 1..n /\ Tail(todo)[i] = todo[i + 1]
    BY <1>1, <1>3
  <2>. QED  BY <2>1, <1>3 DEF Due, n
<1>4. 1 \in 1..n
  BY <1>1
<1>. QED  BY <1>1, <1>2, <1>3, <1>4 DEF Due, n

\* Nothing is due in an empty list.
LEMMA NothingDue ==
    ASSUME NEW what, NEW attr
    PROVE  ~Due(<< >>, what, attr)
BY DEF Due

\* The rest of a list in order is in order.
LEMMA TailOrders ==
    ASSUME NEW op, NEW ip, NEW todo \in Seq(Command), todo # << >>,
           Orders(op, ip, todo)
    PROVE  Orders(op, ip, Tail(todo))
<1> DEFINE n == Len(todo)
           t == Tail(todo)
<1>1. /\ n \in Nat \ {0} /\ Len(t) = n - 1
      /\ \A i \in 1..n - 1 : t[i] = todo[i + 1]
      /\ t = << >> <=> n = 1
  BY Tails
<1> HIDE DEF n, t
<1>2. ASSUME NEW i \in 1..n - 1
      PROVE  InOrder(op, ip, t, i)
  <2>1. i + 1 \in 1..n /\ t[i] = todo[i + 1] /\ InOrder(op, ip, todo, i + 1)
    BY <1>1, <1>2 DEF Orders, n
  <2>2. May(op, ip, t[i])
    BY <2>1 DEF InOrder
  <2>3. ASSUME t[i].do = "write", i # 1
        PROVE  t[i - 1].do = "find" /\ t[i - 1].attr = t[i].attr
    <3>1. i - 1 \in 1..n - 1 /\ t[i - 1] = todo[i] /\ (i + 1) - 1 = i /\ i + 1 # 1
      BY <1>1, <2>3
    <3>. QED  BY <2>1, <2>3, <3>1 DEF InOrder
  <2>4. ASSUME t[i].do = "leave"
        PROVE  i < n - 1 /\ t[i + 1].do = "join"
    <3>1. i + 1 < n /\ todo[(i + 1) + 1].do = "join"
      BY <2>1, <2>4 DEF InOrder, n
    <3>2. i + 1 \in 1..n - 1 /\ i < n - 1
      BY <3>1, <1>1
    <3>. QED  BY <1>1, <3>1, <3>2
  <2>5. ASSUME op = "activate until", t[i].do = "delete", t[i].attr = "expiry"
        PROVE  \E j \in i+1..n-1 : t[j].do = "write" /\ t[j].attr = "expiry"
    <3>1. PICK j \in (i+1)+1..n : todo[j].do = "write" /\ todo[j].attr = "expiry"
      BY <2>1, <2>5 DEF InOrder, n
    <3>2. j - 1 \in i+1..n-1 /\ j - 1 \in 1..n-1 /\ t[j - 1] = todo[j]
      BY <1>1, <3>1
    <3>. QED  BY <3>1, <3>2
  <2>6. Len(t) = n - 1
    BY <1>1
  <2>. QED  BY <2>2, <2>3, <2>4, <2>5, <2>6 DEF InOrder
<1>3. ASSUME t # << >>
      PROVE  Last(op, ip, t[n - 1])
  <2>1. t[n - 1] = todo[n]
    BY <1>1, <1>3
  <2>. QED  BY <2>1 DEF Orders, n
<1>. QED  BY <1>1, <1>2, <1>3 DEF Orders, t

\* The statement a request is at, and its customer.
LEMMA AtWork ==
    ASSUME Types, OrdersInv, NEW r \in Running
    PROVE  /\ r \in Requests /\ req[r] \in RequestRow
           /\ req[r].todo \in Seq(Command) /\ req[r].todo # << >>
           /\ Next1(r) = req[r].todo[1] /\ Next1(r) \in Command
           /\ May(req[r].op, req[r].ip, Next1(r))
           /\ req[r].user \in Customers /\ req[r].side = SideOf(req[r].op)
           /\ req[r].op \in Ops \ {"idle"} /\ req[r].side \in Sides
           /\ req[r].found \in Nat /\ req[r].found <= lastId
           /\ Ordered(r)
<1>1. r \in Requests /\ req[r].todo # << >>
  BY DEF Running
<1>2. /\ req[r] \in RequestRow /\ req[r].todo \in Seq(Command)
      /\ req[r].op \in Ops /\ req[r].side \in Sides /\ req[r].found \in Nat
  BY <1>1 DEF Types, RequestRow
<1>3. Ordered(r)
  BY DEF OrdersInv
<1>4. /\ Next1(r) = req[r].todo[1] /\ Next1(r) \in Command
      /\ Len(req[r].todo) \in Nat \ {0}
  BY <1>1, <1>2, Tails DEF Next1
<1>5. May(req[r].op, req[r].ip, Next1(r))
  <2>1. 1 \in 1..Len(req[r].todo)
    BY <1>4
  <2>2. InOrder(req[r].op, req[r].ip, req[r].todo, 1)
    BY <1>3, <2>1 DEF Ordered, Orders
  <2>. QED  BY <2>2, <1>4 DEF InOrder
<1>. QED  BY <1>1, <1>2, <1>3, <1>4, <1>5 DEF Ordered

\* A statement is about its own side of the customer.
LEMMA OwnSide ==
    ASSUME NEW op \in Ops, NEW ip, NEW c \in Command, May(op, ip, c)
    PROVE  Side(c.attr) = SideOf(op)
<1>1. op \in Logins => c.attr \in Lines
  BY DEF May, Logins, Lines, Profiles
<1>2. op \notin Logins => c.attr \notin Lines
  BY DEF May, Logins, Lines, Profiles
<1>. QED  BY <1>1, <1>2 DEF Side, SideOf

-------------------------------------------------------------------------------
(***************************************************************************)
(* What a step leaves alone.                                               *)
(***************************************************************************)

\* The rows, the group, the address and the pending packet of one side of a
\* customer are as they were.
Kept(u, s) ==
    /\ \A attr \in Attrs : Side(attr) = s => RowsOf(u, attr)' = RowsOf(u, attr)
    /\ s = "profile" => group'[u] = group[u] /\ staticIp'[u] = staticIp[u]

\* What was reached there still is.
LEMMA KeptReached ==
    ASSUME NEW op \in Ops, NEW u, NEW ip, NEW todo, Kept(u, SideOf(op)),
           Reached(op, u, ip, todo)
    PROVE  Reached(op, u, ip, todo)'
<1>1. /\ SideOf(op) = "login" =>
            /\ RowsOf(u, "password")' = RowsOf(u, "password")
            /\ RowsOf(u, "reject")' = RowsOf(u, "reject")
            /\ RowsOf(u, "expiry")' = RowsOf(u, "expiry")
      /\ SideOf(op) = "profile" =>
            /\ RowsOf(u, "rate")' = RowsOf(u, "rate")
            /\ RowsOf(u, "ip")' = RowsOf(u, "ip")
            /\ group'[u] = group[u] /\ staticIp'[u] = staticIp[u]
  BY DEF Kept, Side, Attrs, Lines, Replies
<1>2. op \in Logins => SideOf(op) = "login"
  BY DEF SideOf
<1>3. op \notin Logins => SideOf(op) = "profile"
  BY DEF SideOf
<1>4. CASE op \in Logins
  BY <1>1, <1>2, <1>4 DEF Reached, Logins, Profiles
<1>5. CASE op \notin Logins
  BY <1>1, <1>3, <1>5 DEF Reached, Logins, Profiles
<1>. QED  BY <1>4, <1>5

\* So is what was done, if the packet and the session are as they were too.
LEMMA KeptDone ==
    ASSUME NEW op \in Ops, NEW u, NEW ip, Kept(u, SideOf(op)), Done(op, u, ip),
           op = "deactivate" => online'[u] = online[u] /\ kick'[u] = kick[u]
    PROVE  Done(op, u, ip)'
BY KeptReached DEF Done

\* A request runs its first statement.
LEMMA StepFacts ==
    ASSUME Types, OrdersInv, NEW r \in Running, NEW f \in Nat, Step(r, f)
    PROVE  /\ req' \in [Requests -> RequestRow]
           /\ req'[r].todo = Tail(req[r].todo) /\ req'[r].found = f
           /\ req'[r].op = req[r].op /\ req'[r].user = req[r].user
           /\ req'[r].side = req[r].side /\ req'[r].ip = req[r].ip
           /\ req'[r].alone = req[r].alone
           /\ \A q \in Requests \ {r} : req'[q] = req[q]
           /\ UNCHANGED <<raced, begun>>
<1>1. /\ r \in Requests /\ req[r] \in RequestRow
      /\ Tail(req[r].todo) \in Seq(Command)
      /\ req \in [Requests -> RequestRow]
  BY AtWork, Tails DEF Types
<1>2. req' = [req EXCEPT ![r].todo = Tail(req[r].todo), ![r].found = f]
  BY DEF Step
<1>3. UNCHANGED <<raced, begun>>
  BY DEF Step
<1>. QED  BY <1>1, <1>2, <1>3 DEF RequestRow

\* Its last statement, if it was alone, settles its side of the customer.
LEMMA StepSettles ==
    ASSUME Types, OrdersInv, NEW r \in Running, NEW f \in Nat, Step(r, f)
    PROVE  /\ settled' \in [Customers -> [Sides -> RequestRow]]
           /\ \A u \in Customers, s \in Sides :
                 u # req[r].user \/ s # req[r].side => settled'[u][s] = settled[u][s]
           /\ LET x == settled'[req[r].user][req[r].side] IN
              \/ /\ req[r].alone /\ Tail(req[r].todo) = << >>
                 /\ x.op = req[r].op /\ x.ip = req[r].ip
              \/ ~(req[r].alone /\ Tail(req[r].todo) = << >>)
                 /\ x = settled[req[r].user][req[r].side]
<1>1. /\ req[r] \in RequestRow /\ req[r].user \in Customers /\ req[r].side \in Sides
      /\ settled \in [Customers -> [Sides -> RequestRow]]
  BY AtWork DEF Types
<1> DEFINE row == [req[r] EXCEPT !.todo = << >>, !.found = 0]
<1>2. row \in RequestRow /\ row.op = req[r].op /\ row.ip = req[r].ip
  <2>1. << >> \in Seq(Command)
    OBVIOUS
  <2>. QED  BY <2>1, <1>1 DEF RequestRow
<1>3. settled' = IF Tail(req[r].todo) = << >> /\ req[r].alone
                   THEN [settled EXCEPT ![req[r].user][req[r].side] = row]
                   ELSE settled
  BY DEF Step
<1> HIDE DEF row
<1>4. CASE Tail(req[r].todo) = << >> /\ req[r].alone
  BY <1>1, <1>2, <1>3, <1>4
<1>5. CASE ~(Tail(req[r].todo) = << >> /\ req[r].alone)
  BY <1>1, <1>3, <1>5
<1>. QED  BY <1>4, <1>5

\* The tables keep their shape under a step of request r.
Sound(r) ==
    /\ rows' \subseteq Row /\ lastId' \in Nat /\ lastId <= lastId'
    /\ group' \in [Customers -> Profiles]
    /\ staticIp' \in [Customers -> Ips \cup {Nobody}]
    /\ kick' \in [Customers -> {"none", "sent", "arrived", "lost"}]
    /\ online' = online
    /\ Numbered' /\ OneRow' /\ OneAddress'
    /\ \A x \in rows' :
          \/ x.id > lastId
          \/ \E y \in rows : y.id = x.id /\ y.user = x.user /\ y.attr = x.attr
    /\ \A u \in Customers, s \in Sides :
          (u # req[r].user \/ s # req[r].side) =>
              /\ Kept(u, s)
              /\ s = "login" => kick'[u] = kick[u]

\* What others have found stays theirs.
LEMMA FoundKept ==
    ASSUME AccessIInv, NEW r \in Running, Sound(r),
           NEW q \in Running, q # r, req'[q] = req[q]
    PROVE  Found(q)'
<1> DEFINE u == req[q].user
           c == req[q].todo[1]
           id == req[q].found
<1>1. /\ Types /\ OrdersInv /\ FoundInv /\ AloneInv
  BY DEF AccessIInv
<1>2. /\ u \in Customers /\ id \in Nat /\ id <= lastId /\ c \in Command
      /\ req[q].side = Side(c.attr) /\ req[q].side \in Sides
  BY <1>1, AtWork, OwnSide
<1> SUFFICES ASSUME c.do = "write"
             PROVE  /\ \A x \in rows' : x.id = id => x.user = u /\ x.attr = c.attr
                    /\ req[q].alone /\ id = 0 => RowsOf(u, c.attr)' = {}
                    /\ req[q].alone /\ id # 0 => \E x \in rows' : x.id = id
  BY DEF Found
<1>3. /\ \A x \in rows : x.id = id => x.user = u /\ x.attr = c.attr
      /\ req[q].alone /\ id = 0 => RowsOf(u, c.attr) = {}
      /\ req[q].alone /\ id # 0 => \E x \in rows : x.id = id
  BY <1>1 DEF FoundInv, Found
<1>4. \A x \in rows' : x.id \in Nat
  BY DEF Sound, Row
<1>5. \A x \in rows' : x.id = id => x.user = u /\ x.attr = c.attr
  BY <1>1, <1>2, <1>3, <1>4 DEF Sound, Types
<1>6. ASSUME req[q].alone
      PROVE  RowsOf(u, c.attr)' = RowsOf(u, c.attr)
  <2>1. u # req[r].user \/ req[q].side # req[r].side
    BY <1>1, <1>6 DEF AloneInv
  <2>2. Kept(u, req[q].side)
    BY <2>1, <1>2 DEF Sound
  <2>. QED  BY <2>2, <1>2 DEF Kept, Command
<1>. QED  BY <1>3, <1>5, <1>6 DEF RowsOf

\* A statement of request r that keeps the tables sound, and reaches what it is
\* for, keeps the invariant.
LEMMA StepKeeps ==
    ASSUME AccessIInv, NEW r \in Running, NEW f \in Nat, Step(r, f), Sound(r),
           f <= lastId',
           NEW op, op = req[r].op, NEW u, u = req[r].user, NEW ip, ip = req[r].ip,
           NEW todo, todo = Tail(req[r].todo),
           todo # << >> => Found(r)',
           req[r].alone => Reached(op, u, ip, todo)',
           req[r].alone /\ todo = << >> => Done(op, u, ip)'
    PROVE  AccessIInv'
<1>1. /\ Types /\ Numbered /\ OrdersInv /\ FoundInv /\ ReachedInv /\ AloneInv
      /\ SettledInv /\ OneRow /\ OneAddress
  BY DEF AccessIInv
<1>2. /\ req' \in [Requests -> RequestRow]
      /\ req'[r].todo = todo /\ req'[r].found = f
      /\ req'[r].op = op /\ req'[r].user = u
      /\ req'[r].side = req[r].side /\ req'[r].ip = ip
      /\ req'[r].alone = req[r].alone
      /\ \A q \in Requests \ {r} : req'[q] = req[q]
      /\ raced' = raced /\ begun' = begun
  BY <1>1, StepFacts
<1>3. /\ r \in Requests /\ u \in Customers /\ req[r].side = SideOf(op)
      /\ op \in Ops \ {"idle"} /\ req[r].side \in Sides /\ Ordered(r)
      /\ req[r].todo \in Seq(Command) /\ req[r].todo # << >>
  BY <1>1, AtWork
<1>4. /\ \A q \in Running' : q # r => q \in Running /\ req'[q] = req[q]
      /\ r \in Running' <=> todo # << >>
  BY <1>2, <1>3 DEF Running
<1>5. Types'
  BY <1>1, <1>2, StepSettles DEF Types, Sound
<1>6. OrdersInv'
  <2>1. Ordered(r)'
    <3>1. Orders(op, ip, todo)
      BY <1>3, TailOrders DEF Ordered
    <3>. QED  BY <3>1, <1>2, <1>3 DEF Ordered
  <2>2. ASSUME NEW q \in Running, q # r, req'[q] = req[q]
        PROVE  Ordered(q)'
    <3>1. Ordered(q) /\ req[q].found \in Nat
      BY <1>1, AtWork
    <3>. QED  BY <3>1, <2>2, <1>1, <1>2 DEF Ordered, Sound, Types
  <2>. QED  BY <2>1, <2>2, <1>4 DEF OrdersInv
<1>7. FoundInv'
  BY <1>4, FoundKept DEF FoundInv
<1>8. ASSUME NEW v \in Customers, NEW s \in Sides,
             NEW q \in Running, q # r, req[q].user = v, req[q].side = s,
             req[q].alone
      PROVE  v # u \/ s # req[r].side
  BY <1>1, <1>8 DEF AloneInv
<1>9. ReachedInv'
  <2> SUFFICES ASSUME NEW q \in Running' PROVE Achieved(q)'
    BY DEF ReachedInv
  <2>1. CASE q = r
    BY <2>1, <1>2 DEF Achieved
  <2>2. CASE q # r
    <3>1. q \in Running /\ req'[q] = req[q]
      BY <2>2, <1>4
    <3>2. /\ req[q].user \in Customers /\ req[q].side = SideOf(req[q].op)
          /\ req[q].op \in Ops /\ req[q].side \in Sides
      BY <3>1, <1>1, AtWork
    <3>3. req[q].alone => Kept(req[q].user, SideOf(req[q].op))
      BY <3>1, <3>2, <2>2, <1>8 DEF Sound
    <3>4. Achieved(q)
      BY <3>1, <1>1 DEF ReachedInv
    <3>. QED  BY <3>1, <3>2, <3>3, <3>4, KeptReached DEF Achieved
  <2>. QED  BY <2>1, <2>2
<1>10. AloneInv'
  <2>1. \A q \in Running' :
          /\ q \in Running /\ req'[q].alone = req[q].alone
          /\ req'[q].user = req[q].user /\ req'[q].side = req[q].side
    BY <1>2, <1>4
  <2>2. \A q, p \in Running' :
          /\ q # p /\ req'[q].user = req'[p].user /\ req'[q].side = req'[p].side
          => ~req'[q].alone
    BY <2>1, <1>1 DEF AloneInv
  <2>3. \A q \in Running' :
          req'[q].alone \/ <<req'[q].user, req'[q].side>> \in raced'
    BY <2>1, <1>1, <1>2 DEF AloneInv
  <2>. QED  BY <2>2, <2>3 DEF AloneInv
<1>11. SettledInv'
  <2> SUFFICES ASSUME NEW v \in Customers, NEW s \in Sides PROVE Settled(v, s)'
    BY DEF SettledInv
  <2>0. Settled(v, s)
    BY <1>1 DEF SettledInv
  <2>1. CASE v = u /\ s = req[r].side
    <3>1. settled[v][s].op = "idle"
      BY <2>0, <2>1 DEF Settled
    <3>2. CASE /\ req[r].alone /\ todo = << >>
               /\ settled'[v][s].op = op /\ settled'[v][s].ip = ip
      <4>1. \A q \in Running' : req'[q].user # v \/ req'[q].side # s
        BY <3>2, <2>1, <1>1, <1>4 DEF AloneInv
      <4>. QED  BY <3>2, <4>1, <2>1, <1>3 DEF Settled
    <3>3. CASE settled'[v][s] = settled[v][s]
      BY <3>1, <3>3 DEF Settled
    <3>. QED  BY <3>2, <3>3, <2>1, <1>1, StepSettles
  <2>2. CASE v # u \/ s # req[r].side
    <3>1. settled'[v][s] = settled[v][s] /\ settled[v][s].op \in Ops
      BY <2>2, <1>1, StepSettles DEF Types, RequestRow
    <3>2. Kept(v, s) /\ (s = "login" => kick'[v] = kick[v])
      BY <2>2 DEF Sound
    <3>3. settled[v][s].op = "deactivate" => SideOf(settled[v][s].op) = "login"
      BY DEF SideOf, Logins
    <3>4. ASSUME settled[v][s].op # "idle"
          PROVE  /\ SideOf(settled[v][s].op) = s
                 /\ Done(settled[v][s].op, v, settled[v][s].ip)
                 /\ \A q \in Running : req[q].user # v \/ req[q].side # s
      BY <3>4, <2>0 DEF Settled
    <3>5. ASSUME settled[v][s].op # "idle"
          PROVE  \A q \in Running' : req'[q].user # v \/ req'[q].side # s
      BY <3>4, <3>5, <2>2, <1>2, <1>4
    <3>6. online' = online
      BY DEF Sound
    <3>. QED  BY <3>1, <3>2, <3>3, <3>4, <3>5, <3>6, KeptDone DEF Settled
  <2>. QED  BY <2>1, <2>2
<1>. QED  BY <1>5, <1>6, <1>7, <1>9, <1>10, <1>11 DEF AccessIInv, Sound

\* A request that is given up leaves what it has done, and nothing settles.
LEMMA GiveKeeps ==
    ASSUME AccessIInv, NEW r \in Running, Give(r),
           UNCHANGED <<rows, lastId, group, staticIp, online, kick, settled,
                       raced, begun>>
    PROVE  AccessIInv'
<1>1. /\ Types /\ Numbered /\ OrdersInv /\ FoundInv /\ ReachedInv /\ AloneInv
      /\ SettledInv /\ OneRow /\ OneAddress
  BY DEF AccessIInv
<1>2. /\ req' \in [Requests -> RequestRow]
      /\ req'[r].todo = << >>
      /\ \A q \in Requests \ {r} : req'[q] = req[q]
  <2>1. r \in Requests /\ req[r] \in RequestRow /\ << >> \in Seq(Command)
    BY <1>1, AtWork
  <2>. QED  BY <2>1, <1>1 DEF Give, Types, RequestRow
<1>3. \A q \in Running' : q \in Running /\ req'[q] = req[q]
  BY <1>2 DEF Running
<1>4. Types' /\ Numbered' /\ OneRow' /\ OneAddress'
  BY <1>1, <1>2 DEF Types, Numbered, OneRow, OneAddress
<1>5. OrdersInv' /\ FoundInv' /\ ReachedInv'
  <2> SUFFICES ASSUME NEW q \in Running'
               PROVE  Ordered(q)' /\ Found(q)' /\ Achieved(q)'
    BY DEF OrdersInv, FoundInv, ReachedInv
  <2>1. q \in Running /\ req'[q] = req[q]
    BY <1>3
  <2>2. Ordered(q)'
    BY <2>1, <1>1 DEF OrdersInv, Ordered
  <2>3. Found(q)'
    BY <2>1, <1>1 DEF FoundInv, Found, RowsOf
  <2>4. req[q].op \in Ops /\ Kept(req[q].user, SideOf(req[q].op))
    BY <2>1, <1>1, AtWork DEF Kept, RowsOf
  <2>5. Achieved(q)'
    BY <2>1, <2>4, <1>1, KeptReached DEF ReachedInv, Achieved
  <2>. QED  BY <2>2, <2>3, <2>5
<1>6. AloneInv'
  BY <1>1, <1>3 DEF AloneInv
<1>7. SettledInv'
  <2> SUFFICES ASSUME NEW v \in Customers, NEW s \in Sides PROVE Settled(v, s)'
    BY DEF SettledInv
  <2>1. Settled(v, s) /\ settled[v][s].op \in Ops
    BY <1>1 DEF SettledInv, Types, RequestRow
  <2>2. Kept(v, SideOf(settled[v][s].op))
    BY DEF Kept, RowsOf
  <2>. QED  BY <2>1, <2>2, <1>3, KeptDone DEF Settled
<1>. QED  BY <1>4, <1>5, <1>6, <1>7 DEF AccessIInv

-------------------------------------------------------------------------------
(***************************************************************************)
(* The statements.                                                         *)
(***************************************************************************)

\* What a statement changes on its request's side of the customer.
Effect(c, op, u, ip) ==
    /\ \A attr \in Attrs :
          IF c.do = "delete" /\ c.attr = attr
            THEN RowsOf(u, attr)' = {}
            ELSE IF c.do = "write" /\ c.attr = attr
            THEN /\ RowsOf(u, attr)' # {}
                 /\ attr = "ip" => \E x \in RowsOf(u, attr)' : x.value = ip
            ELSE RowsOf(u, attr)' = RowsOf(u, attr)
    /\ c.do = "join" => group'[u] = op
    /\ c.do \notin {"join", "leave"} => group'[u] = group[u]
    /\ staticIp'[u] = IF c.do = "save" THEN ip ELSE staticIp[u]

\* A statement achieves what is not due any more after it.
LEMMA StatementReaches ==
    ASSUME NEW op \in Ops, NEW u, NEW ip, NEW todo \in Seq(Command), todo # << >>,
           Orders(op, ip, todo), Reached(op, u, ip, todo),
           Effect(todo[1], op, u, ip)
    PROVE  Reached(op, u, ip, Tail(todo))'
<1> DEFINE c == todo[1]
           t == Tail(todo)
<1>1. /\ Len(todo) \in Nat \ {0} /\ c \in Command /\ t \in Seq(Command)
      /\ Len(t) = Len(todo) - 1
      /\ \A i \in 1..Len(todo) - 1 : t[i] = todo[i + 1]
  BY Tails
<1>2. InOrder(op, ip, todo, 1) /\ May(op, ip, c)
  <2>1. 1 \in 1..Len(todo)
    BY <1>1
  <2>2. InOrder(op, ip, todo, 1)
    BY <2>1 DEF Orders
  <2>. QED  BY <2>2 DEF InOrder
<1>3. \A what, attr : Due(todo, what, attr) <=>
                         \/ c.do = what /\ c.attr = attr
                         \/ Due(t, what, attr)
  BY DueTail
<1>4. ASSUME op = "activate until", c.do = "delete", c.attr = "expiry"
      PROVE  Due(t, "write", "expiry")
  <2>0. \E j \in 1 + 1..Len(todo) : todo[j].do = "write" /\ todo[j].attr = "expiry"
    BY <1>2, <1>4 DEF InOrder
  <2>1. PICK j \in 2..Len(todo) : todo[j].do = "write" /\ todo[j].attr = "expiry"
    BY <2>0
  <2>2. j - 1 \in 1..Len(t) /\ t[j - 1] = todo[j]
    BY <1>1, <2>1
  <2>. QED  BY <2>1, <2>2 DEF Due
<1>5. ASSUME c.do = "leave"
      PROVE  Due(t, "join", "ip")
  <2>1. 1 < Len(todo) /\ todo[2].do = "join"
    BY <1>1, <1>2, <1>5 DEF InOrder
  <2>2. InOrder(op, ip, todo, 2) /\ t[1] = todo[2] /\ 1 \in 1..Len(t)
    BY <1>1, <2>1 DEF Orders
  <2>3. todo[2].attr = "ip"
    BY <2>1, <2>2 DEF InOrder, May
  <2>. QED  BY <2>1, <2>2, <2>3 DEF Due
<1> HIDE DEF c, t
<1>6. \A attr \in Attrs :
          /\ c.do = "delete" /\ c.attr = attr => RowsOf(u, attr)' = {}
          /\ c.do = "write" /\ c.attr = attr => RowsOf(u, attr)' # {}
          /\ ~(c.do \in {"delete", "write"} /\ c.attr = attr)
                => RowsOf(u, attr)' = RowsOf(u, attr)
  BY DEF Effect, c
<1>7. /\ c.do = "write" /\ c.attr = "ip" => \E x \in RowsOf(u, "ip")' : x.value = ip
      /\ c.do = "join" => group'[u] = op
      /\ c.do \notin {"join", "leave"} => group'[u] = group[u]
      /\ staticIp'[u] = IF c.do = "save" THEN ip ELSE staticIp[u]
  BY DEF Effect, c, Attrs, Lines, Replies
<1>8. {"password", "reject", "expiry", "rate", "ip"} \subseteq Attrs
  BY DEF Attrs, Lines, Replies
<1>9. ASSUME op \in {"activate", "activate until"}
      PROVE  /\ Due(t, "write", "password") \/ RowsOf(u, "password")' # {}
             /\ Due(t, "delete", "reject") \/ RowsOf(u, "reject")' = {}
  <2>1. ~(c.do = "delete" /\ c.attr = "password") /\ ~(c.do = "write" /\ c.attr = "reject")
    BY <1>2, <1>9 DEF May, Profiles
  <2>. QED  BY <1>3, <1>6, <1>8, <1>9, <2>1 DEF Reached
<1>10. ASSUME op = "activate"
       PROVE  Due(t, "delete", "expiry") \/ RowsOf(u, "expiry")' = {}
  <2>1. ~(c.do = "write" /\ c.attr = "expiry")
    BY <1>2, <1>10 DEF May, Profiles
  <2>. QED  BY <1>3, <1>6, <1>8, <1>10, <2>1 DEF Reached
<1>11. ASSUME op = "activate until"
       PROVE  Due(t, "write", "expiry") \/ RowsOf(u, "expiry")' # {}
  BY <1>3, <1>4, <1>6, <1>8, <1>11 DEF Reached
<1>12. ASSUME op = "deactivate"
       PROVE  Due(t, "write", "reject") \/ RowsOf(u, "reject")' # {}
  <2>1. ~(c.do = "delete" /\ c.attr = "reject")
    BY <1>2, <1>12 DEF May, Profiles
  <2>. QED  BY <1>3, <1>6, <1>8, <1>12, <2>1 DEF Reached
<1>13. ASSUME op \in Profiles
       PROVE  /\ Due(t, "join", "ip") \/ group'[u] = op
              /\ Due(t, "delete", "rate") \/ RowsOf(u, "rate")' = {}
  <2>1. ~(c.do = "write" /\ c.attr = "rate")
    BY <1>2, <1>13 DEF May, Profiles
  <2>2. Due(t, "delete", "rate") \/ RowsOf(u, "rate")' = {}
    BY <1>3, <1>6, <1>8, <1>13, <2>1 DEF Reached
  <2>3. Due(t, "join", "ip") \/ group'[u] = op
    BY <1>3, <1>5, <1>7, <1>13 DEF Reached
  <2>. QED  BY <2>2, <2>3
<1>14. ASSUME op \in {"none", "dynamic"}
       PROVE  Due(t, "delete", "ip") \/ RowsOf(u, "ip")' = {}
  <2>1. ~(c.do = "write" /\ c.attr = "ip")
    BY <1>2, <1>14 DEF May, Profiles
  <2>. QED  BY <1>3, <1>6, <1>8, <1>14, <2>1 DEF Reached
<1>15. ASSUME op = "static", ip # Nobody
       PROVE  /\ Due(t, "save", "ip") \/ staticIp'[u] = ip
              /\ Due(t, "write", "ip") \/ \E x \in RowsOf(u, "ip")' : x.value = ip
  <2>1. ~(c.do = "delete" /\ c.attr = "ip") /\ (c.do = "save" => c.attr = "ip")
    BY <1>2, <1>15 DEF May, Profiles
  <2>2. Due(t, "save", "ip") \/ staticIp'[u] = ip
    BY <1>3, <1>7, <1>15, <2>1 DEF Reached
  <2>3. CASE c.do = "write" /\ c.attr = "ip"
    BY <1>7, <2>2, <2>3
  <2>4. CASE ~(c.do = "write" /\ c.attr = "ip")
    <3>1. RowsOf(u, "ip")' = RowsOf(u, "ip")
      BY <1>6, <1>8, <2>1, <2>4
    <3>. QED  BY <1>3, <1>15, <2>2, <2>4, <3>1 DEF Reached
  <2>. QED  BY <2>3, <2>4
<1>. QED  BY <1>9, <1>10, <1>11, <1>12, <1>13, <1>14, <1>15 DEF Reached, t

\* A request, and the statement it is at.
Is(r, op, u, ip, c) ==
    op = req[r].op /\ u = req[r].user /\ ip = req[r].ip /\ c = req[r].todo[1]

\* What a search has to return.
Finds(u, attr, f) ==
    /\ \A x \in rows : x.id = f => x.user = u /\ x.attr = attr
    /\ f = 0 => RowsOf(u, attr) = {}
    /\ f # 0 => \E x \in rows : x.id = f

\* A statement that does what it is for keeps the invariant.
LEMMA StatementKeeps ==
    ASSUME AccessIInv, NEW r \in Running, NEW f \in Nat, Step(r, f), Sound(r),
           f <= lastId', NEW op, NEW u, NEW ip, NEW c, Is(r, op, u, ip, c),
           c.do # "refuse",
           c.do = "find" => Finds(u, c.attr, f)',
           c.do = "kick" => kick'[u] = "sent",
           req[r].alone => Effect(c, op, u, ip)
    PROVE  AccessIInv'
<1>0. op = req[r].op /\ u = req[r].user /\ ip = req[r].ip /\ c = req[r].todo[1]
  BY DEF Is
<1>1. Types /\ OrdersInv /\ ReachedInv
  BY DEF AccessIInv
<1>2. PICK todo \in Seq(Command) :
         todo = req[r].todo /\ todo # << >> /\ Orders(op, ip, todo)
  BY <1>0, <1>1, AtWork DEF Ordered
<1>3. op \in Ops
  BY <1>0, <1>1, AtWork
<1>4. PICK t \in Seq(Command) :
         /\ t = Tail(todo) /\ Len(todo) \in Nat \ {0}
         /\ \A i \in 1..Len(todo) - 1 : t[i] = todo[i + 1]
         /\ t = << >> <=> Len(todo) = 1
  BY <1>2, Tails
<1>5. ASSUME t # << >>
      PROVE  Found(r)'
  <2>1. /\ req'[r].todo = t /\ req'[r].found = f /\ req'[r].user = u
    BY <1>0, <1>1, <1>2, <1>4, StepFacts
  <2>2. t[1] = todo[2] /\ 2 \in 1..Len(todo) /\ 2 - 1 = 1
    BY <1>4, <1>5
  <2>3. InOrder(op, ip, todo, 2)
    BY <1>2, <2>2 DEF Orders
  <2>4. t[1].do = "write" => todo[2 - 1].do = "find" /\ todo[2 - 1].attr = t[1].attr
    BY <2>2, <2>3 DEF InOrder
  <2>5. t[1].do = "write" => c.do = "find" /\ c.attr = t[1].attr
    BY <2>2, <2>4, <1>0, <1>2
  <2>. QED  BY <2>1, <2>5 DEF Found, Finds, RowsOf
<1>6. ASSUME req[r].alone
      PROVE  Reached(op, u, ip, t)'
  <2>1. Reached(op, u, ip, todo)
    BY <1>0, <1>1, <1>2, <1>6 DEF ReachedInv, Achieved
  <2>2. Effect(todo[1], op, u, ip)
    BY <1>0, <1>2, <1>6
  <2>. QED  BY <1>2, <1>3, <1>4, <2>1, <2>2, StatementReaches
<1>7. ASSUME req[r].alone, t = << >>
      PROVE  Done(op, u, ip)'
  <2>1. Last(op, ip, c)
    BY <1>0, <1>2, <1>4, <1>7 DEF Orders
  <2>2. Reached(op, u, ip, t)'
    BY <1>6, <1>7
  <2>3. op = "deactivate" => kick'[u] = "sent"
    BY <2>1 DEF Last
  <2>4. op = "static" => ip # Nobody
    BY <2>1 DEF Last
  <2>. QED  BY <1>7, <2>2, <2>3, <2>4 DEF Done
<1>. QED  BY <1>0, <1>2, <1>4, <1>5, <1>6, <1>7, StepKeeps

\* A statement that changes no table.
LEMMA NothingChanges ==
    ASSUME AccessIInv, NEW r \in Running,
           UNCHANGED <<rows, lastId, group, staticIp, online, kick, raced>>,
           NEW c, c.do \notin {"delete", "write", "join", "save"}, NEW op, NEW u, NEW ip
    PROVE  Sound(r) /\ Effect(c, op, u, ip)
<1>1. \A v, attr : RowsOf(v, attr)' = RowsOf(v, attr)
  BY DEF RowsOf
<1>2. Effect(c, op, u, ip)
  BY <1>1 DEF Effect
<1>3. \A v, s : Kept(v, s)
  BY <1>1 DEF Kept
<1>4. Numbered' /\ OneRow' /\ OneAddress'
  BY DEF AccessIInv, Numbered, OneRow, OneAddress
<1>. QED  BY <1>2, <1>3, <1>4 DEF Sound, AccessIInv, Types

\* SELECT id ... LIMIT 1.
LEMMA FindKeeps ==
    ASSUME AccessIInv, NEW r \in Requests, Find(r)
    PROVE  AccessIInv' /\ Sound(r)
<1>1. Types /\ OrdersInv /\ Numbered
  BY DEF AccessIInv
<1>2. r \in Running /\ Next1(r).do = "find"
  BY DEF Find, At, Running
<1> DEFINE mine == RowsOf(req[r].user, Next1(r).attr)
<1>3. PICK f \in IF mine = {} THEN {0} ELSE {x.id : x \in mine} : Step(r, f)
  BY DEF Find
<1>4. /\ \A x \in rows : x.id \in Nat \ {0} /\ x.id <= lastId
      /\ \A x, y \in rows : x.id = y.id => x = y
      /\ lastId \in Nat
  BY <1>1 DEF Types, Row, Numbered
<1>5. UNCHANGED <<rows, lastId, group, staticIp, online, kick>>
  BY DEF Find
<1>6. /\ f \in Nat /\ f <= lastId
      /\ \A x \in rows : x.id = f => x \in mine
      /\ f = 0 => mine = {}
      /\ f # 0 => \E x \in rows : x.id = f
  BY <1>3, <1>4 DEF RowsOf
<1>7. PICK c : c = req[r].todo[1] /\ c = Next1(r)
  BY <1>1, <1>2, AtWork
<1>8. PICK u, op, ip : Is(r, op, u, ip, c)
  BY <1>7 DEF Is
<1>9. Sound(r) /\ Effect(c, op, u, ip)
  BY <1>2, <1>3, <1>5, <1>7, NothingChanges DEF Step
<1>10. Finds(u, c.attr, f)'
  BY <1>5, <1>6, <1>7, <1>8 DEF RowsOf, Finds, Is
<1>11. c.do = "find" /\ f <= lastId'
  BY <1>2, <1>5, <1>6, <1>7
<1> HIDE DEF mine
<1>. QED  BY <1>2, <1>3, <1>6, <1>8, <1>9, <1>10, <1>11, StatementKeeps

\* An address that is nobody else's.
LEMMA CheckKeeps ==
    ASSUME AccessIInv, NEW r \in Requests, CheckAddress(r)
    PROVE  AccessIInv' /\ Sound(r)
<1>1. Types /\ OrdersInv
  BY DEF AccessIInv
<1>2. r \in Running /\ Next1(r).do \in {"clash", "rowClash"}
  BY DEF CheckAddress, At, Running
<1>3. Step(r, 0) /\ UNCHANGED <<rows, lastId, group, staticIp, online, kick>>
  BY DEF CheckAddress
<1>4. PICK c : c = req[r].todo[1] /\ c = Next1(r)
  BY <1>1, <1>2, AtWork
<1>5. PICK u, op, ip : Is(r, op, u, ip, c)
  BY <1>4 DEF Is
<1>6. Sound(r) /\ Effect(c, op, u, ip)
  BY <1>2, <1>3, <1>4, NothingChanges DEF Step
<1>7. 0 \in Nat /\ 0 <= lastId'
  BY <1>1, <1>3 DEF Types
<1>8. c.do \notin {"find", "kick", "refuse"}
  BY <1>2, <1>4
<1>. QED  BY <1>2, <1>3, <1>5, <1>6, <1>7, <1>8, StatementKeeps

\* The group, the address and the packet change, the rows do not.
LEMMA RowsStay ==
    ASSUME AccessIInv, NEW r \in Running, UNCHANGED <<rows, lastId, online, raced>>,
           group' \in [Customers -> Profiles],
           staticIp' \in [Customers -> Ips \cup {Nobody}],
           kick' \in [Customers -> {"none", "sent", "arrived", "lost"}],
           OneAddress',
           \A v \in Customers :
              /\ v # req[r].user \/ req[r].side = "login"
                    => group'[v] = group[v] /\ staticIp'[v] = staticIp[v]
              /\ v # req[r].user \/ req[r].side = "profile" => kick'[v] = kick[v]
    PROVE  Sound(r) /\ \A v, attr : RowsOf(v, attr)' = RowsOf(v, attr)
<1>1. \A v, attr : RowsOf(v, attr)' = RowsOf(v, attr)
  BY DEF RowsOf
<1>2. Types /\ OrdersInv
  BY DEF AccessIInv
<1>3. req[r].side \in Sides
  BY <1>2, AtWork
<1>4. \A v \in Customers, s \in Sides :
         (v # req[r].user \/ s # req[r].side) =>
            /\ Kept(v, s)
            /\ s = "login" => kick'[v] = kick[v]
  BY <1>1, <1>3 DEF Kept, Sides
<1>5. Numbered' /\ OneRow'
  BY DEF AccessIInv, Numbered, OneRow
<1>. QED  BY <1>1, <1>2, <1>4, <1>5 DEF Sound, Types

\* The group is left ...
LEMMA LeaveKeeps ==
    ASSUME AccessIInv, NEW r \in Requests, LeaveGroup(r)
    PROVE  AccessIInv' /\ Sound(r)
<1>1. Types /\ OrdersInv /\ OneAddress
  BY DEF AccessIInv
<1>2. r \in Running /\ Next1(r).do = "leave"
  BY DEF LeaveGroup, At, Running
<1>3. PICK c : c = req[r].todo[1] /\ c = Next1(r)
  BY <1>1, <1>2, AtWork
<1>4. PICK u, op, ip : Is(r, op, u, ip, c) /\ u = req[r].user /\ op = req[r].op
                                          /\ ip = req[r].ip
  BY <1>3 DEF Is
<1>5. /\ Step(r, 0) /\ group' = [group EXCEPT ![u] = "none"]
      /\ UNCHANGED <<rows, lastId, staticIp, online, kick>>
  BY <1>4 DEF LeaveGroup
<1>6. u \in Customers /\ req[r].side = "profile" /\ May(op, ip, c)
  <2>1. u \in Customers /\ req[r].side = SideOf(op) /\ May(op, ip, c)
    BY <1>1, <1>2, <1>3, <1>4, AtWork
  <2>2. op \notin Logins
    BY <2>1, <1>2, <1>3 DEF May, Logins, Profiles
  <2>. QED  BY <2>1, <2>2 DEF SideOf
<1>7. raced' = raced
  BY <1>5 DEF Step
<1>8. /\ Sound(r) /\ \A v, attr : RowsOf(v, attr)' = RowsOf(v, attr)
  <2>1. /\ group' \in [Customers -> Profiles]
        /\ \A v \in Customers : v # u => group'[v] = group[v]
    BY <1>1, <1>5, <1>6 DEF Types, Profiles
  <2>2. OneAddress'
    BY <1>1, <1>5 DEF OneAddress
  <2>. QED  BY <2>1, <2>2, <1>1, <1>2, <1>4, <1>5, <1>6, <1>7, RowsStay DEF Types
<1>9. Effect(c, op, u, ip)
  BY <1>2, <1>3, <1>5, <1>8 DEF Effect
<1>10. 0 \in Nat /\ 0 <= lastId'
  BY <1>1, <1>5 DEF Types
<1>11. c.do \notin {"find", "kick", "refuse"}
  BY <1>2, <1>3
<1>. QED  BY <1>2, <1>4, <1>5, <1>8, <1>9, <1>10, <1>11, StatementKeeps

\* ... and joined.
LEMMA JoinKeeps ==
    ASSUME AccessIInv, NEW r \in Requests, JoinGroup(r)
    PROVE  AccessIInv' /\ Sound(r)
<1>1. Types /\ OrdersInv /\ OneAddress
  BY DEF AccessIInv
<1>2. r \in Running /\ Next1(r).do = "join"
  BY DEF JoinGroup, At, Running
<1>3. PICK c : c = req[r].todo[1] /\ c = Next1(r)
  BY <1>1, <1>2, AtWork
<1>4. PICK u, op, ip : Is(r, op, u, ip, c) /\ u = req[r].user /\ op = req[r].op
                                          /\ ip = req[r].ip
  BY <1>3 DEF Is
<1>5. /\ Step(r, 0) /\ group' = [group EXCEPT ![u] = op]
      /\ UNCHANGED <<rows, lastId, staticIp, online, kick>>
  BY <1>4 DEF JoinGroup
<1>6. u \in Customers /\ req[r].side = "profile" /\ op \in Profiles
  <2>1. u \in Customers /\ req[r].side = SideOf(op) /\ May(op, ip, c)
    BY <1>1, <1>2, <1>3, <1>4, AtWork
  <2>2. op \notin Logins /\ op \in Profiles
    BY <2>1, <1>2, <1>3 DEF May, Logins, Profiles
  <2>. QED  BY <2>1, <2>2 DEF SideOf
<1>7. raced' = raced
  BY <1>5 DEF Step
<1>8. /\ Sound(r) /\ \A v, attr : RowsOf(v, attr)' = RowsOf(v, attr)
  <2>1. /\ group' \in [Customers -> Profiles]
        /\ \A v \in Customers : v # u => group'[v] = group[v]
    BY <1>1, <1>5, <1>6 DEF Types
  <2>2. OneAddress'
    BY <1>1, <1>5 DEF OneAddress
  <2>. QED  BY <2>1, <2>2, <1>1, <1>2, <1>4, <1>5, <1>6, <1>7, RowsStay DEF Types
<1>9. Effect(c, op, u, ip)
  <2>1. group'[u] = op
    BY <1>1, <1>5, <1>6 DEF Types
  <2>. QED  BY <2>1, <1>2, <1>3, <1>5, <1>8 DEF Effect
<1>10. 0 \in Nat /\ 0 <= lastId'
  BY <1>1, <1>5 DEF Types
<1>11. c.do \notin {"find", "kick", "refuse"}
  BY <1>2, <1>3
<1>. QED  BY <1>2, <1>4, <1>5, <1>8, <1>9, <1>10, <1>11, StatementKeeps

\* The address is saved in a unique column.
LEMMA SaveKeeps ==
    ASSUME AccessIInv, NEW r \in Requests, SaveAddress(r)
    PROVE  AccessIInv' /\ Sound(r)
<1>1. Types /\ OrdersInv /\ OneAddress
  BY DEF AccessIInv
<1>2. r \in Running /\ Next1(r).do = "save"
  BY DEF SaveAddress, At, Running
<1>3. PICK c : c = req[r].todo[1] /\ c = Next1(r)
  BY <1>1, <1>2, AtWork
<1>4. PICK u, op, ip : Is(r, op, u, ip, c) /\ u = req[r].user /\ op = req[r].op
                                          /\ ip = req[r].ip
  BY <1>3 DEF Is
<1>5. /\ Step(r, 0) /\ staticIp' = [staticIp EXCEPT ![u] = ip]
      /\ \A v \in Customers \ {u} : staticIp[v] # ip
      /\ UNCHANGED <<rows, lastId, group, online, kick>>
  BY <1>4 DEF SaveAddress
<1>6. u \in Customers /\ req[r].side = "profile" /\ ip \in Ips \cup {Nobody}
  <2>1. /\ u \in Customers /\ req[r].side = SideOf(op) /\ May(op, ip, c)
        /\ req[r] \in RequestRow
    BY <1>1, <1>2, <1>3, <1>4, AtWork
  <2>2. op \notin Logins
    BY <2>1, <1>2, <1>3 DEF May, Logins, Profiles
  <2>. QED  BY <2>1, <2>2, <1>4 DEF SideOf, RequestRow
<1>7. raced' = raced
  BY <1>5 DEF Step
<1>8. /\ staticIp' \in [Customers -> Ips \cup {Nobody}]
      /\ staticIp'[u] = ip
      /\ \A v \in Customers : v # u => staticIp'[v] = staticIp[v]
  BY <1>1, <1>5, <1>6 DEF Types
<1>9. /\ Sound(r) /\ \A v, attr : RowsOf(v, attr)' = RowsOf(v, attr)
  <2>1. OneAddress'
    BY <1>1, <1>5, <1>8 DEF OneAddress
  <2>. QED  BY <2>1, <1>1, <1>2, <1>4, <1>5, <1>6, <1>7, <1>8, RowsStay DEF Types
<1>10. Effect(c, op, u, ip)
  BY <1>2, <1>3, <1>5, <1>8, <1>9 DEF Effect
<1>11. 0 \in Nat /\ 0 <= lastId'
  BY <1>1, <1>5 DEF Types
<1>12. c.do \notin {"find", "kick", "refuse"}
  BY <1>2, <1>3
<1>. QED  BY <1>2, <1>4, <1>5, <1>9, <1>10, <1>11, <1>12, StatementKeeps

\* The disconnect packet is sent.
LEMMA KickKeeps ==
    ASSUME AccessIInv, NEW r \in Requests, SendKick(r)
    PROVE  AccessIInv' /\ Sound(r)
<1>1. Types /\ OrdersInv /\ OneAddress
  BY DEF AccessIInv
<1>2. r \in Running /\ Next1(r).do = "kick"
  BY DEF SendKick, At, Running
<1>3. PICK c : c = req[r].todo[1] /\ c = Next1(r)
  BY <1>1, <1>2, AtWork
<1>4. PICK u, op, ip : Is(r, op, u, ip, c) /\ u = req[r].user /\ op = req[r].op
                                          /\ ip = req[r].ip
  BY <1>3 DEF Is
<1>5. /\ Step(r, 0) /\ kick' = [kick EXCEPT ![u] = "sent"]
      /\ UNCHANGED <<rows, lastId, group, staticIp, online>>
  BY <1>4 DEF SendKick
<1>6. u \in Customers /\ req[r].side = "login"
  <2>1. u \in Customers /\ req[r].side = SideOf(op) /\ May(op, ip, c)
    BY <1>1, <1>2, <1>3, <1>4, AtWork
  <2>2. op \in Logins
    BY <2>1, <1>2, <1>3 DEF May, Logins, Profiles
  <2>. QED  BY <2>1, <2>2 DEF SideOf
<1>7. raced' = raced
  BY <1>5 DEF Step
<1>8. /\ kick' \in [Customers -> {"none", "sent", "arrived", "lost"}]
      /\ kick'[u] = "sent"
      /\ \A v \in Customers : v # u => kick'[v] = kick[v]
  BY <1>1, <1>5, <1>6 DEF Types
<1>9. /\ Sound(r) /\ \A v, attr : RowsOf(v, attr)' = RowsOf(v, attr)
  <2>1. OneAddress'
    BY <1>1, <1>5 DEF OneAddress
  <2>. QED  BY <2>1, <1>1, <1>2, <1>4, <1>5, <1>6, <1>7, <1>8, RowsStay DEF Types
<1>10. Effect(c, op, u, ip)
  BY <1>2, <1>3, <1>5, <1>9 DEF Effect
<1>11. 0 \in Nat /\ 0 <= lastId'
  BY <1>1, <1>5 DEF Types
<1>12. c.do \notin {"find", "refuse"}
  BY <1>2, <1>3
<1>. QED  BY <1>2, <1>4, <1>5, <1>8, <1>9, <1>10, <1>11, <1>12, StatementKeeps

\* The rows of one attribute of the customer change, the other tables do not.
LEMMA TablesStay ==
    ASSUME AccessIInv, NEW r \in Running, NEW c \in Command, c = Next1(r),
           UNCHANGED <<group, staticIp, online, kick, raced>>,
           rows' \subseteq Row, lastId' \in Nat, lastId <= lastId',
           Numbered', OneRow',
           \A x \in rows' :
              \/ x.id > lastId
              \/ \E y \in rows : y.id = x.id /\ y.user = x.user /\ y.attr = x.attr,
           \A v, attr : v # req[r].user \/ attr # c.attr =>
                           RowsOf(v, attr)' = RowsOf(v, attr)
    PROVE  Sound(r)
<1>1. Types /\ OrdersInv
  BY DEF AccessIInv
<1>2. Side(c.attr) = req[r].side
  BY <1>1, AtWork, OwnSide
<1>3. \A v, s : v # req[r].user \/ s # req[r].side => Kept(v, s)
  BY <1>2 DEF Kept
<1>4. OneAddress'
  BY DEF AccessIInv, OneAddress
<1>. QED  BY <1>1, <1>3, <1>4 DEF Sound, Types

\* The rows of an attribute are deleted.
LEMMA DeleteKeeps ==
    ASSUME AccessIInv, NEW r \in Requests, Delete(r)
    PROVE  AccessIInv' /\ Sound(r)
<1>1. Types /\ OrdersInv /\ Numbered /\ OneRow
  BY DEF AccessIInv
<1>2. r \in Running /\ Next1(r).do = "delete"
  BY DEF Delete, At, Running
<1>3. PICK c \in Command : c = req[r].todo[1] /\ c = Next1(r)
  BY <1>1, <1>2, AtWork
<1>4. PICK u, op, ip : Is(r, op, u, ip, c) /\ u = req[r].user
  BY <1>3 DEF Is
<1>5. /\ Step(r, 0) /\ rows' = rows \ RowsOf(u, c.attr)
      /\ UNCHANGED <<lastId, group, staticIp, online, kick>>
  BY <1>3, <1>4 DEF Delete
<1>6. raced' = raced
  BY <1>5 DEF Step
<1>7. /\ RowsOf(u, c.attr)' = {}
      /\ \A v, attr : v # u \/ attr # c.attr => RowsOf(v, attr)' = RowsOf(v, attr)
  BY <1>5 DEF RowsOf
<1>8. Sound(r)
  <2>1. rows' \subseteq rows
    BY <1>5
  <2>2. Numbered'
    BY <2>1, <1>1, <1>5 DEF Numbered
  <2>3. OneRow'
    BY <2>1, <1>1, <1>6 DEF OneRow
  <2>4. rows' \subseteq Row /\ lastId' \in Nat /\ lastId <= lastId'
    BY <2>1, <1>1, <1>5 DEF Types
  <2>. QED  BY <2>1, <2>2, <2>3, <2>4, <1>2, <1>3, <1>4, <1>5, <1>6, <1>7, TablesStay
<1>9. Effect(c, op, u, ip)
  BY <1>2, <1>3, <1>5, <1>7 DEF Effect
<1>10. 0 \in Nat /\ 0 <= lastId'
  BY <1>1, <1>5 DEF Types
<1>11. c.do \notin {"find", "kick", "refuse"}
  BY <1>2, <1>3
<1>. QED  BY <1>2, <1>4, <1>5, <1>8, <1>9, <1>10, <1>11, StatementKeeps

\* A row is inserted.
LEMMA InsertKeeps ==
    ASSUME AccessIInv, NEW r \in Requests, Write(r), req[r].found = 0
    PROVE  AccessIInv' /\ Sound(r)
<1>1. Types /\ OrdersInv /\ Numbered /\ OneRow /\ FoundInv /\ AloneInv
  BY DEF AccessIInv
<1>2. r \in Running /\ Next1(r).do = "write"
  BY DEF Write, At, Running
<1>3. PICK c \in Command : c = req[r].todo[1] /\ c = Next1(r)
  BY <1>1, <1>2, AtWork
<1>4. PICK u, op, ip : Is(r, op, u, ip, c) /\ u = req[r].user /\ op = req[r].op
                                          /\ ip = req[r].ip
  BY <1>3 DEF Is
<1>5. /\ u \in Customers /\ req[r].side = SideOf(op) /\ May(op, ip, c)
      /\ op \in Ops /\ ip \in Ips \cup {Nobody}
  <2>1. req[r] \in RequestRow
    BY <1>1, <1>2, AtWork
  <2>. QED  BY <2>1, <1>1, <1>2, <1>3, <1>4, AtWork DEF RequestRow
<1>6. PICK new : new = [id |-> lastId + 1, user |-> u, attr |-> c.attr,
                        value |-> Value(r)]
  OBVIOUS
<1>7. /\ Step(r, 0) /\ rows' = rows \cup {new} /\ lastId' = lastId + 1
      /\ UNCHANGED <<group, staticIp, online, kick>>
  BY <1>3, <1>4, <1>6 DEF Write
<1>8. raced' = raced
  BY <1>7 DEF Step
<1>9. /\ new.id = lastId + 1 /\ new.user = u /\ new.attr = c.attr
      /\ new.value = Value(r) /\ (c.attr = "ip" => new.value = ip)
  BY <1>3, <1>4, <1>6 DEF Value
<1>10. lastId \in Nat /\ \A x \in rows : x.id \in Nat /\ x.id <= lastId
  BY <1>1 DEF Types, Row, Numbered
<1>11. new \in Row
  <2>1. Value(r) \in Ips \cup Requests
    <3>1. CASE c.attr = "ip"
      <4>1. ip # Nobody
        BY <1>2, <1>3, <1>5, <3>1 DEF May, Profiles
      <4>. QED  BY <4>1, <3>1, <1>3, <1>4, <1>5 DEF Value
    <3>. QED  BY <3>1, <1>3 DEF Value
  <2>2. lastId + 1 \in Nat \ {0} /\ c.attr \in Lines \cup Replies
    BY <1>10 DEF Command, Attrs
  <2>. QED  BY <2>1, <2>2, <1>5, <1>6 DEF Row
<1>12. /\ new \in RowsOf(u, c.attr)'
       /\ \A v, attr : v # u \/ attr # c.attr => RowsOf(v, attr)' = RowsOf(v, attr)
  BY <1>7, <1>9 DEF RowsOf
<1>13. Sound(r)
  <2>1. rows' \subseteq Row /\ lastId' \in Nat /\ lastId <= lastId'
    BY <1>1, <1>7, <1>10, <1>11 DEF Types
  <2>2. Numbered'
    <3>1. \A x \in rows : x.id # new.id
      BY <1>9, <1>10
    <3>. QED  BY <3>1, <1>1, <1>7, <1>9, <1>10 DEF Numbered
  <2>3. OneRow'
    <3>1. <<u, Side(c.attr)>> \notin raced => RowsOf(u, c.attr) = {}
      <4>1. Side(c.attr) = req[r].side
        BY <1>5, OwnSide
      <4>2. <<u, Side(c.attr)>> \notin raced => req[r].alone
        BY <4>1, <1>1, <1>2, <1>4 DEF AloneInv
      <4>. QED  BY <4>2, <1>1, <1>2, <1>3, <1>4 DEF FoundInv, Found
    <3>2. \A x \in rows : x.user = u /\ x.attr = c.attr
                             => <<u, Side(c.attr)>> \in raced
      BY <3>1 DEF RowsOf
    <3>. QED  BY <3>2, <1>1, <1>7, <1>8, <1>9 DEF OneRow
  <2>4. \A x \in rows' :
           \/ x.id > lastId
           \/ \E y \in rows : y.id = x.id /\ y.user = x.user /\ y.attr = x.attr
    BY <1>7, <1>9, <1>10
  <2>. QED  BY <2>1, <2>2, <2>3, <2>4, <1>2, <1>3, <1>4, <1>7, <1>8, <1>12, TablesStay
<1>14. Effect(c, op, u, ip)
  BY <1>2, <1>3, <1>7, <1>9, <1>12 DEF Effect
<1>15. 0 \in Nat /\ 0 <= lastId'
  BY <1>7, <1>10
<1>16. c.do \notin {"find", "kick", "refuse"}
  BY <1>2, <1>3
<1>. QED  BY <1>2, <1>4, <1>7, <1>13, <1>14, <1>15, <1>16, StatementKeeps

\* The row that was found is updated, if it is still there.
LEMMA UpdateKeeps ==
    ASSUME AccessIInv, NEW r \in Requests, Write(r), req[r].found # 0
    PROVE  AccessIInv' /\ Sound(r)
<1>1. Types /\ OrdersInv /\ Numbered /\ OneRow /\ FoundInv /\ AloneInv
  BY DEF AccessIInv
<1>2. r \in Running /\ Next1(r).do = "write"
  BY DEF Write, At, Running
<1>3. PICK c \in Command : c = req[r].todo[1] /\ c = Next1(r)
  BY <1>1, <1>2, AtWork
<1>4. PICK u, op, ip : Is(r, op, u, ip, c) /\ u = req[r].user /\ op = req[r].op
                                          /\ ip = req[r].ip
  BY <1>3 DEF Is
<1>5. /\ u \in Customers /\ May(op, ip, c) /\ ip \in Ips \cup {Nobody}
  <2>1. req[r] \in RequestRow
    BY <1>1, <1>2, AtWork
  <2>. QED  BY <2>1, <1>1, <1>2, <1>3, <1>4, AtWork DEF RequestRow
<1>6. PICK id, value : id = req[r].found /\ value = Value(r)
  OBVIOUS
<1>7. /\ Step(r, 0) /\ lastId' = lastId
      /\ rows' = {IF x.id = id THEN [x EXCEPT !.value = value] ELSE x : x \in rows}
      /\ UNCHANGED <<group, staticIp, online, kick>>
  BY <1>6 DEF Write
<1>8. raced' = raced
  BY <1>7 DEF Step
<1>9. value \in Ips \cup Requests /\ (c.attr = "ip" => value = ip)
  <2>1. CASE c.attr = "ip"
    <3>1. ip # Nobody
      BY <1>2, <1>3, <1>5, <2>1 DEF May, Profiles
    <3>. QED  BY <3>1, <2>1, <1>3, <1>4, <1>5, <1>6 DEF Value
  <2>. QED  BY <2>1, <1>3, <1>6 DEF Value
<1>10. \A x \in rows : x.id = id => x.user = u /\ x.attr = c.attr
  BY <1>1, <1>2, <1>3, <1>4, <1>6 DEF FoundInv, Found
<1>11. PICK Upd : Upd = [x \in rows |->
                           IF x.id = id THEN [x EXCEPT !.value = value] ELSE x]
  OBVIOUS
<1>12. /\ rows' = {Upd[x] : x \in rows}
       /\ \A x \in rows : /\ Upd[x] \in Row
                          /\ Upd[x].id = x.id /\ Upd[x].user = x.user
                          /\ Upd[x].attr = x.attr
                          /\ x.id # id => Upd[x] = x
                          /\ x.id = id => Upd[x].value = value
  <2>1. \A x \in rows : x \in Row
    BY <1>1 DEF Types
  <2>2. rows' = {Upd[x] : x \in rows}
    BY <1>7, <1>11
  <2>3. ASSUME NEW x \in rows
        PROVE  /\ Upd[x] \in Row
               /\ Upd[x].id = x.id /\ Upd[x].user = x.user
               /\ Upd[x].attr = x.attr
               /\ x.id # id => Upd[x] = x
               /\ x.id = id => Upd[x].value = value
    <3>1. x \in Row
      BY <2>1
    <3>. QED  BY <3>1, <1>9, <1>11 DEF Row
  <2>. QED  BY <2>2, <2>3
<1>13. \A v, attr : v # u \/ attr # c.attr => RowsOf(v, attr)' = RowsOf(v, attr)
  <2>1. ASSUME NEW v, NEW attr, v # u \/ attr # c.attr
        PROVE  RowsOf(v, attr)' = RowsOf(v, attr)
    <3>1. \A x \in rows : x.user = v /\ x.attr = attr => Upd[x] = x
      BY <2>1, <1>10, <1>12
    <3>2. ASSUME NEW x \in RowsOf(v, attr) PROVE x \in RowsOf(v, attr)'
      BY <3>1, <3>2, <1>12 DEF RowsOf
    <3>3. ASSUME NEW x \in RowsOf(v, attr)' PROVE x \in RowsOf(v, attr)
      <4>1. PICK y \in rows : x = Upd[y]
        BY <3>3, <1>12 DEF RowsOf
      <4>2. y.user = v /\ y.attr = attr
        BY <4>1, <3>3, <1>12 DEF RowsOf
      <4>. QED  BY <4>1, <4>2, <3>1 DEF RowsOf
    <3>. QED  BY <3>2, <3>3
  <2>. QED  BY <2>1
<1>14. Sound(r)
  <2>1. rows' \subseteq Row /\ lastId' \in Nat /\ lastId <= lastId'
    BY <1>1, <1>7, <1>12 DEF Types
  <2>2. Numbered'
    BY <1>1, <1>7, <1>12 DEF Numbered
  <2>3. OneRow'
    BY <1>1, <1>8, <1>12 DEF OneRow
  <2>4. \A x \in rows' :
           \E y \in rows : y.id = x.id /\ y.user = x.user /\ y.attr = x.attr
    BY <1>12
  <2>. QED  BY <2>1, <2>2, <2>3, <2>4, <1>2, <1>3, <1>4, <1>7, <1>8, <1>13, TablesStay
<1>15. ASSUME req[r].alone
       PROVE  Effect(c, op, u, ip)
  <2>1. PICK x \in rows : x.id = id
    BY <1>1, <1>2, <1>3, <1>6, <1>15 DEF FoundInv, Found
  <2>2. Upd[x] \in RowsOf(u, c.attr)' /\ Upd[x].value = value
    BY <2>1, <1>10, <1>12 DEF RowsOf
  <2>. QED  BY <2>2, <1>2, <1>3, <1>7, <1>9, <1>13 DEF Effect
<1>16. 0 \in Nat /\ 0 <= lastId'
  BY <1>1, <1>7 DEF Types
<1>17. c.do \notin {"find", "kick", "refuse"}
  BY <1>2, <1>3
<1>. QED  BY <1>2, <1>4, <1>7, <1>14, <1>15, <1>16, <1>17, StatementKeeps

-------------------------------------------------------------------------------
(***************************************************************************)
(* The lists of statements the handlers run.                               *)
(***************************************************************************)

\* What a list has to be when its request begins.
Plan(op, ip, todo) ==
    /\ todo \in Seq(Command) /\ todo # << >>
    /\ Orders(op, ip, todo)
    /\ todo[1].do # "write"
    /\ \A u \in Customers : Reached(op, u, ip, todo)

\* activate, with and without an end.
LEMMA ActivatePlan ==
    ASSUME NEW ip, NEW expires \in BOOLEAN
    PROVE  Plan(IF expires THEN "activate until" ELSE "activate", ip,
                ActivateStatements(expires))
<1> DEFINE s == ActivateStatements(expires)
<1>1. /\ s \in Seq(Command)
      /\ Len(s) = IF expires THEN 6 ELSE 4
      /\ s[1] = Do("find", "password") /\ s[2] = Do("write", "password")
      /\ s[3] = Do("delete", "reject") /\ s[4] = Do("delete", "expiry")
      /\ expires => s[5] = Do("find", "expiry") /\ s[6] = Do("write", "expiry")
  <2>1. \A do \in {"find", "write", "delete"}, attr \in Lines : Do(do, attr) \in Command
    BY DEF Do, Command, Attrs
  <2>2. {"password", "reject", "expiry"} \subseteq Lines
    BY DEF Lines
  <2>. QED  BY <2>1, <2>2 DEF ActivateStatements, Upsert
<1>2. \A what, attr : Do(what, attr).do = what /\ Do(what, attr).attr = attr
  BY DEF Do
<1> HIDE DEF s
<1>3. CASE expires
  <2>1. Len(s) = 6
    BY <1>1, <1>3
  <2>2. \A i \in 1..6 : InOrder("activate until", ip, s, i)
    <3>1. ASSUME NEW i \in 1..6 PROVE InOrder("activate until", ip, s, i)
      <4>1. i = 1 \/ i = 2 \/ i = 3 \/ i = 4 \/ i = 5 \/ i = 6
        BY <3>1
      <4>2. /\ s[1].do = "find" /\ s[1].attr = "password"
            /\ s[2].do = "write" /\ s[2].attr = "password"
            /\ s[3].do = "delete" /\ s[3].attr = "reject"
            /\ s[4].do = "delete" /\ s[4].attr = "expiry"
            /\ s[5].do = "find" /\ s[5].attr = "expiry"
            /\ s[6].do = "write" /\ s[6].attr = "expiry"
        BY <1>1, <1>2, <1>3
      <4>3. May("activate until", ip, s[i])
        BY <4>1, <4>2 DEF May
      <4>4. CASE i = 1 \/ i = 3 \/ i = 5
        BY <4>2, <4>3, <4>4 DEF InOrder
      <4>6. CASE i = 2 \/ i = 6
        <5>1. IF i = 2 THEN i - 1 = 1 ELSE i - 1 = 5
          BY <4>6
        <5>. QED  BY <4>2, <4>3, <4>6, <5>1 DEF InOrder
      <4>5. CASE i = 4
        <5>1. 6 \in i+1..Len(s)
          BY <4>5, <2>1
        <5>. QED  BY <4>2, <4>3, <4>5, <5>1 DEF InOrder
      <4>. QED  BY <4>1, <4>4, <4>5, <4>6
    <3>. QED  BY <3>1
  <2>3. /\ Due(s, "write", "password") /\ Due(s, "delete", "reject")
        /\ Due(s, "write", "expiry")
    BY <1>1, <1>2, <1>3, <2>1 DEF Due
  <2>4. /\ \A u \in Customers : Reached("activate until", u, ip, s)
        /\ Last("activate until", ip, s[6]) /\ s[1].do # "write" /\ s # << >>
    BY <1>1, <1>2, <2>1, <2>3 DEF Reached, Last, Profiles
  <2>5. Plan("activate until", ip, s)
    BY <1>1, <2>1, <2>2, <2>4 DEF Plan, Orders
  <2>. QED  BY <1>3, <2>5 DEF s
<1>4. CASE ~expires
  <2>1. Len(s) = 4
    BY <1>1, <1>4
  <2>2. \A i \in 1..4 : InOrder("activate", ip, s, i)
    <3>1. ASSUME NEW i \in 1..4 PROVE InOrder("activate", ip, s, i)
      <4>1. i \in {1, 2, 3, 4}
        BY <3>1
      <4>. QED  BY <4>1, <1>1, <1>2, <1>4, <2>1 DEF InOrder, May
    <3>. QED  BY <3>1
  <2>3. /\ Due(s, "write", "password") /\ Due(s, "delete", "reject")
        /\ Due(s, "delete", "expiry")
    BY <1>1, <1>2, <1>4, <2>1 DEF Due
  <2>4. /\ \A u \in Customers : Reached("activate", u, ip, s)
        /\ Last("activate", ip, s[4]) /\ s[1].do # "write" /\ s # << >>
    BY <1>1, <1>2, <2>1, <2>3 DEF Reached, Last, Profiles
  <2>5. Plan("activate", ip, s)
    BY <1>1, <2>1, <2>2, <2>4 DEF Plan, Orders
  <2>. QED  BY <1>4, <2>5 DEF s
<1>. QED  BY <1>3, <1>4

\* deactivate.
LEMMA DeactivatePlan ==
    ASSUME NEW ip
    PROVE  Plan("deactivate", ip, Upsert("reject") \o <<Do("kick", "reject")>>)
<1> DEFINE s == Upsert("reject") \o <<Do("kick", "reject")>>
<1>1. /\ s \in Seq(Command) /\ Len(s) = 3
      /\ s[1] = Do("find", "reject") /\ s[2] = Do("write", "reject")
      /\ s[3] = Do("kick", "reject")
  <2>1. \A do \in {"find", "write", "kick"} : Do(do, "reject") \in Command
    BY DEF Do, Command, Attrs, Lines
  <2>. QED  BY <2>1 DEF Upsert
<1>2. \A what, attr : Do(what, attr).do = what /\ Do(what, attr).attr = attr
  BY DEF Do
<1> HIDE DEF s
<1>3. \A i \in 1..3 : InOrder("deactivate", ip, s, i)
  <2>1. ASSUME NEW i \in 1..3 PROVE InOrder("deactivate", ip, s, i)
    <3>1. i \in {1, 2, 3}
      BY <2>1
    <3>. QED  BY <3>1, <1>1, <1>2 DEF InOrder, May
  <2>. QED  BY <2>1
<1>4. Due(s, "write", "reject")
  BY <1>1, <1>2 DEF Due
<1>5. /\ \A u \in Customers : Reached("deactivate", u, ip, s)
      /\ Last("deactivate", ip, s[3]) /\ s[1].do # "write" /\ s # << >>
  BY <1>1, <1>2, <1>4 DEF Reached, Last, Profiles
<1>. QED  BY <1>1, <1>3, <1>5 DEF Plan, Orders, s

\* changePlan.
LEMMA RatePlan ==
    ASSUME NEW ip
    PROVE  Plan("rate", ip, Upsert("rate"))
<1> DEFINE s == Upsert("rate")
<1>1. /\ s \in Seq(Command) /\ Len(s) = 2
      /\ s[1] = Do("find", "rate") /\ s[2] = Do("write", "rate")
  <2>1. \A do \in {"find", "write"} : Do(do, "rate") \in Command
    BY DEF Do, Command, Attrs, Replies
  <2>. QED  BY <2>1 DEF Upsert
<1>2. \A what, attr : Do(what, attr).do = what /\ Do(what, attr).attr = attr
  BY DEF Do
<1> HIDE DEF s
<1>3. \A i \in 1..2 : InOrder("rate", ip, s, i)
  <2>1. ASSUME NEW i \in 1..2 PROVE InOrder("rate", ip, s, i)
    <3>1. i \in {1, 2}
      BY <2>1
    <3>. QED  BY <3>1, <1>1, <1>2 DEF InOrder, May
  <2>. QED  BY <2>1
<1>4. /\ \A u \in Customers : Reached("rate", u, ip, s)
      /\ Last("rate", ip, s[2]) /\ s[1].do # "write" /\ s # << >>
  BY <1>1, <1>2 DEF Reached, Last, Profiles
<1>. QED  BY <1>1, <1>3, <1>4 DEF Plan, Orders, s

\* A list with statements.
LEMMA NotEmpty ==
    ASSUME NEW s, Len(s) # 0
    PROVE  s # << >>
<1>1. Len(<< >>) = 0
  OBVIOUS
<1>. QED  BY <1>1

\* assignProfile without a fixed address.
LEMMA DynamicPlan ==
    ASSUME NEW ip, NEW op \in {"none", "dynamic"}
    PROVE  Plan(op, ip, <<Do("leave", "ip"), Do("join", "ip"), Do("delete", "rate")>>
                           \o DynamicStatements)
<1> DEFINE s == <<Do("leave", "ip"), Do("join", "ip"), Do("delete", "rate")>>
                   \o DynamicStatements
<1>1. /\ s \in Seq(Command) /\ Len(s) = 5
      /\ s[1] = Do("leave", "ip") /\ s[2] = Do("join", "ip")
      /\ s[3] = Do("delete", "rate") /\ s[4] = Do("delete", "ip")
      /\ s[5] = Do("delete", "netmask")
  <2>1. \A do \in {"leave", "join", "delete"}, attr \in Replies : Do(do, attr) \in Command
    BY DEF Do, Command, Attrs
  <2>2. {"ip", "rate", "netmask"} \subseteq Replies
    BY DEF Replies
  <2>. QED  BY <2>1, <2>2 DEF DynamicStatements
<1> HIDE DEF s
<1>2. /\ s[1].do = "leave" /\ s[1].attr = "ip"
      /\ s[2].do = "join" /\ s[2].attr = "ip"
      /\ s[3].do = "delete" /\ s[3].attr = "rate"
      /\ s[4].do = "delete" /\ s[4].attr = "ip"
      /\ s[5].do = "delete" /\ s[5].attr = "netmask"
  BY <1>1 DEF Do
<1>3. \A i \in 1..5 : InOrder(op, ip, s, i)
  <2>1. ASSUME NEW i \in 1..5 PROVE InOrder(op, ip, s, i)
    <3>1. i = 1 \/ i = 2 \/ i = 3 \/ i = 4 \/ i = 5
      BY <2>1
    <3>2. May(op, ip, s[i])
      BY <3>1, <1>2 DEF May, Profiles
    <3>3. CASE i = 1
      <4>1. i < Len(s) /\ i + 1 = 2
        BY <3>3, <1>1
      <4>. QED  BY <3>2, <3>3, <4>1, <1>2 DEF InOrder
    <3>4. CASE i # 1
      BY <3>1, <3>2, <3>4, <1>2 DEF InOrder
    <3>. QED  BY <3>3, <3>4
  <2>. QED  BY <2>1
<1>4. Due(s, "join", "ip") /\ Due(s, "delete", "rate") /\ Due(s, "delete", "ip")
  BY <1>1, <1>2 DEF Due
<1>5. \A u \in Customers : Reached(op, u, ip, s)
  BY <1>4 DEF Reached, Profiles
<1>6. Last(op, ip, s[5]) /\ s[1].do # "write"
  BY <1>2 DEF Last
<1>7. s # << >>
  BY <1>1, NotEmpty
<1>. QED  BY <1>1, <1>3, <1>5, <1>6, <1>7 DEF Plan, Orders, s

\* assignProfile of a static profile without its address.
LEMMA RefusedPlan ==
    Plan("static", Nobody,
         <<Do("leave", "ip"), Do("join", "ip"), Do("delete", "rate")>>
            \o <<Do("refuse", "ip")>>)
<1> DEFINE s == <<Do("leave", "ip"), Do("join", "ip"), Do("delete", "rate")>>
                   \o <<Do("refuse", "ip")>>
<1>1. /\ s \in Seq(Command) /\ Len(s) = 4
      /\ s[1] = Do("leave", "ip") /\ s[2] = Do("join", "ip")
      /\ s[3] = Do("delete", "rate") /\ s[4] = Do("refuse", "ip")
  <2>1. \A do \in {"leave", "join", "delete", "refuse"}, attr \in Replies :
           Do(do, attr) \in Command
    BY DEF Do, Command, Attrs
  <2>2. {"ip", "rate"} \subseteq Replies
    BY DEF Replies
  <2>. QED  BY <2>1, <2>2
<1> HIDE DEF s
<1>2. /\ s[1].do = "leave" /\ s[1].attr = "ip"
      /\ s[2].do = "join" /\ s[2].attr = "ip"
      /\ s[3].do = "delete" /\ s[3].attr = "rate"
      /\ s[4].do = "refuse" /\ s[4].attr = "ip"
  BY <1>1 DEF Do
<1>3. \A i \in 1..4 : InOrder("static", Nobody, s, i)
  <2>1. ASSUME NEW i \in 1..4 PROVE InOrder("static", Nobody, s, i)
    <3>1. i = 1 \/ i = 2 \/ i = 3 \/ i = 4
      BY <2>1
    <3>2. May("static", Nobody, s[i])
      BY <3>1, <1>2 DEF May, Profiles
    <3>3. CASE i = 1
      <4>1. i < Len(s) /\ i + 1 = 2
        BY <3>3, <1>1
      <4>. QED  BY <3>2, <3>3, <4>1, <1>2 DEF InOrder
    <3>4. CASE i # 1
      BY <3>1, <3>2, <3>4, <1>2 DEF InOrder
    <3>. QED  BY <3>3, <3>4
  <2>. QED  BY <2>1
<1>4. Due(s, "join", "ip") /\ Due(s, "delete", "rate")
  BY <1>1, <1>2 DEF Due
<1>5. \A u \in Customers : Reached("static", u, Nobody, s)
  BY <1>4 DEF Reached, Profiles
<1>6. Last("static", Nobody, s[4]) /\ s[1].do # "write"
  BY <1>2 DEF Last
<1>7. s # << >>
  BY <1>1, NotEmpty
<1>. QED  BY <1>1, <1>3, <1>5, <1>6, <1>7 DEF Plan, Orders, s

\* assignProfile of a static profile with its address.
LEMMA StaticPlan ==
    ASSUME NEW ip, ip # Nobody, NEW mask \in BOOLEAN
    PROVE  Plan("static", ip,
                <<Do("leave", "ip"), Do("join", "ip"), Do("delete", "rate")>>
                   \o StaticStatements(mask))
<1> DEFINE s == <<Do("leave", "ip"), Do("join", "ip"), Do("delete", "rate")>>
                   \o StaticStatements(mask)
           n == IF mask THEN 10 ELSE 9
<1>1. /\ s \in Seq(Command) /\ Len(s) = n
      /\ s[1] = Do("leave", "ip") /\ s[2] = Do("join", "ip")
      /\ s[3] = Do("delete", "rate") /\ s[4] = Do("clash", "ip")
      /\ s[5] = Do("rowClash", "ip") /\ s[6] = Do("save", "ip")
      /\ s[7] = Do("find", "ip") /\ s[8] = Do("write", "ip")
      /\ ~mask => s[9] = Do("delete", "netmask")
      /\ mask => s[9] = Do("find", "netmask") /\ s[10] = Do("write", "netmask")
  <2>1. \A do \in {"leave", "join", "delete", "clash", "rowClash", "save", "find", "write"},
           attr \in Replies : Do(do, attr) \in Command
    BY DEF Do, Command, Attrs
  <2>2. {"ip", "rate", "netmask"} \subseteq Replies
    BY DEF Replies
  <2>. QED  BY <2>1, <2>2 DEF StaticStatements, Upsert
<1> HIDE DEF s
<1>2. /\ s[1].do = "leave" /\ s[1].attr = "ip"
      /\ s[2].do = "join" /\ s[2].attr = "ip"
      /\ s[3].do = "delete" /\ s[3].attr = "rate"
      /\ s[4].do = "clash" /\ s[4].attr = "ip"
      /\ s[5].do = "rowClash" /\ s[5].attr = "ip"
      /\ s[6].do = "save" /\ s[6].attr = "ip"
      /\ s[7].do = "find" /\ s[7].attr = "ip"
      /\ s[8].do = "write" /\ s[8].attr = "ip"
      /\ s[9].attr = "netmask" /\ s[9].do = IF mask THEN "find" ELSE "delete"
      /\ mask => s[10].do = "write" /\ s[10].attr = "netmask"
  BY <1>1 DEF Do
<1>3. \A i \in 1..n : InOrder("static", ip, s, i)
  <2>1. ASSUME NEW i \in 1..n PROVE InOrder("static", ip, s, i)
    <3>1. \/ i = 1 \/ i = 2 \/ i = 3 \/ i = 4 \/ i = 5
          \/ i = 6 \/ i = 7 \/ i = 8 \/ i = 9 \/ (i = 10 /\ mask)
      BY <2>1
    <3>2. May("static", ip, s[i])
      BY <3>1, <1>2 DEF May, Profiles
    <3>3. CASE i = 1
      <4>1. i < Len(s) /\ i + 1 = 2
        BY <3>3, <1>1
      <4>. QED  BY <3>2, <3>3, <4>1, <1>2 DEF InOrder
    <3>4. CASE i = 8 \/ (i = 10 /\ mask)
      <4>1. IF i = 8 THEN i - 1 = 7 ELSE i - 1 = 9
        BY <3>4
      <4>. QED  BY <3>2, <3>4, <4>1, <1>2 DEF InOrder
    <3>5. CASE i \notin {1, 8, 10}
      <4>1. s[i].do # "write" /\ s[i].do # "leave"
        BY <3>1, <3>5, <1>2
      <4>. QED  BY <3>2, <4>1 DEF InOrder
    <3>. QED  BY <3>1, <3>3, <3>4, <3>5
  <2>. QED  BY <2>1
<1>4. /\ Due(s, "join", "ip") /\ Due(s, "delete", "rate") /\ Due(s, "save", "ip")
      /\ Due(s, "write", "ip")
  BY <1>1, <1>2 DEF Due
<1>5. /\ \A u \in Customers : Reached("static", u, ip, s)
      /\ Last("static", ip, s[n]) /\ s[1].do # "write" /\ s # << >>
  BY <1>1, <1>2, <1>4 DEF Reached, Last, Profiles
<1>. QED  BY <1>1, <1>3, <1>5 DEF Plan, Orders, s

-------------------------------------------------------------------------------
(***************************************************************************)
(* The steps.                                                              *)
(***************************************************************************)

\* A request that begins with a list that is planned keeps the invariant.
LEMMA StartKeeps ==
    ASSUME AccessIInv, NEW r \in Requests, NEW u \in Customers,
           NEW op \in Ops \ {"idle"}, NEW ip \in Ips \cup {Nobody},
           NEW mask \in BOOLEAN, NEW todo, Plan(op, ip, todo),
           NEW side, side = SideOf(op), Start(r, u, side, op, ip, mask, todo)
    PROVE  AccessIInv'
<1>1. /\ Types /\ Numbered /\ OrdersInv /\ FoundInv /\ ReachedInv /\ AloneInv
      /\ SettledInv /\ OneRow /\ OneAddress
  BY DEF AccessIInv
<1>2. /\ todo \in Seq(Command) /\ todo # << >> /\ Orders(op, ip, todo)
      /\ todo[1].do # "write" /\ Reached(op, u, ip, todo)
  BY DEF Plan
<1>3. side \in Sides
  BY DEF SideOf, Sides
<1>4. UNCHANGED <<rows, lastId, group, staticIp, online, kick>>
  BY DEF Start
<1>5. /\ r \notin Running
      /\ begun' = begun \cup {r} /\ begun' \subseteq Requests
  BY <1>1 DEF Start, OrdersInv, Ordered, Types
<1>6. PICK rivals : rivals = Rivals(u, side)
  OBVIOUS
<1>7. PICK new : new = [op |-> op, user |-> u, side |-> side, todo |-> todo,
                        found |-> 0, ip |-> ip, mask |-> mask,
                        alone |-> rivals = {}]
  OBVIOUS
<1>8. /\ new \in RequestRow /\ new.op = op /\ new.user = u /\ new.side = side
      /\ new.todo = todo /\ new.found = 0 /\ new.ip = ip
      /\ new.alone <=> rivals = {}
  <2>1. (rivals = {}) \in BOOLEAN
    OBVIOUS
  <2>2. new \in RequestRow
    BY <2>1, <1>2, <1>3, <1>7 DEF RequestRow
  <2>. QED  BY <2>2, <1>7
<1>9. /\ req' = [q \in Requests |->
                   IF q = r THEN new
                   ELSE IF q \in rivals THEN [req[q] EXCEPT !.alone = FALSE]
                                        ELSE req[q]]
      /\ settled' = [settled EXCEPT ![u][side] = Free]
      /\ raced' = IF rivals = {} THEN raced ELSE raced \cup {<<u, side>>}
  BY <1>6, <1>7 DEF Start
<1>10. /\ req' \in [Requests -> RequestRow] /\ req'[r] = new
       /\ \A q \in Requests \ {r} :
             /\ req'[q].todo = req[q].todo /\ req'[q].user = req[q].user
             /\ req'[q].side = req[q].side /\ req'[q].op = req[q].op
             /\ req'[q].ip = req[q].ip /\ req'[q].found = req[q].found
             /\ req'[q].alone <=> req[q].alone /\ q \notin rivals
  <2>1. \A q \in Requests : req[q] \in RequestRow
    BY <1>1 DEF Types
  <2>2. ASSUME NEW q \in Requests \ {r}
        PROVE  /\ req'[q] \in RequestRow
               /\ req'[q].todo = req[q].todo /\ req'[q].user = req[q].user
               /\ req'[q].side = req[q].side /\ req'[q].op = req[q].op
               /\ req'[q].ip = req[q].ip /\ req'[q].found = req[q].found
               /\ req'[q].alone <=> req[q].alone /\ q \notin rivals
    <3>1. req[q] \in RequestRow
      BY <2>1
    <3>2. CASE q \in rivals
      <4>1. req'[q] = [req[q] EXCEPT !.alone = FALSE]
        BY <2>2, <3>2, <1>9
      <4>. QED  BY <3>1, <3>2, <4>1 DEF RequestRow
    <3>3. CASE q \notin rivals
      <4>1. req'[q] = req[q]
        BY <2>2, <3>3, <1>9
      <4>. QED  BY <3>1, <3>3, <4>1 DEF RequestRow
    <3>. QED  BY <3>2, <3>3
  <2>3. req'[r] = new
    BY <1>9
  <2>. QED  BY <2>2, <2>3, <1>8, <1>9
<1>11. Running' = Running \cup {r}
  BY <1>2, <1>8, <1>10 DEF Running
<1>12. \A q \in Running : q \in Requests /\ q # r
  BY <1>5 DEF Running
<1>13. /\ settled' \in [Customers -> [Sides -> RequestRow]]
       /\ settled'[u][side].op = "idle"
       /\ \A v \in Customers, s \in Sides :
             v # u \/ s # side => settled'[v][s] = settled[v][s]
  <2>1. Free \in RequestRow /\ Free.op = "idle"
    BY DEF Free, RequestRow, Ops, Sides
  <2>2. settled \in [Customers -> [Sides -> RequestRow]]
    BY <1>1 DEF Types
  <2> HIDE DEF Free
  <2>. QED  BY <2>1, <2>2, <1>3, <1>9
<1>14. Types' /\ Numbered' /\ OneAddress'
  BY <1>1, <1>4, <1>5, <1>10, <1>13 DEF Types, Numbered, OneAddress
<1>15. OneRow'
  BY <1>1, <1>4, <1>9 DEF OneRow
<1>16. OrdersInv'
  <2>1. Ordered(r)'
    <3>1. 0 <= lastId'
      BY <1>1, <1>4 DEF Types
    <3>2. r \in begun'
      BY <1>5
    <3>. QED  BY <3>1, <3>2, <1>2, <1>8, <1>10 DEF Ordered
  <2>2. ASSUME NEW q \in Running
        PROVE  Ordered(q)'
    <3>1. Ordered(q)
      BY <1>1 DEF OrdersInv
    <3>. QED  BY <3>1, <1>4, <1>5, <1>10, <1>12 DEF Ordered
  <2>. QED  BY <2>1, <2>2, <1>11 DEF OrdersInv
<1>17. FoundInv'
  <2>1. Found(r)'
    BY <1>2, <1>8, <1>10 DEF Found
  <2>2. ASSUME NEW q \in Running
        PROVE  Found(q)'
    <3>1. Found(q)
      BY <1>1 DEF FoundInv
    <3>. QED  BY <3>1, <1>4, <1>10, <1>12 DEF Found, RowsOf
  <2>. QED  BY <2>1, <2>2, <1>11 DEF FoundInv
<1>18. \A v, s : Kept(v, s)
  BY <1>4 DEF Kept, RowsOf
<1>19. ReachedInv'
  <2>1. Achieved(r)'
    <3>1. Reached(op, u, ip, todo)'
      BY <1>2, <1>18, KeptReached
    <3>. QED  BY <3>1, <1>8, <1>10 DEF Achieved
  <2>2. ASSUME NEW q \in Running
        PROVE  Achieved(q)'
    <3>1. Achieved(q) /\ req[q].op \in Ops
      BY <1>1, AtWork DEF ReachedInv
    <3>. QED  BY <3>1, <1>10, <1>12, <1>18, KeptReached DEF Achieved
  <2>. QED  BY <2>1, <2>2, <1>11 DEF ReachedInv
<1>20. AloneInv'
  <2>1. \A q \in Running : req[q].user = u /\ req[q].side = side <=> q \in rivals
    BY <1>6 DEF Rivals
  <2>2. \A p, q \in Running' :
           /\ p # q /\ req'[p].user = req'[q].user /\ req'[p].side = req'[q].side
           => ~req'[p].alone
    <3>1. ASSUME NEW q \in Running, req'[r].user = req'[q].user,
                 req'[r].side = req'[q].side
          PROVE  ~req'[r].alone /\ ~req'[q].alone
      BY <3>1, <2>1, <1>8, <1>10, <1>12
    <3>2. ASSUME NEW p \in Running, NEW q \in Running, p # q,
                 req'[p].user = req'[q].user, req'[p].side = req'[q].side
          PROVE  ~req'[p].alone
      BY <3>2, <1>1, <1>10, <1>12 DEF AloneInv
    <3>. QED  BY <3>1, <3>2, <1>11
  <2>3. \A q \in Running' :
           req'[q].alone \/ <<req'[q].user, req'[q].side>> \in raced'
    <3>1. req'[r].alone \/ <<req'[r].user, req'[r].side>> \in raced'
      BY <1>8, <1>9, <1>10
    <3>2. ASSUME NEW q \in Running
          PROVE  req'[q].alone \/ <<req'[q].user, req'[q].side>> \in raced'
      <4>1. req[q].alone \/ <<req[q].user, req[q].side>> \in raced
        BY <1>1 DEF AloneInv
      <4>2. CASE q \in rivals
        BY <4>2, <2>1, <1>9, <1>10, <1>12
      <4>3. CASE q \notin rivals
        BY <4>1, <4>3, <1>9, <1>10, <1>12
      <4>. QED  BY <4>2, <4>3
    <3>. QED  BY <3>1, <3>2, <1>11
  <2>. QED  BY <2>2, <2>3 DEF AloneInv
<1>21. SettledInv'
  <2> SUFFICES ASSUME NEW v \in Customers, NEW s \in Sides PROVE Settled(v, s)'
    BY DEF SettledInv
  <2>1. CASE v = u /\ s = side
    BY <2>1, <1>13 DEF Settled
  <2>2. CASE v # u \/ s # side
    <3>1. Settled(v, s) /\ settled[v][s].op \in Ops
      BY <1>1 DEF SettledInv, Types, RequestRow
    <3>2. settled'[v][s] = settled[v][s]
      BY <2>2, <1>13
    <3>3. PICK done, holder : done = settled[v][s].op /\ holder = settled[v][s].ip
      OBVIOUS
    <3>5. done # "idle" => SideOf(done) = s /\ Done(done, v, holder)
      BY <3>1, <3>3 DEF Settled
    <3>6. done # "idle" => Done(done, v, holder)'
      BY <3>1, <3>3, <3>5, <1>4, <1>18, KeptDone
    <3>4. ASSUME settled[v][s].op # "idle"
          PROVE  \A q \in Running' : req'[q].user # v \/ req'[q].side # s
      BY <3>1, <3>4, <2>2, <1>8, <1>10, <1>11, <1>12 DEF Settled
    <3>. QED  BY <3>2, <3>3, <3>4, <3>5, <3>6 DEF Settled
  <2>. QED  BY <2>1, <2>2
<1>. QED
  BY <1>14, <1>15, <1>16, <1>17, <1>19, <1>20, <1>21 DEF AccessIInv

\* A session begins or ends, or a packet is lost: the tables stay.
LEMMA NetworkKeeps ==
    ASSUME AccessIInv,
           UNCHANGED <<rows, lastId, group, staticIp, req, settled, raced, begun>>,
           online' \in [Customers -> BOOLEAN],
           kick' \in [Customers -> {"none", "sent", "arrived", "lost"}],
           \A u \in Customers : settled[u]["login"].op = "deactivate" =>
              (online'[u] => kick'[u] \in {"sent", "lost"})
    PROVE  AccessIInv'
<1>1. /\ Types /\ Numbered /\ OrdersInv /\ FoundInv /\ ReachedInv /\ AloneInv
      /\ SettledInv /\ OneRow /\ OneAddress
  BY DEF AccessIInv
<1>2. Types' /\ Numbered' /\ OneRow' /\ OneAddress'
  BY <1>1 DEF Types, Numbered, OneRow, OneAddress
<1>3. Running' = Running
  BY DEF Running
<1>4. OrdersInv' /\ FoundInv' /\ AloneInv'
  BY <1>1, <1>3 DEF OrdersInv, Ordered, FoundInv, Found, RowsOf, AloneInv
<1>5. \A v, s : Kept(v, s)
  BY DEF Kept, RowsOf
<1>6. ReachedInv'
  <2>1. ASSUME NEW q \in Running
        PROVE  Achieved(q)'
    <3>1. Achieved(q) /\ req[q].op \in Ops
      BY <1>1, AtWork DEF ReachedInv
    <3>. QED  BY <3>1, <1>5, KeptReached DEF Achieved
  <2>. QED  BY <2>1, <1>3 DEF ReachedInv
<1>7. SettledInv'
  <2> SUFFICES ASSUME NEW u \in Customers, NEW s \in Sides PROVE Settled(u, s)'
    BY DEF SettledInv
  <2>1. PICK op, ip : op = settled[u][s].op /\ ip = settled[u][s].ip
    OBVIOUS
  <2>2. op \in Ops
    BY <1>1, <2>1 DEF Types, RequestRow
  <2>3. op # "idle" => /\ SideOf(op) = s /\ Done(op, u, ip)
                       /\ \A r \in Running : req[r].user # u \/ req[r].side # s
    BY <1>1, <2>1 DEF SettledInv, Settled
  <2>4. ASSUME op # "idle" PROVE Done(op, u, ip)'
    <3>1. Reached(op, u, ip, << >>)'
      BY <2>2, <2>3, <2>4, <1>5, KeptReached DEF Done
    <3>2. op = "deactivate" => s = "login"
      BY <2>3, <2>4 DEF SideOf, Logins
    <3>. QED  BY <3>1, <3>2, <2>1, <2>3, <2>4 DEF Done
  <2>. QED  BY <2>1, <2>3, <2>4, <1>3 DEF Settled
<1>. QED  BY <1>2, <1>4, <1>6, <1>7 DEF AccessIInv

\* What a deactivation that ran alone leaves.
LEMMA Rejected ==
    ASSUME AccessIInv, NEW u \in Customers, settled[u]["login"].op = "deactivate"
    PROVE  /\ RowsOf(u, "reject") # {}
           /\ online[u] => kick[u] \in {"sent", "lost"}
<1>1. Settled(u, "login")
  BY DEF AccessIInv, SettledInv, Sides
<1>2. Done("deactivate", u, settled[u]["login"].ip)
  BY <1>1 DEF Settled
<1>. QED  BY <1>2, NothingDue DEF Done, Reached

LEMMA SessionSteps ==
    ASSUME AccessIInv, NEW u \in Customers,
           Connect(u) \/ KickArrives(u) \/ KickLost(u)
    PROVE  AccessIInv'
<1>1. /\ online \in [Customers -> BOOLEAN]
      /\ kick \in [Customers -> {"none", "sent", "arrived", "lost"}]
  BY DEF AccessIInv, Types
<1>2. \A v \in Customers : settled[v]["login"].op = "deactivate" =>
         /\ RowsOf(v, "reject") # {}
         /\ online[v] => kick[v] \in {"sent", "lost"}
  BY Rejected
<1>3. UNCHANGED <<rows, lastId, group, staticIp, req, settled, raced, begun>>
  BY DEF Connect, KickArrives, KickLost
<1>4. CASE Connect(u)
  <2>1. /\ online' \in [Customers -> BOOLEAN] /\ kick' = kick
        /\ \A v \in Customers : v # u => online'[v] = online[v]
    BY <1>1, <1>4 DEF Connect
  <2>2. settled[u]["login"].op # "deactivate"
    BY <1>2, <1>4 DEF Connect, Admits
  <2>3. \A v \in Customers : settled[v]["login"].op = "deactivate" =>
           (online'[v] => kick'[v] \in {"sent", "lost"})
    BY <2>1, <2>2, <1>2
  <2>. QED  BY <2>1, <2>3, <1>1, <1>3, NetworkKeeps
<1>5. CASE KickArrives(u)
  <2>1. /\ online' \in [Customers -> BOOLEAN]
        /\ kick' \in [Customers -> {"none", "sent", "arrived", "lost"}]
        /\ online'[u] = FALSE
        /\ \A v \in Customers : v # u => online'[v] = online[v] /\ kick'[v] = kick[v]
    BY <1>1, <1>5 DEF KickArrives
  <2>2. \A v \in Customers : settled[v]["login"].op = "deactivate" =>
           (online'[v] => kick'[v] \in {"sent", "lost"})
    BY <2>1, <1>2
  <2>. QED  BY <2>1, <2>2, <1>3, NetworkKeeps
<1>6. CASE KickLost(u)
  <2>1. /\ online' = online
        /\ kick' \in [Customers -> {"none", "sent", "arrived", "lost"}]
        /\ kick'[u] = "lost"
        /\ \A v \in Customers : v # u => kick'[v] = kick[v]
    BY <1>1, <1>6 DEF KickLost
  <2>2. \A v \in Customers : settled[v]["login"].op = "deactivate" =>
           (online'[v] => kick'[v] \in {"sent", "lost"})
    BY <2>1, <1>2
  <2>. QED  BY <2>1, <2>2, <1>1, <1>3, NetworkKeeps
<1>. QED  BY <1>4, <1>5, <1>6

\* The requests.
LEMMA RequestKeeps ==
    ASSUME AccessIInv, NEW r \in Requests, NEW u \in Customers, Request(r, u)
    PROVE  AccessIInv'
<1>1. ASSUME NEW expires \in BOOLEAN, Activate(r, u, expires)
      PROVE  AccessIInv'
  <2>1. PICK op, todo : /\ op = IF expires THEN "activate until" ELSE "activate"
                        /\ todo = ActivateStatements(expires)
    OBVIOUS
  <2>2. Plan(op, Nobody, todo)
    BY <2>1, ActivatePlan
  <2>3. op \in Ops \ {"idle"} /\ SideOf(op) = "login"
    BY <2>1 DEF Ops, Logins, SideOf
  <2>4. Start(r, u, "login", op, Nobody, FALSE, todo)
    BY <1>1, <2>1 DEF Activate
  <2>. QED  BY <2>2, <2>3, <2>4, StartKeeps
<1>2. ASSUME Deactivate(r, u)
      PROVE  AccessIInv'
  <2>1. PICK todo : todo = Upsert("reject") \o <<Do("kick", "reject")>>
    OBVIOUS
  <2>2. Plan("deactivate", Nobody, todo)
    BY <2>1, DeactivatePlan
  <2>3. "deactivate" \in Ops \ {"idle"} /\ SideOf("deactivate") = "login"
    BY DEF Ops, Logins, SideOf
  <2>4. Start(r, u, "login", "deactivate", Nobody, FALSE, todo)
    BY <1>2, <2>1 DEF Deactivate
  <2>. QED  BY <2>2, <2>3, <2>4, StartKeeps
<1>3. ASSUME ChangePlan(r, u)
      PROVE  AccessIInv'
  <2>1. PICK todo : todo = Upsert("rate")
    OBVIOUS
  <2>2. Plan("rate", Nobody, todo)
    BY <2>1, RatePlan
  <2>3. "rate" \in Ops \ {"idle"} /\ SideOf("rate") = "profile"
    BY DEF Ops, Logins, SideOf
  <2>4. Start(r, u, "profile", "rate", Nobody, FALSE, todo)
    BY <1>3, <2>1 DEF ChangePlan
  <2>. QED  BY <2>2, <2>3, <2>4, StartKeeps
<1>4. \A op \in Profiles : op \in Ops \ {"idle"} /\ SideOf(op) = "profile"
  BY DEF Ops, Logins, Profiles, SideOf
<1> DEFINE first == <<Do("leave", "ip"), Do("join", "ip"), Do("delete", "rate")>>
<1>5. ASSUME NEW op \in Profiles \ {"static"}, AssignProfile(r, u, op, Nobody, FALSE)
      PROVE  AccessIInv'
  <2>1. PICK todo : todo = first \o DynamicStatements
    OBVIOUS
  <2>2. op \in {"none", "dynamic"}
    BY DEF Profiles
  <2>3. Plan(op, Nobody, todo)
    BY <2>1, <2>2, DynamicPlan
  <2>4. Start(r, u, "profile", op, Nobody, FALSE, todo)
    BY <1>5, <2>1, <2>2 DEF AssignProfile
  <2>. QED  BY <2>3, <2>4, <1>4, StartKeeps
<1>6. "static" \in Profiles
  BY DEF Profiles
<1>7. ASSUME AssignProfile(r, u, "static", Nobody, FALSE)
      PROVE  AccessIInv'
  <2>1. PICK todo : todo = first \o <<Do("refuse", "ip")>>
    OBVIOUS
  <2>2. Plan("static", Nobody, todo)
    BY <2>1, RefusedPlan
  <2>3. Start(r, u, "profile", "static", Nobody, FALSE, todo)
    BY <1>7, <2>1 DEF AssignProfile
  <2>. QED  BY <2>2, <2>3, <1>4, <1>6, StartKeeps
<1>8. ASSUME NEW ip \in Ips, NEW mask \in BOOLEAN,
             AssignProfile(r, u, "static", ip, mask)
      PROVE  AccessIInv'
  <2>1. PICK todo : todo = first \o StaticStatements(mask)
    OBVIOUS
  <2>2. ip # Nobody
    BY AccessAssumption
  <2>3. Plan("static", ip, todo)
    BY <2>1, <2>2, StaticPlan
  <2>4. Start(r, u, "profile", "static", ip, mask, todo)
    BY <1>8, <2>1, <2>2 DEF AssignProfile
  <2>. QED  BY <2>3, <2>4, <1>4, <1>6, StartKeeps
<1>. QED  BY <1>1, <1>2, <1>3, <1>5, <1>7, <1>8 DEF Request

\* No request has been made.
LEMMA InitHolds ==
    ASSUME Init
    PROVE  AccessIInv
<1>1. Free \in RequestRow /\ Free.op = "idle" /\ Free.todo = << >>
  BY DEF Free, RequestRow, Ops, Sides
<1> HIDE DEF Free
<1>2. /\ rows = {} /\ lastId = 0 /\ begun = {}
      /\ group = [u \in Customers |-> "none"]
      /\ staticIp = [u \in Customers |-> Nobody]
      /\ online = [u \in Customers |-> FALSE]
      /\ kick = [u \in Customers |-> "none"]
      /\ req = [r \in Requests |-> Free]
      /\ settled = [u \in Customers |-> [s \in Sides |-> Free]]
  BY DEF Init
<1>3. Running = {}
  BY <1>1, <1>2 DEF Running
<1>4. Types
  BY <1>1, <1>2 DEF Types, Profiles
<1>5. SettledInv
  BY <1>1, <1>2 DEF SettledInv, Settled
<1>6. Numbered /\ OneRow /\ OneAddress
  BY <1>2 DEF Numbered, OneRow, OneAddress
<1>. QED
  BY <1>3, <1>4, <1>5, <1>6
     DEF AccessIInv, OrdersInv, FoundInv, ReachedInv, AloneInv

\* Every step keeps the invariant.
LEMMA NextKeeps ==
    ASSUME AccessIInv, [Next]_vars
    PROVE  AccessIInv'
<1>1. ASSUME UNCHANGED vars
      PROVE  AccessIInv'
  <2>1. \A u \in Customers : settled[u]["login"].op = "deactivate" =>
           (online[u] => kick[u] \in {"sent", "lost"})
    BY Rejected
  <2>2. /\ UNCHANGED <<rows, lastId, group, staticIp, req, settled, raced, begun>>
        /\ online' = online /\ kick' = kick
    BY <1>1 DEF vars
  <2>. QED  BY <2>1, <2>2, NetworkKeeps DEF AccessIInv, Types
<1>2. ASSUME NEW r \in Requests, Statement(r)
      PROVE  AccessIInv'
  <2>1. CASE Write(r)
    BY <2>1, InsertKeeps, UpdateKeeps
  <2>2. CASE Clash(r)
    <3>1. r \in Running
      BY <2>2 DEF Clash, At, Running
    <3>. QED  BY <2>2, <3>1, GiveKeeps DEF Clash
  <2>. QED
    BY <1>2, <2>1, <2>2, FindKeeps, DeleteKeeps, LeaveKeeps, JoinKeeps, CheckKeeps,
       SaveKeeps, KickKeeps DEF Statement
<1>3. ASSUME NEW r \in Requests, Fail(r)
      PROVE  AccessIInv'
  BY <1>3, GiveKeeps DEF Fail
<1>. QED
  BY <1>1, <1>2, <1>3, RequestKeeps, SessionSteps DEF Next, Finished

-------------------------------------------------------------------------------
(***************************************************************************)
(* The theorems.                                                           *)
(***************************************************************************)

\* The inductive invariant holds.
LEMMA InvHolds == Spec => []AccessIInv
<1>1. Init => AccessIInv
  BY InitHolds
<1>2. AccessIInv /\ [Next]_vars => AccessIInv'
  BY NextKeeps
<1>. QED  BY <1>1, <1>2, PTL DEF Spec

\* What stands is done.
LEMMA StandsDone ==
    ASSUME AccessIInv, NEW u \in Customers, NEW s \in Sides,
           settled[u][s].op # "idle"
    PROVE  /\ SideOf(settled[u][s].op) = s
           /\ Done(settled[u][s].op, u, settled[u][s].ip)
BY DEF AccessIInv, SettledInv, Settled

\* There is one row for an attribute of a customer, unless requests overlapped
\* on that side of the customer.
LEMMA RowsAreOne ==
    ASSUME AccessIInv
    PROVE  TwinRowsAreRaces
<1>1. ASSUME NEW u \in Customers, NEW attr \in Lines \cup Replies,
             <<u, Side(attr)>> \notin raced
      PROVE  ~(Cardinality(RowsOf(u, attr)) > 1)
  <2>1. \A x, y \in RowsOf(u, attr) : x = y
    BY <1>1 DEF AccessIInv, OneRow, RowsOf
  <2>2. CASE RowsOf(u, attr) = {}
    BY <2>2, FS_EmptySet
  <2>3. CASE RowsOf(u, attr) # {}
    <3>1. PICK x : x \in RowsOf(u, attr)
      BY <2>3
    <3>2. RowsOf(u, attr) = {x}
      BY <2>1, <3>1
    <3>3. Cardinality({x}) = 1
      BY FS_Singleton
    <3>. QED  BY <3>2, <3>3
  <2>. QED  BY <2>2, <2>3
<1>. QED  BY <1>1 DEF TwinRowsAreRaces

\* The rows FreeRADIUS reads are well formed, and a second row for an attribute
\* of a customer comes from requests that overlapped on that customer, never
\* from a retry or a failure: without a unique key, looking before writing is
\* enough for requests that come one after the other (radius.service.ts:122-148).
THEOREM RowsAreRight == Spec => []AccessInv
<1>1. AccessIInv => AccessTypeOK
  <2> SUFFICES ASSUME AccessIInv PROVE AccessTypeOK
    OBVIOUS
  <2>1. Types /\ Numbered
    BY DEF AccessIInv
  <2>. QED  BY <2>1 DEF Types, Numbered, AccessTypeOK
<1>2. AccessIInv => AccessInv
  BY <1>1, RowsAreOne DEF AccessInv
<1>. QED  BY <1>2, InvHolds, PTL

\* Who may log in is what the last activation or deactivation that met no other
\* one decided, whatever earlier ones left behind by overlapping or by failing
\* half way; a customer whose service is off is online only while the disconnect
\* packet is under way or because it was lost (radius.service.ts:150-207).
THEOREM DecisionsHold == Spec => []LastDecisionHolds
<1>1. ASSUME AccessIInv, NEW u \in Customers
      PROVE  LET last == settled[u]["login"] IN
             /\ last.op = "activate" => Admits(u) /\ RowsOf(u, "expiry") = {}
             /\ last.op = "activate until" => Admits(u) /\ RowsOf(u, "expiry") # {}
             /\ last.op = "deactivate" =>
                   ~Admits(u) /\ (online[u] => kick[u] \in {"sent", "lost"})
  <2>1. PICK op, ip : op = settled[u]["login"].op /\ ip = settled[u]["login"].ip
    OBVIOUS
  <2>2. op # "idle" => Done(op, u, ip)
    BY <1>1, <2>1, StandsDone DEF Sides
  <2>3. op # "idle" => Reached(op, u, ip, << >>)
    BY <2>2 DEF Done
  <2>4. CASE op \in {"activate", "activate until"}
    <3>1. Admits(u)
      BY <2>3, <2>4, NothingDue DEF Reached, Admits
    <3>. QED  BY <3>1, <2>1, <2>3, <2>4, NothingDue DEF Reached
  <2>5. CASE op = "deactivate"
    BY <1>1, <2>1, <2>5, Rejected DEF Admits
  <2>. QED  BY <2>1, <2>4, <2>5
<1>2. AccessIInv => LastDecisionHolds
  BY <1>1 DEF LastDecisionHolds
<1>. QED  BY <1>2, InvHolds, PTL

\* What a profile assignment that ran alone leaves.
LEMMA Assigned ==
    ASSUME AccessIInv, NEW u \in Customers
    PROVE  LET last == settled[u]["profile"] IN
           /\ last.op \in Profiles => /\ group[u] = last.op
                                      /\ RowsOf(u, "rate") = {}
           /\ last.op \in {"none", "dynamic"} => RowsOf(u, "ip") = {}
           /\ last.op = "static" => /\ staticIp[u] = last.ip /\ last.ip # Nobody
                                    /\ \E x \in RowsOf(u, "ip") : x.value = last.ip
<1>1. PICK op, ip : op = settled[u]["profile"].op /\ ip = settled[u]["profile"].ip
  OBVIOUS
<1>2. op # "idle" => Done(op, u, ip)
  BY <1>1, StandsDone DEF Sides
<1>3. op # "idle" => Reached(op, u, ip, << >>) /\ (op = "static" => ip # Nobody)
  BY <1>2 DEF Done
<1>4. op \in Profiles => op # "idle" /\ group[u] = op /\ RowsOf(u, "rate") = {}
  BY <1>3, NothingDue DEF Reached, Profiles
<1>5. op \in {"none", "dynamic"} => RowsOf(u, "ip") = {}
  BY <1>3, NothingDue DEF Reached
<1>6. op = "static" => /\ staticIp[u] = ip /\ ip # Nobody
                       /\ \E x \in RowsOf(u, "ip") : x.value = ip
  BY <1>3, NothingDue DEF Reached
<1>. QED  BY <1>1, <1>4, <1>5, <1>6

\* The group and the fixed address are those of the last profile assignment
\* that met no other one: all seven to ten statements of it have run, in the
\* absence of a transaction, and nothing that came before shows through
\* (radius.service.ts:340-401).
THEOREM AssignmentsHold == Spec => []LastProfileHolds
<1>1. AccessIInv => LastProfileHolds
  BY Assigned DEF LastProfileHolds, Profiles
<1>. QED  BY <1>1, InvHolds, PTL

\* What the last request that met no other one asked for holds, about the login
\* and about the profile, although neither runs in a transaction
\* (radius.service.ts:150-207, 340-401).
THEOREM LastRequestsHold == Spec => []LastRequestHolds
<1>1. LastDecisionHolds /\ LastProfileHolds => LastRequestHolds
  BY DEF LastRequestHolds
<1>. QED  BY <1>1, DecisionsHold, AssignmentsHold, PTL

\* Two customers whose last requests were assignments that were carried out are
\* not given the same address, unless requests overlapped on one of the two:
\* the check of the reply rows can be passed by both, the unique column cannot
\* (radius.service.ts:366-391).
THEOREM AddressesAreHeldOnce == Spec => []OneHolderPerAddress
<1>1. ASSUME AccessIInv, NEW x \in rows, NEW y \in rows,
             x.attr = "ip", y.attr = "ip", x.user # y.user,
             settled[x.user]["profile"].op \in Profiles,
             settled[y.user]["profile"].op \in Profiles,
             {<<x.user, "profile">>, <<y.user, "profile">>} \cap raced = {}
      PROVE  x.value # y.value
  <2>1. x.user \in Customers /\ y.user \in Customers
    BY <1>1 DEF AccessIInv, Types, Row
  <2>2. Side("ip") = "profile"
    BY DEF Side, Lines
  <2>3. ASSUME NEW z \in {x, y}
        PROVE  /\ staticIp[z.user] = z.value
               /\ z.value # Nobody
    <3>1. z \in rows /\ z.attr = "ip" /\ z.user \in Customers
      BY <1>1, <2>1
    <3>2. z \in RowsOf(z.user, "ip")
      BY <3>1 DEF RowsOf
    <3>3. settled[z.user]["profile"].op \in Profiles
      BY <1>1
    <3>4. settled[z.user]["profile"].op = "static"
      BY <1>1, <3>1, <3>2, <3>3, Assigned DEF Profiles
    <3>5. /\ staticIp[z.user] = settled[z.user]["profile"].ip
          /\ settled[z.user]["profile"].ip # Nobody
          /\ \E w \in RowsOf(z.user, "ip") : w.value = settled[z.user]["profile"].ip
      BY <1>1, <3>1, <3>4, Assigned
    <3>6. <<z.user, Side("ip")>> \notin raced
      BY <1>1, <2>2
    <3>7. \A w \in RowsOf(z.user, "ip") : w = z
      BY <1>1, <3>1, <3>6 DEF RowsOf, AccessIInv, OneRow
    <3>. QED  BY <3>5, <3>7
  <2>4. OneAddress
    BY <1>1 DEF AccessIInv
  <2>. QED  BY <1>1, <2>1, <2>3, <2>4 DEF OneAddress
<1>2. AccessIInv => OneHolderPerAddress
  BY <1>1 DEF OneHolderPerAddress
<1>. QED  BY <1>2, InvHolds, PTL

-------------------------------------------------------------------------------
(***************************************************************************)
(* The statements implement Switch.                                        *)
(***************************************************************************)

\* Nothing is decided about the service of a customer a request is at work on.
LEMMA OpenAtWork ==
    ASSUME AccessIInv, NEW r \in Running, req[r].side = "login"
    PROVE  settled[req[r].user]["login"].op = "idle"
<1>1. req[r].user \in Customers
  BY AtWork DEF AccessIInv
<1>2. Settled(req[r].user, "login")
  BY <1>1 DEF AccessIInv, SettledInv, Sides
<1>. QED  BY <1>2 DEF Settled

\* A decision that has settled is about who may log in.
LEMMA StandsThen ==
    ASSUME AccessIInv', NEW u \in Customers
    PROVE  /\ settled'[u]["login"].op \in {"activate", "activate until"} => Admits(u)'
           /\ settled'[u]["login"].op = "deactivate" => ~Admits(u)'
<1>1. PICK op, ip : op = settled'[u]["login"].op /\ ip = settled'[u]["login"].ip
  OBVIOUS
<1>2. Settled(u, "login")'
  BY DEF AccessIInv, SettledInv, Sides
<1>3. op # "idle" => Reached(op, u, ip, << >>)'
  BY <1>1, <1>2 DEF Settled, Done
<1>4. op \in {"activate", "activate until"} => Admits(u)'
  BY <1>3, NothingDue DEF Reached, Admits
<1>5. op = "deactivate" => ~Admits(u)'
  BY <1>3, NothingDue DEF Reached, Admits
<1>. QED  BY <1>1, <1>4, <1>5

\* The tables as Switch sees them.
Decided == [u \in Customers |-> Decision(settled[u]["login"].op)]
Admitted == {u \in Customers : Admits(u)}

\* A step of Switch about customer u, or none.
OfSwitch(u) ==
    \/ SW!Ask(u) \/ SW!Waver(u) \/ SW!TurnOn(u) \/ SW!TurnOff(u) \/ SW!Send(u)
    \/ SW!Login(u) \/ SW!Arrive(u) \/ SW!Lose(u)
    \/ UNCHANGED SW!vars

\* A statement of a request: nothing changes about the service of others, nor of
\* the customer's own when the request is about the profile.
LEMMA StatementElsewhere ==
    ASSUME AccessIInv, NEW r \in Running, NEW f \in Nat, Step(r, f), Sound(r),
           NEW v \in Customers, v # req[r].user \/ req[r].side = "profile"
    PROVE  /\ Admits(v)' = Admits(v)
           /\ settled'[v]["login"] = settled[v]["login"]
           /\ kick'[v] = kick[v]
<1>1. v # req[r].user \/ "login" # req[r].side
  OBVIOUS
<1>2. Types /\ OrdersInv
  BY DEF AccessIInv
<1>3. Kept(v, "login") /\ kick'[v] = kick[v]
  BY <1>1 DEF Sound, Sides
<1>4. RowsOf(v, "password")' = RowsOf(v, "password")
      /\ RowsOf(v, "reject")' = RowsOf(v, "reject")
  BY <1>3 DEF Kept, Attrs, Side, Lines
<1>5. settled'[v]["login"] = settled[v]["login"]
  BY <1>1, <1>2, StepSettles DEF Sides
<1>. QED  BY <1>3, <1>4, <1>5 DEF Admits

\* A statement of a request about the profile changes nothing Switch speaks of.
LEMMA ProfileSteps ==
    ASSUME AccessIInv, NEW r \in Running, NEW f \in Nat, Step(r, f), Sound(r),
           kick' \in [Customers -> {"none", "sent", "arrived", "lost"}],
           req[r].side = "profile"
    PROVE  UNCHANGED SW!vars
<1>1. \A v \in Customers : /\ Admits(v)' = Admits(v)
                           /\ settled'[v]["login"] = settled[v]["login"]
                           /\ kick'[v] = kick[v]
  BY StatementElsewhere
<1>2. Decided' = Decided
  BY <1>1 DEF Decided
<1>3. Admitted' = Admitted
  BY <1>1 DEF Admitted
<1>4. kick' = kick
  BY <1>1 DEF AccessIInv, Types
<1>5. online' = online
  BY DEF Sound
<1>. QED  BY <1>2, <1>3, <1>4, <1>5 DEF SW!vars, Decided, Admitted

\* A statement of a request about the service lets it waver, unless it is the
\* last of a request that was alone.
LEMMA LoginSteps ==
    ASSUME AccessIInv, AccessIInv', NEW r \in Running, NEW f \in Nat, Step(r, f),
           Sound(r), req[r].side = "login",
           \/ Next1(r).do # "kick" /\ kick' = kick
           \/ /\ Next1(r).do = "kick" /\ rows' = rows
              /\ kick' = [kick EXCEPT ![req[r].user] = "sent"]
    PROVE  OfSwitch(req[r].user)
<1>1. PICK u, op : u = req[r].user /\ op = req[r].op
  OBVIOUS
<1> SUFFICES OfSwitch(u)
  BY <1>1
<1>2. /\ Types /\ OrdersInv /\ r \in Requests /\ u \in Customers
      /\ req[r].todo \in Seq(Command) /\ req[r].todo # << >>
      /\ Next1(r) = req[r].todo[1] /\ May(op, req[r].ip, Next1(r))
      /\ Orders(op, req[r].ip, req[r].todo)
      /\ op \in Logins
  <2>1. Types /\ OrdersInv
    BY DEF AccessIInv
  <2>2. op # "idle" /\ "login" = SideOf(op)
    BY <1>1, <2>1, AtWork
  <2>. QED  BY <1>1, <2>1, <2>2, AtWork DEF Ordered, SideOf
<1>3. Decided[u] = "open"
  BY <1>1, <1>2, OpenAtWork DEF Decided, Decision
<1>4. \A v \in Customers : v # u => /\ Admits(v)' = Admits(v)
                                   /\ settled'[v]["login"] = settled[v]["login"]
  BY <1>1, StatementElsewhere
<1>5. Decided' = [Decided EXCEPT ![u] = Decision(settled'[u]["login"].op)]
  BY <1>2, <1>4 DEF Decided
<1>6. Admitted' = IF Admits(u)' THEN Admitted \cup {u} ELSE Admitted \ {u}
  <2>1. \A v \in Customers : v # u => (v \in Admitted' <=> v \in Admitted)
    BY <1>4 DEF Admitted
  <2>2. u \in Admitted' <=> Admits(u)'
    BY <1>2 DEF Admitted
  <2>3. Admitted \subseteq Customers /\ Admitted' \subseteq Customers
    BY DEF Admitted
  <2>. QED  BY <1>2, <2>1, <2>2, <2>3
<1>7. online' = online
  BY DEF Sound
<1>8. CASE req[r].alone /\ Tail(req[r].todo) = << >>
  <2>1. settled'[u]["login"].op = op
    BY <1>1, <1>2, <1>8, StepSettles
  <2>2. /\ op \in {"activate", "activate until"} => Admits(u)'
        /\ op = "deactivate" => ~Admits(u)'
    BY <1>2, <2>1, StandsThen
  <2>3. CASE op \in {"activate", "activate until"}
    <3>1. Next1(r).do # "kick"
      BY <1>2, <2>3 DEF May, Profiles
    <3>2. kick' = kick
      BY <3>1
    <3>3. Decided' = [Decided EXCEPT ![u] = "on"]
      BY <1>5, <2>1, <2>3 DEF Decision
    <3>4. Admitted' = Admitted \cup {u}
      BY <1>6, <2>2, <2>3
    <3>5. SW!TurnOn(u)
      BY <1>3, <1>7, <3>2, <3>3, <3>4 DEF SW!TurnOn, Decided, Admitted
    <3>. QED  BY <3>5 DEF OfSwitch
  <2>4. CASE op = "deactivate"
    <3>1. Next1(r).do = "kick"
      <4>1. Len(req[r].todo) = 1
        BY <1>2, <1>8, Tails
      <4>2. Last(op, req[r].ip, req[r].todo[Len(req[r].todo)])
        BY <1>2 DEF Orders
      <4>. QED  BY <1>2, <2>4, <4>1, <4>2 DEF Last
    <3>2. kick' = [kick EXCEPT ![u] = "sent"]
      BY <1>1, <3>1
    <3>3. Decided' = [Decided EXCEPT ![u] = "off"]
      BY <1>5, <2>1, <2>4 DEF Decision
    <3>4. Admitted' = Admitted \ {u}
      BY <1>6, <2>2, <2>4
    <3>5. SW!TurnOff(u)
      BY <1>3, <1>7, <3>2, <3>3, <3>4 DEF SW!TurnOff, Decided, Admitted
    <3>. QED  BY <3>5 DEF OfSwitch
  <2>. QED  BY <1>2, <2>3, <2>4 DEF Logins
<1>9. CASE ~(req[r].alone /\ Tail(req[r].todo) = << >>)
  <2>1. settled'[u]["login"] = settled[u]["login"]
    BY <1>1, <1>2, <1>9, StepSettles
  <2>2. Decided' = Decided
    BY <1>2, <1>4, <2>1 DEF Decided
  <2>3. CASE Next1(r).do # "kick" /\ kick' = kick
    <3>1. Admitted' \in {Admitted \cup {u}, Admitted \ {u}}
      BY <1>6
    <3>2. SW!Waver(u)
      BY <1>3, <1>7, <2>2, <2>3, <3>1 DEF SW!Waver, Decided, Admitted
    <3>. QED  BY <3>2 DEF OfSwitch
  <2>4. CASE rows' = rows /\ kick' = [kick EXCEPT ![u] = "sent"]
    <3>1. Admitted' = Admitted
      BY <2>4 DEF Admitted, Admits, RowsOf
    <3>2. SW!Send(u)
      BY <1>3, <1>7, <2>2, <2>4, <3>1 DEF SW!Send, Decided, Admitted
    <3>. QED  BY <3>2 DEF OfSwitch
  <2>. QED  BY <1>1, <2>3, <2>4
<1>. QED  BY <1>8, <1>9

\* A request begins: nothing stands for its customer until it has ended.
LEMMA BeginSteps ==
    ASSUME AccessIInv, NEW r, NEW u \in Customers, NEW side \in Sides, NEW op,
           NEW ip, NEW mask, NEW todo, Start(r, u, side, op, ip, mask, todo)
    PROVE  OfSwitch(u)
<1>1. settled \in [Customers -> [Sides -> RequestRow]]
  BY DEF AccessIInv, Types
<1>2. /\ settled' = [settled EXCEPT ![u][side] = Free]
      /\ UNCHANGED <<rows, online, kick>>
  BY DEF Start
<1>3. Admitted' = Admitted
  BY <1>2 DEF Admitted, Admits, RowsOf
<1>4. Free.op = "idle"
  BY DEF Free
<1> HIDE DEF Free
<1>5. CASE side = "login"
  <2>1. settled'[u]["login"].op = "idle"
    BY <1>1, <1>2, <1>4, <1>5 DEF Sides
  <2>2. \A v \in Customers : v # u => settled'[v] = settled[v]
    BY <1>1, <1>2
  <2>3. Decided' = [Decided EXCEPT ![u] = "open"]
    BY <2>1, <2>2 DEF Decided, Decision
  <2>4. SW!Ask(u)
    BY <1>2, <1>3, <2>3 DEF SW!Ask, Decided, Admitted
  <2>. QED  BY <2>4 DEF OfSwitch
<1>6. CASE side = "profile"
  <2>1. \A v \in Customers : settled'[v]["login"] = settled[v]["login"]
    BY <1>1, <1>2, <1>6 DEF Sides
  <2>2. Decided' = Decided
    BY <2>1 DEF Decided
  <2>3. UNCHANGED SW!vars
    BY <1>2, <1>3, <2>2 DEF SW!vars, Decided, Admitted
  <2>. QED  BY <2>3 DEF OfSwitch
<1>. QED  BY <1>5, <1>6 DEF Sides

\* A statement of a request is a step of Switch, or none.
LEMMA StatementSteps ==
    ASSUME AccessIInv, AccessIInv', NEW r \in Requests, Statement(r)
    PROVE  OfSwitch(req[r].user)
<1>1. CASE Clash(r)
  <2>1. UNCHANGED <<rows, online, kick, settled>>
    BY <1>1 DEF Clash
  <2>. QED  BY <2>1 DEF OfSwitch, SW!vars, Admits, RowsOf
<1>2. CASE ~Clash(r)
  <2>1. r \in Running
    BY <1>2 DEF Statement, Find, Write, Delete, LeaveGroup, JoinGroup, CheckAddress,
       SaveAddress, SendKick, At, Running
  <2>2. Sound(r)
    BY <1>2, FindKeeps, InsertKeeps, UpdateKeeps, DeleteKeeps, LeaveKeeps, JoinKeeps,
       CheckKeeps, SaveKeeps, KickKeeps DEF Statement
  <2>3. PICK f \in Nat : Step(r, f)
    <3>1. CASE Find(r)
      <4> DEFINE mine == RowsOf(req[r].user, Next1(r).attr)
      <4>1. PICK f \in IF mine = {} THEN {0} ELSE {x.id : x \in mine} : Step(r, f)
        BY <3>1 DEF Find
      <4>2. f \in Nat
        BY <4>1 DEF RowsOf, AccessIInv, Types, Row
      <4>. QED  BY <4>1, <4>2
    <3>2. CASE ~Find(r)
      <4>1. Step(r, 0)
        BY <1>2, <3>2 DEF Statement, Write, Delete, LeaveGroup, JoinGroup,
           CheckAddress, SaveAddress, SendKick
      <4>. QED  BY <4>1
    <3>. QED  BY <3>1, <3>2
  <2>4. \/ Next1(r).do # "kick" /\ kick' = kick
        \/ /\ Next1(r).do = "kick" /\ rows' = rows
           /\ kick' = [kick EXCEPT ![req[r].user] = "sent"]
    <3>1. CASE SendKick(r)
      BY <3>1 DEF SendKick, At
    <3>2. CASE ~SendKick(r)
      BY <1>2, <3>2 DEF Statement, Find, Write, Delete, LeaveGroup, JoinGroup,
         CheckAddress, SaveAddress, At
    <3>. QED  BY <3>1, <3>2
  <2>5. req[r].side \in Sides /\ kick' \in [Customers -> {"none", "sent", "arrived", "lost"}]
    BY <2>1, <2>2, AtWork DEF AccessIInv, Sound
  <2>6. CASE req[r].side = "login"
    BY <2>1, <2>2, <2>3, <2>4, <2>6, LoginSteps
  <2>7. CASE req[r].side = "profile"
    <3>1. UNCHANGED SW!vars
      BY <2>1, <2>2, <2>3, <2>5, <2>7, ProfileSteps
    <3>. QED  BY <3>1 DEF OfSwitch
  <2>. QED  BY <2>5, <2>6, <2>7 DEF Sides
<1>. QED  BY <1>1, <1>2

\* Every step is a step of Switch, or none.
LEMMA SwitchStep ==
    ASSUME AccessIInv, AccessIInv', [Next]_vars
    PROVE  [SW!Next]_(SW!vars)
<1>1. ASSUME NEW u \in Customers, OfSwitch(u)
      PROVE  [SW!Next]_(SW!vars)
  BY <1>1 DEF OfSwitch, SW!Next
<1>2. ASSUME UNCHANGED <<rows, online, kick, settled>>
      PROVE  UNCHANGED SW!vars
  BY <1>2 DEF SW!vars, Admits, RowsOf
<1>3. ASSUME NEW r \in Requests, Statement(r)
      PROVE  [SW!Next]_(SW!vars)
  <2>1. CASE r \in Running
    <3>1. req[r].user \in Customers
      BY <2>1, AtWork DEF AccessIInv
    <3>. QED  BY <1>1, <1>3, <3>1, StatementSteps
  <2>2. r \in Running
    BY <1>3 DEF Statement, Find, Write, Delete, LeaveGroup, JoinGroup, CheckAddress,
       SaveAddress, SendKick, Clash, At, Running
  <2>. QED  BY <2>1, <2>2
<1>4. ASSUME NEW r \in Requests, Fail(r)
      PROVE  UNCHANGED SW!vars
  BY <1>2, <1>4 DEF Fail
<1>5. ASSUME NEW r \in Requests, NEW u \in Customers, Request(r, u)
      PROVE  OfSwitch(u)
  BY <1>5, BeginSteps
     DEF Request, Activate, Deactivate, ChangePlan, AssignProfile, Sides
<1>6. ASSUME NEW u \in Customers, Connect(u)
      PROVE  OfSwitch(u)
  <2>1. UNCHANGED <<rows, settled>>
    BY <1>6 DEF Connect
  <2>2. Admitted' = Admitted /\ Decided' = Decided
    BY <2>1 DEF Admitted, Decided, Admits, RowsOf
  <2>3. SW!Login(u)
    BY <1>6, <2>2 DEF Connect, SW!Login, Admitted, Decided
  <2>. QED  BY <2>3 DEF OfSwitch
<1>7. ASSUME NEW u \in Customers, KickArrives(u) \/ KickLost(u)
      PROVE  OfSwitch(u)
  <2>1. UNCHANGED <<rows, settled>>
    BY <1>7 DEF KickArrives, KickLost
  <2>2. Admitted' = Admitted /\ Decided' = Decided
    BY <2>1 DEF Admitted, Decided, Admits, RowsOf
  <2>3. SW!Arrive(u) \/ SW!Lose(u)
    BY <1>7, <2>2 DEF KickArrives, KickLost, SW!Arrive, SW!Lose, Admitted, Decided
  <2>. QED  BY <2>3 DEF OfSwitch
<1>8. ASSUME UNCHANGED vars
      PROVE  UNCHANGED SW!vars
  BY <1>2, <1>8 DEF vars
<1>. QED
  BY <1>1, <1>3, <1>4, <1>5, <1>6, <1>7, <1>8 DEF Next, Finished

\* A customer's service is a switch, although turning it takes several
\* statements without a transaction, each of which may fail, and others are at
\* work on the profile and on other customers: what a request that met no other
\* one decided stands until the next one begins, and the packet follows the rows
\* (radius.service.ts:150-207).
THEOREM AccessImplementsSwitch == Spec => ImplementsSwitch
<1>1. Init => SW!Init
  BY DEF Init, SW!Init, Decision, Free, Admits, RowsOf, Sides
<1>2. Init => AccessIInv
  BY InitHolds
<1>3. AccessIInv /\ [Next]_vars => AccessIInv'
  BY NextKeeps
<1>4. AccessIInv /\ AccessIInv' /\ [Next]_vars => [SW!Next]_(SW!vars)
  BY SwitchStep
<1>. QED  BY <1>1, <1>2, <1>3, <1>4, PTL DEF Spec, SW!Spec, ImplementsSwitch
===============================================================================

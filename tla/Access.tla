-------------------------------- MODULE Access --------------------------------
(***************************************************************************)
(* The rows FreeRADIUS reads for a PPPoE customer, as radius-service       *)
(* writes them.                                                            *)
(*   apps/radius-service/src/modules/radius/radius.service.ts              *)
(* radcheck and radreply have no unique key on (username, attribute), and  *)
(* no handler opens a transaction: a request is the list of statements it  *)
(* still has to run, any two requests interleave between statements, and   *)
(* any statement may fail and leave the ones before it in place.           *)
(***************************************************************************)
EXTENDS Naturals, Sequences, FiniteSets

CONSTANTS
    Customers,
    Ips,
    Requests,   \* bound: each is one HTTP request, made once
    AtOnce,     \* bound on the requests that overlap
    Nobody

Lines == {"password", "reject", "expiry"}           \* radcheck
Replies == {"rate", "ip", "netmask"}                \* radreply
Profiles == {"none", "dynamic", "static"}           \* radusergroup
Side(attr) == IF attr \in Lines THEN "login" ELSE "profile"
Sides == {"login", "profile"}

ASSUME AccessAssumption ==
    /\ AtOnce \in Nat
    /\ Nobody \notin Customers \cup Ips \cup Requests

VARIABLES
    rows,       \* radcheck and radreply; value: the IP, or the writing request
    lastId,     \* their AUTO_INCREMENT
    group,      \* radusergroup
    staticIp,   \* Subscriber.staticIpAddress, @unique
    online,     \* external: the customer's PPPoE session on the NAS
    kick,       \* the last Disconnect-Request sent for the customer
    req,        \* requests, with the statements they have left
    settled,    \* history: the request whose effect stands, undisturbed
    raced,      \* history: <<customer, side>> that two requests wrote at once
    begun       \* history: the requests made

vars == <<rows, lastId, group, staticIp, online, kick, req, settled, raced,
          begun>>

Row == [id : Nat \ {0}, user : Customers, attr : Lines \cup Replies,
        value : Ips \cup Requests]

Do(what, attr) == [do |-> what, attr |-> attr]
Upsert(attr) == <<Do("find", attr), Do("write", attr)>>

\* A request that is not running, and the fields every request has.
Free == [op |-> "idle", user |-> Nobody, side |-> "login", todo |-> << >>,
         found |-> 0, ip |-> Nobody, mask |-> FALSE, alone |-> FALSE]

Running == {r \in Requests : req[r].todo # << >>}
Rivals(u, side) == {r \in Running : req[r].user = u /\ req[r].side = side}
RowsOf(u, attr) == {x \in rows : x.user = u /\ x.attr = attr}

Init ==
    /\ rows = {}
    /\ lastId = 0
    /\ group = [u \in Customers |-> "none"]
    /\ staticIp = [u \in Customers |-> Nobody]
    /\ online = [u \in Customers |-> FALSE]
    /\ kick = [u \in Customers |-> "none"]
    /\ req = [r \in Requests |-> Free]
    /\ settled = [u \in Customers |-> [s \in Sides |-> Free]]
    /\ raced = {}
    /\ begun = {}

-----------------------------------------------------------------------------
(* The requests.  While one is running nothing stands for its customer;    *)
(* requests that overlap on one side of a customer are marked.             *)

Start(r, u, side, op, ip, mask, todo) ==
    LET rivals == Rivals(u, side) IN
    /\ r \notin begun
    /\ Cardinality(Running) < AtOnce
    /\ req' = [q \in Requests |->
                  IF q = r
                    THEN [op |-> op, user |-> u, side |-> side, todo |-> todo,
                          found |-> 0, ip |-> ip, mask |-> mask,
                          alone |-> rivals = {}]
                    ELSE IF q \in rivals THEN [req[q] EXCEPT !.alone = FALSE]
                                         ELSE req[q]]
    /\ begun' = begun \cup {r}
    /\ settled' = [settled EXCEPT ![u][side] = Free]
    /\ raced' = IF rivals = {} THEN raced ELSE raced \cup {<<u, side>>}
    /\ UNCHANGED <<rows, lastId, group, staticIp, online, kick>>

ActivateStatements(expires) ==
    Upsert("password") \o <<Do("delete", "reject"), Do("delete", "expiry")>>
    \o (IF expires THEN Upsert("expiry") ELSE << >>)

\* activate: a password row, no Reject row, an Expiration row when asked.
Activate(r, u, expires) ==
    Start(r, u, "login", IF expires THEN "activate until" ELSE "activate",
          Nobody, FALSE, ActivateStatements(expires))

\* Mutant: the session is ended before the Reject row is written.
DeactivateKicksFirst(r, u) ==
    Start(r, u, "login", "deactivate", Nobody, FALSE,
          <<Do("kick", "reject")>> \o Upsert("reject"))

\* deactivate: Auth-Type := Reject, then a Disconnect-Request nobody awaits.
Deactivate(r, u) ==
    Start(r, u, "login", "deactivate", Nobody, FALSE,
          Upsert("reject") \o <<Do("kick", "reject")>>)

\* changePlan: the customer's own Mikrotik-Rate-Limit row.
ChangePlan(r, u) ==
    Start(r, u, "profile", "rate", Nobody, FALSE, Upsert("rate"))

StaticStatements(mask) ==
    <<Do("clash", "ip"), Do("rowClash", "ip"), Do("save", "ip")>>
    \o Upsert("ip")
    \o (IF mask THEN Upsert("netmask") ELSE <<Do("delete", "netmask")>>)

\* Mutant: a dynamic profile leaves the fixed address in place.
DynamicKeepsIp == <<Do("delete", "netmask")>>

\* One DELETE of both rows; split in two it has the same outcomes.
DynamicStatements == <<Do("delete", "ip"), Do("delete", "netmask")>>

\* assignProfile: the group and the rate row change first; only then is the
\* address of a static profile required and checked.
AssignProfile(r, u, profile, ip, mask) ==
    Start(r, u, "profile", profile, ip, mask,
          <<Do("leave", "ip"), Do("join", "ip"), Do("delete", "rate")>>
          \o CASE profile = "static" /\ ip = Nobody -> <<Do("refuse", "ip")>>
               [] profile = "static" /\ ip # Nobody -> StaticStatements(mask)
               [] OTHER -> DynamicStatements)

-----------------------------------------------------------------------------
(* The statements.                                                         *)

Next1(r) == Head(req[r].todo)
At(r, what) == req[r].todo # << >> /\ Next1(r).do = what

\* The request's last statement makes its effect stand, if it ran alone.
Step(r, found) ==
    LET rest == Tail(req[r].todo) IN
    /\ req' = [req EXCEPT ![r].todo = rest, ![r].found = found]
    /\ settled' = IF rest = << >> /\ req[r].alone
                    THEN [settled EXCEPT ![req[r].user][req[r].side] =
                             [req[r] EXCEPT !.todo = << >>, !.found = 0]]
                    ELSE settled
    /\ UNCHANGED <<raced, begun>>

Give(r) == req' = [req EXCEPT ![r].todo = << >>]

\* SELECT id ... LIMIT 1: any of the rows.
Find(r) ==
    LET mine == RowsOf(req[r].user, Next1(r).attr) IN
    /\ At(r, "find")
    /\ \E id \in IF mine = {} THEN {0} ELSE {x.id : x \in mine} : Step(r, id)
    /\ UNCHANGED <<rows, lastId, group, staticIp, online, kick>>

Value(r) == IF Next1(r).attr = "ip" THEN req[r].ip ELSE r

\* Mutant: upsertCheck and upsertReply insert without looking.
WriteNew(r) ==
    /\ At(r, "write")
    /\ rows' = rows \cup {[id |-> lastId + 1, user |-> req[r].user,
                           attr |-> Next1(r).attr, value |-> Value(r)]}
    /\ lastId' = lastId + 1
    /\ Step(r, 0)
    /\ UNCHANGED <<group, staticIp, online, kick>>

\* UPDATE by the id that was read, which may be gone, or INSERT.
Write(r) ==
    LET id == req[r].found IN
    /\ At(r, "write")
    /\ rows' = IF id = 0
                 THEN rows \cup {[id |-> lastId + 1, user |-> req[r].user,
                                  attr |-> Next1(r).attr, value |-> Value(r)]}
                 ELSE {IF x.id = id THEN [x EXCEPT !.value = Value(r)] ELSE x :
                          x \in rows}
    /\ lastId' = IF id = 0 THEN lastId + 1 ELSE lastId
    /\ Step(r, 0)
    /\ UNCHANGED <<group, staticIp, online, kick>>

Delete(r) ==
    /\ At(r, "delete")
    /\ rows' = rows \ RowsOf(req[r].user, Next1(r).attr)
    /\ Step(r, 0)
    /\ UNCHANGED <<lastId, group, staticIp, online, kick>>

LeaveGroup(r) ==
    /\ At(r, "leave")
    /\ group' = [group EXCEPT ![req[r].user] = "none"]
    /\ Step(r, 0)
    /\ UNCHANGED <<rows, lastId, staticIp, online, kick>>

JoinGroup(r) ==
    /\ At(r, "join")
    /\ group' = [group EXCEPT ![req[r].user] = req[r].op]
    /\ Step(r, 0)
    /\ UNCHANGED <<rows, lastId, staticIp, online, kick>>

\* The address may belong to another customer, in the application's database
\* or in the reply rows: the request is refused where it stands.
Clash(r) ==
    LET u == req[r].user IN
    /\ \/ At(r, "clash") /\ \E v \in Customers \ {u} : staticIp[v] = req[r].ip
       \/ At(r, "rowClash") /\ \E x \in rows : /\ x.attr = "ip"
                                               /\ x.value = req[r].ip
                                               /\ x.user # u
       \/ At(r, "save") /\ \E v \in Customers \ {u} : staticIp[v] = req[r].ip
       \/ At(r, "refuse")
    /\ Give(r)
    /\ UNCHANGED <<rows, lastId, group, staticIp, online, kick, settled,
                   raced, begun>>

CheckAddress(r) ==
    LET u == req[r].user IN
    /\ \/ At(r, "clash") /\ \A v \in Customers \ {u} : staticIp[v] # req[r].ip
       \/ At(r, "rowClash") /\ \A x \in rows : x.attr = "ip" /\ x.user # u
                                                  => x.value # req[r].ip
    /\ Step(r, 0)
    /\ UNCHANGED <<rows, lastId, group, staticIp, online, kick>>

\* Mutant: the unique index on staticIpAddress is missing.
SaveAnyAddress(r) ==
    /\ At(r, "save")
    /\ staticIp' = [staticIp EXCEPT ![req[r].user] = req[r].ip]
    /\ Step(r, 0)
    /\ UNCHANGED <<rows, lastId, group, online, kick>>

SaveAddress(r) ==
    /\ At(r, "save")
    /\ \A v \in Customers \ {req[r].user} : staticIp[v] # req[r].ip
    /\ staticIp' = [staticIp EXCEPT ![req[r].user] = req[r].ip]
    /\ Step(r, 0)
    /\ UNCHANGED <<rows, lastId, group, online, kick>>

\* void this.coa.disconnectSession(username)
SendKick(r) ==
    /\ At(r, "kick")
    /\ kick' = [kick EXCEPT ![req[r].user] = "sent"]
    /\ Step(r, 0)
    /\ UNCHANGED <<rows, lastId, group, staticIp, online>>

\* A statement fails, or the process stops: the rest is not run.
Fail(r) ==
    /\ r \in Running
    /\ Give(r)
    /\ UNCHANGED <<rows, lastId, group, staticIp, online, kick, settled,
                   raced, begun>>

-----------------------------------------------------------------------------
(* The network access server.                                              *)

\* External: FreeRADIUS accepts a login with a password and no Reject.
Admits(u) == RowsOf(u, "password") # {} /\ RowsOf(u, "reject") = {}

Connect(u) ==
    /\ ~online[u]
    /\ Admits(u)
    /\ online' = [online EXCEPT ![u] = TRUE]
    /\ UNCHANGED <<rows, lastId, group, staticIp, kick, req, settled, raced,
                   begun>>

\* The packet arrives and ends the session ...
KickArrives(u) ==
    /\ kick[u] = "sent"
    /\ kick' = [kick EXCEPT ![u] = "arrived"]
    /\ online' = [online EXCEPT ![u] = FALSE]
    /\ UNCHANGED <<rows, lastId, group, staticIp, req, settled, raced, begun>>

\* ... or does not: only a warning is logged.
KickLost(u) ==
    /\ kick[u] = "sent"
    /\ kick' = [kick EXCEPT ![u] = "lost"]
    /\ UNCHANGED <<rows, lastId, group, staticIp, online, req, settled, raced,
                   begun>>

Statement(r) ==
    \/ Find(r) \/ Write(r) \/ Delete(r)
    \/ LeaveGroup(r) \/ JoinGroup(r)
    \/ Clash(r) \/ CheckAddress(r) \/ SaveAddress(r)
    \/ SendKick(r)

Request(r, u) ==
    \/ \E expires \in BOOLEAN : Activate(r, u, expires)
    \/ Deactivate(r, u)
    \/ ChangePlan(r, u)
    \/ \E profile \in Profiles \ {"static"} :
          AssignProfile(r, u, profile, Nobody, FALSE)
    \/ AssignProfile(r, u, "static", Nobody, FALSE)
    \/ \E ip \in Ips, mask \in BOOLEAN :
          AssignProfile(r, u, "static", ip, mask)

\* Every request has been made and has ended.
Finished == begun = Requests /\ Running = {} /\ UNCHANGED vars

Next ==
    \/ \E r \in Requests : Statement(r) \/ Fail(r)
    \/ \E r \in Requests, u \in Customers : Request(r, u)
    \/ \E u \in Customers : Connect(u) \/ KickArrives(u) \/ KickLost(u)
    \/ Finished

Spec == Init /\ [][Next]_vars

-----------------------------------------------------------------------------

\* The rows, the addresses and the requests have the shape the code gives
\* them, and a row id is used once (radius.service.ts:126-148).
AccessTypeOK ==
    /\ rows \subseteq Row
    /\ \A x, y \in rows : x.id = y.id => x = y
    /\ \A x \in rows : x.id <= lastId
    /\ group \in [Customers -> Profiles]
    /\ staticIp \in [Customers -> Ips \cup {Nobody}]
    /\ online \in [Customers -> BOOLEAN]
    /\ \A u \in Customers : kick[u] \in {"none", "sent", "arrived", "lost"}
    /\ DOMAIN req = Requests
    /\ begun \subseteq Requests

\* The last activation or deactivation that met no other one decides who may
\* log in, whatever earlier ones left behind by overlapping or failing; one whose
\* service is off is online only while the disconnect packet is under way, or
\* because it was lost (radius.service.ts:150-207).
LastDecisionHolds ==
    \A u \in Customers :
        LET last == settled[u]["login"] IN
        /\ last.op = "activate" => Admits(u) /\ RowsOf(u, "expiry") = {}
        /\ last.op = "activate until" => Admits(u) /\ RowsOf(u, "expiry") # {}
        /\ last.op = "deactivate" =>
              ~Admits(u) /\ (online[u] => kick[u] \in {"sent", "lost"})

\* The last profile assignment that met no other one decides the group, and
\* the fixed address the customer is given (radius.service.ts:340-401).
LastProfileHolds ==
    \A u \in Customers :
        LET last == settled[u]["profile"] IN
        /\ last.op \in Profiles \ {"none"} => /\ group[u] = last.op
                                              /\ RowsOf(u, "rate") = {}
        /\ last.op \in {"none", "dynamic"} => RowsOf(u, "ip") = {}
        /\ last.op = "static" => /\ staticIp[u] = last.ip
                                 /\ \E x \in RowsOf(u, "ip") : x.value = last.ip

\* The last request that met no other one decides, about the login and about the
\* profile (radius.service.ts:150-207, 340-401).
LastRequestHolds == LastDecisionHolds /\ LastProfileHolds

\* Without a unique key, two rows for one attribute come from requests that
\* overlapped on that customer, never from a retry or a failure
\* (radius.service.ts:122-125).
TwinRowsAreRaces ==
    \A u \in Customers, attr \in Lines \cup Replies :
        Cardinality(RowsOf(u, attr)) > 1 => <<u, Side(attr)>> \in raced

\* The rows are well formed, and there is one for an attribute of a customer but
\* where requests overlapped (radius.service.ts:122-148).
AccessInv == AccessTypeOK /\ TwinRowsAreRaces

\* Two customers whose last requests were assignments that were carried out are
\* not given the same address, unless requests overlapped on one of the two
\* (radius.service.ts:366-391).
OneHolderPerAddress ==
    \A x, y \in rows :
        /\ x.attr = "ip" /\ y.attr = "ip" /\ x.user # y.user
        /\ settled[x.user]["profile"].op \in Profiles
        /\ settled[y.user]["profile"].op \in Profiles
        /\ {<<x.user, "profile">>, <<y.user, "profile">>} \cap raced = {}
        => x.value # y.value

\* What has settled on the login side of a customer.
Decision(op) ==
    CASE op \in {"activate", "activate until"} -> "on"
      [] op = "deactivate" -> "off"
      [] OTHER -> "open"

SW == INSTANCE Switch WITH
          decided <- [u \in Customers |-> Decision(settled[u]["login"].op)],
          admitted <- {u \in Customers : Admits(u)}

\* Statement by statement, with failures and without a transaction, a
\* customer's service is a switch: what a request decided stands until the next
\* one begins, whatever is done to the profile or to other customers, and the
\* packet follows the rows (radius.service.ts:150-207).
ImplementsSwitch == SW!Spec
===============================================================================

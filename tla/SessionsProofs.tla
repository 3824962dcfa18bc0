---------------------------- MODULE SessionsProofs ----------------------------
(***************************************************************************)
(* The sessions of Sessions, for any number of users, requests and rows    *)
(* and any timeouts: the invariants and the action property that its runs  *)
(* check on a small instance.                                              *)
(*                                                                         *)
(* The inductive invariant has three parts.  Shapes says what a request    *)
(* that waits at one of its awaits still knows about its row, its family   *)
(* and its user; Alone says that the families and links that are not       *)
(* contested have one request at a time; FamilyInv says, of one such       *)
(* family, what that request has left behind at each of its awaits.        *)
(***************************************************************************)
EXTENDS Sessions, TLAPS

-------------------------------------------------------------------------------
(***************************************************************************)
(* The inductive invariant.                                                *)
(***************************************************************************)

\* A family is the number of its first row, and all its rows are one user's.
FamiliesInv ==
    \A t \in DOMAIN tokens :
        LET f == tokens[t].family IN
        /\ f \in 1..t
        /\ tokens[f].family = f
        /\ tokens[f].user = tokens[t].user

\* f is a family of the user u.
FamilyOf(f, u) ==
    /\ f \in DOMAIN tokens
    /\ tokens[f].family = f
    /\ tokens[f].user = u

\* A request p is about a family of its user, the one of its row.
Shape(p) ==
    /\ p.pc \in {"idle", "consume", "revokeUser"} => p.family = 0
    /\ p.pc # "idle" => p.user \in Users
    /\ p.pc = "issue" => p.family = 0 \/ FamilyOf(p.family, p.user)
    /\ p.pc \in {"findLive", "revokeOne", "revokeFamily"} =>
          FamilyOf(p.family, p.user)
    /\ p.pc = "revokeOne" =>
          p.row \in DOMAIN tokens /\ tokens[p.row].family = p.family
    /\ p.pc = "consume" => p.row \in DOMAIN resets

\* A request p began in the past, and takes no longer than it may.
OnTime(p) == p.pc # "idle" => p.since <= now /\ now <= p.since + MaxStall

\* Every request has the shape of the place where it waits.
Shapes == \A w \in Workers : Shape(proc[w])

\* The clock is ahead of what was written down.
Clocks ==
    /\ now # 0
    /\ \A t \in DOMAIN tokens : tokens[t].issued <= now /\ tokens[t].revoked <= now
    /\ \A w \in Workers : OnTime(proc[w])

\* The base: rows, requests and clock fit together.
Base ==
    /\ TypeOK
    /\ FamiliesInv
    /\ Shapes
    /\ Clocks
    /\ ended \subseteq DOMAIN tokens

\* Families and links no two requests were about at once.
Uncontested == DOMAIN tokens \ contested.families
FreeLinks == DOMAIN resets \ contested.links

\* One request at a time.
Alone ==
    /\ \A f \in Uncontested : \A v, w \in InFlight :
          Concerns(v, f) /\ Concerns(w, f) => v = w
    /\ \A r \in FreeLinks : \A v, w \in Workers :
          /\ At(v, "consume") /\ proc[v].row = r
          /\ At(w, "consume") /\ proc[w].row = r
          => v = w

\* The request p may still replace s: it began in time.
InTime(p, s) ==
    \/ p.since <= tokens[s].issued + Idle
    \/ p.since < tokens[s].issued + Grace

\* What one request at a time leaves of the family f: one live token at most,
\* none once the family was ended or while a rotation is between its revoke and
\* its issue; a live token is younger than every revoke; and the request that
\* rotates began in time after the row it replaces.
OneLive(f) == \A s, t \in Live(f) : s = t

\* An ended family has no live token.
EndedHere(f) == f \in ended => Live(f) = {}

\* What a rotation that waits may rely on.
RotationOf(f, p) ==
    p.family = f =>
        /\ p.pc \in {"issue", "revokeOne"} => f \notin ended
        /\ p.pc = "issue" =>
              /\ Live(f) = {}
              /\ \E s \in Rows(f) : InTime(p, s)
        /\ p.pc = "revokeOne" =>
              /\ Live(f) \subseteq {p.row}
              /\ InTime(p, p.row)
        /\ p.pc = "findLive" =>
              \A s \in Live(f) : p.since < tokens[s].issued + Grace

\* A rotation revokes before it issues.
RevokesFirst(f) ==
    \A t \in Rows(f), s \in Live(f) :
        ~IsLive(t) => tokens[t].revoked <= tokens[s].issued

\* Every token of a family but the first follows an older one.
Successors(f) ==
    \A t \in Rows(f) : t # f => \E s \in 1..(t - 1) : Succeeds(t, s)

\* All of it, for one family.
FamilyInv(f) ==
    /\ OneLive(f)
    /\ EndedHere(f)
    /\ \A w \in Workers : RotationOf(f, proc[w])
    /\ RevokesFirst(f)
    /\ Successors(f)

\* A link that no two requests checked: it changed the password once at most,
\* and not yet while a request is about to use it.
LinkOf(r, p) == p.pc = "consume" /\ p.row = r => ~resets[r].used

LinkInv(r) ==
    /\ resets[r].changes <= 1
    /\ ~resets[r].used => resets[r].changes = 0
    /\ \A w \in Workers : LinkOf(r, proc[w])

\* The inductive invariant.
SessionsIInv ==
    /\ Base
    /\ Alone
    /\ \A f \in Uncontested : FamilyInv(f)
    /\ \A r \in FreeLinks : LinkInv(r)

-------------------------------------------------------------------------------
(***************************************************************************)
(* What the steps do to the rows.                                          *)
(***************************************************************************)

\* The fields of a row and of a request.
LEMMA Fields ==
    ASSUME TypeOK
    PROVE  /\ DOMAIN tokens = 1..Len(tokens)
           /\ Len(tokens) \in Nat
           /\ DOMAIN resets = 1..Len(resets)
           /\ Len(resets) \in Nat
           /\ now \in Nat
           /\ \A t \in DOMAIN tokens :
                 /\ tokens[t] \in Token
                 /\ tokens[t].family \in Nat
                 /\ tokens[t].user \in Users
                 /\ tokens[t].issued \in Nat
                 /\ tokens[t].revoked \in Nat
           /\ \A r \in DOMAIN resets :
                 /\ resets[r] \in Reset
                 /\ resets[r].changes \in Nat
                 /\ resets[r].used \in BOOLEAN
                 /\ resets[r].user \in Users
           /\ \A w \in Workers :
                 /\ proc[w] \in Request
                 /\ proc[w].row \in Nat
                 /\ proc[w].family \in Nat
                 /\ proc[w].since \in Nat
<1>1. tokens \in Seq(Token) /\ resets \in Seq(Reset) /\ now \in Nat
      /\ proc \in [Workers -> Request]
  BY DEF TypeOK
<1>2. /\ DOMAIN tokens = 1..Len(tokens) /\ Len(tokens) \in Nat
      /\ \A t \in DOMAIN tokens : tokens[t] \in Token
  BY <1>1
<1>3. /\ DOMAIN resets = 1..Len(resets) /\ Len(resets) \in Nat
      /\ \A r \in DOMAIN resets : resets[r] \in Reset
  BY <1>1
<1>4. \A t \in Token : /\ t.family \in Nat /\ t.user \in Users
                       /\ t.issued \in Nat /\ t.revoked \in Nat
  BY DEF Token
<1>5. \A r \in Reset : r.changes \in Nat /\ r.used \in BOOLEAN /\ r.user \in Users
  BY DEF Reset
<1>6. \A p \in Request : p.row \in Nat /\ p.family \in Nat /\ p.since \in Nat
  BY DEF Request
<1> QED
  BY <1>1, <1>2, <1>3, <1>4, <1>5, <1>6

\* Revoking rows touches nothing but their revokedAt.
LEMMA RevokedRows ==
    ASSUME TypeOK, NEW T, Revoke(T)
    PROVE  /\ tokens' \in Seq(Token)
           /\ Len(tokens') = Len(tokens)
           /\ DOMAIN tokens' = DOMAIN tokens
           /\ \A t \in DOMAIN tokens :
                 /\ tokens'[t].family = tokens[t].family
                 /\ tokens'[t].user = tokens[t].user
                 /\ tokens'[t].issued = tokens[t].issued
                 /\ tokens'[t].revoked = IF t \in T THEN now ELSE tokens[t].revoked
<1>1. \A t \in DOMAIN tokens :
         /\ tokens'[t] = IF t \in T THEN [tokens[t] EXCEPT !.revoked = now]
                                    ELSE tokens[t]
         /\ tokens'[t] \in Token
  BY Fields DEF Revoke, Token
<1>2. DOMAIN tokens' = 1..Len(tokens)
  BY Fields DEF Revoke
<1>3. tokens' \in Seq(Token) /\ Len(tokens') = Len(tokens)
  <2>1. tokens' \in [1..Len(tokens) -> Token]
    BY <1>1, <1>2, Fields DEF Revoke
  <2> QED
    BY <2>1, <1>2, Fields
<1>4. \A t \in DOMAIN tokens :
         /\ tokens'[t].family = tokens[t].family
         /\ tokens'[t].user = tokens[t].user
         /\ tokens'[t].issued = tokens[t].issued
         /\ tokens'[t].revoked = IF t \in T THEN now ELSE tokens[t].revoked
  BY <1>1, Fields DEF Token
<1> QED
  BY <1>2, <1>3, <1>4, Fields

\* The family of the token that w is about to issue.
NewFamily(w) ==
    IF proc[w].family = 0 THEN Len(tokens) + 1 ELSE proc[w].family

\* Issuing a token adds a live row, and no other row changes.
LEMMA IssuedRow ==
    ASSUME Base, NEW w \in Workers, IssueTokens(w)
    PROVE  /\ tokens' \in Seq(Token)
           /\ Len(tokens') = Len(tokens) + 1
           /\ DOMAIN tokens' = DOMAIN tokens \cup {Len(tokens) + 1}
           /\ \A t \in DOMAIN tokens : tokens'[t] = tokens[t]
           /\ LET new == tokens'[Len(tokens) + 1] IN
              /\ new.family = NewFamily(w)
              /\ new.user = proc[w].user
              /\ new.issued = now
              /\ new.revoked = 0
<1>1. proc[w].user \in Users
  BY DEF IssueTokens, At, Base, Shapes, Shape
<1>2. NewFamily(w) \in Nat \ {0}
  BY Fields DEF NewFamily, Base
<1>3. [family |-> NewFamily(w), user |-> proc[w].user, issued |-> now,
       revoked |-> 0] \in Token
  BY <1>1, <1>2, Fields DEF Token, Base
<1>4. tokens' = Append(tokens, [family |-> NewFamily(w), user |-> proc[w].user,
                                issued |-> now, revoked |-> 0])
  BY DEF IssueTokens, NewFamily
<1> QED
  BY <1>3, <1>4, Fields DEF Base, TypeOK
-------------------------------------------------------------------------------
(***************************************************************************)
(* The base holds after every step.                                        *)
(***************************************************************************)

\* What is recorded as contested are families and links.
LEMMA RecordType ==
    ASSUME TypeOK, Record, tokens' \in Seq(Token), resets' \in Seq(Reset)
    PROVE  contested' \in [families : SUBSET Nat, links : SUBSET Nat]
<1>1. DOMAIN tokens' \subseteq Nat /\ DOMAIN resets' \subseteq Nat
  OBVIOUS
<1>2. Shared'.families \subseteq Nat /\ Shared'.links \subseteq Nat
  BY <1>1 DEF Shared
<1>3. contested.families \subseteq Nat /\ contested.links \subseteq Nat
  BY DEF TypeOK
<1>4. contested' = [families |-> contested.families \cup Shared'.families,
                    links |-> contested.links \cup Shared'.links]
  BY DEF Record
<1> QED
  BY <1>2, <1>3, <1>4

\* Rows only grow, and keep their families and users, at a standing clock.
Grows ==
    /\ tokens' \in Seq(Token)
    /\ DOMAIN tokens \subseteq DOMAIN tokens'
    /\ \A t \in DOMAIN tokens : /\ tokens'[t].family = tokens[t].family
                                /\ tokens'[t].user = tokens[t].user
    /\ resets' \in Seq(Reset)
    /\ DOMAIN resets \subseteq DOMAIN resets'
    /\ now' = now

\* A step that lets rows grow and leaves every request where it was, or where
\* its shape and its clock are right, keeps the base.
LEMMA BaseStep ==
    ASSUME Base, Record, Grows, FamiliesInv', ended' \subseteq DOMAIN tokens',
           proc' \in [Workers -> Request],
           \A v \in Workers : \/ proc'[v] = proc[v]
                              \/ Shape(proc'[v]) /\ OnTime(proc'[v]),
           \A t \in DOMAIN tokens' : /\ tokens'[t].issued <= now
                                     /\ tokens'[t].revoked <= now
    PROVE  Base'
<1>1. TypeOK'
  <2>1. DOMAIN tokens' \subseteq Nat \ {0}
    BY DEF Grows
  <2> QED
    BY <2>1, RecordType DEF Base, Grows, TypeOK
<1>2. \A f, u : FamilyOf(f, u) => FamilyOf(f, u)'
  BY DEF Grows, FamilyOf
<1>3. \A v \in Workers : Shape(proc'[v]) /\ OnTime(proc'[v])
  BY DEF Base, Shapes, Clocks
<1>4. Shapes'
  BY <1>2, <1>3 DEF Shapes, Shape, Grows
<1>5. Clocks'
  BY <1>3 DEF Clocks, OnTime, Grows, Base
<1> QED
  BY <1>1, <1>4, <1>5 DEF Base

\* A request that begins or moves on without writing a row.
Moves(w, p) ==
    /\ p \in Request
    /\ Shape(p) /\ OnTime(p)
    /\ proc' = [proc EXCEPT ![w] = p]
    /\ UNCHANGED <<tokens, resets, now, ended>>

\* Such a step keeps the base.
LEMMA BaseMoves ==
    ASSUME Base, Record, NEW w \in Workers, NEW p, Moves(w, p)
    PROVE  Base'
<1>1. proc' \in [Workers -> Request]
  BY DEF Base, TypeOK, Moves
<1>2. \A v \in Workers : proc'[v] = proc[v] \/ proc'[v] = p
  BY DEF Base, TypeOK, Moves
<1>3. Grows
  BY DEF Grows, Moves, Base, TypeOK
<1>4. FamiliesInv'
  BY DEF FamiliesInv, Moves, Base
<1>5. \A t \in DOMAIN tokens' : tokens'[t].issued <= now /\ tokens'[t].revoked <= now
  BY DEF Moves, Base, Clocks
<1>6. ended' \subseteq DOMAIN tokens'
  BY DEF Moves, Base
<1> QED
  BY <1>1, <1>2, <1>3, <1>4, <1>5, <1>6, BaseStep DEF Moves
-------------------------------------------------------------------------------
(***************************************************************************)
(* The steps that write no row.                                            *)
(***************************************************************************)

\* A request that moves as the families and links it is about allow.
MovesWell(w) ==
    \E p :
       /\ Moves(w, p)
       /\ \A f \in Uncontested : RotationOf(f, p)
       /\ \A r \in DOMAIN resets : LinkOf(r, p)

\* A request about the family of a row has the right shape and begins now.
LEMMA AboutRow ==
    ASSUME Base, NEW t \in DOMAIN tokens,
           NEW l \in {"findLive", "revokeOne", "revokeFamily"}
    PROVE  /\ About(t, l) \in Request
           /\ Shape(About(t, l))
           /\ OnTime(About(t, l))
           /\ About(t, l).family = tokens[t].family
           /\ About(t, l).pc = l
           /\ About(t, l).row = t
           /\ About(t, l).since = now
<1>1. /\ t \in Nat /\ tokens[t].family \in Nat /\ tokens[t].user \in Users
      /\ now \in Nat
  BY Fields DEF Base
<1>2. FamilyOf(tokens[t].family, tokens[t].user)
  BY Fields DEF Base, FamiliesInv, FamilyOf
<1>3. About(t, l) \in Request
  BY <1>1 DEF About, Request
<1>4. MaxStall \in Nat
  BY SessionAssumption
<1> QED
  BY <1>1, <1>2, <1>3, <1>4 DEF About, Shape, OnTime

\* Logging in, changing and resetting a password begin like this.
LEMMA BeginsOutside ==
    ASSUME Base, NEW w \in Workers, NEW u \in Users,
           Login(w, u) \/ ChangePassword(w, u)
    PROVE  MovesWell(w)
<1>1. PICK l \in {"issue", "revokeUser"} :
         proc' = [proc EXCEPT ![w] = Outside(l, 0, u)]
  BY DEF Login, ChangePassword, Begin
<1> DEFINE p == [pc |-> l, row |-> 0, family |-> 0, user |-> u, since |-> now]
<1>2. proc' = [proc EXCEPT ![w] = p]
  BY <1>1 DEF Outside
<1>3. now \in Nat /\ MaxStall \in Nat
  BY SessionAssumption DEF Base, TypeOK
<1>4. Moves(w, p)
  <2>1. p \in Request
    BY <1>3 DEF Request
  <2>2. Shape(p) /\ OnTime(p)
    BY <1>3 DEF Shape, OnTime
  <2> QED
    BY <1>2, <2>1, <2>2 DEF Moves, Login, ChangePassword
<1>5. \A f \in Uncontested : RotationOf(f, p)
  <2>1. \A f \in Uncontested : f # 0
    BY Fields DEF Uncontested, Base
  <2> QED
    BY <1>2, <2>1 DEF RotationOf
<1>6. \A r \in DOMAIN resets : LinkOf(r, p)
  BY <1>2 DEF LinkOf
<1> QED
  BY <1>4, <1>5, <1>6 DEF MovesWell

\* A reset begins at a link that was not used.
LEMMA BeginsReset ==
    ASSUME Base, NEW w \in Workers, NEW r \in DOMAIN resets, ResetPassword(w, r)
    PROVE  MovesWell(w)
<1> DEFINE p == [pc |-> "consume", row |-> r, family |-> 0,
                 user |-> resets[r].user, since |-> now]
<1>1. Outside("consume", r, resets[r].user) = p
  BY DEF Outside
<1>2. now \in Nat /\ MaxStall \in Nat /\ r \in Nat /\ resets[r].user \in Users
  BY SessionAssumption, Fields DEF Base
<1>3. Moves(w, p)
  <2>1. p \in Request
    BY <1>1, <1>2 DEF Request
  <2>2. Shape(p) /\ OnTime(p)
    BY <1>1, <1>2 DEF Shape, OnTime
  <2>3. proc' = [proc EXCEPT ![w] = p] /\ UNCHANGED <<tokens, resets, now, ended>>
    BY <1>1 DEF ResetPassword, Begin
  <2> QED
    BY <2>1, <2>2, <2>3 DEF Moves
<1>4. \A f \in Uncontested : RotationOf(f, p)
  <2>1. \A f \in Uncontested : f # 0
    BY Fields DEF Uncontested, Base
  <2> QED
    BY <1>1, <2>1 DEF RotationOf
<1>5. \A q \in DOMAIN resets : LinkOf(q, p)
  BY <1>1 DEF LinkOf, ResetPassword
<1> QED
  BY <1>3, <1>4, <1>5 DEF MovesWell

\* A refresh and a logout begin at a row; a family that is not contested has at
\* most the live token that was presented, or one that is younger than the
\* revoke of the one presented.
LEMMA BeginsAtRow ==
    ASSUME Base, \A f \in Uncontested : FamilyInv(f),
           NEW w \in Workers, NEW t \in DOMAIN tokens,
           Refresh(w, t) \/ Logout(w, t)
    PROVE  MovesWell(w)
<1> DEFINE g == tokens[t].family
<1>1. /\ now \in Nat /\ tokens[t].issued \in Nat /\ tokens[t].revoked \in Nat
      /\ Idle \in Nat /\ Grace \in Nat
      /\ t \in Rows(g)
  BY SessionAssumption, Fields DEF Base, Rows
<1>2. ASSUME NEW p, Moves(w, p), p.pc \in {"findLive", "revokeOne", "revokeFamily"},
             p.family = g, g \in Uncontested => RotationOf(g, p)
      PROVE  MovesWell(w)
  <2>1. \A f \in Uncontested : RotationOf(f, p)
    BY <1>2 DEF RotationOf
  <2>2. \A r \in DOMAIN resets : LinkOf(r, p)
    BY <1>2 DEF LinkOf
  <2> QED
    BY <1>2, <2>1, <2>2 DEF MovesWell
<1>3. CASE RefreshLive(w, t)
  <2> DEFINE p == About(t, "revokeOne")
  <2>1. Moves(w, p) /\ p.pc = "revokeOne" /\ p.family = g /\ p.since = now /\ p.row = t
    BY <1>3, AboutRow DEF RefreshLive, Moves, Begin
  <2>2. t \in Live(g) /\ now <= tokens[t].issued + Idle
    BY <1>3, <1>1 DEF RefreshLive, Live, TooIdle
  <2>3. g \in Uncontested => RotationOf(g, p)
    BY <2>1, <2>2 DEF FamilyInv, OneLive, EndedHere, RotationOf, InTime
  <2> QED
    BY <1>2, <2>1, <2>3
<1>4. CASE RefreshAgain(w, t)
  <2> DEFINE p == [pc |-> "findLive", row |-> 0, family |-> g,
                   user |-> tokens[t].user, since |-> now]
  <2>1. [About(t, "findLive") EXCEPT !.row = 0] = p
    BY DEF About
  <2>2. /\ g \in Nat /\ tokens[t].user \in Users
        /\ FamilyOf(g, tokens[t].user) /\ MaxStall \in Nat
    BY SessionAssumption, Fields DEF Base, FamiliesInv, FamilyOf
  <2>3. p \in Request /\ Shape(p) /\ OnTime(p)
    BY <1>1, <2>2 DEF Request, Shape, OnTime
  <2>4. Moves(w, p)
    BY <1>4, <2>1, <2>3 DEF RefreshAgain, Moves, Begin
  <2>5. g \in Uncontested => RotationOf(g, p)
    <3> SUFFICES ASSUME g \in Uncontested, NEW s \in Live(g)
                 PROVE  now < tokens[s].issued + Grace
      BY DEF RotationOf
    <3>1. ~IsLive(t) /\ now - tokens[t].revoked < Grace
      BY <1>4 DEF RefreshAgain, WithinGrace
    <3>2. tokens[t].revoked <= tokens[s].issued
      BY <1>1, <3>1 DEF FamilyInv, RevokesFirst
    <3>3. tokens[s].issued \in Nat
      BY Fields DEF Base, Live, Rows
    <3> QED
      BY <1>1, <3>1, <3>2, <3>3
  <2> QED
    BY <1>2, <2>4, <2>5
<1>5. CASE RefreshIdle(w, t) \/ RefreshReused(w, t) \/ Logout(w, t)
  <2> DEFINE p == About(t, "revokeFamily")
  <2>1. Moves(w, p) /\ p.pc = "revokeFamily" /\ p.family = g
    BY <1>5, AboutRow DEF RefreshIdle, RefreshReused, Logout, Moves, Begin
  <2>2. RotationOf(g, p)
    BY <2>1 DEF RotationOf
  <2> QED
    BY <1>2, <2>1, <2>2
<1> QED
  BY <1>3, <1>4, <1>5 DEF Refresh

\* Looking for a live token of the family finds the one there is, or none.
LEMMA FindsLive ==
    ASSUME Base, \A f \in Uncontested : FamilyInv(f),
           NEW w \in Workers, FindLive(w)
    PROVE  MovesWell(w)
<1> DEFINE q == proc[w]
           g == q.family
<1>1. /\ q \in Request /\ q.pc = "findLive" /\ FamilyOf(g, q.user) /\ q.user \in Users
      /\ OnTime(q) /\ now \in Nat
  BY Fields DEF Base, Shapes, Shape, Clocks, FindLive, At
<1>2. UNCHANGED <<tokens, resets, now, ended>>
  BY DEF FindLive
<1>3. proc \in [Workers -> Request]
  BY DEF Base, TypeOK
<1>4. CASE \E t \in Live(g) :
              proc' = [proc EXCEPT ![w].pc = "revokeOne", ![w].row = t]
  <2>1. PICK t \in Live(g) :
           proc' = [proc EXCEPT ![w].pc = "revokeOne", ![w].row = t]
    BY <1>4
  <2> DEFINE p == [pc |-> "revokeOne", row |-> t, family |-> g,
                   user |-> q.user, since |-> q.since]
  <2>2. proc' = [proc EXCEPT ![w] = p]
    <3> DEFINE h == [pc |-> "revokeOne", row |-> q.row, family |-> g,
                     user |-> q.user, since |-> q.since]
    <3>1. [q EXCEPT !.pc = "revokeOne"] = h
      BY <1>1 DEF Request
    <3>2. [h EXCEPT !.row = t] = p
      OBVIOUS
    <3> QED
      BY <1>3, <2>1, <3>1, <3>2
  <2>3. t \in DOMAIN tokens /\ t \in Nat /\ tokens[t].family = g
    BY Fields DEF Live, Rows, Base
  <2>4. p \in Request
    BY <1>1, <2>3 DEF Request
  <2>5. Shape(p) /\ OnTime(p)
    BY <1>1, <2>3 DEF Shape, OnTime
  <2>6. \A f \in Uncontested : RotationOf(f, p)
    <3> SUFFICES ASSUME g \in Uncontested
                 PROVE  RotationOf(g, p)
      BY DEF RotationOf
    <3>1. g \notin ended /\ Live(g) \subseteq {t}
      BY <2>1 DEF FamilyInv, OneLive, EndedHere
    <3>2. q.since < tokens[t].issued + Grace
      BY <1>1 DEF FamilyInv, RotationOf
    <3> QED
      BY <3>1, <3>2 DEF RotationOf, InTime
  <2>7. \A r \in DOMAIN resets : LinkOf(r, p)
    BY DEF LinkOf
  <2> QED
    BY <1>2, <2>2, <2>4, <2>5, <2>6, <2>7 DEF MovesWell, Moves
<1>5. CASE proc' = [proc EXCEPT ![w].pc = "revokeFamily"]
  <2> DEFINE p == [pc |-> "revokeFamily", row |-> q.row, family |-> g,
                   user |-> q.user, since |-> q.since]
  <2>1. proc' = [proc EXCEPT ![w] = p]
    <3>1. [q EXCEPT !.pc = "revokeFamily"] = p
      BY <1>1 DEF Request
    <3> QED
      BY <1>3, <1>5, <3>1
  <2>2. p \in Request
    BY <1>1 DEF Request
  <2>3. Shape(p) /\ OnTime(p)
    BY <1>1 DEF Shape, OnTime
  <2>4. \A f \in Uncontested : RotationOf(f, p)
    BY DEF RotationOf
  <2>5. \A r \in DOMAIN resets : LinkOf(r, p)
    BY DEF LinkOf
  <2> QED
    BY <1>2, <2>1, <2>2, <2>3, <2>4, <2>5 DEF MovesWell, Moves
<1> QED
  BY <1>4, <1>5 DEF FindLive

\* A request that is cut off leaves nothing behind that it has not written.
LEMMA Crashes ==
    ASSUME Base, NEW w \in Workers, Crash(w)
    PROVE  MovesWell(w)
<1>1. Waiting \in Request /\ Shape(Waiting) /\ OnTime(Waiting)
  BY DEF Waiting, Request, Shape, OnTime
<1>2. Moves(w, Waiting)
  BY <1>1 DEF Moves, Crash, Done
<1>3. (\A f \in Uncontested : RotationOf(f, Waiting))
      /\ \A r \in DOMAIN resets : LinkOf(r, Waiting)
  BY DEF Waiting, RotationOf, LinkOf
<1> QED
  BY <1>2, <1>3 DEF MovesWell

\* Every step that writes no row is such a move.
Move(w) ==
    \/ \E u \in Users : Login(w, u) \/ ChangePassword(w, u)
    \/ \E t \in DOMAIN tokens : Refresh(w, t) \/ Logout(w, t)
    \/ \E r \in DOMAIN resets : ResetPassword(w, r)
    \/ FindLive(w) \/ Crash(w)

\* All of them move well.
LEMMA MovesAreGood ==
    ASSUME SessionsIInv, NEW w \in Workers, Move(w)
    PROVE  MovesWell(w)
BY BeginsOutside, BeginsReset, BeginsAtRow, FindsLive, Crashes
   DEF Move, SessionsIInv

\* A move keeps what is said of a family and of a link, whose request it may be.
LEMMA FamilyMoves ==
    ASSUME Base, NEW w \in Workers, MovesWell(w), NEW f \in Uncontested, FamilyInv(f)
    PROVE  FamilyInv(f)'
<1>1. PICK p : Moves(w, p) /\ RotationOf(f, p)
  BY DEF MovesWell
<1>2. UNCHANGED <<tokens, now, ended>>
  BY <1>1 DEF Moves
<1>3. \A v \in Workers : proc'[v] = proc[v] \/ proc'[v] = p
  BY <1>1 DEF Moves, Base, TypeOK
<1>4. \A v \in Workers : RotationOf(f, proc'[v])
  BY <1>1, <1>3 DEF FamilyInv
<1>5. \A v \in Workers : RotationOf(f, proc[v])'
  BY <1>2, <1>4 DEF RotationOf, Live, Rows, IsLive, InTime
<1>6. (OneLive(f) /\ EndedHere(f) /\ RevokesFirst(f) /\ Successors(f))'
  BY <1>2 DEF FamilyInv, OneLive, EndedHere, RevokesFirst, Successors, Live, Rows,
              IsLive, Succeeds
<1> QED
  BY <1>5, <1>6 DEF FamilyInv

\* A request that moves on leaves a link as it was.
LEMMA LinkMoves ==
    ASSUME Base, NEW w \in Workers, MovesWell(w), NEW r \in DOMAIN resets, LinkInv(r)
    PROVE  LinkInv(r)'
<1>1. PICK p : Moves(w, p) /\ LinkOf(r, p)
  BY DEF MovesWell
<1>2. resets' = resets
  BY <1>1 DEF Moves
<1>3. \A v \in Workers : proc'[v] = proc[v] \/ proc'[v] = p
  BY <1>1 DEF Moves, Base, TypeOK
<1> QED
  BY <1>1, <1>2, <1>3 DEF LinkInv, LinkOf
-------------------------------------------------------------------------------
(***************************************************************************)
(* The steps that write rows of tokens.                                    *)
(***************************************************************************)

\* No request but w is in flight about the family f.
LEMMA OnlyOne ==
    ASSUME Base, Alone, NEW f \in Uncontested, NEW w \in Workers,
           Concerns(w, f), ~At(w, "idle")
    PROVE  \A v \in Workers : proc[v].family = f => v = w
<1>1. f # 0
  BY Fields DEF Uncontested, Base
<1>2. \A v \in Workers : proc[v].family = f => v \in InFlight /\ Concerns(v, f)
  BY <1>1 DEF Base, Shapes, Shape, InFlight, At, Concerns
<1> QED
  BY <1>2 DEF Alone, InFlight

\* A family whose rows a step leaves alone, and whose requests it at most ends.
LEMMA Untouched ==
    ASSUME Base, NEW f \in Uncontested, FamilyInv(f),
           Rows(f)' = Rows(f),
           \A t \in Rows(f) : /\ tokens'[t].family = tokens[t].family
                             /\ tokens'[t].user = tokens[t].user
                             /\ tokens'[t].issued = tokens[t].issued
                             /\ tokens'[t].revoked = tokens[t].revoked,
           f \in ended' => f \in ended,
           \A v \in Workers : proc'[v] = proc[v] \/ proc'[v].family # f
    PROVE  FamilyInv(f)'
<1>1. Live(f)' = Live(f)
  BY DEF Live, IsLive
<1>2. (OneLive(f) /\ EndedHere(f) /\ RevokesFirst(f))'
  BY <1>1 DEF FamilyInv, OneLive, EndedHere, RevokesFirst, Live, IsLive
<1>3. Successors(f)'
  <2> SUFFICES ASSUME NEW t \in Rows(f), t # f
               PROVE  \E s \in 1..(t - 1) : Succeeds(t, s)'
    BY DEF Successors
  <2>1. PICK s \in 1..(t - 1) : Succeeds(t, s)
    BY DEF FamilyInv, Successors
  <2>2. t \in DOMAIN tokens /\ s \in Rows(f)
    BY <2>1, Fields DEF Base, Rows, Succeeds
  <2> QED
    BY <2>1, <2>2 DEF Succeeds
<1>4. \A v \in Workers : RotationOf(f, proc[v])'
  <2> SUFFICES ASSUME NEW v \in Workers, proc[v].family = f, proc'[v] = proc[v]
               PROVE  RotationOf(f, proc[v])'
    BY DEF RotationOf
  <2>1. proc[v].pc = "revokeOne" => proc[v].row \in Rows(f)
    BY DEF Base, Shapes, Shape, Rows
  <2> QED
    BY <1>1, <2>1 DEF FamilyInv, RotationOf, InTime, Live
<1> QED
  BY <1>2, <1>3, <1>4 DEF FamilyInv

\* A family that a step leaves without a live token, while at most the request
\* that rotates it goes on.
LEMMA Cleared ==
    ASSUME Base, NEW f \in Uncontested, FamilyInv(f),
           DOMAIN tokens' = DOMAIN tokens,
           \A t \in DOMAIN tokens : /\ tokens'[t].family = tokens[t].family
                                   /\ tokens'[t].user = tokens[t].user
                                   /\ tokens'[t].issued = tokens[t].issued,
           Live(f)' = {},
           \A v \in Workers : \/ proc'[v].family # f
                              \/ /\ proc'[v].pc = "issue" /\ f \notin ended'
                                 /\ \E s \in Rows(f) : InTime(proc'[v], s)
    PROVE  FamilyInv(f)'
<1>1. Rows(f)' = Rows(f)
  BY DEF Rows
<1>2. (OneLive(f) /\ EndedHere(f) /\ RevokesFirst(f))'
  BY DEF OneLive, EndedHere, RevokesFirst
<1>3. Successors(f)'
  <2> SUFFICES ASSUME NEW t \in Rows(f), t # f
               PROVE  \E s \in 1..(t - 1) : Succeeds(t, s)'
    BY <1>1 DEF Successors
  <2>1. PICK s \in 1..(t - 1) : Succeeds(t, s)
    BY DEF FamilyInv, Successors
  <2>2. t \in DOMAIN tokens /\ s \in DOMAIN tokens
    BY <2>1, Fields DEF Base, Rows
  <2> QED
    BY <2>1, <2>2 DEF Succeeds
<1>4. \A v \in Workers : RotationOf(f, proc[v])'
  <2> SUFFICES ASSUME NEW v \in Workers, proc'[v].family = f
               PROVE  RotationOf(f, proc[v])'
    BY DEF RotationOf
  <2>1. \E s \in Rows(f) : InTime(proc[v], s)'
    BY DEF InTime, Rows
  <2> QED
    BY <1>1, <2>1 DEF RotationOf
<1> QED
  BY <1>2, <1>3, <1>4 DEF FamilyInv

\* What is contested stays so, and rows are not removed: a family that is not
\* contested was not before.
LEMMA WasFree ==
    ASSUME Record
    PROVE  /\ \A f \in Uncontested' : f \in DOMAIN tokens => f \in Uncontested
           /\ \A r \in FreeLinks' : r \in DOMAIN resets => r \in FreeLinks
BY DEF Record, Uncontested, FreeLinks
\* Issuing a token: the base.
LEMMA IssueBase ==
    ASSUME Base, Record, NEW w \in Workers, IssueTokens(w)
    PROVE  Base'
<1> DEFINE n == Len(tokens) + 1
<1>1. /\ n \in Nat /\ DOMAIN tokens = 1..(n - 1) /\ DOMAIN tokens' = 1..n
      /\ UNCHANGED <<resets, now, ended>> /\ now \in Nat
  BY IssuedRow, Fields DEF Base, IssueTokens
<1>2. proc' = [proc EXCEPT ![w] = Waiting]
  BY DEF IssueTokens, Done
<1>3. Waiting \in Request /\ Shape(Waiting) /\ OnTime(Waiting)
  BY DEF Waiting, Request, Shape, OnTime
<1>4. proc' \in [Workers -> Request]
  BY <1>2, <1>3 DEF Base, TypeOK
<1>5. \A v \in Workers : proc'[v] = proc[v] \/ proc'[v] = Waiting
  BY <1>2 DEF Base, TypeOK
<1>6. Grows
  BY <1>1, IssuedRow DEF Grows, Base, TypeOK
<1>7. FamiliesInv'
  <2>1. proc[w].family = 0 \/ FamilyOf(proc[w].family, proc[w].user)
    BY DEF Base, Shapes, Shape, IssueTokens, At
  <2>2. \A t \in DOMAIN tokens : tokens'[t] = tokens[t]
    BY IssuedRow
  <2>3. \A t \in DOMAIN tokens : LET f == tokens[t].family IN
           f \in 1..t /\ f \in DOMAIN tokens
           /\ tokens[f].family = f /\ tokens[f].user = tokens[t].user
    BY <1>1 DEF Base, FamiliesInv
  <2>4. \A t \in DOMAIN tokens : LET f == tokens'[t].family IN
           f \in 1..t /\ tokens'[f].family = f /\ tokens'[f].user = tokens'[t].user
    BY <2>2, <2>3
  <2>5. LET f == tokens'[n].family IN
           f \in 1..n /\ tokens'[f].family = f /\ tokens'[f].user = tokens'[n].user
    <3>1. CASE proc[w].family = 0
      BY <1>1, <3>1, IssuedRow DEF NewFamily
    <3>2. CASE FamilyOf(proc[w].family, proc[w].user)
      <4>1. proc[w].family # 0 /\ proc[w].family \in 1..(n - 1)
        BY <1>1, <3>2 DEF FamilyOf
      <4>2. tokens'[n].family = proc[w].family /\ tokens'[n].user = proc[w].user
        BY <4>1, IssuedRow DEF NewFamily
      <4> QED
        BY <1>1, <2>2, <3>2, <4>1, <4>2 DEF FamilyOf
    <3> QED
      BY <2>1, <3>1, <3>2
  <2> QED
    BY <1>1, <2>4, <2>5 DEF FamiliesInv
<1>8. \A t \in DOMAIN tokens' : tokens'[t].issued <= now /\ tokens'[t].revoked <= now
  BY <1>1, IssuedRow DEF Base, Clocks
<1>9. ended' \subseteq DOMAIN tokens'
  BY <1>1 DEF Base
<1> QED
  BY <1>3, <1>4, <1>5, <1>6, <1>7, <1>8, <1>9, BaseStep

\* A request that began in time ends no later than the time it may take.
LEMMA Later ==
    ASSUME NEW a \in Nat, NEW b \in Nat, NEW c \in Nat, NEW d \in Nat, NEW m \in Nat,
           a <= b + m
    PROVE  (b <= c + d => a <= c + d + m) /\ (b < c + d => a < c + d + m)
OBVIOUS

\* Issuing a token: the family it joins had none that lives, and the row that
\* was rotated is recent enough; a family it founds has no other row.
LEMMA IssueFamily ==
    ASSUME SessionsIInv, Record, NEW w \in Workers, IssueTokens(w), NEW f \in Uncontested'
    PROVE  FamilyInv(f)'
<1>0. PICK n : n = Len(tokens) + 1
  OBVIOUS
<1> DEFINE g == NewFamily(w)
<1>1. /\ n \in Nat /\ n # 0 /\ DOMAIN tokens = 1..(n - 1) /\ DOMAIN tokens' = 1..n
      /\ UNCHANGED <<resets, now, ended>> /\ now \in Nat
      /\ f \in DOMAIN tokens \/ f = n
  BY <1>0, IssuedRow, Fields DEF SessionsIInv, Base, IssueTokens, Uncontested
<1>2. /\ \A t \in DOMAIN tokens : tokens'[t] = tokens[t]
      /\ tokens'[n].family = g /\ tokens'[n].user = proc[w].user
      /\ tokens'[n].issued = now /\ tokens'[n].revoked = 0
  BY <1>0, IssuedRow DEF SessionsIInv
<1>3. \A v \in Workers : proc'[v] = IF v = w THEN Waiting ELSE proc[v]
  BY DEF IssueTokens, Done, SessionsIInv, Base, TypeOK
<1>4. Waiting.family = 0 /\ f # 0
  BY <1>1 DEF Waiting
<1>5. \A v \in Workers : proc[v].family = 0 \/ FamilyOf(proc[v].family, proc[v].user)
  BY DEF SessionsIInv, Base, Shapes, Shape, TypeOK, Request
<1>6. CASE f \in DOMAIN tokens /\ g # f
  <2>1. f \in Uncontested
    BY <1>6, WasFree
  <2>2. Rows(f)' = Rows(f)
    BY <1>1, <1>2, <1>6 DEF Rows
  <2>3. \A t \in Rows(f) : tokens'[t] = tokens[t]
    BY <1>2 DEF Rows
  <2>4. \A v \in Workers : proc'[v] = proc[v] \/ proc'[v].family # f
    BY <1>3, <1>4
  <2> QED
    BY <1>1, <2>1, <2>2, <2>3, <2>4, Untouched DEF SessionsIInv
<1>7. CASE f \in DOMAIN tokens /\ g = f
  <2>1. f \in Uncontested
    BY <1>7, WasFree
  <2>2. proc[w].family = f /\ proc[w].pc = "issue"
    BY <1>0, <1>1, <1>7 DEF NewFamily, IssueTokens, At
  <2>3. FamilyInv(f) /\ RotationOf(f, proc[w])
    BY <2>1 DEF SessionsIInv, FamilyInv
  <2>4. f \notin ended /\ Live(f) = {}
    BY <2>2, <2>3 DEF RotationOf
  <2>5. \A v \in Workers : proc'[v].family # f
    <3>1. \A v \in Workers : proc[v].family = f => v = w
      BY <2>1, <2>2, OnlyOne DEF SessionsIInv, Concerns, At
    <3> QED
      BY <1>3, <1>4, <3>1
  <2>6. Rows(f)' = Rows(f) \cup {n} /\ \A t \in Rows(f) : tokens'[t] = tokens[t]
    BY <1>1, <1>2, <1>7 DEF Rows
  <2>7. Live(f)' = {n}
    BY <1>2, <2>4, <2>6 DEF Live, IsLive
  <2>8. OneLive(f)' /\ EndedHere(f)'
    BY <1>1, <2>4, <2>7 DEF OneLive, EndedHere
  <2>9. RevokesFirst(f)'
    <3>1. \A t \in Rows(f) : tokens[t].revoked <= now
      BY DEF Rows, SessionsIInv, Base, Clocks
    <3> QED
      BY <1>1, <1>2, <2>6, <2>7, <3>1 DEF RevokesFirst
  <2>10. Successors(f)'
    <3> SUFFICES ASSUME NEW t \in Rows(f)', t # f
                 PROVE  \E s \in 1..(t - 1) : Succeeds(t, s)'
      BY DEF Successors
    <3>1. CASE t \in Rows(f)
      <4>1. PICK s \in 1..(t - 1) : Succeeds(t, s)
        BY <2>3, <3>1 DEF FamilyInv, Successors
      <4>2. t \in DOMAIN tokens /\ s \in DOMAIN tokens
        BY <1>1, <3>1, <4>1 DEF Rows
      <4> QED
        BY <1>2, <4>1, <4>2 DEF Succeeds
    <3>2. CASE t = n
      <4>1. PICK s \in Rows(f) : InTime(proc[w], s)
        BY <2>2, <2>3 DEF RotationOf
      <4>2. s \in 1..(n - 1) /\ tokens[s].family = f
        BY <1>1, <4>1 DEF Rows
      <4>3. tokens[s].user = proc[w].user
        BY <1>1, <1>5, <2>2, <4>2, <1>4 DEF FamilyOf, SessionsIInv, Base, FamiliesInv
      <4>4. OnTime(proc[w])
        BY DEF SessionsIInv, Base, Clocks
      <4>5. /\ proc[w].since \in Nat /\ tokens[s].issued \in Nat
            /\ Idle \in Nat /\ Grace \in Nat /\ MaxStall \in Nat
        BY <1>1, <4>2, Fields, SessionAssumption DEF SessionsIInv, Base
      <4>6. \/ now <= tokens[s].issued + Idle + MaxStall
            \/ now < tokens[s].issued + Grace + MaxStall
        BY <1>1, <2>2, <4>1, <4>4, <4>5, Later DEF OnTime, InTime
      <4>7. Succeeds(n, s)'
        BY <1>1, <1>2, <1>7, <4>2, <4>3, <4>6 DEF Succeeds
      <4> QED
        BY <3>2, <4>2, <4>7
    <3> QED
      BY <2>6, <3>1, <3>2
  <2>11. \A v \in Workers : RotationOf(f, proc[v])'
    BY <2>5 DEF RotationOf
  <2> QED
    BY <2>8, <2>9, <2>10, <2>11 DEF FamilyInv
<1>8. CASE f = n
  <2>1. \A t \in DOMAIN tokens : tokens[t].family # n
    <3>1. \A t \in DOMAIN tokens : tokens[t].family \in 1..t
      BY DEF SessionsIInv, Base, FamiliesInv
    <3> QED
      BY <1>1, <3>1
  <2>2. Rows(f)' \subseteq {n}
    BY <1>1, <1>2, <1>8, <2>1 DEF Rows
  <2>3. f \notin ended'
    BY <1>0, <1>1, <1>8 DEF SessionsIInv, Base
  <2>4. OneLive(f)' /\ EndedHere(f)'
    BY <2>2, <2>3 DEF OneLive, EndedHere, Live
  <2>5. RevokesFirst(f)' /\ Successors(f)'
    BY <1>1, <1>2, <1>8, <2>2 DEF RevokesFirst, Successors, Live, IsLive
  <2>6. \A v \in Workers : proc'[v].family # f
    BY <1>1, <1>3, <1>4, <1>5, <1>8 DEF FamilyOf
  <2>7. \A v \in Workers : RotationOf(f, proc[v])'
    BY <2>6 DEF RotationOf
  <2> QED
    BY <2>4, <2>5, <2>7 DEF FamilyInv
<1> QED
  BY <1>1, <1>6, <1>7, <1>8
\* The steps that revoke: what they leave of the base.
LEMMA RevokeBase ==
    ASSUME Base, Record, NEW w \in Workers, NEW T, Revoke(T), NEW p,
           p \in Request, Shape(p), OnTime(p), proc' = [proc EXCEPT ![w] = p],
           UNCHANGED <<resets, now>>, ended' \subseteq DOMAIN tokens
    PROVE  Base'
<1>1. /\ DOMAIN tokens' = DOMAIN tokens /\ tokens' \in Seq(Token) /\ now \in Nat
      /\ \A t \in DOMAIN tokens :
            /\ tokens'[t].family = tokens[t].family
            /\ tokens'[t].user = tokens[t].user
            /\ tokens'[t].issued = tokens[t].issued
            /\ tokens'[t].revoked \in {now, tokens[t].revoked}
  BY RevokedRows DEF Base, TypeOK
<1>2. proc' \in [Workers -> Request] /\ \A v \in Workers : proc'[v] = proc[v] \/ proc'[v] = p
  BY DEF Base, TypeOK
<1>3. Grows
  BY <1>1 DEF Grows, Base, TypeOK
<1>4. FamiliesInv'
  <2> SUFFICES ASSUME NEW t \in DOMAIN tokens, NEW f, f = tokens[t].family
               PROVE  /\ f \in 1..t
                      /\ tokens'[f].family = f
                      /\ tokens'[f].user = tokens'[t].user
    BY <1>1 DEF FamiliesInv
  <2>1. f \in 1..t /\ tokens[f].family = f /\ tokens[f].user = tokens[t].user
    BY DEF Base, FamiliesInv
  <2>2. f \in DOMAIN tokens
    BY <2>1, Fields DEF Base
  <2> QED
    BY <1>1, <2>1, <2>2
<1>5. \A t \in DOMAIN tokens' : tokens'[t].issued <= now /\ tokens'[t].revoked <= now
  BY <1>1 DEF Base, Clocks
<1> QED
  BY <1>1, <1>2, <1>3, <1>4, <1>5, BaseStep

\* The revoke of a rotation: no live token of the family is left, and the
\* request that issues the next one goes on in time.
LEMMA RevokeOneKeeps ==
    ASSUME SessionsIInv, Record, NEW w \in Workers, RevokeOne(w)
    PROVE  Base' /\ \A f \in Uncontested' : FamilyInv(f)'
<1> DEFINE q == proc[w]
           g == q.family
           p == [pc |-> "issue", row |-> 0, family |-> g, user |-> q.user,
                 since |-> q.since]
<1>1. /\ Base /\ q \in Request /\ q.pc = "revokeOne" /\ Shape(q) /\ OnTime(q)
      /\ q.row \in Rows(g)
  BY Fields DEF SessionsIInv, Base, Shapes, Shape, Clocks, RevokeOne, At, Rows
<1>2. proc' = [proc EXCEPT ![w] = p]
  <2> DEFINE h == [pc |-> "issue", row |-> q.row, family |-> g, user |-> q.user,
                   since |-> q.since]
  <2>1. [q EXCEPT !.pc = "issue"] = h
    BY <1>1 DEF Request
  <2>2. [h EXCEPT !.row = 0] = p
    OBVIOUS
  <2>3. proc \in [Workers -> Request]
    BY <1>1 DEF Base, TypeOK
  <2> QED
    BY <2>1, <2>2, <2>3 DEF RevokeOne
<1>3. p \in Request /\ Shape(p) /\ OnTime(p)
  <2>1. p \in Request
    BY <1>1 DEF Request
  <2>2. Shape(p)
    BY <1>1 DEF Shape
  <2>3. OnTime(p)
    BY <1>1 DEF OnTime
  <2> QED
    BY <2>1, <2>2, <2>3
<1>4. Revoke({q.row}) /\ UNCHANGED <<resets, now, ended>>
  BY DEF RevokeOne
<1>5. Base'
  <2>1. ended' \subseteq DOMAIN tokens
    BY <1>1, <1>4 DEF Base
  <2> QED
    BY <1>1, <1>2, <1>3, <1>4, <2>1, RevokeBase
<1>6. /\ DOMAIN tokens' = DOMAIN tokens
      /\ \A t \in DOMAIN tokens :
            /\ tokens'[t].family = tokens[t].family
            /\ tokens'[t].user = tokens[t].user
            /\ tokens'[t].issued = tokens[t].issued
            /\ tokens'[t].revoked = IF t = q.row THEN now ELSE tokens[t].revoked
  BY <1>1, <1>4, RevokedRows DEF Base
<1>7. \A v \in Workers : proc'[v] = IF v = w THEN p ELSE proc[v]
  BY <1>1, <1>2 DEF Base, TypeOK
<1>8. SUFFICES ASSUME NEW f \in Uncontested
               PROVE  FamilyInv(f)'
  BY <1>5, <1>6, WasFree DEF Uncontested
<1>9. FamilyInv(f)
  BY DEF SessionsIInv
<1>10. CASE f = g
  <2>1. f \notin ended /\ Live(f) \subseteq {q.row} /\ InTime(q, q.row)
    BY <1>1, <1>9, <1>10 DEF FamilyInv, RotationOf
  <2>2. Live(f)' = {}
    BY <1>1, <1>6, <2>1 DEF Live, Rows, IsLive, Base, Clocks
  <2>3. \A v \in Workers : proc[v].family = f => v = w
    BY <1>1, <1>10, OnlyOne DEF SessionsIInv, Concerns, At
  <2>4. InTime(p, q.row)
    BY <2>1 DEF InTime
  <2>5. \A v \in Workers : \/ proc'[v].family # f
                           \/ /\ proc'[v].pc = "issue" /\ f \notin ended'
                              /\ \E s \in Rows(f) : InTime(proc'[v], s)
    BY <1>1, <1>4, <1>7, <1>10, <2>1, <2>3, <2>4
  <2> HIDE DEF p
  <2> QED
    BY <1>1, <1>6, <1>9, <2>2, <2>5, Cleared
<1>11. CASE f # g
  <2>1. Rows(f)' = Rows(f)
    BY <1>6 DEF Rows
  <2>2. \A t \in Rows(f) : tokens'[t].revoked = tokens[t].revoked
    BY <1>1, <1>6, <1>11 DEF Rows
  <2>3. \A v \in Workers : proc'[v] = proc[v] \/ proc'[v].family # f
    BY <1>7, <1>11
  <2>4. \A t \in Rows(f) : /\ tokens'[t].family = tokens[t].family
                          /\ tokens'[t].user = tokens[t].user
                          /\ tokens'[t].issued = tokens[t].issued
    BY <1>6 DEF Rows
  <2> QED
    BY <1>1, <1>4, <1>9, <2>1, <2>2, <2>3, <2>4, Untouched
<1> QED
  BY <1>10, <1>11
\* Revoking a family or all of a user: the families it reaches have no live token
\* and no other request, and the others are not touched.
LEMMA RevokesKeep ==
    ASSUME SessionsIInv, Record, NEW w \in Workers, RevokeFamily(w) \/ RevokeUser(w)
    PROVE  Base' /\ \A f \in Uncontested' : FamilyInv(f)'
<1> DEFINE q == proc[w]
           Reached(t) == IF q.pc = "revokeFamily" THEN tokens[t].family = q.family
                                                  ELSE tokens[t].user = q.user
           T == {t \in DOMAIN tokens : Reached(t) /\ IsLive(t)}
           F == IF q.pc = "revokeFamily" THEN {q.family}
                ELSE {tokens[t].family : t \in {s \in DOMAIN tokens : Reached(s)}}
<1>1. /\ Base /\ q \in Request /\ q.pc \in {"revokeFamily", "revokeUser"} /\ Shape(q)
      /\ now \in Nat /\ now # 0
  BY Fields DEF SessionsIInv, Base, Shapes, Clocks, RevokeFamily, RevokeUser, At
<1>2. Revoke(T) /\ ended' = ended \cup F /\ UNCHANGED <<resets, now>>
  <2>1. CASE RevokeFamily(w)
    <3>1. q.pc = "revokeFamily" /\ Revoke(Live(q.family)) /\ End({q.family})
      BY <2>1 DEF RevokeFamily, At
    <3>2. T = Live(q.family)
      BY <3>1 DEF Live, Rows
    <3> QED
      BY <2>1, <3>1, <3>2 DEF End, RevokeFamily
  <2>2. CASE RevokeUser(w)
    <3> DEFINE rows == {t \in DOMAIN tokens : tokens[t].user = q.user}
    <3>1. /\ q.pc = "revokeUser" /\ Revoke({t \in rows : IsLive(t)})
          /\ End({tokens[t].family : t \in rows})
      BY <2>2 DEF RevokeUser, At
    <3>2. T = {t \in rows : IsLive(t)} /\ F = {tokens[t].family : t \in rows}
      BY <3>1
    <3> QED
      BY <2>2, <3>1, <3>2 DEF End, RevokeUser
  <2> QED
    BY <2>1, <2>2
<1>3. \A f \in F : f \in DOMAIN tokens /\ \A t \in Rows(f) : Reached(t)
  <2> SUFFICES ASSUME NEW f \in F
               PROVE  f \in DOMAIN tokens /\ \A t \in Rows(f) : Reached(t)
    OBVIOUS
  <2>1. CASE q.pc = "revokeFamily"
    BY <1>1, <2>1 DEF Shape, FamilyOf, Rows
  <2>2. CASE q.pc = "revokeUser"
    <3>1. PICK s \in DOMAIN tokens : tokens[s].user = q.user /\ tokens[s].family = f
      BY <2>2
    <3>2. f \in DOMAIN tokens /\ tokens[f].user = q.user
      BY <1>1, <3>1, Fields DEF Base, FamiliesInv
    <3>3. \A t \in Rows(f) : tokens[t].user = q.user
      BY <1>1, <3>2 DEF Base, FamiliesInv, Rows
    <3> QED
      BY <2>2, <3>2, <3>3
  <2> QED
    BY <1>1, <2>1, <2>2
<1>4. \A f : f \notin F => \A t \in Rows(f) : ~Reached(t)
  BY <1>1 DEF Rows
<1>5. \A f \in F : Concerns(w, f)
  <2>1. CASE q.pc = "revokeFamily"
    BY <2>1 DEF Concerns
  <2>2. CASE q.pc = "revokeUser"
    <3> SUFFICES ASSUME NEW f \in F
                 PROVE  Concerns(w, f)
      OBVIOUS
    <3>1. PICK s \in DOMAIN tokens : tokens[s].user = q.user /\ tokens[s].family = f
      BY <2>2
    <3>2. tokens[f].user = q.user
      BY <1>1, <3>1 DEF Base, FamiliesInv
    <3> QED
      BY <2>2, <3>2 DEF Concerns
  <2> QED
    BY <1>1, <2>1, <2>2
<1> HIDE DEF F
<1>6. proc' = [proc EXCEPT ![w] = Waiting] /\ Waiting.family = 0
      /\ Waiting \in Request /\ Shape(Waiting) /\ OnTime(Waiting)
  BY DEF RevokeFamily, RevokeUser, Done, Waiting, Request, Shape, OnTime
<1>7. /\ DOMAIN tokens' = DOMAIN tokens
      /\ \A t \in DOMAIN tokens :
            /\ tokens'[t].family = tokens[t].family
            /\ tokens'[t].user = tokens[t].user
            /\ tokens'[t].issued = tokens[t].issued
            /\ tokens'[t].revoked = IF t \in T THEN now ELSE tokens[t].revoked
  BY <1>1, <1>2, RevokedRows DEF Base
<1>8. Base'
  <2>1. ended' \subseteq DOMAIN tokens
    BY <1>1, <1>2, <1>3 DEF Base
  <2> QED
    BY <1>1, <1>2, <1>6, <2>1, RevokeBase
<1>9. \A v \in Workers : proc'[v] = IF v = w THEN Waiting ELSE proc[v]
  BY <1>1, <1>6 DEF Base, TypeOK
<1>10. SUFFICES ASSUME NEW f \in Uncontested
                PROVE  FamilyInv(f)'
  BY <1>7, <1>8, WasFree DEF Uncontested
<1>11. FamilyInv(f) /\ f # 0
  BY <1>1, Fields DEF SessionsIInv, Uncontested, Base
<1>12. CASE f \in F
  <2>1. \A t \in Rows(f) : t \in T \/ ~IsLive(t)
    BY <1>3, <1>12 DEF Rows
  <2>2. Live(f)' = {}
    BY <1>1, <1>7, <2>1 DEF Live, Rows, IsLive
  <2>3. \A v \in Workers : proc[v].family = f => v = w
    BY <1>1, <1>5, <1>12, OnlyOne DEF SessionsIInv, At
  <2>4. \A v \in Workers : proc'[v].family # f
    BY <1>6, <1>9, <1>11, <2>3
  <2> QED
    BY <1>1, <1>7, <1>11, <2>2, <2>4, Cleared
<1>13. CASE f \notin F
  <2>1. Rows(f)' = Rows(f)
    BY <1>7 DEF Rows
  <2>2. \A t \in Rows(f) : /\ tokens'[t].family = tokens[t].family
                          /\ tokens'[t].user = tokens[t].user
                          /\ tokens'[t].issued = tokens[t].issued
                          /\ tokens'[t].revoked = tokens[t].revoked
    BY <1>4, <1>7, <1>13 DEF Rows
  <2>3. \A v \in Workers : proc'[v] = proc[v] \/ proc'[v].family # f
    BY <1>6, <1>9, <1>11
  <2>4. f \in ended' => f \in ended
    BY <1>2, <1>13
  <2> QED
    BY <1>1, <1>11, <2>1, <2>2, <2>3, <2>4, Untouched
<1> QED
  BY <1>12, <1>13
-------------------------------------------------------------------------------
(***************************************************************************)
(* Reset links, and the clock.                                             *)
(***************************************************************************)

\* A link that a step leaves alone, and whose requests it at most ends.
LEMMA LinkUntouched ==
    ASSUME NEW r, LinkInv(r), resets'[r] = resets[r],
           \A v \in Workers : proc'[v] = proc[v] \/ proc'[v].pc # "consume"
    PROVE  LinkInv(r)'
BY DEF LinkInv, LinkOf

\* Consuming a link marks it as used and counts.
LEMMA UsedLink ==
    ASSUME NEW x \in Reset
    PROVE  LET d == [[x EXCEPT !.used = TRUE] EXCEPT !.changes = x.changes + 1] IN
           d \in Reset /\ d.used = TRUE /\ d.changes = x.changes + 1
<1> DEFINE e == [x EXCEPT !.used = TRUE]
           d == [e EXCEPT !.changes = x.changes + 1]
<1>1. x.changes \in Nat
  BY DEF Reset
<1>2. e \in Reset /\ e.used = TRUE /\ e.changes = x.changes
  BY DEF Reset
<1> HIDE DEF e
<1>3. d \in Reset /\ d.used = e.used /\ d.changes = x.changes + 1
  BY <1>1, <1>2 DEF Reset
<1> QED
  BY <1>2, <1>3 DEF e

\* Consuming a link: the only request that had checked it has done so.
LEMMA ConsumeKeeps ==
    ASSUME SessionsIInv, Record, NEW w \in Workers, ConsumeReset(w)
    PROVE  /\ Base'
           /\ \A f \in Uncontested' : FamilyInv(f)'
           /\ \A r \in FreeLinks' : LinkInv(r)'
<1> DEFINE q == proc[w]
           c == q.row
           p == [pc |-> "revokeUser", row |-> 0, family |-> q.family,
                 user |-> q.user, since |-> q.since]
<1>1. /\ Base /\ q \in Request /\ q.pc = "consume" /\ Shape(q) /\ OnTime(q)
      /\ q.family = 0 /\ c \in DOMAIN resets
      /\ resets[c] \in Reset /\ resets[c].changes \in Nat
  BY Fields DEF SessionsIInv, Base, Shapes, Shape, Clocks, ConsumeReset, At
<1>2. proc' = [proc EXCEPT ![w] = p]
  <2> DEFINE h == [pc |-> "revokeUser", row |-> q.row, family |-> q.family,
                   user |-> q.user, since |-> q.since]
  <2>1. [q EXCEPT !.pc = "revokeUser"] = h
    BY <1>1 DEF Request
  <2>2. [h EXCEPT !.row = 0] = p
    OBVIOUS
  <2>3. proc \in [Workers -> Request]
    BY <1>1 DEF Base, TypeOK
  <2> QED
    BY <2>1, <2>2, <2>3 DEF ConsumeReset
<1>3. p \in Request /\ Shape(p) /\ OnTime(p)
  <2>1. p \in Request
    BY <1>1 DEF Request
  <2>2. Shape(p)
    BY <1>1 DEF Shape
  <2>3. OnTime(p)
    BY <1>1 DEF OnTime
  <2> QED
    BY <2>1, <2>2, <2>3
<1>4. \A v \in Workers : proc'[v] = IF v = w THEN p ELSE proc[v]
  BY <1>1, <1>2 DEF Base, TypeOK
<1>5. proc' \in [Workers -> Request]
  BY <1>1, <1>2, <1>3 DEF Base, TypeOK
<1>6. UNCHANGED <<tokens, now, ended>>
  BY DEF ConsumeReset
<1>7. /\ resets' \in Seq(Reset) /\ DOMAIN resets' = DOMAIN resets
      /\ resets'[c].used = TRUE /\ resets'[c].changes = resets[c].changes + 1
      /\ \A r \in DOMAIN resets : r # c => resets'[r] = resets[r]
  <2> DEFINE e == [resets[c] EXCEPT !.used = TRUE]
             d == [e EXCEPT !.changes = resets[c].changes + 1]
             half == [resets EXCEPT ![c] = e]
  <2>1. resets' = [half EXCEPT ![c] = d]
    BY <1>1 DEF ConsumeReset
  <2>2. d \in Reset /\ d.used = TRUE /\ d.changes = resets[c].changes + 1
    BY <1>1, UsedLink
  <2> HIDE DEF d, e
  <2>3. resets' = [resets EXCEPT ![c] = d]
    BY <2>1
  <2>4. resets \in Seq(Reset)
    BY <1>1 DEF Base, TypeOK
  <2> QED
    BY <1>1, <2>2, <2>3, <2>4
<1>8. Base'
  <2>1. Grows
    BY <1>1, <1>6, <1>7 DEF Grows, Base, TypeOK
  <2>2. FamiliesInv'
    BY <1>1, <1>6 DEF FamiliesInv, Base
  <2>3. \A t \in DOMAIN tokens' : tokens'[t].issued <= now /\ tokens'[t].revoked <= now
    BY <1>1, <1>6 DEF Base, Clocks
  <2>4. ended' \subseteq DOMAIN tokens'
    BY <1>1, <1>6 DEF Base
  <2> QED
    BY <1>1, <1>3, <1>4, <1>5, <2>1, <2>2, <2>3, <2>4, BaseStep
<1>9. ASSUME NEW f \in Uncontested'
      PROVE  FamilyInv(f)'
  <2>1. f \in Uncontested /\ f # 0
    BY <1>1, <1>6, <1>9, WasFree, Fields DEF Uncontested, Base
  <2>2. FamilyInv(f)
    BY <2>1 DEF SessionsIInv
  <2>3. Rows(f)' = Rows(f) /\ \A t \in Rows(f) : tokens'[t] = tokens[t]
    BY <1>6 DEF Rows
  <2>4. \A v \in Workers : proc'[v] = proc[v] \/ proc'[v].family # f
    BY <1>1, <1>4, <2>1
  <2> QED
    BY <1>1, <1>6, <2>1, <2>2, <2>3, <2>4, Untouched
<1>10. ASSUME NEW r \in FreeLinks'
       PROVE  LinkInv(r)'
  <2>1. r \in FreeLinks /\ r \in DOMAIN resets
    BY <1>7, <1>10, WasFree DEF FreeLinks
  <2>2. LinkInv(r)
    BY <2>1 DEF SessionsIInv
  <2>3. CASE r # c
    BY <1>4, <1>7, <2>1, <2>2, <2>3, LinkUntouched
  <2>4. CASE r = c
    <3>1. resets'[r].changes = 1 /\ resets'[r].used
      BY <1>1, <1>7, <2>2, <2>4 DEF LinkInv, LinkOf
    <3>2. \A v \in Workers : ~(proc'[v].pc = "consume" /\ proc'[v].row = r)
      BY <1>1, <1>4, <2>1, <2>4 DEF SessionsIInv, Alone, At
    <3> QED
      BY <3>1, <3>2 DEF LinkInv, LinkOf
  <2> QED
    BY <2>3, <2>4
<1> QED
  BY <1>8, <1>9, <1>10

\* A new link has changed nothing, and no request has checked it.
LEMMA ForgotKeeps ==
    ASSUME SessionsIInv, Record, NEW u \in Users, ForgotPassword(u)
    PROVE  /\ Base'
           /\ \A f \in Uncontested' : FamilyInv(f)'
           /\ \A r \in FreeLinks' : LinkInv(r)'
<1>0. PICK n : n = Len(resets) + 1
  OBVIOUS
<1>1. /\ Base /\ n \in Nat /\ DOMAIN resets = 1..(n - 1) /\ now \in Nat
      /\ UNCHANGED <<tokens, now, proc, ended>>
  BY <1>0, Fields DEF SessionsIInv, Base, ForgotPassword
<1> DEFINE row == [user |-> u, asked |-> now, used |-> FALSE, changes |-> 0]
<1>2. row \in Reset
  BY <1>1 DEF Reset
<1>3. /\ resets' \in Seq(Reset) /\ DOMAIN resets' = 1..n /\ resets'[n] = row
      /\ \A r \in DOMAIN resets : resets'[r] = resets[r]
  BY <1>0, <1>1, <1>2 DEF ForgotPassword, Base, TypeOK
<1>4. Base'
  <2>1. Grows
    BY <1>1, <1>3 DEF Grows, Base, TypeOK
  <2>2. FamiliesInv' /\ proc' \in [Workers -> Request]
    BY <1>1 DEF FamiliesInv, Base, TypeOK
  <2>3. \A t \in DOMAIN tokens' : tokens'[t].issued <= now /\ tokens'[t].revoked <= now
    BY <1>1 DEF Base, Clocks
  <2>4. ended' \subseteq DOMAIN tokens'
    BY <1>1 DEF Base
  <2> QED
    BY <1>1, <2>1, <2>2, <2>3, <2>4, BaseStep
<1>5. ASSUME NEW f \in Uncontested'
      PROVE  FamilyInv(f)'
  <2>1. f \in Uncontested /\ FamilyInv(f)
    BY <1>1, <1>5, WasFree DEF Uncontested, SessionsIInv
  <2>2. Rows(f)' = Rows(f)
    BY <1>1 DEF Rows
  <2> QED
    BY <1>1, <2>1, <2>2, Untouched
<1>6. ASSUME NEW r \in FreeLinks'
      PROVE  LinkInv(r)'
  <2>1. CASE r \in DOMAIN resets
    <3>1. LinkInv(r)
      BY <1>6, <2>1, WasFree DEF SessionsIInv
    <3> QED
      BY <1>1, <1>3, <2>1, <3>1, LinkUntouched
  <2>2. CASE r = n
    <3>1. \A v \in Workers : proc[v].pc = "consume" => proc[v].row # n
      BY <1>1 DEF Base, Shapes, Shape
    <3> QED
      BY <1>1, <1>3, <2>2, <3>1 DEF LinkInv, LinkOf
  <2> QED
    BY <1>1, <1>3, <1>6, <2>1, <2>2 DEF FreeLinks
<1> QED
  BY <1>4, <1>5, <1>6

\* The clock waits for the requests that have taken all the time they may.
LEMMA TickKeeps ==
    ASSUME SessionsIInv, Record, Tick
    PROVE  /\ Base'
           /\ \A f \in Uncontested' : FamilyInv(f)'
           /\ \A r \in FreeLinks' : LinkInv(r)'
<1>1. /\ Base /\ now \in Nat /\ now' = now + 1 /\ MaxStall \in Nat
      /\ UNCHANGED <<tokens, resets, proc, ended>>
  BY Fields, SessionAssumption DEF SessionsIInv, Base, Tick
<1>2. TypeOK'
  BY <1>1, RecordType DEF Base, TypeOK
<1>3. FamiliesInv' /\ Shapes'
  BY <1>1 DEF Base, FamiliesInv, Shapes, Shape, FamilyOf
<1>4. Clocks'
  <2>1. \A t \in DOMAIN tokens : tokens[t].issued \in Nat /\ tokens[t].revoked \in Nat
                                /\ tokens[t].issued <= now /\ tokens[t].revoked <= now
    BY <1>1, Fields DEF Base, Clocks
  <2>2. ASSUME NEW w \in Workers, proc[w].pc # "idle"
        PROVE  proc[w].since <= now + 1 /\ now + 1 <= proc[w].since + MaxStall
    <3>1. proc[w].since \in Nat /\ proc[w].since <= now
      BY <1>1, <2>2, Fields DEF Base, Clocks, OnTime
    <3>2. now - proc[w].since < MaxStall
      BY <2>2 DEF Tick, InFlight, At
    <3> QED
      BY <1>1, <3>1, <3>2
  <2> QED
    BY <1>1, <2>1, <2>2 DEF Clocks, OnTime
<1>5. Base'
  BY <1>1, <1>2, <1>3, <1>4 DEF Base
<1>6. ASSUME NEW f \in Uncontested'
      PROVE  FamilyInv(f)'
  <2>1. f \in Uncontested /\ FamilyInv(f)
    BY <1>1, <1>6, WasFree DEF Uncontested, SessionsIInv
  <2>2. Rows(f)' = Rows(f)
    BY <1>1 DEF Rows
  <2> QED
    BY <1>1, <2>1, <2>2, Untouched
<1>7. ASSUME NEW r \in FreeLinks'
      PROVE  LinkInv(r)'
  <2>1. LinkInv(r)
    BY <1>1, <1>7, WasFree DEF FreeLinks, SessionsIInv
  <2> QED
    BY <1>1, <2>1, LinkUntouched
<1> QED
  BY <1>5, <1>6, <1>7
-------------------------------------------------------------------------------
(***************************************************************************)
(* The invariant, and what follows from it.                                *)
(***************************************************************************)

\* What a step shares it records as contested.
LEMMA AloneKept ==
    ASSUME Record
    PROVE  Alone'
<1>1. \A f \in Uncontested' : f \in DOMAIN tokens' /\ f \notin Shared'.families
  BY DEF Record, Uncontested
<1>2. \A r \in FreeLinks' : r \in DOMAIN resets' /\ r \notin Shared'.links
  BY DEF Record, FreeLinks
<1>3. \A f \in DOMAIN tokens' : f \notin Shared'.families =>
         \A v, w \in InFlight' : Concerns(v, f)' /\ Concerns(w, f)' => v = w
  BY DEF Shared
<1>4. \A r \in DOMAIN resets' : r \notin Shared'.links =>
         \A v, w \in Workers :
            /\ At(v, "consume")' /\ proc'[v].row = r
            /\ At(w, "consume")' /\ proc'[w].row = r
            => v = w
  BY DEF Shared
<1> QED
  BY <1>1, <1>2, <1>3, <1>4 DEF Alone

\* It holds before the first request.
LEMMA SessionsStart == Init => SessionsIInv
<1> SUFFICES ASSUME Init
             PROVE  SessionsIInv
  OBVIOUS
<1>1. /\ tokens = << >> /\ resets = << >> /\ now = 1 /\ ended = {}
      /\ proc = [w \in Workers |-> Waiting]
      /\ contested = [families |-> {}, links |-> {}]
  BY DEF Init
<1>2. Waiting \in Request /\ Shape(Waiting) /\ OnTime(Waiting)
  BY DEF Waiting, Request, Shape, OnTime
<1>3. TypeOK
  <2>1. tokens \in Seq(Token) /\ resets \in Seq(Reset) /\ now \in Nat
    BY <1>1
  <2>2. proc \in [Workers -> Request]
    BY <1>1, <1>2
  <2>3. ended \subseteq Nat \ {0} /\ contested \in [families : SUBSET Nat, links : SUBSET Nat]
    BY <1>1
  <2> QED
    BY <2>1, <2>2, <2>3 DEF TypeOK
<1>4. DOMAIN tokens = {} /\ DOMAIN resets = {}
  BY <1>1
<1>5. Base
  BY <1>1, <1>2, <1>3, <1>4 DEF Base, FamiliesInv, Shapes, Clocks
<1>6. Alone
  BY <1>4 DEF Alone, Uncontested, FreeLinks
<1> QED
  BY <1>4, <1>5, <1>6 DEF SessionsIInv, Uncontested, FreeLinks

\* Every step keeps it.
LEMMA SessionsSteps == SessionsIInv /\ [Next]_vars => SessionsIInv'
<1> SUFFICES ASSUME SessionsIInv, [Next]_vars
             PROVE  SessionsIInv'
  OBVIOUS
<1>1. CASE Record /\ \E w \in Workers : Move(w)
  <2>1. PICK w \in Workers : Move(w)
    BY <1>1
  <2>2. MovesWell(w)
    BY <2>1, MovesAreGood
  <2>3. PICK p : Moves(w, p)
    BY <2>2 DEF MovesWell
  <2>4. Base'
    BY <1>1, <2>3, BaseMoves DEF SessionsIInv
  <2>5. UNCHANGED <<tokens, resets>>
    BY <2>3 DEF Moves
  <2>6. \A f \in Uncontested' : FamilyInv(f)'
    BY <1>1, <2>2, <2>5, WasFree, FamilyMoves DEF SessionsIInv, Uncontested
  <2>7. \A r \in FreeLinks' : LinkInv(r)'
    BY <1>1, <2>2, <2>5, WasFree, LinkMoves DEF SessionsIInv, FreeLinks
  <2> QED
    BY <1>1, <2>4, <2>6, <2>7, AloneKept DEF SessionsIInv
<1>2. ASSUME NEW w \in Workers, Record,
             IssueTokens(w) \/ RevokeOne(w) \/ RevokeFamily(w) \/ RevokeUser(w)
      PROVE  SessionsIInv'
  <2>1. Base' /\ \A f \in Uncontested' : FamilyInv(f)'
    BY <1>2, IssueBase, IssueFamily, RevokeOneKeeps, RevokesKeep DEF SessionsIInv
  <2>2. resets' = resets
    BY <1>2 DEF IssueTokens, RevokeOne, RevokeFamily, RevokeUser
  <2>3. \A v \in Workers : proc'[v] = proc[v] \/ proc'[v].pc # "consume"
    <3>1. CASE IssueTokens(w) \/ RevokeFamily(w) \/ RevokeUser(w)
      BY <3>1 DEF IssueTokens, RevokeFamily, RevokeUser, Done, Waiting,
                  SessionsIInv, Base, TypeOK
    <3>2. CASE RevokeOne(w)
      <4>1. proc \in [Workers -> Request]
        BY DEF SessionsIInv, Base, TypeOK
      <4>2. proc' = [proc EXCEPT ![w].pc = "issue", ![w].row = 0]
        BY <3>2 DEF RevokeOne
      <4>3. [[proc[w] EXCEPT !.pc = "issue"] EXCEPT !.row = 0].pc = "issue"
        BY <4>1 DEF Request
      <4> QED
        BY <4>1, <4>2, <4>3
    <3> QED
      BY <1>2, <3>1, <3>2
  <2>4. \A r \in FreeLinks' : LinkInv(r)'
    BY <1>2, <2>2, <2>3, WasFree, LinkUntouched DEF SessionsIInv, FreeLinks
  <2> QED
    BY <1>2, <2>1, <2>4, AloneKept DEF SessionsIInv
<1>3. ASSUME NEW w \in Workers, Record, ConsumeReset(w)
      PROVE  SessionsIInv'
  BY <1>3, ConsumeKeeps, AloneKept DEF SessionsIInv
<1>4. ASSUME NEW u \in Users, Record, ForgotPassword(u)
      PROVE  SessionsIInv'
  BY <1>4, ForgotKeeps, AloneKept DEF SessionsIInv
<1>5. CASE Record /\ Tick
  BY <1>5, TickKeeps, AloneKept DEF SessionsIInv
<1>6. CASE UNCHANGED vars
  BY <1>6 DEF vars, SessionsIInv, Base, TypeOK, FamiliesInv, Shapes, Shape, FamilyOf,
              Clocks, OnTime, Alone, Uncontested, FreeLinks, InFlight, At, Concerns,
              FamilyInv, OneLive, EndedHere, RotationOf, InTime, RevokesFirst, Live,
              Rows, IsLive, Successors, Succeeds, LinkInv, LinkOf
<1> QED
  BY <1>1, <1>2, <1>3, <1>4, <1>5, <1>6 DEF Next, Step, Move

\* The inductive invariant is one.
LEMMA SessionsAlways == Spec => []SessionsIInv
<1> QED
  BY SessionsStart, SessionsSteps, PTL DEF Spec

\* Rows and requests are well formed, and a family in which no two requests
\* overlapped has one live token (auth.service.ts:276-322).
THEOREM SessionsAreRight == Spec => []SessionsInv
<1>1. SessionsIInv => SessionsInv
  BY DEF SessionsIInv, Base, SessionsInv, OneLivePerFamily, Uncontested, FamilyInv, OneLive
<1> QED
  BY <1>1, SessionsAlways, PTL

\* A session that no two requests shared never outlives its idle timeout, however
\* its tokens are rotated and lost (auth.service.ts:270-322).
THEOREM IdleOnesEnd == Spec => []IdleSessionsEnd
<1>1. SessionsIInv => IdleSessionsEnd
  <2> SUFFICES ASSUME SessionsIInv, NEW t \in DOMAIN tokens,
                      tokens[t].family # t, tokens[t].family \notin contested.families
               PROVE  \E s \in 1..(t - 1) : Succeeds(t, s)
    BY DEF IdleSessionsEnd
  <2> DEFINE f == tokens[t].family
  <2>1. f \in DOMAIN tokens
    BY Fields DEF SessionsIInv, Base, FamiliesInv
  <2>2. FamilyInv(f)
    BY <2>1 DEF SessionsIInv, Uncontested
  <2> QED
    BY <2>2 DEF FamilyInv, Successors, Rows
<1> QED
  BY <1>1, SessionsAlways, PTL

\* A reset link that no two requests had checked at once changes the password at
\* most once (auth.service.ts:371-393).
THEOREM LinksWorkOnce == Spec => []LinkWorksOnce
<1>1. SessionsIInv => LinkWorksOnce
  BY DEF SessionsIInv, LinkWorksOnce, FreeLinks, LinkInv
<1> QED
  BY <1>1, SessionsAlways, PTL

\* Logout, a password change, a reuse or an idle session leaves no live token,
\* unless requests about the session overlapped (auth.service.ts:295-334, 417-423).
THEOREM EndedStay == Spec => []EndedStaysEnded
<1>1. SessionsIInv => EndedStaysEnded
  BY DEF SessionsIInv, Base, EndedStaysEnded, Uncontested, FamilyInv, EndedHere
<1> QED
  BY <1>1, SessionsAlways, PTL
-------------------------------------------------------------------------------
(***************************************************************************)
(* No step revives a family, whoever shares it.                            *)
(***************************************************************************)

\* A dead family whose rows stay revoked, and which no request begins to rotate.
LEMMA DeadKept ==
    ASSUME NEW f, Dead(f), Rows(f)' = Rows(f),
           \A t \in Rows(f) : tokens'[t].revoked # 0,
           \A v \in Workers : \/ proc'[v] = proc[v]
                              \/ proc'[v].family # f
                              \/ proc'[v].pc \notin {"issue", "revokeOne"}
    PROVE  Dead(f)'
<1>1. Live(f)' = {}
  BY DEF Live, IsLive
<1>2. ~Renewing(f)'
  BY <1>1 DEF Dead, Renewing
<1> QED
  BY <1>1, <1>2 DEF Dead

\* Each step leaves a dead family dead: what is presented of it is revoked, so it
\* is not rotated, and within the grace period no live token is found.
LEMMA DeadStep ==
    ASSUME Base, Next, NEW f \in DOMAIN tokens, Dead(f)
    PROVE  Dead(f)'
<1>1. /\ f # 0 /\ now # 0 /\ proc \in [Workers -> Request] /\ TypeOK
      /\ Live(f) = {} /\ \A t \in Rows(f) : tokens[t].revoked # 0
      /\ f \in 1..Len(tokens)
  BY Fields DEF Base, TypeOK, Clocks, Dead, Live, IsLive
<1>2. ASSUME UNCHANGED tokens, NEW w \in Workers, NEW p, proc' = [proc EXCEPT ![w] = p],
             p.family # f \/ p.pc \notin {"issue", "revokeOne"}
      PROVE  Dead(f)'
  <2>1. Rows(f)' = Rows(f)
    BY <1>2 DEF Rows
  <2>2. \A v \in Workers : proc'[v] = proc[v] \/ proc'[v] = p
    BY <1>1, <1>2
  <2> QED
    BY <1>1, <1>2, <2>1, <2>2, DeadKept
<1>3. ASSUME NEW w \in Workers, NEW T, Revoke(T), NEW p, proc' = [proc EXCEPT ![w] = p],
             p.family # f \/ p.pc \notin {"issue", "revokeOne"}
      PROVE  Dead(f)'
  <2>1. Rows(f)' = Rows(f) /\ \A t \in Rows(f) : tokens'[t].revoked # 0
    BY <1>1, <1>3, RevokedRows DEF Rows
  <2>2. \A v \in Workers : proc'[v] = proc[v] \/ proc'[v] = p
    BY <1>1, <1>3
  <2> QED
    BY <1>3, <2>1, <2>2, DeadKept
<1>4. ASSUME UNCHANGED <<tokens, proc>>
      PROVE  Dead(f)'
  <2>1. Rows(f)' = Rows(f)
    BY <1>4 DEF Rows
  <2> QED
    BY <1>1, <1>4, <2>1, DeadKept
<1>5. ASSUME NEW w \in Workers, NEW u \in Users, Login(w, u) \/ ChangePassword(w, u)
      PROVE  Dead(f)'
  <2>1. PICK l : proc' = [proc EXCEPT ![w] = Outside(l, 0, u)]
    BY <1>5 DEF Login, ChangePassword, Begin
  <2>2. Outside(l, 0, u).family # f
    BY <1>1 DEF Outside
  <2> QED
    BY <1>2, <1>5, <2>1, <2>2 DEF Login, ChangePassword
<1>6. ASSUME NEW w \in Workers, NEW r \in DOMAIN resets, ResetPassword(w, r)
      PROVE  Dead(f)'
  <2>1. Outside("consume", r, resets[r].user).family # f
    BY <1>1 DEF Outside
  <2> QED
    BY <1>2, <1>6, <2>1 DEF ResetPassword, Begin
<1>7. ASSUME NEW w \in Workers, NEW t \in DOMAIN tokens, Refresh(w, t) \/ Logout(w, t)
      PROVE  Dead(f)'
  <2>1. CASE RefreshLive(w, t)
    <3>1. tokens[t].family # f
      BY <1>1, <2>1 DEF RefreshLive, Live, Rows
    <3>2. About(t, "revokeOne").family # f
      BY <3>1 DEF About
    <3> QED
      BY <1>2, <2>1, <3>2 DEF RefreshLive, Begin
  <2>2. CASE RefreshAgain(w, t)
    <3> DEFINE p == [pc |-> "findLive", row |-> 0, family |-> tokens[t].family,
                     user |-> tokens[t].user, since |-> now]
    <3>1. [About(t, "findLive") EXCEPT !.row = 0] = p
      BY DEF About
    <3>2. proc' = [proc EXCEPT ![w] = p] /\ UNCHANGED tokens
      BY <2>2, <3>1 DEF RefreshAgain, Begin
    <3> QED
      BY <1>2, <3>2
  <2>3. CASE RefreshIdle(w, t) \/ RefreshReused(w, t) \/ Logout(w, t)
    <3>1. About(t, "revokeFamily").pc = "revokeFamily"
      BY DEF About
    <3> QED
      BY <1>2, <2>3, <3>1 DEF RefreshIdle, RefreshReused, Logout, Begin
  <2> QED
    BY <1>7, <2>1, <2>2, <2>3 DEF Refresh
<1>8. ASSUME NEW w \in Workers, FindLive(w)
      PROVE  Dead(f)'
  <2> DEFINE q == proc[w]
  <2>1. q \in Request
    BY <1>1
  <2>2. CASE \E t \in Live(q.family) :
                proc' = [proc EXCEPT ![w].pc = "revokeOne", ![w].row = t]
    <3>1. PICK t \in Live(q.family) :
             proc' = [proc EXCEPT ![w].pc = "revokeOne", ![w].row = t]
      BY <2>2
    <3>2. q.family # f
      BY <1>1
    <3> DEFINE h == [q EXCEPT !.pc = "revokeOne"]
               p == [h EXCEPT !.row = t]
    <3>3. p.family # f
      BY <2>1, <3>2 DEF Request
    <3>4. proc' = [proc EXCEPT ![w] = p]
      BY <1>1, <3>1
    <3> QED
      BY <1>2, <1>8, <3>3, <3>4 DEF FindLive
  <2>3. CASE proc' = [proc EXCEPT ![w].pc = "revokeFamily"]
    <3> DEFINE p == [q EXCEPT !.pc = "revokeFamily"]
    <3>1. p.pc = "revokeFamily"
      BY <2>1 DEF Request
    <3>2. proc' = [proc EXCEPT ![w] = p]
      BY <1>1, <2>3
    <3> QED
      BY <1>2, <1>8, <3>1, <3>2 DEF FindLive
  <2> QED
    BY <1>8, <2>2, <2>3 DEF FindLive
<1>9. ASSUME NEW w \in Workers, RevokeFamily(w) \/ RevokeUser(w)
      PROVE  Dead(f)'
  <2>1. proc' = [proc EXCEPT ![w] = Waiting] /\ Waiting.family # f
    BY <1>1, <1>9 DEF RevokeFamily, RevokeUser, Done, Waiting
  <2>2. \E T : Revoke(T)
    BY <1>9 DEF RevokeFamily, RevokeUser
  <2> QED
    BY <1>3, <2>1, <2>2
<1>10. ASSUME NEW w \in Workers, RevokeOne(w)
       PROVE  Dead(f)'
  <2> DEFINE q == proc[w]
             h == [q EXCEPT !.pc = "issue"]
             p == [h EXCEPT !.row = 0]
  <2>1. q \in Request /\ q.family # f
    BY <1>1, <1>10 DEF Dead, Renewing, RevokeOne, At
  <2>2. p.family # f
    BY <2>1 DEF Request
  <2>3. proc' = [proc EXCEPT ![w] = p] /\ Revoke({q.row})
    BY <1>1, <1>10 DEF RevokeOne
  <2> QED
    BY <1>3, <2>2, <2>3
<1>11. ASSUME NEW w \in Workers, IssueTokens(w)
       PROVE  Dead(f)'
  <2>1. proc[w].family # f
    BY <1>11 DEF Dead, Renewing, IssueTokens, At
  <2>2. NewFamily(w) # f
    BY <1>1, <2>1 DEF NewFamily
  <2>3. Rows(f)' = Rows(f) /\ \A t \in Rows(f) : tokens'[t] = tokens[t]
    BY <1>11, <2>2, IssuedRow DEF Rows
  <2>4. \A v \in Workers : proc'[v] = proc[v] \/ proc'[v].family # f
    BY <1>1, <1>11 DEF IssueTokens, Done, Waiting
  <2> QED
    BY <1>1, <2>3, <2>4, DeadKept
<1>12. ASSUME NEW w \in Workers, ConsumeReset(w)
       PROVE  Dead(f)'
  <2> DEFINE q == proc[w]
             h == [q EXCEPT !.pc = "revokeUser"]
             p == [h EXCEPT !.row = 0]
  <2>1. q \in Request
    BY <1>1
  <2>2. p.pc = "revokeUser"
    BY <2>1 DEF Request
  <2>3. proc' = [proc EXCEPT ![w] = p] /\ UNCHANGED tokens
    BY <1>1, <1>12 DEF ConsumeReset
  <2> QED
    BY <1>2, <2>2, <2>3
<1>13. ASSUME NEW w \in Workers, Crash(w)
       PROVE  Dead(f)'
  <2>1. proc' = [proc EXCEPT ![w] = Waiting] /\ Waiting.family # f /\ UNCHANGED tokens
    BY <1>1, <1>13 DEF Crash, Done, Waiting
  <2> QED
    BY <1>2, <2>1
<1>14. ASSUME Tick \/ \E u \in Users : ForgotPassword(u)
       PROVE  Dead(f)'
  BY <1>4, <1>14 DEF Tick, ForgotPassword
<1> QED
  BY <1>5, <1>6, <1>7, <1>8, <1>9, <1>10, <1>11, <1>12, <1>13, <1>14 DEF Next, Step

\* A family with no live token and no rotation in flight gets none from any token
\* that is presented, also where requests overlap (auth.service.ts:276-322).
THEOREM DeadStaysDead == Spec => DeadFamilyStaysDead
<1>1. SessionsIInv /\ [Next]_vars =>
         [\A f \in 1..Len(tokens) : Dead(f) => Dead(f)']_vars
  <2> SUFFICES ASSUME SessionsIInv, Next, NEW f \in 1..Len(tokens), Dead(f)
               PROVE  Dead(f)'
    OBVIOUS
  <2>1. Base /\ f \in DOMAIN tokens
    BY Fields DEF SessionsIInv, Base
  <2> QED
    BY <2>1, DeadStep
<1> QED
  BY <1>1, SessionsAlways, PTL DEF Spec, DeadFamilyStaysDead
===============================================================================

------------------------------- MODULE Sessions -------------------------------
(***************************************************************************)
(* Login sessions of the auth service: families of refresh tokens, rotated *)
(* on every use.                                                           *)
(*   apps/auth-service/src/modules/auth/auth.service.ts                    *)
(* A worker is one request in flight; it is cut at its awaits.  Time is    *)
(* counted in units of which the grace period, the idle timeout and the    *)
(* lifetime of a token are multiples.  An access token is not a row: it is *)
(* out of scope.                                                           *)
(***************************************************************************)
EXTENDS Naturals, Sequences, FiniteSets

CONSTANTS
    Users,
    Workers,
    Grace,      \* a rotated token may be presented again for that long (60 s)
    Idle,       \* SESSION_IDLE_TIMEOUT_MS (60 min)
    Lifetime,   \* expiresAt - creation (7 days)
    ResetLifetime,  \* a reset link (1 h)
    MaxResets,  \* bound on the reset links
    MaxStall,   \* bound: clock units a request may take
    MaxTokens,  \* bound on the rows
    MaxTime,    \* bound on the clock
    Nobody

ASSUME SessionAssumption ==
    /\ {Grace, Idle, Lifetime, ResetLifetime, MaxResets,
        MaxStall, MaxTokens, MaxTime} \subseteq Nat
    /\ Nobody \notin Users

VARIABLES
    tokens,     \* RefreshToken rows; a family is the number of its first row
    resets,     \* PasswordResetToken rows; changes counts what each has changed
    now,
    proc,       \* requests in flight
    ended,      \* history: the families that requests have ended
    contested   \* history: the families and links that requests shared


vars == <<tokens, resets, now, proc, ended, contested>>

Token == [family : Nat \ {0}, user : Users, issued : Nat, revoked : Nat]
Reset == [user : Users, asked : Nat, used : BOOLEAN, changes : Nat]

Request == [pc : {"idle", "issue", "findLive", "revokeOne", "revokeFamily",
                  "consume", "revokeUser"},
            row : Nat, family : Nat, user : Users \cup {Nobody},
            since : Nat]

Waiting == [pc |-> "idle", row |-> 0, family |-> 0, user |-> Nobody,
            since |-> 0]

At(w, l) == proc[w].pc = l
Done(w) == proc' = [proc EXCEPT ![w] = Waiting]
Begin(w, request) == proc' = [proc EXCEPT ![w] = request]

\* A request of the user u, outside a session, that goes on at location l; r is
\* its reset link, if any.
Outside(l, r, u) ==
    [pc |-> l, row |-> r, family |-> 0, user |-> u, since |-> now]

\* revokedAt is null.
IsLive(t) == tokens[t].revoked = 0
Rows(f) == {t \in DOMAIN tokens : tokens[t].family = f}
Live(f) == {t \in Rows(f) : IsLive(t)}

Revoke(T) ==
    tokens' = [t \in DOMAIN tokens |->
                  IF t \in T THEN [tokens[t] EXCEPT !.revoked = now]
                             ELSE tokens[t]]

End(families) == ended' = ended \cup families

InFlight == {w \in Workers : ~At(w, "idle")}
Room == Len(tokens) + Cardinality(InFlight) < MaxTokens

Init ==
    /\ tokens = << >>
    /\ resets = << >>
    /\ now = 1
    /\ proc = [w \in Workers |-> Waiting]
    /\ ended = {}
    /\ contested = [families |-> {}, links |-> {}]

(***************************************************************************)
(* login and verify2fa end in issueTokens with a new family.               *)
(***************************************************************************)
Login(w, u) ==
    /\ At(w, "idle")
    /\ Room
    /\ Begin(w, Outside("issue", 0, u))
    /\ UNCHANGED <<tokens, resets, now, ended>>

IssueTokens(w) ==
    LET f == IF proc[w].family = 0 THEN Len(tokens) + 1 ELSE proc[w].family IN
    /\ At(w, "issue")
    /\ tokens' = Append(tokens, [family |-> f, user |-> proc[w].user,
                                 issued |-> now, revoked |-> 0])
    /\ Done(w)
    /\ UNCHANGED <<resets, now, ended>>

(***************************************************************************)
(* refreshTokens: one read of the row decides; what follows works on that  *)
(* read.                                                                   *)
(***************************************************************************)
WithinGrace(t) == ~IsLive(t) /\ now - tokens[t].revoked < Grace
Expired(t) == tokens[t].issued + Lifetime < now

\* Variant: no idle timeout.
NeverIdle(t) == FALSE

TooIdle(t) == now - tokens[t].issued > Idle

\* A request about the row t that goes on at location l.
About(t, l) ==
    [pc |-> l, row |-> t, family |-> tokens[t].family,
     user |-> tokens[t].user, since |-> now]

RefreshLive(w, t) ==
    /\ At(w, "idle") /\ Room
    /\ IsLive(t) /\ ~Expired(t) /\ ~TooIdle(t)
    /\ Begin(w, About(t, "revokeOne"))
    /\ UNCHANGED <<tokens, resets, now, ended>>

RefreshIdle(w, t) ==
    /\ At(w, "idle")
    /\ IsLive(t) /\ ~Expired(t) /\ TooIdle(t)
    /\ Begin(w, About(t, "revokeFamily"))
    /\ UNCHANGED <<tokens, resets, now, ended>>

RefreshAgain(w, t) ==
    /\ At(w, "idle") /\ Room
    /\ WithinGrace(t)
    /\ Begin(w, [About(t, "findLive") EXCEPT !.row = 0])
    /\ UNCHANGED <<tokens, resets, now, ended>>

RefreshReused(w, t) ==
    /\ At(w, "idle")
    /\ ~IsLive(t) /\ ~WithinGrace(t)
    /\ Begin(w, About(t, "revokeFamily"))
    /\ UNCHANGED <<tokens, resets, now, ended>>

\* Variants: the grace period hands out a token without looking for a live
\* one; it leaves the live one alive.
GraceWithoutLive(w) ==
    /\ At(w, "findLive")
    /\ proc' = [proc EXCEPT ![w].pc = "issue"]
    /\ UNCHANGED <<tokens, resets, now, ended>>

GraceKeepsLive(w) ==
    /\ At(w, "findLive")
    /\ proc' = [proc EXCEPT ![w].pc = IF Live(proc[w].family) = {}
                                      THEN "revokeFamily" ELSE "issue"]
    /\ UNCHANGED <<tokens, resets, now, ended>>

\* Within the grace period some live token of the family is replaced.
FindLive(w) ==
    LET live == Live(proc[w].family) IN
    /\ At(w, "findLive")
    /\ \/ \E t \in live :
            proc' = [proc EXCEPT ![w].pc = "revokeOne", ![w].row = t]
       \/ /\ live = {}
          /\ proc' = [proc EXCEPT ![w].pc = "revokeFamily"]
    /\ UNCHANGED <<tokens, resets, now, ended>>

\* The update does not ask whether the row is still live.
RevokeOne(w) ==
    /\ At(w, "revokeOne")
    /\ Revoke({proc[w].row})
    /\ proc' = [proc EXCEPT ![w].pc = "issue", ![w].row = 0]
    /\ UNCHANGED <<resets, now, ended>>

\* Variant: only the row that was presented.
RevokePresented(w) ==
    /\ At(w, "revokeFamily")
    /\ Revoke({proc[w].row})
    /\ End({proc[w].family})
    /\ Done(w)
    /\ UNCHANGED <<resets, now>>

RevokeFamily(w) ==
    /\ At(w, "revokeFamily")
    /\ Revoke(Live(proc[w].family))
    /\ End({proc[w].family})
    /\ Done(w)
    /\ UNCHANGED <<resets, now>>

(***************************************************************************)
(* logout, changePassword, forgotPassword and resetPassword.               *)
(***************************************************************************)
Logout(w, t) ==
    /\ At(w, "idle")
    /\ Begin(w, About(t, "revokeFamily"))
    /\ UNCHANGED <<tokens, resets, now, ended>>

ChangePassword(w, u) ==
    /\ At(w, "idle")
    /\ Begin(w, Outside("revokeUser", 0, u))
    /\ UNCHANGED <<tokens, resets, now, ended>>

ForgotPassword(u) ==
    /\ Len(resets) < MaxResets
    /\ resets' = Append(resets, [user |-> u, asked |-> now, used |-> FALSE,
                                changes |-> 0])
    /\ UNCHANGED <<tokens, now, proc, ended>>

LinkExpired(r) == resets[r].asked + ResetLifetime < now

\* Variant: usedAt is not looked at.
ResetUsed(w, r) ==
    /\ At(w, "idle")
    /\ ~LinkExpired(r)
    /\ Begin(w, Outside("consume", r, resets[r].user))
    /\ UNCHANGED <<tokens, resets, now, ended>>

\* The link is checked before the new password is hashed ...
ResetPassword(w, r) ==
    /\ At(w, "idle")
    /\ ~resets[r].used /\ ~LinkExpired(r)
    /\ Begin(w, Outside("consume", r, resets[r].user))
    /\ UNCHANGED <<tokens, resets, now, ended>>

\* ... and consumed with the write of the password.
ConsumeReset(w) ==
    /\ At(w, "consume")
    /\ resets' = [resets EXCEPT ![proc[w].row].used = TRUE,
                                ![proc[w].row].changes = @ + 1]
    /\ proc' = [proc EXCEPT ![w].pc = "revokeUser", ![w].row = 0]
    /\ UNCHANGED <<tokens, now, ended>>

RevokeUser(w) ==
    LET rows == {t \in DOMAIN tokens : tokens[t].user = proc[w].user} IN
    /\ At(w, "revokeUser")
    /\ Revoke({t \in rows : IsLive(t)})
    /\ End({tokens[t].family : t \in rows})
    /\ Done(w)
    /\ UNCHANGED <<resets, now>>

Crash(w) ==
    /\ ~At(w, "idle")
    /\ Done(w)
    /\ UNCHANGED <<tokens, resets, now, ended>>

Tick ==
    /\ now < MaxTime
    /\ \A w \in InFlight : now - proc[w].since < MaxStall
    /\ now' = now + 1
    /\ UNCHANGED <<tokens, resets, proc, ended>>

\* What two requests in flight are about: one family, also through its user,
\* or one reset link.
Concerns(w, f) ==
    \/ proc[w].family = f
    \/ /\ proc[w].pc \in {"consume", "revokeUser"}
       /\ tokens[f].user = proc[w].user

Shared ==
    [families |-> {f \in DOMAIN tokens : \E v, w \in InFlight :
                      v # w /\ Concerns(v, f) /\ Concerns(w, f)},
     links |-> {r \in DOMAIN resets : \E v, w \in Workers :
                   /\ v # w /\ At(v, "consume") /\ At(w, "consume")
                   /\ proc[v].row = r /\ proc[w].row = r}]

Record ==
    contested' = [families |-> contested.families \cup Shared'.families,
                  links |-> contested.links \cup Shared'.links]

Refresh(w, t) ==
    \/ RefreshLive(w, t) \/ RefreshIdle(w, t)
    \/ RefreshAgain(w, t) \/ RefreshReused(w, t)

Step ==
    \/ \E w \in Workers, u \in Users : Login(w, u) \/ ChangePassword(w, u)
    \/ \E w \in Workers, t \in DOMAIN tokens : Refresh(w, t) \/ Logout(w, t)
    \/ \E w \in Workers, r \in DOMAIN resets : ResetPassword(w, r)
    \/ \E u \in Users : ForgotPassword(u)
    \/ \E w \in Workers :
          \/ IssueTokens(w) \/ FindLive(w) \/ RevokeOne(w)
          \/ RevokeFamily(w) \/ ConsumeReset(w) \/ RevokeUser(w) \/ Crash(w)
    \/ Tick

Next == Step /\ Record

Spec == Init /\ [][Next]_vars

-------------------------------------------------------------------------------
(***************************************************************************)
(* Properties.                                                             *)
(***************************************************************************)

\* The rows and the requests have the shape the schema gives them.
TypeOK ==
    /\ tokens \in Seq(Token)
    /\ resets \in Seq(Reset)
    /\ now \in Nat
    /\ proc \in [Workers -> Request]
    /\ ended \subseteq Nat \ {0}
    /\ contested \in [families : SUBSET Nat, links : SUBSET Nat]

\* A request that is about to add a token to family f, or to find one there.
Renewing(f) ==
    \E w \in Workers :
        /\ proc[w].family = f
        /\ \/ proc[w].pc \in {"issue", "revokeOne"}
           \/ proc[w].pc = "findLive" /\ Live(f) # {}

Dead(f) == Rows(f) # {} /\ Live(f) = {} /\ ~Renewing(f)

\* Nothing revives a session: once a family has no live token and no rotation
\* in flight, no token that is presented, within the grace period or after
\* it, gives it a live one.
DeadFamilyStaysDead ==
    [][\A f \in 1..Len(tokens) : Dead(f) => Dead(f)']_vars

\* A token issued to the user of the family of the row s, no later than the
\* idle timeout after s or within the grace period, and the time a request takes.
Succeeds(t, s) ==
    /\ tokens[s].family = tokens[t].family
    /\ tokens[s].user = tokens[t].user
    /\ \/ tokens[t].issued <= tokens[s].issued + Idle + MaxStall
       \/ tokens[t].issued < tokens[s].issued + Grace + MaxStall

\* A session never outlives its idle timeout and never changes hands: every
\* token but the family's first succeeds an earlier one in time, unless two
\* requests about the family overlapped.  When they did, several old live
\* tokens can be handed out one after the other, each by presenting within the
\* grace period the one a lost request revoked (auth.service.ts:270-322).
IdleSessionsEnd ==
    \A t \in DOMAIN tokens :
        \/ tokens[t].family = t
        \/ tokens[t].family \in contested.families
        \/ \E s \in 1..(t - 1) : Succeeds(t, s)

\* Rotation: a family has one live token at a time, unless two requests about
\* it overlapped (auth.service.ts:276-322).
OneLivePerFamily ==
    \A f \in DOMAIN tokens \ contested.families : \A s, t \in Live(f) : s = t

\* Rows and requests are well formed, and rotation leaves one live token, or
\* two where requests overlapped: no interleaving, restart or retry inside the
\* grace period leaves more (auth.service.ts:276-322).
SessionsInv == TypeOK /\ OneLivePerFamily

\* "Token already used": a reset link changes the password once, also when the
\* request that consumed it is cut off; two requests can use it only when both
\* checked it before either consumed it (auth.service.ts:371-393).
LinkWorksOnce ==
    \A r \in DOMAIN resets \ contested.links : resets[r].changes <= 1

\* What a request has ended has no live token any more, unless another request
\* about that session overlapped with it or with one before it
\* (auth.service.ts:295-334 and 417-423).
EndedStaysEnded == \A f \in ended \ contested.families : Live(f) = {}
===============================================================================

------------------------------- MODULE LoginCodes -------------------------------
(***************************************************************************)
(* The e-mailed codes of the second login step, for one user, behind the   *)
(* rate limiter.                                                           *)
(*   apps/auth-service/src/modules/auth/auth.service.ts                    *)
(* The code is a column of the user's row; the failed attempts and the     *)
(* resend cooldown are in the memory of the process.  What a handler does  *)
(* between two awaits is one step.                                         *)
(***************************************************************************)
EXTENDS RateLimiter

CONSTANTS
    Requests,   \* bound: the requests under way at once
    MaxRequests,\* bound on the requests made
    Allowed,    \* wrong codes that lock the user (5)
    Lock,       \* 15 min
    Validity,   \* 5 min
    Cooldown,   \* 60 s
    MaxCodes    \* bound on the codes sent

ASSUME CodesAssumption ==
    /\ {MaxRequests, Allowed, Lock, Validity, Cooldown, MaxCodes} \subseteq Nat
    /\ Allowed > 1 /\ Lock >= Validity /\ "login" \in Tiers

VARIABLES
    otp,        \* twoFaOtpHash and twoFaOtpExpiresAt; codes are numbered, 0: null
    attempts,   \* otpAttempts of the user
    resendAt,   \* otpResendAt of the user; 0: none
    sent,       \* codes made so far
    req,        \* the requests under way
    made,       \* requests made so far
    restarted,  \* bound: the process restarts once
    tries,      \* history: wrong codes compared with each code
    used,       \* history: logins with each code
    standing,   \* history: the code stored last
    spent,      \* history: codes that stood when the user was locked
    renewed,    \* history: codes held when the attempts were forgotten
    shared,     \* history: codes two verifications had read at once
    disturbed,  \* history: codes stored while a verification was under way
    lockEnd     \* history: the end of the last lock, if nothing lifted it

memory == <<attempts, resendAt>>
history == <<tries, used, standing, spent, renewed, lockEnd>>
vars == <<now, limiter, otp, memory, sent, req, made, restarted, history,
          shared, disturbed>>

Codes == 1..MaxCodes
NoCode == [code |-> 0, expires |-> 0]
NoAttempts == [count |-> 0, until |-> 0]
\* A request, by what it waits for.
Waits(pc, guess, seen, cur) == [pc |-> pc, guess |-> guess, seen |-> seen, cur |-> cur]
Fresh == Waits("idle", 0, NoCode, NoAttempts)

At(r, pc) == req[r].pc = pc
Running == {r \in Requests : ~At(r, "idle")}
End(r) == req' = [req EXCEPT ![r] = Fresh]
Locked == attempts.until > now

\* The codes that can still be compared with.
Held == {otp.code} \cup {req[r].seen.code : r \in Requests}

Init ==
    /\ LimiterInit
    /\ otp = NoCode
    /\ attempts = NoAttempts
    /\ resendAt = 0
    /\ sent = 0
    /\ req = [r \in Requests |-> Fresh]
    /\ made = 0
    /\ restarted = FALSE
    /\ tries = [k \in Codes |-> 0]
    /\ used = [k \in Codes |-> 0]
    /\ standing = 0
    /\ spent = {} /\ renewed = {} /\ shared = {} /\ disturbed = {}
    /\ lockEnd = 0

-----------------------------------------------------------------------------
(* The limiter lets a request through or not.                              *)

Arrives(r) == At(r, "idle") /\ made < MaxRequests /\ made' = made + 1

TurnedAway(r, x) ==
    /\ Arrives(r) /\ Refuse(x)
    /\ End(r)
    /\ UNCHANGED <<now, otp, memory, sent, restarted, history>>

\* A request of another tier, about anything else.
OtherRequest(r, x) ==
    /\ Arrives(r) /\ x # "login" /\ Accept(x)
    /\ End(r)
    /\ UNCHANGED <<now, otp, memory, sent, restarted, history>>

-----------------------------------------------------------------------------
(* login and resend2fa end in sendTwoFaOtp.                                *)

ForgetAttempts ==
    /\ attempts' = NoAttempts
    /\ lockEnd' = 0
    /\ renewed' = renewed \cup Held

\* Mutant: a new code does not clear the failed attempts.
AskCodeKeepsAttempts(r) ==
    /\ Arrives(r) /\ Accept("login")
    /\ resendAt = 0 \/ now >= resendAt + Cooldown
    /\ sent < MaxCodes
    /\ resendAt' = now
    /\ renewed' = renewed \cup Held
    /\ sent' = sent + 1
    /\ req' = [req EXCEPT ![r] = Waits("store", sent + 1, NoCode, NoAttempts)]
    /\ UNCHANGED <<now, otp, attempts, restarted, tries, used, standing, spent,
                   lockEnd>>

\* The cooldown starts and the attempts are forgotten; the code is stored ...
AskCode(r) ==
    /\ Arrives(r) /\ Accept("login")
    /\ resendAt = 0 \/ now >= resendAt + Cooldown
    /\ sent < MaxCodes
    /\ resendAt' = now
    /\ ForgetAttempts
    /\ sent' = sent + 1
    /\ req' = [req EXCEPT ![r] = Waits("store", sent + 1, NoCode, NoAttempts)]
    /\ UNCHANGED <<now, otp, restarted, tries, used, standing, spent>>

AskTooSoon(r) ==
    /\ Arrives(r) /\ Accept("login")
    /\ resendAt # 0 /\ now < resendAt + Cooldown
    /\ End(r)
    /\ UNCHANGED <<now, otp, memory, sent, restarted, history>>

\* ... an await later.
StoreCode(r) ==
    /\ At(r, "store")
    /\ otp' = [code |-> req[r].guess, expires |-> now + Validity]
    /\ standing' = req[r].guess
    /\ End(r)
    /\ UNCHANGED <<now, limiter, made, memory, sent, restarted, tries, used, spent,
                   renewed, lockEnd>>

-----------------------------------------------------------------------------
(* verify2fa.                                                              *)

\* The user's row is read; the code presented is one that was mailed, or 0.
Verify(r, guess) ==
    /\ Arrives(r) /\ Accept("login")
    /\ req' = [req EXCEPT ![r] = Waits("check", guess, otp, NoAttempts)]
    /\ UNCHANGED <<now, otp, memory, sent, restarted, history>>

Valid(r) == req[r].seen.code # 0 /\ req[r].seen.expires > now
Right(r) == Valid(r) /\ req[r].guess = req[r].seen.code

CheckLocked(r) ==
    /\ At(r, "check") /\ Locked
    /\ End(r)
    /\ UNCHANGED <<now, limiter, made, otp, memory, sent, restarted, history>>

CheckRight(r) ==
    /\ At(r, "check") /\ ~Locked /\ Right(r)
    /\ attempts' = NoAttempts
    /\ renewed' = renewed \cup Held
    /\ req' = [req EXCEPT ![r].pc = "clear"]
    /\ UNCHANGED <<now, limiter, made, otp, resendAt, sent, restarted, tries, used,
                   standing, spent, lockEnd>>

\* Mutant: the code stays in the row.
ClearNothing(r) ==
    /\ At(r, "clear")
    /\ used' = [used EXCEPT ![req[r].guess] = @ + 1]
    /\ End(r)
    /\ UNCHANGED <<now, limiter, made, otp, memory, sent, restarted, tries, standing,
                   spent, renewed, lockEnd>>

\* The code is taken out of the row, whichever stands there, and the user is
\* logged in.
ClearCode(r) ==
    /\ At(r, "clear")
    /\ otp' = NoCode
    /\ used' = [used EXCEPT ![req[r].guess] = @ + 1]
    /\ End(r)
    /\ UNCHANGED <<now, limiter, made, memory, sent, restarted, tries, standing,
                   spent, renewed, lockEnd>>

\* Mutant: one wrong code more is let pass.
TooManyButOne(count) == count > Allowed

TooMany(count) == count >= Allowed

Count(r) ==
    IF Valid(r) THEN [tries EXCEPT ![req[r].seen.code] = @ + 1] ELSE tries

CheckWrong(r) ==
    /\ At(r, "check") /\ ~Locked /\ ~Right(r)
    /\ ~TooMany(attempts.count + 1)
    /\ attempts' = [attempts EXCEPT !.count = @ + 1]
    /\ tries' = Count(r)
    /\ End(r)
    /\ UNCHANGED <<now, limiter, made, otp, resendAt, sent, restarted, used, standing,
                   spent, renewed, lockEnd>>

\* One wrong code too many, also the first one after a lock has ended.
CheckLocks(r) ==
    LET cur == [count |-> attempts.count + 1, until |-> now + Lock] IN
    /\ At(r, "check") /\ ~Locked /\ ~Right(r)
    /\ TooMany(cur.count)
    /\ attempts' = cur
    /\ lockEnd' = cur.until
    /\ tries' = Count(r)
    /\ spent' = spent \cup {standing}
    /\ req' = [req EXCEPT ![r] = Waits("void", 0, NoCode, cur)]
    /\ UNCHANGED <<now, limiter, made, otp, resendAt, sent, restarted, used, standing,
                   renewed>>

\* The code is voided, unless the write fails ...
VoidCode(r) ==
    /\ At(r, "void")
    /\ otp' \in {otp, NoCode}
    /\ req' = [req EXCEPT ![r].pc = "relock"]
    /\ UNCHANGED <<now, limiter, made, memory, sent, restarted, history>>

\* ... and the lock set again.
Relock(r) ==
    /\ At(r, "relock")
    /\ attempts' = req[r].cur
    /\ End(r)
    /\ UNCHANGED <<now, limiter, made, otp, resendAt, sent, restarted, history>>

-----------------------------------------------------------------------------

\* The database refuses, before or after a code is taken out of its row.
Fail(r) ==
    /\ At(r, "store") \/ At(r, "check") \/ At(r, "clear")
    /\ End(r)
    /\ UNCHANGED <<now, limiter, made, otp, memory, sent, restarted, history>>

Restart ==
    /\ ~restarted /\ sent > 0
    /\ restarted' = TRUE
    /\ resendAt' = 0
    /\ ForgetAttempts
    /\ req' = [r \in Requests |-> Fresh]
    /\ UNCHANGED <<now, limiter, made, otp, sent, tries, used, standing, spent>>

\* Bound: a request ends within the unit of time it began in.
Tick ==
    /\ now < MaxTime /\ Running = {}
    /\ now' = now + 1
    /\ UNCHANGED <<limiter, otp, memory, sent, req, made, restarted, history>>

Finished ==
    /\ now = MaxTime /\ made = MaxRequests /\ Running = {}
    /\ UNCHANGED <<now, limiter, otp, memory, sent, req, made, restarted, history>>

Arrival(r) ==
    \/ \E x \in Tiers : TurnedAway(r, x) \/ OtherRequest(r, x)
    \/ AskCode(r) \/ AskTooSoon(r)
    \/ \E guess \in 0..sent : Verify(r, guess)

Continue(r) ==
    \/ StoreCode(r)
    \/ CheckLocked(r) \/ CheckRight(r) \/ CheckWrong(r) \/ CheckLocks(r)
    \/ ClearCode(r) \/ VoidCode(r) \/ Relock(r)
    \/ Fail(r)

Step == (\E r \in Requests : Arrival(r) \/ Continue(r)) \/ Restart \/ Tick \/ Finished

Verifying == {r \in Running : ~At(r, "store")}
Reads(r, k) == req[r].pc \in {"check", "clear"} /\ req[r].seen.code = k

Record ==
    /\ shared' = shared \cup {k \in Codes : \E r, q \in Requests :
                                    r # q /\ (Reads(r, k) /\ Reads(q, k))'}
    /\ disturbed' = disturbed \cup
          {k \in Codes : /\ Verifying' # {}
                         /\ (\E r \in Requests : At(r, "store") /\ req[r].guess = k)'}

Next == Step /\ Record

Spec == Init /\ [][Next]_vars

-----------------------------------------------------------------------------

\* Codes, attempts and requests have the shape the code gives them, no code
\* stands that was not made and a lock stands with the attempts that earned it
\* (auth.service.ts:72-85 and 163-172).
CodesTypeOK ==
    /\ otp.code \in 0..sent /\ standing \in 0..sent /\ sent <= MaxCodes
    /\ attempts.count \in Nat /\ attempts.until <= now + Lock
    /\ attempts.until > 0 => TooMany(attempts.count)
    /\ \A r \in Requests : req[r].guess \in 0..sent
    /\ made <= MaxRequests /\ (\A t \in Times : t > now => hits[t] = 0)

\* At most the allowed number of wrong codes is compared with one code, also
\* when the lock has ended or the write that voids the code failed; more only
\* if the attempts were forgotten while the code stood or had been read, as
\* another was asked for or the process restarted (auth.service.ts:72-81 and 136-175).
GuessesAreBounded == \A k \in Codes \ renewed : tries[k] <= Allowed

\* A code logs its user in once, unless two verifications had both read it
\* before either took it out of the row (auth.service.ts:133, 177-184).
CodeWorksOnce == \A k \in Codes \ shared : used[k] <= 1

\* A lock lasts: only asking for a code or a restart lifts it early, however
\* verifications interleave (auth.service.ts:137-141 and 163-177).
LockLasts == lockEnd > now => Locked

\* What protects a code from being guessed: attempts and locks are well formed,
\* a code is compared with few wrong guesses, and a lock lasts
\* (auth.service.ts:72-85, 133-177).
CodesInv == CodesTypeOK /\ GuessesAreBounded /\ LockLasts

\* A code that was sent can be used until it has been, has expired or was spent
\* on wrong attempts of its own, and nobody is locked out for the attempts at
\* an earlier one, unless a verification overlapped with the sending
\* (auth.service.ts:72-81, 163-170, 177-181).
NewCodeStands ==
    standing \notin disturbed =>
        /\ standing # 0 =>
              otp.code = standing \/ used[standing] > 0 \/ standing \in spent
        /\ Locked => standing \in spent
===============================================================================

--------------------------- MODULE LoginCodesProofs ---------------------------
(***************************************************************************)
(* The codes of LoginCodes, for any number of requests, codes and wrong    *)
(* attempts: what its run checks on a small instance.                      *)
(*                                                                         *)
(* The inductive invariant follows one code on its way.  A code is made by *)
(* a request that is about to store it; it then stands in the user's row,  *)
(* or in what a verification has read; and it never comes back.  What is   *)
(* said of a code is said for as long as it is on that way.                *)
(*                                                                         *)
(* The limiter has an invariant of its own, at the end: what a tier that   *)
(* was never shortened has accepted in its window is in the shared set.    *)
(***************************************************************************)
EXTENDS LoginCodes, FiniteSetTheorems, WellFoundedInduction, TLAPS

-------------------------------------------------------------------------------
(***************************************************************************)
(* The inductive invariant.                                                *)
(***************************************************************************)

\* The shape of the rows and of the requests in flight.
Entry == [code : Nat, expires : Nat]
Attempt == [count : Nat, until : Nat]
Request == [pc : {"idle", "store", "check", "clear", "void", "relock"},
            guess : Nat, seen : Entry, cur : Attempt]

\* The variables have their types.
Types ==
    /\ now \in Nat
    /\ hits \in [Times -> Nat]
    /\ otp \in Entry
    /\ attempts \in Attempt
    /\ sent \in Nat /\ made \in Nat
    /\ req \in [Requests -> Request]
    /\ tries \in [Codes -> Nat]
    /\ used \in [Codes -> Nat]
    /\ standing \in Nat
    /\ lockEnd \in Nat

\* What the row and the requests hold: codes with the time they expire.
Entries == {otp} \cup {req[r].seen : r \in Requests}

\* Codes are numbered as they are made, and only what was made is around.
Numbered ==
    /\ sent <= MaxCodes /\ made <= MaxRequests
    /\ otp.code \in {0, standing} /\ standing <= sent
    /\ \A r \in Requests : req[r].guess <= sent /\ req[r].seen.code <= sent

\* A code that is still to be stored is new.
Unused(k) ==
    /\ k \notin Held
    /\ tries[k] = 0 /\ used[k] = 0
    /\ standing # k

\* So it is for the request that is about to store it, and nobody has tried a
\* code that was not sent.
News ==
    /\ \A r \in Requests : At(r, "store") =>
          /\ req[r].guess # 0
          /\ Unused(req[r].guess)
          /\ \A q \in Requests : At(q, "store") /\ req[q].guess = req[r].guess => q = r
    /\ \A k \in Codes : k > sent => tries[k] = 0 /\ used[k] = 0

\* What a request has read and counted, by where it waits.
Shapes ==
    \A r \in Requests :
        /\ req[r].pc \notin {"check", "clear"} => req[r].seen = NoCode
        /\ At(r, "clear") => req[r].guess = req[r].seen.code /\ req[r].guess # 0
        /\ req[r].pc \in {"void", "relock"} =>
              req[r].cur.until = now + Lock /\ TooMany(req[r].cur.count)

\* Codes and locks end in time; a lock stands with the attempts that earned it.
Ends ==
    /\ \A e \in Entries : e.expires <= now + Validity
    /\ attempts.until <= now + Lock
    /\ attempts.until > 0 => TooMany(attempts.count)
    /\ lockEnd <= now + Lock
    /\ lockEnd > now => attempts.until >= lockEnd
    /\ \A t \in Times : t > now => hits[t] = 0

\* The wrong guesses at a code are among the attempts that are counted; once
\* those are too many, the lock outlasts every code that was guessed at.
GuessedAt(k) ==
    /\ tries[k] <= Allowed
    /\ k \in Held /\ ~TooMany(attempts.count) => tries[k] <= attempts.count
    /\ tries[k] > 0 /\ TooMany(attempts.count) =>
          \A e \in Entries : e.code = k => e.expires <= attempts.until

\* A code that was used is nowhere any more.
UsedUp(k) ==
    /\ used[k] <= 1
    /\ used[k] = 1 => k \notin Held
    /\ \A r, q \in Requests : Reads(r, k) /\ Reads(q, k) => r = q

\* Before a code is stored undisturbed, nobody verifies and nobody is locked;
\* afterwards all that verifies, locks or voids is about that code.
Quiet ==
    \A r \in Requests :
        At(r, "store") /\ req[r].guess \notin disturbed =>
            Verifying = {} /\ attempts.until = 0

\* The code in force is in the row, or it was used or spent; whoever has read a
\* code has read that one.
Stands ==
    /\ standing # 0 => otp.code = standing \/ used[standing] > 0 \/ standing \in spent
    /\ Locked => standing \in spent
    /\ \A r \in Requests :
          /\ req[r].seen.code \in {0, standing}
          /\ req[r].pc \in {"void", "relock"} => standing \in spent

\* What holds of every code.
Base == Types /\ Numbered /\ News /\ Shapes /\ Ends

\* The inductive invariant: a code is guessed at and used up as the counters say,
\* unless it was sent again or shared; the one in force stands while nobody
\* disturbs it.
CodesIInv ==
    /\ Base
    /\ \A k \in Codes \ renewed : GuessedAt(k)
    /\ \A k \in Codes \ shared : UsedUp(k)
    /\ Quiet
    /\ standing \notin disturbed => Stands

-------------------------------------------------------------------------------
(***************************************************************************)
(* Facts of every step.                                                    *)
(***************************************************************************)

\* The fields of the requests and of the row.
LEMMA Fields ==
    ASSUME Types
    PROVE  /\ \A e \in Entry : e.code \in Nat /\ e.expires \in Nat
           /\ \A e \in Entries : e \in Entry /\ e.code \in Nat /\ e.expires \in Nat
           /\ attempts.count \in Nat /\ attempts.until \in Nat
           /\ \A r \in Requests :
                 /\ req[r] \in Request
                 /\ req[r].pc \in {"idle", "store", "check", "clear", "void", "relock"}
                 /\ req[r].guess \in Nat
                 /\ req[r].seen \in Entry
                 /\ req[r].cur \in Attempt /\ req[r].cur.count \in Nat
                 /\ req[r].cur.until \in Nat
           /\ NoCode \in Entry /\ NoCode.code = 0 /\ NoCode.expires = 0
           /\ NoAttempts \in Attempt /\ NoAttempts.count = 0 /\ NoAttempts.until = 0
           /\ Fresh \in Request /\ Fresh.pc = "idle" /\ Fresh.guess = 0
           /\ Fresh.seen = NoCode /\ Fresh.cur = NoAttempts
           /\ Codes \subseteq Nat \ {0}
           /\ {MaxRequests, Allowed, Lock, Validity, Cooldown, MaxCodes} \subseteq Nat
<1>1. /\ \A e \in Entry : e.code \in Nat /\ e.expires \in Nat
      /\ \A a \in Attempt : a.count \in Nat /\ a.until \in Nat
  BY DEF Entry, Attempt
<1>2. \A p \in Request :
         /\ p.pc \in {"idle", "store", "check", "clear", "void", "relock"}
         /\ p.guess \in Nat /\ p.seen \in Entry /\ p.cur \in Attempt
  BY DEF Request
<1>3. \A r \in Requests : req[r] \in Request
  BY DEF Types
<1>4. \A e \in Entries : e \in Entry
  BY <1>2, <1>3 DEF Entries, Types
<1>5. NoCode \in Entry /\ NoCode.code = 0 /\ NoCode.expires = 0
  BY DEF NoCode, Entry
<1>6. NoAttempts \in Attempt /\ NoAttempts.count = 0 /\ NoAttempts.until = 0
  BY DEF NoAttempts, Attempt
<1>7. /\ Fresh \in Request /\ Fresh.pc = "idle" /\ Fresh.guess = 0
      /\ Fresh.seen = NoCode /\ Fresh.cur = NoAttempts
  BY <1>5, <1>6 DEF Fresh, Waits, Request
<1>8. /\ Codes \subseteq Nat \ {0}
      /\ {MaxRequests, Allowed, Lock, Validity, Cooldown, MaxCodes} \subseteq Nat
  BY CodesAssumption DEF Codes
<1>9. attempts \in Attempt
  BY DEF Types
<1> QED
  BY <1>1, <1>2, <1>3, <1>4, <1>5, <1>6, <1>7, <1>8, <1>9

\* A code that is to be stored is one of the codes.
LEMMA StoredCodes ==
    ASSUME Base
    PROVE  \A q \in Requests : At(q, "store") => req[q].guess \in Codes
<1> SUFFICES ASSUME NEW q \in Requests, At(q, "store")
             PROVE  req[q].guess \in Codes
  OBVIOUS
<1>1. Types /\ sent <= MaxCodes /\ req[q].guess <= sent
  BY DEF Base, Numbered
<1>2. req[q].guess # 0
  BY DEF Base, News
<1>3. req[q].guess \in Nat /\ sent \in Nat /\ MaxCodes \in Nat
  BY <1>1, Fields DEF Types
<1> QED
  BY <1>1, <1>2, <1>3 DEF Codes

\* Held are the codes of the entries.
LEMMA HeldCodes == Held = {e.code : e \in Entries}
BY DEF Held, Entries

\* A request that lands at p, while no entry is new but an empty one.
Lands(r, p) ==
    /\ p \in Request
    /\ req' = [req EXCEPT ![r] = p]

\* Where the requests are after such a step, and which codes are left.
LEMMA Landed ==
    ASSUME Types, NEW r \in Requests, NEW p, Lands(r, p)
    PROVE  /\ req' \in [Requests -> Request]
           /\ \A q \in Requests : req'[q] = IF q = r THEN p ELSE req[q]
           /\ otp' \in {otp, NoCode} /\ p.seen \in {NoCode, otp, req[r].seen} =>
                 /\ \A e \in Entries' : e \in Entries \/ e = NoCode
                 /\ \A k \in Codes : k \in Held' => k \in Held
<1>1. /\ req' \in [Requests -> Request]
      /\ \A q \in Requests : req'[q] = IF q = r THEN p ELSE req[q]
  BY DEF Types, Lands
<1>2. ASSUME otp' \in {otp, NoCode}, p.seen \in {NoCode, otp, req[r].seen}
      PROVE  \A e \in Entries' : e \in Entries \/ e = NoCode
  BY <1>1, <1>2 DEF Entries
<1>3. ASSUME otp' \in {otp, NoCode}, p.seen \in {NoCode, otp, req[r].seen},
             NEW k \in Codes, k \in Held'
      PROVE  k \in Held
  <2>1. PICK e \in Entries' : e.code = k
    BY <1>3 DEF Held, Entries
  <2>2. k # 0 /\ NoCode.code = 0
    BY Fields
  <2>3. e \in Entries
    BY <1>2, <1>3, <2>1, <2>2
  <2> QED
    BY <2>1, <2>3, HeldCodes
<1> QED
  BY <1>1, <1>2, <1>3

\* The limiter counts only what has happened.
LEMMA LimiterCounts ==
    ASSUME Types, Ends, NEW x, Accept(x) \/ Refuse(x)
    PROVE  /\ hits' \in [Times -> Nat]
           /\ \A t \in Times : t > now => hits'[t] = 0
<1> DEFINE kept == Trimmed(x)
<1>1. kept \in [Times -> Nat] /\ \A t \in Times : t > now => kept[t] = 0
  BY DEF Types, Ends, Trimmed
<1>2. hits' = kept \/ hits' = [kept EXCEPT ![now] = kept[now] + 1]
  BY DEF Accept, Refuse
<1>3. now \in Nat
  BY DEF Types
<1> HIDE DEF kept
<1>4. CASE hits' = kept
  BY <1>1, <1>4
<1>5. CASE hits' = [kept EXCEPT ![now] = kept[now] + 1]
  <2>1. \A t \in Times : t # now => hits'[t] = kept[t]
    BY <1>1, <1>5
  <2>2. hits' \in [Times -> Nat]
    <3>1. now \in Times => kept[now] + 1 \in Nat
      BY <1>1
    <3>2. \A t \in Times : hits'[t] \in Nat
      BY <1>1, <1>5, <2>1, <3>1
    <3> QED
      BY <1>1, <1>5, <3>2
  <2> QED
    BY <1>1, <1>3, <2>1, <2>2
<1> QED
  BY <1>2, <1>4, <1>5

\* What a step records stays recorded: who reads one code together, and whose
\* storing meets a verification.
LEMMA Recorded ==
    ASSUME Record, Numbered', Types'
    PROVE  /\ \A k \in Codes \ shared' :
                 /\ k \notin shared
                 /\ \A r, q \in Requests : (Reads(r, k) /\ Reads(q, k))' => r = q
           /\ \A k : k \notin disturbed' => k \notin disturbed
           /\ \A r \in Requests :
                 /\ req'[r].pc = "store" /\ req'[r].guess # 0
                 /\ req'[r].guess \notin disturbed'
                 => Verifying' = {}
<1>1. \A r \in Requests : req'[r].guess # 0 => req'[r].guess \in Codes
  <2>1. \A r \in Requests : req'[r].guess \in Nat
    BY DEF Types, Request
  <2> QED
    BY <2>1, CodesAssumption DEF Numbered, Codes, Types
<1>2. \A k \in Codes \ shared' :
         /\ k \notin shared
         /\ \A r, q \in Requests : (Reads(r, k) /\ Reads(q, k))' => r = q
  BY DEF Record
<1>3. \A k : k \notin disturbed' => k \notin disturbed
  BY DEF Record
<1>4. ASSUME NEW r \in Requests, req'[r].pc = "store", req'[r].guess # 0,
             req'[r].guess \notin disturbed'
      PROVE  Verifying' = {}
  BY <1>1, <1>4 DEF Record, At
<1> QED
  BY <1>2, <1>3, <1>4
-------------------------------------------------------------------------------
(***************************************************************************)
(* Steps that only read, are refused, or void a code.                      *)
(***************************************************************************)

\* The limiter and the number of requests stay what they are.
Counted ==
    /\ hits' \in [Times -> Nat]
    /\ \A t \in Times : t > now => hits'[t] = 0
    /\ made' \in Nat /\ made' <= MaxRequests

\* Nothing is counted, forgotten or stored.
Passes(r, p) ==
    /\ Lands(r, p)
    /\ p.seen \in {NoCode, otp, req[r].seen}
    /\ p.pc # "check" => p.seen = NoCode
    /\ p.pc \notin {"store", "clear"}
    /\ p.guess <= sent
    /\ p.pc \in {"void", "relock"} =>
          req[r].pc \in {"void", "relock"} /\ p.cur = req[r].cur
    /\ otp' \in {otp, NoCode}
    /\ otp' # otp => At(r, "void")
    /\ UNCHANGED <<now, attempts, sent, tries, used, standing, spent, renewed, lockEnd>>
    /\ Counted

\* Such a step keeps the invariant.
LEMMA PassKeeps ==
    ASSUME CodesIInv, Record, NEW r \in Requests, NEW p, Passes(r, p)
    PROVE  CodesIInv'
<1>1. /\ Base /\ Types
      /\ UNCHANGED <<now, attempts, sent, tries, used, standing, spent, renewed, lockEnd>>
      /\ p \in Request
  BY DEF CodesIInv, Base, Passes, Lands
<1>2. /\ req' \in [Requests -> Request]
      /\ \A q \in Requests : req'[q] = IF q = r THEN p ELSE req[q]
      /\ \A e \in Entries' : e \in Entries \/ e = NoCode
      /\ \A k \in Codes : k \in Held' => k \in Held
  BY <1>1, Landed DEF Passes
<1>3. Types'
  BY <1>1, <1>2, Fields DEF Types, Passes, Counted
<1>4. Numbered'
  <2>1. p.seen.code <= sent
    BY <1>1, Fields DEF Base, Numbered, Passes, Types
  <2>2. otp'.code \in {0, standing}
    BY <1>1, Fields DEF Base, Numbered, Passes
  <2> QED
    BY <1>1, <1>2, <2>1, <2>2 DEF Base, Numbered, Passes, Counted
<1>5. News'
  <2>1. \A q \in Requests : req'[q].pc = "store" => q # r /\ req'[q] = req[q]
    BY <1>2 DEF Passes
  <2>2. \A q \in Requests : At(q, "store") => req[q].guess \in Codes
    BY <1>1, StoredCodes
  <2>3. \A k \in Codes : Unused(k) => Unused(k)'
    BY <1>1, <1>2 DEF Unused
  <2> QED
    BY <1>1, <2>1, <2>2, <2>3 DEF Base, News, At
<1>6. Shapes'
  BY <1>1, <1>2 DEF Base, Shapes, At, Passes
<1>7. Ends'
  <2>1. \A e \in Entries' : e.expires <= now + Validity
    BY <1>1, <1>2, Fields DEF Base, Ends, Types
  <2> QED
    BY <1>1, <2>1 DEF Base, Ends, Passes, Counted
<1>8. Base'
  BY <1>3, <1>4, <1>5, <1>6, <1>7 DEF Base
<1>9. \A k \in Codes \ renewed' : GuessedAt(k)'
  <2> SUFFICES ASSUME NEW k \in Codes \ renewed
               PROVE  GuessedAt(k)'
    BY <1>1
  <2>1. GuessedAt(k) /\ k # 0
    BY <1>1, Fields DEF CodesIInv
  <2> QED
    BY <1>1, <1>2, <2>1, Fields DEF GuessedAt
<1>10. \A k \in Codes \ shared' : UsedUp(k)'
  <2> SUFFICES ASSUME NEW k \in Codes \ shared'
               PROVE  UsedUp(k)'
    OBVIOUS
  <2>1. UsedUp(k) /\ \A q, v \in Requests : (Reads(q, k) /\ Reads(v, k))' => q = v
    BY <1>3, <1>4, Recorded DEF CodesIInv
  <2> QED
    BY <1>1, <1>2, <2>1 DEF UsedUp
<1>11. Quiet'
  <2> SUFFICES ASSUME NEW q \in Requests, req'[q].pc = "store",
                      req'[q].guess \notin disturbed'
               PROVE  Verifying' = {} /\ attempts' .until = 0
    BY DEF Quiet, At
  <2>1. q # r /\ req'[q] = req[q]
    BY <1>2 DEF Passes
  <2>2. req[q].guess # 0 /\ req[q].guess \notin disturbed
    BY <1>1, <1>3, <1>4, <2>1, Recorded DEF Base, News, At
  <2>3. attempts.until = 0
    BY <2>1, <2>2 DEF CodesIInv, Quiet, At
  <2> QED
    BY <1>1, <1>3, <1>4, <2>1, <2>2, <2>3, Recorded
<1>12. ASSUME standing' \notin disturbed'
       PROVE  Stands'
  <2>1. Stands
    BY <1>1, <1>3, <1>4, <1>12, Recorded DEF CodesIInv
  <2>2. otp.code \in {0, standing} /\ NoCode.code = 0
    BY <1>1, Fields DEF Base, Numbered
  <2>3. p.seen.code \in {0, standing}
    BY <2>1, <2>2 DEF Stands, Passes
  <2>4. p.pc \in {"void", "relock"} => standing \in spent
    BY <2>1 DEF Stands, Passes
  <2>5. otp' # otp => standing \in spent
    BY <2>1 DEF Stands, Passes, At
  <2> QED
    BY <1>1, <1>2, <2>1, <2>3, <2>4, <2>5 DEF Stands, Locked
<1> QED
  BY <1>8, <1>9, <1>10, <1>11, <1>12 DEF CodesIInv

\* A request that was let through or turned away is counted.
LEMMA Arriving ==
    ASSUME Base, NEW r \in Requests, Arrives(r), NEW x, Accept(x) \/ Refuse(x)
    PROVE  Counted
<1>1. /\ hits' \in [Times -> Nat]
      /\ \A t \in Times : t > now => hits'[t] = 0
  BY LimiterCounts DEF Base
<1>2. made \in Nat /\ made < MaxRequests /\ made' = made + 1 /\ MaxRequests \in Nat
  BY Fields DEF Base, Types, Arrives
<1> QED
  BY <1>1, <1>2 DEF Counted

\* Where the limiter is not asked, it stays as it was.
LEMMA NotArriving ==
    ASSUME Base, UNCHANGED <<limiter, made>>
    PROVE  Counted
BY DEF Base, Types, Ends, Numbered, Counted, limiter

\* The requests that are refused or fail, read the row, or void it.
LEMMA PassingSteps ==
    ASSUME CodesIInv, NEW r \in Requests,
           \/ \E x \in Tiers : TurnedAway(r, x) \/ OtherRequest(r, x)
           \/ AskTooSoon(r)
           \/ \E guess \in 0..sent : Verify(r, guess)
           \/ CheckLocked(r) \/ VoidCode(r) \/ Fail(r)
    PROVE  \E p : Passes(r, p)
<1>1. Base /\ Types /\ sent \in Nat /\ otp \in Entry
  BY DEF CodesIInv, Base, Types
<1>2. ASSUME End(r), Counted,
             UNCHANGED <<now, otp, memory, sent, restarted, history>>
      PROVE  Passes(r, Fresh)
  <2>1. Fresh \in Request /\ Fresh.pc = "idle" /\ Fresh.seen = NoCode /\ Fresh.guess = 0
    BY <1>1, Fields
  <2> QED
    BY <1>1, <1>2, <2>1 DEF Passes, Lands, End, memory, history
<1>3. ASSUME NEW x \in Tiers, TurnedAway(r, x) \/ OtherRequest(r, x)
      PROVE  Passes(r, Fresh)
  <2>1. Counted
    BY <1>1, <1>3, Arriving DEF TurnedAway, OtherRequest
  <2> QED
    BY <1>2, <1>3, <2>1 DEF TurnedAway, OtherRequest
<1>4. CASE AskTooSoon(r)
  <2>1. Counted
    BY <1>1, <1>4, Arriving DEF AskTooSoon
  <2> QED
    BY <1>2, <1>4, <2>1 DEF AskTooSoon
<1>5. ASSUME NEW guess \in 0..sent, Verify(r, guess)
      PROVE  Passes(r, Waits("check", guess, otp, NoAttempts))
  <2> DEFINE p == Waits("check", guess, otp, NoAttempts)
  <2>1. Counted
    BY <1>1, <1>5, Arriving DEF Verify
  <2>2. guess \in Nat /\ guess <= sent
    BY <1>1, <1>5
  <2>3. p \in Request /\ p.pc = "check" /\ p.seen = otp /\ p.guess = guess
    BY <1>1, <2>2, Fields DEF Waits, Request
  <2> HIDE DEF p
  <2>4. Passes(r, p)
    <3>1. /\ req' = [req EXCEPT ![r] = p]
          /\ UNCHANGED <<now, otp, memory, sent, restarted, history>>
      BY <1>5 DEF Verify, p
    <3> QED
      BY <3>1, <2>1, <2>2, <2>3 DEF Passes, Lands, memory, history
  <2> QED
    BY <2>4 DEF p
<1>6. CASE CheckLocked(r) \/ Fail(r)
  <2>1. Counted
    BY <1>1, <1>6, NotArriving DEF CheckLocked, Fail
  <2> QED
    BY <1>2, <1>6, <2>1 DEF CheckLocked, Fail
<1>7. CASE VoidCode(r)
  <2> DEFINE p == [req[r] EXCEPT !.pc = "relock"]
  <2>1. Counted
    BY <1>1, <1>7, NotArriving DEF VoidCode
  <2>2. /\ p \in Request /\ p.pc = "relock" /\ p.seen = req[r].seen
        /\ p.guess = req[r].guess /\ p.cur = req[r].cur
    BY <1>1 DEF Types, Request
  <2>3. req[r].pc = "void" /\ req[r].seen = NoCode /\ req[r].guess <= sent
    BY <1>1, <1>7 DEF VoidCode, At, Base, Shapes, Numbered
  <2> HIDE DEF p
  <2>4. /\ req' = [req EXCEPT ![r] = p]
        /\ otp' \in {otp, NoCode}
        /\ UNCHANGED <<now, memory, sent, history>>
    BY <1>7 DEF VoidCode, p
  <2> QED
    BY <2>1, <2>2, <2>3, <2>4 DEF Passes, Lands, At, memory, history
<1> QED
  BY <1>3, <1>4, <1>5, <1>6, <1>7
-------------------------------------------------------------------------------
(***************************************************************************)
(* What the other steps have in common.                                    *)
(***************************************************************************)

\* A code that is nowhere stays used up while no login uses one.
LEMMA StillUsedUp ==
    ASSUME CodesIInv, Record, Types', Numbered', UNCHANGED used,
           \A k \in Codes : k \in Held' => k \in Held
    PROVE  \A k \in Codes \ shared' : UsedUp(k)'
<1> SUFFICES ASSUME NEW k \in Codes \ shared'
             PROVE  UsedUp(k)'
  OBVIOUS
<1>1. UsedUp(k) /\ \A q, v \in Requests : (Reads(q, k) /\ Reads(v, k))' => q = v
  BY Recorded DEF CodesIInv
<1> QED
  BY <1>1 DEF UsedUp

\* Whoever stores a code undisturbed still finds it quiet, if the step lifted
\* the lock, or it neither touched the lock nor began to store.
LEMMA StillQuiet ==
    ASSUME CodesIInv, Record, Types', Numbered', News',
           \A q \in Requests : req'[q].pc = "store" =>
               \/ attempts'.until = 0
               \/ /\ req'[q] = req[q]
                  /\ attempts'.until = attempts.until \/ Verifying # {}
    PROVE  Quiet'
<1> SUFFICES ASSUME NEW q \in Requests, req'[q].pc = "store",
                    req'[q].guess \notin disturbed'
             PROVE  Verifying' = {} /\ attempts' .until = 0
  BY DEF Quiet, At
<1>1. Verifying' = {}
  BY Recorded DEF News, At
<1>2. ASSUME req'[q] = req[q]
      PROVE  Verifying = {} /\ attempts.until = 0
  <2>1. req[q].pc = "store" /\ req[q].guess \notin disturbed
    BY <1>2, Recorded
  <2> QED
    BY <2>1 DEF CodesIInv, Quiet, At
<1> QED
  BY <1>1, <1>2

\* Once the attempts are forgotten, no code that can still be compared with is
\* spoken of, and nobody is locked.
LEMMA ForgottenKeeps ==
    ASSUME CodesIInv, Record, Base', attempts' = NoAttempts,
           renewed' = renewed \cup Held,
           UNCHANGED <<tries, used, standing, spent, otp>>,
           \A k \in Codes : k \in Held' => k \in Held,
           \A q \in Requests :
               /\ req'[q].seen.code \in {0, req[q].seen.code}
               /\ req'[q].pc \in {"void", "relock"} => req'[q].pc = req[q].pc
    PROVE  CodesIInv'
<1>1. Base /\ Types /\ Types' /\ Numbered' /\ News'
  BY DEF CodesIInv, Base
<1>2. \A k \in Codes \ renewed' : GuessedAt(k)'
  <2> SUFFICES ASSUME NEW k \in Codes \ renewed'
               PROVE  GuessedAt(k)'
    OBVIOUS
  <2>1. GuessedAt(k) /\ k \notin Held /\ k \notin Held'
    BY DEF CodesIInv
  <2>2. ~TooMany(attempts'.count)
    BY <1>1, Fields, CodesAssumption DEF TooMany
  <2> QED
    BY <2>1, <2>2 DEF GuessedAt
<1>3. \A k \in Codes \ shared' : UsedUp(k)'
  BY <1>1, StillUsedUp
<1>4. attempts'.until = 0
  BY <1>1, Fields
<1>5. Quiet'
  BY <1>1, <1>4, StillQuiet
<1>6. ASSUME standing' \notin disturbed'
      PROVE  Stands'
  <2>1. Stands
    BY <1>1, <1>6, Recorded DEF CodesIInv
  <2>2. ~Locked'
    BY <1>1, <1>4 DEF Locked, Types
  <2> QED
    BY <2>1, <2>2 DEF Stands
<1> QED
  BY <1>2, <1>3, <1>5, <1>6 DEF CodesIInv
-------------------------------------------------------------------------------
(***************************************************************************)
(* The steps that ask for a code, store it, and take it out.               *)
(***************************************************************************)

\* A new code is asked for: the attempts at all earlier ones are forgotten.
LEMMA AskKeeps ==
    ASSUME CodesIInv, Record, NEW r \in Requests, AskCode(r)
    PROVE  CodesIInv'
<1>0. PICK k : k = sent + 1
  OBVIOUS
<1> DEFINE p == Waits("store", k, NoCode, NoAttempts)
<1>1. /\ Base /\ Types
      /\ UNCHANGED <<now, otp, tries, used, standing, spent>>
      /\ attempts' = NoAttempts /\ lockEnd' = 0 /\ renewed' = renewed \cup Held
      /\ sent' = k /\ k \in Codes /\ req[r].pc = "idle"
  <2>1. sent < MaxCodes
    BY DEF AskCode
  <2> QED
    BY <1>0, <2>1, Fields
    DEF CodesIInv, Base, AskCode, ForgetAttempts, Arrives, At, Codes, Types
<1>2. Counted
  BY <1>1, Arriving DEF AskCode
<1>3. /\ p \in Request /\ p.pc = "store" /\ p.guess = k /\ p.seen = NoCode
      /\ p.cur = NoAttempts
  BY <1>1, Fields DEF Waits, Request
<1>4. Lands(r, p)
  BY <1>0, <1>3 DEF AskCode, Lands
<1> HIDE DEF p
<1>5. /\ req' \in [Requests -> Request]
      /\ \A q \in Requests : req'[q] = IF q = r THEN p ELSE req[q]
      /\ \A e \in Entries' : e \in Entries \/ e = NoCode
      /\ \A j \in Codes : j \in Held' => j \in Held
  BY <1>1, <1>3, <1>4, Landed
<1>6. Types'
  BY <1>1, <1>2, <1>5, Fields DEF Types, Counted
<1>7. Numbered'
  <2>1. /\ sent \in Nat /\ k <= MaxCodes /\ MaxCodes \in Nat
        /\ otp.code \in {0, standing} /\ standing <= sent /\ standing \in Nat
    BY <1>1, Fields DEF Base, Numbered, Codes, Types
  <2>2. \A q \in Requests : req'[q].guess <= k /\ req'[q].seen.code <= k
    <3>1. \A q \in Requests : req[q].guess <= k /\ req[q].seen.code <= k
      BY <1>0, <1>1, <2>1, Fields DEF Base, Numbered
    <3>2. p.guess <= k /\ p.seen.code <= k
      BY <1>0, <1>1, <1>3, <2>1, Fields
    <3> QED
      BY <1>5, <3>1, <3>2
  <2> QED
    BY <1>0, <1>1, <1>2, <2>1, <2>2 DEF Numbered, Counted
<1>8. News'
  <2>1. k \notin Held /\ tries[k] = 0 /\ used[k] = 0 /\ standing # k
    BY <1>0, <1>1, Fields DEF Base, News, Numbered, Held, Types
  <2>2. \A q \in Requests : req[q].guess # k
    BY <1>0, <1>1, Fields DEF Base, Numbered, Types
  <2>3. \A q \in Requests : At(q, "store") => req[q].guess \in Codes
    BY <1>0, <1>1, StoredCodes
  <2>4. \A j \in Codes : Unused(j) => Unused(j)'
    BY <1>1, <1>5 DEF Unused
  <2>5. Unused(k)' /\ k # 0
    BY <1>1, <2>1, <2>4, Fields DEF Unused
  <2>6. \A j \in Codes : j > sent' => j > sent
    BY <1>0, <1>1, Fields DEF Types
  <2> QED
    BY <1>1, <1>3, <1>5, <2>2, <2>3, <2>4, <2>5, <2>6 DEF Base, News, At
<1>9. Shapes'
  BY <1>1, <1>3, <1>5 DEF Base, Shapes, At
<1>10. Ends'
  <2>1. \A e \in Entries' : e.expires <= now + Validity
    BY <1>1, <1>5, Fields DEF Base, Ends, Types
  <2> QED
    BY <1>1, <1>2, <2>1, Fields DEF Ends, Counted, Types
<1>11. Base'
  BY <1>6, <1>7, <1>8, <1>9, <1>10 DEF Base
<1> QED
  BY <1>1, <1>3, <1>5, <1>11, Fields, ForgottenKeeps

\* So they are when the process starts again.
LEMMA RestartKeeps ==
    ASSUME CodesIInv, Record, Restart
    PROVE  CodesIInv'
<1>1. /\ Base /\ Types
      /\ UNCHANGED <<now, otp, sent, tries, used, standing, spent>>
      /\ attempts' = NoAttempts /\ lockEnd' = 0 /\ renewed' = renewed \cup Held
      /\ req' = [r \in Requests |-> Fresh]
  BY DEF CodesIInv, Base, Restart, ForgetAttempts
<1>2. Counted
  BY <1>1, NotArriving DEF Restart
<1>3. \A q \in Requests : req'[q] = Fresh
  BY <1>1
<1>4. \A e \in Entries' : e \in Entries \/ e = NoCode
  BY <1>1, <1>3, Fields DEF Entries
<1>5. \A k \in Codes : k \in Held' => k \in Held
  BY <1>1, <1>3, Fields DEF Held
<1>6. Types'
  BY <1>1, <1>2, Fields DEF Types, Counted
<1>7. Numbered'
  BY <1>1, <1>2, <1>3, Fields DEF Base, Numbered, Counted, Types
<1>8. News' /\ Shapes'
  BY <1>1, <1>3, Fields DEF Base, News, Shapes, At
<1>9. Ends'
  <2>1. \A e \in Entries' : e.expires <= now + Validity
    BY <1>1, <1>4, Fields DEF Base, Ends, Types
  <2> QED
    BY <1>1, <1>2, <2>1, Fields DEF Ends, Counted, Types
<1>10. Base'
  BY <1>6, <1>7, <1>8, <1>9 DEF Base
<1> QED
  BY <1>1, <1>3, <1>5, <1>10, Fields, ForgottenKeeps

\* A code that is stored is new: it was neither guessed at nor used.
LEMMA StoreKeeps ==
    ASSUME CodesIInv, Record, NEW r \in Requests, StoreCode(r)
    PROVE  CodesIInv'
<1> DEFINE k == req[r].guess
<1>1. /\ Base /\ Types
      /\ UNCHANGED <<now, attempts, sent, tries, used, spent, renewed, lockEnd>>
      /\ otp' = [code |-> k, expires |-> now + Validity] /\ standing' = k
      /\ req[r].pc = "store" /\ k \in Nat /\ k <= sent
  BY Fields DEF CodesIInv, Base, Numbered, StoreCode, memory, At
<1>2. Counted
  BY <1>1, NotArriving DEF StoreCode
<1>3. /\ k # 0 /\ k \in Codes /\ Unused(k)
      /\ \A q \in Requests : At(q, "store") /\ req[q].guess = k => q = r
  <2>1. At(r, "store")
    BY <1>1 DEF At
  <2>2. /\ req[r].guess # 0 /\ Unused(req[r].guess)
        /\ \A q \in Requests : At(q, "store") /\ req[q].guess = req[r].guess => q = r
    BY <1>1, <2>1 DEF Base, News
  <2>3. sent \in Nat /\ sent <= MaxCodes
    BY <1>1 DEF Base, Numbered, Types
  <2>4. k \in Codes
    BY <1>1, <2>2, <2>3, CodesAssumption DEF Codes
  <2> QED
    BY <2>2, <2>4
<1>4. otp'.code = k /\ otp'.expires = now + Validity /\ otp' \in Entry
  BY <1>1, Fields DEF Types, Entry
<1>5. Lands(r, Fresh)
  BY <1>1, Fields DEF StoreCode, End, Lands
<1>6. /\ req' \in [Requests -> Request]
      /\ \A q \in Requests : req'[q] = IF q = r THEN Fresh ELSE req[q]
  BY <1>1, <1>5, Landed
<1>7. \A e \in Entries' : e = otp' \/ e \in Entries \/ e = NoCode
  BY <1>1, <1>6, Fields DEF Entries
<1>8. \A j \in Codes : j \in Held' => j = k \/ j \in Held
  BY <1>1, <1>4, <1>6, Fields DEF Held
<1> HIDE DEF k
<1>9. Types'
  BY <1>1, <1>2, <1>4, <1>6 DEF Types, Counted
<1>10. Numbered'
  BY <1>1, <1>2, <1>4, <1>6, Fields DEF Base, Numbered, Counted, Types
<1>11. News'
  <2>1. \A q \in Requests : At(q, "store") => req[q].guess \in Codes
    BY <1>1, StoredCodes
  <2>2. \A j \in Codes : Unused(j) /\ j # k => Unused(j)'
    BY <1>1, <1>8 DEF Unused
  <2>3. \A q \in Requests : req'[q].pc = "store" =>
            q # r /\ req'[q] = req[q] /\ req[q].guess # k
    BY <1>1, <1>3, <1>6, Fields DEF At
  <2> QED
    BY <1>1, <2>1, <2>2, <2>3 DEF Base, News, At
<1>12. Shapes'
  BY <1>1, <1>6, Fields DEF Base, Shapes, At
<1>13. Ends'
  <2>1. \A e \in Entries' : e.expires <= now + Validity
    BY <1>1, <1>4, <1>7, Fields DEF Base, Ends, Types
  <2> QED
    BY <1>1, <1>2, <2>1, Fields DEF Base, Ends, Counted, Types
<1>14. Base'
  BY <1>9, <1>10, <1>11, <1>12, <1>13 DEF Base
<1>15. \A j \in Codes \ renewed' : GuessedAt(j)'
  <2> SUFFICES ASSUME NEW j \in Codes \ renewed
               PROVE  GuessedAt(j)'
    BY <1>1
  <2>1. GuessedAt(j) /\ j # 0
    BY <1>1, Fields DEF CodesIInv
  <2>2. CASE j = k
    BY <1>1, <1>3, <2>2, Fields DEF GuessedAt, Unused, Types
  <2>3. CASE j # k
    BY <1>1, <1>4, <1>7, <1>8, <2>1, <2>3, Fields DEF GuessedAt
  <2> QED
    BY <2>2, <2>3
<1>16. \A j \in Codes \ shared' : UsedUp(j)'
  <2> SUFFICES ASSUME NEW j \in Codes \ shared'
               PROVE  UsedUp(j)'
    OBVIOUS
  <2>1. UsedUp(j) /\ \A q, v \in Requests : (Reads(q, j) /\ Reads(v, j))' => q = v
    BY <1>9, <1>10, Recorded DEF CodesIInv
  <2> QED
    BY <1>1, <1>3, <1>8, <2>1 DEF UsedUp, Unused
<1>17. Quiet'
  BY <1>1, <1>6, <1>9, <1>10, <1>11, Fields, StillQuiet
<1>18. ASSUME standing' \notin disturbed'
       PROVE  Stands'
  <2>1. Verifying = {} /\ attempts.until = 0
    <3>1. k \notin disturbed
      BY <1>1, <1>9, <1>10, <1>18, Recorded
    <3> QED
      BY <1>1, <3>1 DEF CodesIInv, Quiet, At, k
  <2>2. ~Locked'
    BY <1>1, <2>1, Fields DEF Locked, Types
  <2>3. \A q \in Requests : req'[q].pc \in {"idle", "store"}
    <3>1. \A q \in Requests : req[q].pc \in {"idle", "store"}
      BY <2>1 DEF Verifying, Running, At
    <3> QED
      BY <1>1, <1>6, <3>1, Fields
  <2>4. \A q \in Requests : req'[q].seen = NoCode
    BY <1>12, <2>3 DEF Shapes
  <2> QED
    BY <1>1, <1>4, <2>2, <2>3, <2>4, Fields DEF Stands
<1> QED
  BY <1>14, <1>15, <1>16, <1>17, <1>18 DEF CodesIInv
-------------------------------------------------------------------------------
(***************************************************************************)
(* The steps of a verification.                                            *)
(***************************************************************************)

\* A right code forgets the attempts at what can still be compared with.
LEMMA RightKeeps ==
    ASSUME CodesIInv, Record, NEW r \in Requests, CheckRight(r)
    PROVE  CodesIInv'
<1> DEFINE p == [req[r] EXCEPT !.pc = "clear"]
<1>1. /\ Base /\ Types
      /\ UNCHANGED <<now, otp, sent, tries, used, standing, spent, lockEnd>>
      /\ attempts' = NoAttempts /\ renewed' = renewed \cup Held
      /\ req[r].pc = "check" /\ ~Locked
      /\ req[r].guess = req[r].seen.code /\ req[r].seen.code # 0
  BY DEF CodesIInv, Base, CheckRight, At, Right, Valid
<1>2. Counted
  BY <1>1, NotArriving DEF CheckRight
<1>3. /\ p \in Request /\ p.pc = "clear" /\ p.guess = req[r].guess
      /\ p.seen = req[r].seen /\ p.cur = req[r].cur
  BY <1>1 DEF Types, Request
<1>4. Lands(r, p)
  BY <1>3 DEF CheckRight, Lands
<1> HIDE DEF p
<1>5. /\ req' \in [Requests -> Request]
      /\ \A q \in Requests : req'[q] = IF q = r THEN p ELSE req[q]
      /\ \A e \in Entries' : e \in Entries \/ e = NoCode
      /\ \A k \in Codes : k \in Held' => k \in Held
  BY <1>1, <1>3, <1>4, Landed
<1>6. Types'
  BY <1>1, <1>2, <1>5, Fields DEF Types, Counted
<1>7. Numbered'
  BY <1>1, <1>2, <1>3, <1>5 DEF Base, Numbered, Counted
<1>8. News'
  <2>1. \A q \in Requests : At(q, "store") => req[q].guess \in Codes
    BY <1>1, StoredCodes
  <2>2. \A k \in Codes : Unused(k) => Unused(k)'
    BY <1>1, <1>5 DEF Unused
  <2>3. \A q \in Requests : req'[q].pc = "store" => req'[q] = req[q]
    BY <1>3, <1>5
  <2> QED
    BY <1>1, <2>1, <2>2, <2>3 DEF Base, News, At
<1>9. Shapes'
  BY <1>1, <1>3, <1>5 DEF Base, Shapes, At
<1>10. Ends'
  <2>1. \A e \in Entries' : e.expires <= now + Validity
    BY <1>1, <1>5, Fields DEF Base, Ends, Types
  <2>2. lockEnd <= now
    BY <1>1, Fields DEF Base, Ends, Types, Locked
  <2> QED
    BY <1>1, <1>2, <2>1, <2>2, Fields DEF Ends, Counted, Types
<1>11. Base'
  BY <1>6, <1>7, <1>8, <1>9, <1>10 DEF Base
<1> QED
  BY <1>1, <1>3, <1>5, <1>11, Fields, ForgottenKeeps

\* What a verification holds is a code, and the request is among those that
\* verify.
LEMMA AtCheck ==
    ASSUME Base, NEW r \in Requests, req[r].pc \in {"check", "clear", "void", "relock"}
    PROVE  /\ r \in Verifying
           /\ req[r].seen.code # 0 =>
                 req[r].seen.code \in Codes /\ req[r].seen.code \in Held
<1>1. r \in Verifying
  BY DEF Verifying, Running, At
<1>2. req[r].seen.code \in Nat /\ req[r].seen.code <= sent /\ sent <= MaxCodes
  BY Fields DEF Base, Numbered
<1> QED
  BY <1>1, <1>2, Fields DEF Base, Types, Codes, Held

\* A code that is taken out of the row was held by this request alone.
LEMMA ClearKeeps ==
    ASSUME CodesIInv, Record, NEW r \in Requests, ClearCode(r)
    PROVE  CodesIInv'
<1>0. PICK k : k = req[r].guess
  OBVIOUS
<1>1. /\ Base /\ Types
      /\ UNCHANGED <<now, attempts, sent, tries, standing, spent, renewed, lockEnd>>
      /\ otp' = NoCode /\ used' = [used EXCEPT ![k] = used[k] + 1]
      /\ req[r].pc = "clear"
  BY <1>0 DEF CodesIInv, Base, ClearCode, memory, At
<1>2. Counted
  BY <1>1, NotArriving DEF ClearCode
<1>3. k = req[r].seen.code /\ k # 0 /\ k \in Codes /\ k \in Held /\ r \in Verifying
  BY <1>0, <1>1, AtCheck DEF Base, Shapes, At
<1>4. Lands(r, Fresh)
  BY <1>1, Fields DEF ClearCode, End, Lands
<1>5. /\ req' \in [Requests -> Request]
      /\ \A q \in Requests : req'[q] = IF q = r THEN Fresh ELSE req[q]
      /\ \A e \in Entries' : e \in Entries \/ e = NoCode
      /\ \A j \in Codes : j \in Held' => j \in Held
  BY <1>1, <1>4, Landed, Fields
<1>6. /\ used' \in [Codes -> Nat] /\ used'[k] = used[k] + 1
      /\ \A j \in Codes : j # k => used'[j] = used[j]
  BY <1>1, <1>3 DEF Types
<1>7. Types'
  BY <1>1, <1>2, <1>5, <1>6, Fields DEF Types, Counted
<1>8. Numbered'
  BY <1>1, <1>2, <1>5, Fields DEF Base, Numbered, Counted, Types
<1>9. News'
  <2>1. \A q \in Requests : At(q, "store") => req[q].guess \in Codes
    BY <1>1, StoredCodes
  <2>2. \A j \in Codes : Unused(j) => Unused(j)'
    BY <1>1, <1>3, <1>5, <1>6 DEF Unused
  <2>3. \A q \in Requests : req'[q].pc = "store" => req'[q] = req[q]
    BY <1>1, <1>5, Fields
  <2>4. k <= sent /\ k \in Nat /\ sent \in Nat
    BY <1>0, <1>1, Fields DEF Base, Numbered, Types
  <2>5. \A j \in Codes : j > sent' => tries'[j] = 0 /\ used'[j] = 0
    BY <1>1, <1>6, <2>4 DEF Base, News
  <2> QED
    BY <1>1, <2>1, <2>2, <2>3, <2>5 DEF Base, News, At
<1>10. Shapes'
  BY <1>1, <1>5, Fields DEF Base, Shapes, At
<1>11. Ends'
  <2>1. \A e \in Entries' : e.expires <= now + Validity
    BY <1>1, <1>5, Fields DEF Base, Ends, Types
  <2> QED
    BY <1>1, <1>2, <2>1 DEF Base, Ends, Counted
<1>12. Base'
  BY <1>7, <1>8, <1>9, <1>10, <1>11 DEF Base
<1>13. \A j \in Codes \ renewed' : GuessedAt(j)'
  <2> SUFFICES ASSUME NEW j \in Codes \ renewed
               PROVE  GuessedAt(j)'
    BY <1>1
  <2>1. GuessedAt(j) /\ j # 0
    BY <1>1, Fields DEF CodesIInv
  <2> QED
    BY <1>1, <1>5, <2>1, Fields DEF GuessedAt
<1>14. \A j \in Codes \ shared' : UsedUp(j)'
  <2> SUFFICES ASSUME NEW j \in Codes \ shared'
               PROVE  UsedUp(j)'
    OBVIOUS
  <2>1. UsedUp(j) /\ \A q, v \in Requests : (Reads(q, j) /\ Reads(v, j))' => q = v
    BY <1>7, <1>8, Recorded DEF CodesIInv
  <2>2. CASE j # k
    BY <1>5, <1>6, <2>1, <2>2 DEF UsedUp
  <2>3. CASE j = k
    <3>1. used[k] = 0
      BY <1>1, <1>3, <2>1, <2>3 DEF UsedUp, Types
    <3>2. \A q \in Requests : q # r => req[q].seen.code # k
      <4> SUFFICES ASSUME NEW q \in Requests, req[q].seen.code = k
                   PROVE  q = r
        OBVIOUS
      <4>1. Reads(q, k) /\ Reads(r, k)
        BY <1>1, <1>3, Fields DEF Reads, Base, Shapes
      <4> QED
        BY <2>1, <2>3, <4>1 DEF UsedUp
    <3>3. k \notin Held'
      BY <1>1, <1>3, <1>5, <3>2, Fields DEF Held
    <3> QED
      BY <1>6, <2>1, <2>3, <3>1, <3>3 DEF UsedUp
  <2> QED
    BY <2>2, <2>3
<1>15. Quiet'
  BY <1>1, <1>3, <1>5, <1>7, <1>8, <1>9, Fields, StillQuiet
<1>16. ASSUME standing' \notin disturbed'
       PROVE  Stands'
  <2>1. Stands
    BY <1>1, <1>7, <1>8, <1>16, Recorded DEF CodesIInv
  <2>2. k = standing
    BY <1>3, <2>1 DEF Stands
  <2>3. used'[standing'] > 0
    BY <1>1, <1>3, <1>6, <2>2 DEF Types
  <2> QED
    BY <1>1, <1>5, <2>1, <2>3, Fields DEF Stands, Locked
<1> QED
  BY <1>12, <1>13, <1>14, <1>15, <1>16 DEF CodesIInv

\* A wrong code is counted once, at the code it was compared with; every other
\* code, and what is still to be stored, stays as it was.
LEMMA Counting ==
    ASSUME Base, NEW r \in Requests, At(r, "check"), tries' = Count(r)
    PROVE  /\ tries' \in [Codes -> Nat]
           /\ \A k \in Codes :
                 \/ tries'[k] = tries[k]
                 \/ /\ tries'[k] = tries[k] + 1
                    /\ k = req[r].seen.code /\ Valid(r) /\ k \in Held
           /\ \A k \in Codes : Unused(k) \/ k > sent => tries'[k] = tries[k]
<1>1. Types /\ tries \in [Codes -> Nat]
  BY DEF Base, Types
<1>2. CASE ~Valid(r)
  BY <1>1, <1>2 DEF Count
<1>3. CASE Valid(r)
  <2>1. PICK j : j = req[r].seen.code
    OBVIOUS
  <2>2. j \in Codes /\ j \in Held /\ j <= sent /\ j \in Nat /\ sent \in Nat
    BY <1>1, <1>3, <2>1, AtCheck, Fields DEF At, Valid, Base, Numbered, Types
  <2>3. tries' = [tries EXCEPT ![j] = tries[j] + 1]
    BY <1>3, <2>1 DEF Count
  <2>4. /\ tries' \in [Codes -> Nat] /\ tries'[j] = tries[j] + 1
        /\ \A k \in Codes : k # j => tries'[k] = tries[k]
    BY <1>1, <2>2, <2>3
  <2>5. \A k \in Codes : Unused(k) \/ k > sent => k # j
    BY <2>2 DEF Unused
  <2> QED
    BY <1>3, <2>1, <2>2, <2>4, <2>5
<1> QED
  BY <1>2, <1>3

\* A wrong code, and where the request and the lock are afterwards.
Guessed(r, p) ==
    /\ At(r, "check") /\ ~Locked
    /\ Lands(r, p) /\ p.seen = NoCode /\ p.guess = 0
    /\ \/ p.pc = "idle"
       \/ p.pc = "void" /\ p.cur.until = now + Lock /\ TooMany(p.cur.count)
    /\ tries' = Count(r)
    /\ UNCHANGED <<now, otp, sent, used, standing, renewed>>
    /\ Counted

\* What a wrong code leaves as it was.
LEMMA GuessKeeps ==
    ASSUME CodesIInv, NEW r \in Requests, NEW p, Guessed(r, p),
           attempts' \in Attempt, lockEnd' \in Nat
    PROVE  /\ Types' /\ Numbered' /\ News' /\ Shapes'
           /\ \A e \in Entries' : e.expires <= now + Validity
           /\ \A e \in Entries' : e \in Entries \/ e = NoCode
           /\ \A k \in Codes : k \in Held' => k \in Held
           /\ \A q \in Requests : req'[q] = IF q = r THEN p ELSE req[q]
<1>1. /\ Base /\ Types
      /\ UNCHANGED <<now, otp, sent, used, standing, renewed>>
  BY DEF CodesIInv, Base, Guessed
<1>2. Counted /\ p \in Request
  BY DEF Guessed, Lands
<1>3. /\ req' \in [Requests -> Request]
      /\ \A q \in Requests : req'[q] = IF q = r THEN p ELSE req[q]
      /\ \A e \in Entries' : e \in Entries \/ e = NoCode
      /\ \A k \in Codes : k \in Held' => k \in Held
  BY <1>1, Landed DEF Guessed
<1>4. /\ tries' \in [Codes -> Nat]
      /\ \A k \in Codes : Unused(k) \/ k > sent => tries'[k] = tries[k]
  BY <1>1, Counting DEF Guessed
<1>5. Types'
  BY <1>1, <1>2, <1>3, <1>4 DEF Types, Counted
<1>6. Numbered'
  BY <1>1, <1>2, <1>3, Fields DEF Base, Numbered, Counted, Guessed, Types
<1>7. News'
  <2>1. \A q \in Requests : At(q, "store") => req[q].guess \in Codes
    BY <1>1, StoredCodes
  <2>2. \A k \in Codes : Unused(k) => Unused(k)'
    BY <1>1, <1>3, <1>4 DEF Unused
  <2>3. \A q \in Requests : req'[q].pc = "store" => req'[q] = req[q]
    BY <1>3 DEF Guessed
  <2> QED
    BY <1>1, <1>4, <2>1, <2>2, <2>3 DEF Base, News, At
<1>8. Shapes'
  BY <1>1, <1>3 DEF Base, Shapes, At, Guessed
<1>9. \A e \in Entries' : e.expires <= now + Validity
  BY <1>1, <1>3, Fields DEF Base, Ends, Types
<1> QED
  BY <1>3, <1>5, <1>6, <1>7, <1>8, <1>9

\* A wrong code that is let pass is among the attempts counted.
LEMMA WrongKeeps ==
    ASSUME CodesIInv, Record, NEW r \in Requests, CheckWrong(r)
    PROVE  CodesIInv'
<1>1. /\ Base /\ Types
      /\ UNCHANGED <<now, otp, sent, used, standing, spent, renewed, lockEnd>>
      /\ tries' = Count(r) /\ ~Locked /\ ~TooMany(attempts.count + 1)
      /\ req[r].pc = "check"
  BY DEF CodesIInv, Base, CheckWrong, At
<1>2. /\ attempts' \in Attempt /\ attempts'.count = attempts.count + 1
      /\ attempts'.until = attempts.until
  BY <1>1 DEF CheckWrong, Types, Attempt
<1>3. ~TooMany(attempts.count) /\ ~TooMany(attempts'.count)
  BY <1>1, <1>2, Fields DEF TooMany
<1>4. Counted
  BY <1>1, NotArriving DEF CheckWrong
<1>5. Guessed(r, Fresh)
  BY <1>1, <1>4, Fields DEF CheckWrong, End, Guessed, Lands
<1>6. /\ Types' /\ Numbered' /\ News' /\ Shapes'
      /\ \A e \in Entries' : e.expires <= now + Validity
      /\ \A e \in Entries' : e \in Entries \/ e = NoCode
      /\ \A k \in Codes : k \in Held' => k \in Held
      /\ \A q \in Requests : req'[q] = IF q = r THEN Fresh ELSE req[q]
  BY <1>1, <1>2, <1>5, GuessKeeps DEF Types
<1>7. Ends'
  BY <1>1, <1>2, <1>3, <1>4, <1>6 DEF Base, Ends, Counted
<1>8. Base'
  BY <1>6, <1>7 DEF Base
<1>9. \A k \in Codes \ renewed' : GuessedAt(k)'
  <2> SUFFICES ASSUME NEW k \in Codes \ renewed
               PROVE  GuessedAt(k)'
    BY <1>1
  <2>1. GuessedAt(k) /\ tries[k] \in Nat
    BY <1>1 DEF CodesIInv, Types
  <2>2. \/ tries'[k] = tries[k]
        \/ tries'[k] = tries[k] + 1 /\ k \in Held
    BY <1>1, Counting DEF At
  <2>3. k \in Held => tries'[k] <= attempts'.count
    BY <1>1, <1>2, <1>3, <2>1, <2>2, Fields DEF GuessedAt
  <2>4. tries'[k] <= Allowed
    BY <1>1, <1>2, <1>3, <2>1, <2>2, <2>3, Fields DEF GuessedAt, TooMany
  <2> QED
    BY <1>3, <1>6, <2>3, <2>4 DEF GuessedAt
<1>10. \A k \in Codes \ shared' : UsedUp(k)'
  BY <1>1, <1>6, StillUsedUp
<1>11. Quiet'
  BY <1>1, <1>2, <1>6, Fields, StillQuiet
<1>12. ASSUME standing' \notin disturbed'
       PROVE  Stands'
  <2>1. Stands
    BY <1>1, <1>6, <1>12, Recorded DEF CodesIInv
  <2> QED
    BY <1>1, <1>2, <1>6, <2>1, Fields DEF Stands, Locked
<1> QED
  BY <1>8, <1>9, <1>10, <1>11, <1>12 DEF CodesIInv

\* The wrong code too many locks for longer than any code lasts; if it is the
\* first after a lock, the codes guessed at before the lock have expired.
LEMMA LocksKeeps ==
    ASSUME CodesIInv, Record, NEW r \in Requests, CheckLocks(r)
    PROVE  CodesIInv'
<1>0. PICK cur : cur = [count |-> attempts.count + 1, until |-> now + Lock]
  OBVIOUS
<1> DEFINE p == Waits("void", 0, NoCode, cur)
<1>1. /\ Base /\ Types
      /\ UNCHANGED <<now, otp, sent, used, standing, renewed>>
      /\ attempts' = cur /\ lockEnd' = cur.until /\ spent' = spent \cup {standing}
      /\ tries' = Count(r) /\ ~Locked /\ TooMany(cur.count)
      /\ req[r].pc = "check" /\ req' = [req EXCEPT ![r] = p]
  BY <1>0 DEF CodesIInv, Base, CheckLocks, At
<1>2. /\ cur \in Attempt /\ cur.count = attempts.count + 1 /\ cur.until = now + Lock
      /\ now \in Nat /\ Lock \in Nat /\ Validity \in Nat /\ Lock >= Validity
      /\ attempts.count \in Nat /\ attempts.until \in Nat
  BY <1>0, <1>1, Fields, CodesAssumption DEF Attempt, Types
<1>3. Counted
  BY <1>1, NotArriving DEF CheckLocks
<1>4. /\ p \in Request /\ p.pc = "void" /\ p.seen = NoCode /\ p.guess = 0
      /\ p.cur = cur
  BY <1>1, <1>2, Fields DEF Waits, Request
<1> HIDE DEF p
<1>5. Guessed(r, p)
  BY <1>1, <1>2, <1>3, <1>4 DEF Guessed, Lands, At
<1>6. /\ Types' /\ Numbered' /\ News' /\ Shapes'
      /\ \A e \in Entries' : e.expires <= now + Validity
      /\ \A e \in Entries' : e \in Entries \/ e = NoCode
      /\ \A k \in Codes : k \in Held' => k \in Held
      /\ \A q \in Requests : req'[q] = IF q = r THEN p ELSE req[q]
  <2>1. attempts' \in Attempt /\ lockEnd' \in Nat
    BY <1>1, <1>2
  <2> QED
    BY <1>5, <2>1, GuessKeeps
<1>7. Ends'
  BY <1>1, <1>2, <1>3, <1>6 DEF Ends, Counted
<1>8. Base'
  BY <1>6, <1>7 DEF Base
<1>9. \A k \in Codes \ renewed' : GuessedAt(k)'
  <2> SUFFICES ASSUME NEW k \in Codes \ renewed
               PROVE  GuessedAt(k)'
    BY <1>1
  <2>1. GuessedAt(k) /\ tries[k] \in Nat /\ Allowed \in Nat /\ Allowed > 1
    BY <1>1, CodesAssumption DEF CodesIInv, Types
  <2>2. tries'[k] <= Allowed
    <3>1. CASE tries'[k] = tries[k]
      BY <2>1, <3>1 DEF GuessedAt
    <3>2. CASE /\ tries'[k] = tries[k] + 1
               /\ k = req[r].seen.code /\ Valid(r) /\ k \in Held
      <4>1. CASE ~TooMany(attempts.count)
        BY <1>2, <2>1, <3>2, <4>1 DEF GuessedAt, TooMany
      <4>2. CASE TooMany(attempts.count)
        <5>1. req[r].seen \in Entries /\ req[r].seen.expires \in Nat
          BY <1>1, Fields DEF Entries
        <5>2. req[r].seen.expires > now /\ attempts.until <= now
          BY <1>1, <1>2, <3>2 DEF Valid, Locked
        <5>3. ~(tries[k] > 0)
          BY <1>2, <2>1, <3>2, <4>2, <5>1, <5>2 DEF GuessedAt
        <5> QED
          BY <2>1, <3>2, <5>3
      <4> QED
        BY <4>1, <4>2
    <3> QED
      BY <1>1, <3>1, <3>2, Counting DEF At
  <2>3. \A e \in Entries' : e.expires <= attempts'.until
    <3>1. \A e \in Entries' : e.expires \in Nat
      BY <1>1, <1>6, Fields
    <3> QED
      BY <1>1, <1>2, <1>6, <3>1
  <2> QED
    BY <1>1, <2>2, <2>3 DEF GuessedAt
<1>10. \A k \in Codes \ shared' : UsedUp(k)'
  BY <1>1, <1>6, StillUsedUp
<1>11. Quiet'
  <2>1. Verifying # {}
    BY <1>1, AtCheck
  <2> QED
    BY <1>4, <1>6, <2>1, StillQuiet
<1>12. ASSUME standing' \notin disturbed'
       PROVE  Stands'
  <2>1. Stands
    BY <1>1, <1>6, <1>12, Recorded DEF CodesIInv
  <2> QED
    BY <1>1, <1>4, <1>6, <2>1, Fields DEF Stands
<1> QED
  BY <1>8, <1>9, <1>10, <1>11, <1>12 DEF CodesIInv

\* The lock that is set again is the one that was earned.
LEMMA RelockKeeps ==
    ASSUME CodesIInv, Record, NEW r \in Requests, Relock(r)
    PROVE  CodesIInv'
<1>1. /\ Base /\ Types
      /\ UNCHANGED <<now, otp, sent, tries, used, standing, spent, renewed, lockEnd>>
      /\ attempts' = req[r].cur /\ req[r].pc = "relock"
  BY DEF CodesIInv, Base, Relock, At, history
<1>2. /\ attempts' \in Attempt /\ attempts'.until = now + Lock
      /\ TooMany(attempts'.count)
      /\ now \in Nat /\ Lock \in Nat /\ Validity \in Nat /\ Lock >= Validity
  BY <1>1, Fields, CodesAssumption DEF Base, Shapes, Types
<1>3. Counted
  BY <1>1, NotArriving DEF Relock
<1>4. Lands(r, Fresh)
  BY <1>1, Fields DEF Relock, End, Lands
<1>5. /\ req' \in [Requests -> Request]
      /\ \A q \in Requests : req'[q] = IF q = r THEN Fresh ELSE req[q]
      /\ \A e \in Entries' : e \in Entries \/ e = NoCode
      /\ \A k \in Codes : k \in Held' => k \in Held
  BY <1>1, <1>4, Landed, Fields
<1>6. Types'
  BY <1>1, <1>2, <1>3, <1>5 DEF Types, Counted
<1>7. Numbered'
  BY <1>1, <1>3, <1>5, Fields DEF Base, Numbered, Counted, Types
<1>8. News'
  <2>1. \A q \in Requests : At(q, "store") => req[q].guess \in Codes
    BY <1>1, StoredCodes
  <2>2. \A j \in Codes : Unused(j) => Unused(j)'
    BY <1>1, <1>5 DEF Unused
  <2>3. \A q \in Requests : req'[q].pc = "store" => req'[q] = req[q]
    BY <1>1, <1>5, Fields
  <2> QED
    BY <1>1, <2>1, <2>2, <2>3 DEF Base, News, At
<1>9. Shapes'
  BY <1>1, <1>5, Fields DEF Base, Shapes, At
<1>10. \A e \in Entries' : e.expires <= now + Validity /\ e.expires \in Nat
  BY <1>1, <1>2, <1>5, Fields DEF Base, Ends, Types
<1>11. Ends'
  BY <1>1, <1>2, <1>3, <1>10 DEF Base, Ends, Counted, Types
<1>12. Base'
  BY <1>6, <1>7, <1>8, <1>9, <1>11 DEF Base
<1>13. \A k \in Codes \ renewed' : GuessedAt(k)'
  <2> SUFFICES ASSUME NEW k \in Codes \ renewed
               PROVE  GuessedAt(k)'
    BY <1>1
  <2>1. \A e \in Entries' : e.expires <= attempts'.until
    BY <1>2, <1>10
  <2> QED
    BY <1>1, <1>2, <2>1 DEF CodesIInv, GuessedAt
<1>14. \A k \in Codes \ shared' : UsedUp(k)'
  BY <1>1, <1>5, <1>6, <1>7, StillUsedUp
<1>15. Quiet'
  <2>1. Verifying # {}
    BY <1>1, AtCheck
  <2> QED
    BY <1>1, <1>5, <1>6, <1>7, <1>8, <2>1, Fields, StillQuiet
<1>16. ASSUME standing' \notin disturbed'
       PROVE  Stands'
  <2>1. Stands
    BY <1>1, <1>6, <1>7, <1>16, Recorded DEF CodesIInv
  <2> QED
    BY <1>1, <1>5, <2>1, Fields DEF Stands
<1> QED
  BY <1>12, <1>13, <1>14, <1>15, <1>16 DEF CodesIInv
-------------------------------------------------------------------------------
(***************************************************************************)
(* Time, the initial state and the theorems.                               *)
(***************************************************************************)

\* Nobody verifies, locks or stores while time passes.
LEMMA TickKeeps ==
    ASSUME CodesIInv, Record, Tick
    PROVE  CodesIInv'
<1>1. /\ Base /\ Types
      /\ UNCHANGED <<limiter, otp, attempts, sent, req, made, tries, used, standing,
                     spent, renewed, lockEnd>>
      /\ now' = now + 1 /\ Running = {} /\ now \in Nat
  BY DEF CodesIInv, Base, Types, Tick, memory, history
<1>2. /\ \A q \in Requests : req'[q] = req[q] /\ req[q].pc = "idle"
      /\ Entries' = Entries
  BY <1>1 DEF Running, At, Entries
<1>3. Types'
  BY <1>1 DEF Types, limiter
<1>4. Numbered' /\ News' /\ Shapes'
  BY <1>1, <1>2 DEF Base, Numbered, News, Shapes, At
<1>5. Ends'
  <2>1. \A e \in Entries' : e.expires <= now' + Validity
    BY <1>1, <1>2, Fields DEF Base, Ends
  <2>2. /\ attempts'.until <= now' + Lock
        /\ attempts'.until > 0 => TooMany(attempts'.count)
    BY <1>1, Fields DEF Base, Ends
  <2>3. lockEnd' <= now' + Lock /\ (lockEnd' > now' => attempts'.until >= lockEnd')
    BY <1>1, Fields DEF Base, Ends, Types
  <2>4. \A t \in Times : t > now' => hits'[t] = 0
    BY <1>1, LimiterAssumption DEF Base, Ends, limiter, Times
  <2> QED
    BY <2>1, <2>2, <2>3, <2>4 DEF Ends
<1>6. Base'
  BY <1>3, <1>4, <1>5 DEF Base
<1>7. \A k \in Codes \ renewed' : GuessedAt(k)'
  <2>1. \A k : k \in Held' <=> k \in Held
    BY <1>1 DEF Held
  <2> QED
    BY <1>1, <1>2, <2>1 DEF CodesIInv, GuessedAt
<1>8. \A k \in Codes \ shared' : UsedUp(k)'
  <2>1. \A k \in Codes : k \in Held' => k \in Held
    BY <1>1 DEF Held
  <2> QED
    BY <1>1, <1>3, <1>4, <2>1, StillUsedUp
<1>9. Quiet'
  BY <1>2 DEF Quiet, At
<1>10. ASSUME standing' \notin disturbed'
       PROVE  Stands'
  <2>1. Stands
    BY <1>1, <1>3, <1>4, <1>10, Recorded DEF CodesIInv
  <2>2. Locked' => Locked
    BY <1>1, Fields DEF Locked
  <2> QED
    BY <1>1, <2>1, <2>2 DEF Stands
<1> QED
  BY <1>6, <1>7, <1>8, <1>9, <1>10 DEF CodesIInv

\* The invariant holds at the beginning ...
LEMMA CodesStart == Init => CodesIInv
<1> SUFFICES ASSUME Init
             PROVE  CodesIInv
  OBVIOUS
<1>1. NoCode \in Entry /\ NoCode.code = 0 /\ NoCode.expires = 0
  BY DEF NoCode, Entry
<1>2. NoAttempts \in Attempt /\ NoAttempts.count = 0 /\ NoAttempts.until = 0
  BY DEF NoAttempts, Attempt
<1>3. Fresh \in Request /\ Fresh.pc = "idle" /\ Fresh.guess = 0 /\ Fresh.seen = NoCode
  BY <1>1, <1>2 DEF Fresh, Waits, Request
<1>4. /\ now = 1 /\ sent = 0 /\ made = 0 /\ standing = 0 /\ lockEnd = 0
      /\ otp = NoCode /\ attempts = NoAttempts
      /\ \A r \in Requests : req[r] = Fresh
      /\ \A k \in Codes : tries[k] = 0 /\ used[k] = 0
      /\ \A t \in Times : hits[t] = 0
  BY DEF Init, LimiterInit
<1>5. /\ {MaxRequests, Allowed, Lock, Validity, MaxCodes} \subseteq Nat
      /\ Codes \subseteq Nat \ {0} /\ ~TooMany(0)
  BY CodesAssumption DEF Codes, TooMany
<1>6. Types
  BY <1>1, <1>2, <1>3, <1>4 DEF Init, LimiterInit, Types
<1>7. Entries \subseteq {NoCode}
  BY <1>3, <1>4 DEF Entries
<1>8. Numbered /\ News /\ Shapes /\ Quiet
  BY <1>1, <1>3, <1>4, <1>5 DEF Numbered, News, Shapes, Quiet, At
<1>9. Ends
  BY <1>1, <1>2, <1>4, <1>5, <1>7 DEF Ends
<1>10. Base
  BY <1>6, <1>8, <1>9 DEF Base
<1>11. \A k \in Codes : GuessedAt(k) /\ UsedUp(k)
  BY <1>2, <1>3, <1>4, <1>5 DEF GuessedAt, UsedUp, Reads
<1>12. Stands
  BY <1>1, <1>2, <1>3, <1>4 DEF Stands, Locked
<1> QED
  BY <1>8, <1>10, <1>11, <1>12 DEF CodesIInv

\* ... every step keeps it ...
LEMMA CodesStep == CodesIInv /\ [Next]_vars => CodesIInv'
<1> SUFFICES ASSUME CodesIInv, [Next]_vars
             PROVE  CodesIInv'
  OBVIOUS
<1>1. ASSUME UNCHANGED vars
      PROVE  CodesIInv'
  BY <1>1 DEF CodesIInv, Base, Types, Numbered, News, Shapes, Ends, GuessedAt, UsedUp,
              Quiet, Stands, Unused, Held, Entries, Reads, Locked, Verifying, Running,
              At, vars, memory, history, limiter
<1>2. ASSUME Record, NEW r \in Requests, Arrival(r) \/ Continue(r)
      PROVE  CodesIInv'
  BY <1>2, PassingSteps, PassKeeps, AskKeeps, StoreKeeps, RightKeeps, ClearKeeps,
     WrongKeeps, LocksKeeps, RelockKeeps DEF Arrival, Continue
<1>3. ASSUME Record, Finished
      PROVE  CodesIInv'
  <2>1. UNCHANGED <<now, limiter, otp, memory, sent, req, made, restarted, history>>
    BY <1>3 DEF Finished
  <2>2. UNCHANGED vars \/ CodesIInv'
    <3>1. /\ Base'
          /\ \A k \in Codes \ renewed' : GuessedAt(k)'
      BY <2>1 DEF CodesIInv, Base, Types, Numbered, News, Shapes, Ends, GuessedAt,
                  Unused, Held, Entries, At, memory, history, limiter
    <3>2. \A k \in Codes \ shared' : UsedUp(k)'
      BY <2>1, <1>3, <3>1, StillUsedUp DEF Base, Held, history
    <3>3. Quiet'
      BY <1>3, <2>1 DEF Finished, Running, Quiet, At
    <3>4. standing' \notin disturbed' => Stands'
      BY <1>3, <2>1, <3>1, Recorded
      DEF CodesIInv, Base, Stands, Locked, history, memory
    <3> QED
      BY <3>1, <3>2, <3>3, <3>4 DEF CodesIInv
  <2> QED
    BY <1>1, <2>2
<1> QED
  BY <1>1, <1>2, <1>3, RestartKeeps, TickKeeps DEF Next, Step

\* ... and it says what the run checks.
LEMMA CodesImplied == CodesIInv => CodesInv /\ CodeWorksOnce /\ NewCodeStands
<1> SUFFICES ASSUME CodesIInv
             PROVE  CodesInv /\ CodeWorksOnce /\ NewCodeStands
  OBVIOUS
<1>1. Base /\ Types
  BY DEF CodesIInv, Base
<1>2. CodesTypeOK
  BY <1>1, Fields DEF CodesTypeOK, Base, Numbered, Ends, Types
<1>3. GuessesAreBounded
  BY DEF CodesIInv, GuessesAreBounded, GuessedAt
<1>4. LockLasts
  BY <1>1, Fields DEF LockLasts, Locked, Base, Ends, Types
<1>5. CodeWorksOnce
  BY DEF CodesIInv, CodeWorksOnce, UsedUp
<1>6. NewCodeStands
  BY DEF CodesIInv, NewCodeStands, Stands
<1> QED
  BY <1>2, <1>3, <1>4, <1>5, <1>6 DEF CodesInv

\* The inductive invariant holds in every state.
LEMMA CodesAlways == Spec => []CodesIInv
BY CodesStart, CodesStep, PTL DEF Spec

\* However many requests of however many tiers interleave, fail and are cut off
\* by a restart: a code is compared with at most the allowed number of wrong
\* guesses while the attempts are not forgotten, and a lock lasts until it ends
\* or a new code or a restart lifts it (auth.service.ts:72-85, 133-177).
THEOREM CodesAreGuarded == Spec => []CodesInv
BY CodesAlways, CodesImplied, PTL

\* A code logs its user in once, unless two verifications had read it before
\* either took it out of the row (auth.service.ts:133, 177-184).
THEOREM CodesWorkOnce == Spec => []CodeWorksOnce
BY CodesAlways, CodesImplied, PTL

\* A code that was sent while nobody verified can be used until it has been or
\* was spent on wrong attempts of its own, and nobody is locked out for the
\* attempts at an earlier one (auth.service.ts:72-81, 163-170, 177-181).
THEOREM NewCodesStand == Spec => []NewCodeStands
BY CodesAlways, CodesImplied, PTL
-------------------------------------------------------------------------------
(***************************************************************************)
(* Sums of the limiter.                                                    *)
(***************************************************************************)

\* Induction over the natural numbers, on a set of them.
LEMMA SetInduction ==
    ASSUME NEW S, 0 \in S, \A n \in Nat : n \in S => n + 1 \in S
    PROVE  Nat \subseteq S
<1> SUFFICES ASSUME Nat \ S # {}
             PROVE  FALSE
  OBVIOUS
<1>1. PICK m \in Nat \ S : \A y \in Nat \ S : ~(<<y, m>> \in OpToRel(<, Nat))
  <2>1. Nat \ S \subseteq Nat
    OBVIOUS
  <2> QED
    BY <2>1, NatLessThanWellFounded, WFMin
<1>2. \A y \in Nat \ S : ~(y < m)
  BY <1>1 DEF OpToRel
<1>3. m # 0 /\ m - 1 \in Nat /\ m - 1 < m
  OBVIOUS
<1>4. m - 1 \in S
  BY <1>2, <1>3
<1> QED
  BY <1>3, <1>4

\* f adds the values of g after a, up to n.
Adds(f, g, a, n) ==
    /\ f \in [0..n -> Nat]
    /\ \A k \in 0..n : f[k] = IF k <= a THEN 0 ELSE f[k - 1] + g[k]

\* Such an f exists within the bound of the clock.
LEMMA AddsExist ==
    ASSUME NEW g \in [Times -> Nat], NEW a \in Nat
    PROVE  \E f : Adds(f, g, a, MaxTime)
<1> DEFINE S == {n \in Nat : n <= MaxTime => \E f : Adds(f, g, a, n)}
<1>1. 0 \in S
  <2>1. Adds([k \in 0..0 |-> 0], g, a, 0)
    BY DEF Adds
  <2> QED
    BY <2>1
<1>2. ASSUME NEW n \in Nat, n \in S
      PROVE  n + 1 \in S
  <2> SUFFICES ASSUME n + 1 <= MaxTime
               PROVE  \E f : Adds(f, g, a, n + 1)
    OBVIOUS
  <2>1. PICK f : Adds(f, g, a, n)
    BY <1>2, LimiterAssumption
  <2>2. n + 1 \in Times /\ g[n + 1] \in Nat /\ n \in 0..n /\ f[n] \in Nat
    BY <2>1, LimiterAssumption DEF Times, Adds
  <2> DEFINE top == IF n + 1 <= a THEN 0 ELSE f[n] + g[n + 1]
             h == [k \in 0..(n + 1) |-> IF k <= n THEN f[k] ELSE top]
  <2>3. h \in [0..(n + 1) -> Nat]
    BY <2>1, <2>2 DEF Adds
  <2>4. ASSUME NEW k \in 0..(n + 1)
        PROVE  h[k] = IF k <= a THEN 0 ELSE h[k - 1] + g[k]
    <3>1. CASE k <= n
      <4>1. k \in 0..n /\ (k > a => k - 1 \in 0..n /\ k - 1 \in 0..(n + 1) /\ k - 1 <= n)
        BY <3>1
      <4> QED
        BY <2>1, <3>1, <4>1 DEF Adds
    <3>2. CASE k = n + 1
      BY <3>2
    <3> QED
      BY <3>1, <3>2
  <2> HIDE DEF h
  <2>5. Adds(h, g, a, n + 1)
    BY <2>3, <2>4 DEF Adds
  <2> QED
    BY <2>5
<1>3. Nat \subseteq S
  <2> HIDE DEF S
  <2> QED
    BY <1>1, <1>2, SetInduction
<1> QED
  BY <1>3, LimiterAssumption

\* Total is well defined: it adds one value after the other.
LEMMA TotalAdds ==
    ASSUME NEW g \in [Times -> Nat], NEW a \in Nat
    PROVE  \A t \in 0..MaxTime :
              /\ Total(g, a, t) \in Nat
              /\ Total(g, a, t) = IF t <= a THEN 0 ELSE Total(g, a, t - 1) + g[t]
<1> DEFINE Rec(f) == f = [t \in 0..MaxTime |-> IF t <= a THEN 0 ELSE f[t - 1] + g[t]]
           sum == CHOOSE f : Rec(f)
<1>1. \E f : Rec(f)
  <2>1. PICK f : Adds(f, g, a, MaxTime)
    BY AddsExist
  <2>2. Rec(f)
    BY <2>1 DEF Adds
  <2> QED
    BY <2>2
<1>2. Rec(sum)
  <2> HIDE DEF Rec
  <2> QED
    BY <1>1
<1>3. \A t : Total(g, a, t) = sum[t]
  BY DEF Total
<1> HIDE DEF sum
<1>4. \A t \in 0..MaxTime : sum[t] = IF t <= a THEN 0 ELSE sum[t - 1] + g[t]
  BY <1>2
<1> DEFINE S == {t \in Nat : t <= MaxTime => sum[t] \in Nat}
<1>5. 0 \in S
  BY <1>4, LimiterAssumption
<1>6. ASSUME NEW t \in Nat, t \in S
      PROVE  t + 1 \in S
  <2> SUFFICES ASSUME t + 1 <= MaxTime
               PROVE  sum[t + 1] \in Nat
    OBVIOUS
  <2>1. /\ t + 1 \in 0..MaxTime /\ t + 1 \in Times /\ (t + 1) - 1 = t
        /\ g[t + 1] \in Nat /\ sum[t] \in Nat
    BY <1>6, LimiterAssumption DEF Times
  <2> QED
    BY <1>4, <2>1
<1>7. Nat \subseteq S
  <2> HIDE DEF S
  <2> QED
    BY <1>5, <1>6, SetInduction
<1>8. \A t \in 0..MaxTime : sum[t] \in Nat
  BY <1>7
<1> QED
  BY <1>3, <1>4, <1>8

\* What is nowhere more than h, and nothing after m, adds up to no more than h
\* up to m.
LEMMA Dominated ==
    ASSUME NEW g \in [Times -> Nat], NEW h \in [Times -> Nat], NEW a \in Nat,
           NEW m \in 0..MaxTime,
           \A s \in Times : s > a => IF s <= m THEN g[s] <= h[s] ELSE g[s] = 0,
           NEW t \in 0..MaxTime
    PROVE  Total(g, a, t) <= Total(h, 0, IF t <= m THEN t ELSE m)
<1> DEFINE S == {n \in Nat : n <= MaxTime =>
                     Total(g, a, n) <= Total(h, 0, IF n <= m THEN n ELSE m)}
<1>0. \A n \in 0..MaxTime :
         /\ Total(g, a, n) \in Nat /\ Total(h, 0, n) \in Nat
         /\ Total(g, a, n) = IF n <= a THEN 0 ELSE Total(g, a, n - 1) + g[n]
         /\ Total(h, 0, n) = IF n <= 0 THEN 0 ELSE Total(h, 0, n - 1) + h[n]
  BY TotalAdds
<1>1. 0 \in S
  BY <1>0, LimiterAssumption
<1>2. ASSUME NEW n \in Nat, n \in S
      PROVE  n + 1 \in S
  <2> SUFFICES ASSUME n + 1 <= MaxTime
               PROVE  Total(g, a, n + 1)
                         <= Total(h, 0, IF n + 1 <= m THEN n + 1 ELSE m)
    OBVIOUS
  <2>1. /\ n \in 0..MaxTime /\ n + 1 \in 0..MaxTime /\ n + 1 \in Times
        /\ (n + 1) - 1 = n /\ m \in Nat
    BY LimiterAssumption DEF Times
  <2>2. Total(g, a, n) <= Total(h, 0, IF n <= m THEN n ELSE m)
    BY <1>2, <2>1, LimiterAssumption
  <2>3. CASE n + 1 <= a
    BY <1>0, <2>1, <2>3
  <2>4. CASE n + 1 > a /\ n + 1 <= m
    <3>1. /\ Total(g, a, n + 1) = Total(g, a, n) + g[n + 1]
          /\ Total(h, 0, n + 1) = Total(h, 0, n) + h[n + 1]
          /\ g[n + 1] <= h[n + 1] /\ g[n + 1] \in Nat /\ h[n + 1] \in Nat
      BY <1>0, <2>1, <2>4
    <3>2. Total(g, a, n) <= Total(h, 0, n)
      BY <2>2, <2>4
    <3> QED
      BY <1>0, <2>1, <2>4, <3>1, <3>2
  <2>5. CASE n + 1 > a /\ n + 1 > m
    <3>1. Total(g, a, n + 1) = Total(g, a, n)
      BY <1>0, <2>1, <2>5
    <3>2. (IF n <= m THEN n ELSE m) = m
      BY <2>1, <2>5
    <3> QED
      BY <2>1, <2>2, <2>5, <3>1, <3>2
  <2> QED
    BY <2>1, <2>3, <2>4, <2>5
<1>3. Nat \subseteq S
  <2> HIDE DEF S
  <2> QED
    BY <1>1, <1>2, SetInduction
<1> QED
  BY <1>3, LimiterAssumption

\* What agrees up to t has the same sum up to t.
LEMMA SameTotal ==
    ASSUME NEW g \in [Times -> Nat], NEW h \in [Times -> Nat], NEW a \in Nat,
           NEW t \in 0..MaxTime,
           \A s \in Times : s <= t => g[s] = h[s]
    PROVE  Total(g, a, t) = Total(h, a, t)
<1> DEFINE S == {n \in Nat : n <= t => Total(g, a, n) = Total(h, a, n)}
<1>0. \A n \in 0..MaxTime :
         /\ Total(g, a, n) = IF n <= a THEN 0 ELSE Total(g, a, n - 1) + g[n]
         /\ Total(h, a, n) = IF n <= a THEN 0 ELSE Total(h, a, n - 1) + h[n]
  BY TotalAdds
<1>1. 0 \in S
  BY <1>0, LimiterAssumption
<1>2. ASSUME NEW n \in Nat, n \in S
      PROVE  n + 1 \in S
  <2> SUFFICES ASSUME n + 1 <= t
               PROVE  Total(g, a, n + 1) = Total(h, a, n + 1)
    OBVIOUS
  <2>1. /\ n + 1 \in 0..MaxTime /\ n + 1 \in Times /\ (n + 1) - 1 = n
        /\ g[n + 1] = h[n + 1] /\ Total(g, a, n) = Total(h, a, n)
    BY <1>2, LimiterAssumption DEF Times
  <2> QED
    BY <1>0, <2>1
<1>3. Nat \subseteq S
  <2> HIDE DEF S
  <2> QED
    BY <1>1, <1>2, SetInduction
<1> QED
  BY <1>3
-------------------------------------------------------------------------------
(***************************************************************************)
(* The limits of the tiers.                                                *)
(***************************************************************************)

\* A tier no other tier has a shorter window than.
Shortest(x) == \A y \in Tiers : Window[x] <= Window[y]

\* The variables of RateLimiter have their types, and nothing is counted ahead of
\* time.
LimiterTypes ==
    /\ now \in Times
    /\ hits \in [Times -> Nat]
    /\ accepted \in [Tiers -> [Times -> Nat]]
    /\ expires \in Nat
    /\ \A t \in Times : t > now => hits[t] = 0
    /\ \A x \in Tiers, t \in Times : t > now => accepted[x][t] = 0

\* What the current window of a tier accepted is in the shared set, unless the
\* tier was shortened; the set outlasts the hits of the shortest windows.
InSet ==
    \A x \in Tiers, t \in Times :
        /\ x \notin shortened /\ t + Window[x] > now => accepted[x][t] <= hits[t]
        /\ Shortest(x) /\ accepted[x][t] > 0 => expires >= t + Window[x]

\* The first unit of time of the window that ends at t is the one after this.
Before(x, t) == IF t > Window[x] THEN t - Window[x] ELSE 0

\* The inductive invariant of RateLimiter.
LimiterIInv == LimiterTypes /\ InSet /\ WindowsHold

\* What is left of the set when a tier trims it.
LEMMA TrimmedSet ==
    ASSUME LimiterTypes, NEW x \in Tiers, NEW kept, kept = Trimmed(x)
    PROVE  /\ kept \in [Times -> Nat]
           /\ \A t \in Times : kept[t] <= hits[t]
           /\ \A t \in Times : t > now => kept[t] = 0
           /\ now < expires => \A t \in Times : t + Window[x] > now => kept[t] = hits[t]
BY DEF Trimmed, LimiterTypes, InWindow

\* A shortest window loses nothing when the set is trimmed; a tier that is not
\* shortened has what it accepted still in the trimmed set.
LEMMA Trimming ==
    ASSUME LimiterIInv, NEW x \in Tiers, NEW kept, kept = Trimmed(x),
           shortened' = shortened \cup Forgets(kept)
    PROVE  /\ \A y \in Tiers : Shortest(y) => y \notin shortened'
           /\ \A y \in Tiers, t \in Times :
                 y \notin shortened' /\ t + Window[y] > now => accepted[y][t] <= kept[t]
<1>1. LimiterTypes /\ kept \in [Times -> Nat]
  BY TrimmedSet DEF LimiterIInv
<1>2. \A y \in Tiers, t \in Times : accepted[y][t] \in Nat
  BY <1>1 DEF LimiterTypes
<1>3. ASSUME NEW y \in Tiers, Shortest(y)
      PROVE  y \notin shortened'
  <2>1. y \notin shortened
    BY <1>3 DEF LimiterIInv, WindowsHold, Shortest
  <2>2. ASSUME NEW t \in Times, t + Window[y] > now
        PROVE  accepted[y][t] <= kept[t]
    <3>1. accepted[y][t] <= hits[t] /\ (accepted[y][t] > 0 => expires >= t + Window[y])
      BY <1>3, <2>1, <2>2 DEF LimiterIInv, InSet
    <3>2. /\ t \in Nat /\ now \in Nat /\ expires \in Nat
          /\ Window[x] \in Nat /\ Window[y] \in Nat /\ Window[y] <= Window[x]
      BY <1>1, <1>3, LimiterAssumption DEF LimiterTypes, Times, Shortest
    <3>3. CASE accepted[y][t] > 0
      <4>1. now < expires /\ t + Window[x] > now
        BY <2>2, <3>1, <3>2, <3>3
      <4>2. kept[t] = hits[t]
        BY <1>1, <4>1, TrimmedSet
      <4> QED
        BY <3>1, <4>2
    <3>4. CASE accepted[y][t] = 0
      BY <1>1, <3>4
    <3> QED
      BY <1>2, <3>3, <3>4
  <2>3. y \notin Forgets(kept)
    BY <1>1, <1>2, <2>2 DEF Forgets
  <2> QED
    BY <2>1, <2>3
<1>4. ASSUME NEW y \in Tiers, NEW t \in Times,
             y \notin shortened', t + Window[y] > now
      PROVE  accepted[y][t] <= kept[t]
  BY <1>1, <1>2, <1>4 DEF Forgets
<1> QED
  BY <1>3, <1>4

\* A request that is turned away is counted for nobody.
LEMMA RefuseKeeps ==
    ASSUME LimiterIInv, NEW x \in Tiers, Refuse(x), UNCHANGED now
    PROVE  LimiterIInv'
<1>1. PICK kept : kept = Trimmed(x)
  OBVIOUS
<1>2. /\ LimiterTypes /\ UNCHANGED <<now, accepted>>
      /\ hits' = kept /\ expires' = now + Window[x]
      /\ shortened' = shortened \cup Forgets(kept)
  BY <1>1 DEF LimiterIInv, Refuse
<1>3. /\ kept \in [Times -> Nat]
      /\ \A t \in Times : t > now => kept[t] = 0
  BY <1>1, <1>2, TrimmedSet
<1>4. /\ now \in Nat /\ Times \subseteq Nat
      /\ \A y \in Tiers : Window[y] \in Nat
  BY <1>2, LimiterAssumption DEF LimiterTypes, Times
<1>5. LimiterTypes'
  BY <1>2, <1>3, <1>4 DEF LimiterTypes
<1>6. /\ \A y \in Tiers : Shortest(y) => y \notin shortened'
      /\ \A y \in Tiers, t \in Times :
            y \notin shortened' /\ t + Window[y] > now => accepted[y][t] <= kept[t]
  BY <1>1, <1>2, Trimming
<1>7. InSet'
  <2> SUFFICES ASSUME NEW y \in Tiers, NEW t \in Times
               PROVE  /\ y \notin shortened' /\ t + Window[y] > now
                            => accepted[y][t] <= kept[t]
                      /\ Shortest(y) /\ accepted[y][t] > 0
                            => now + Window[x] >= t + Window[y]
    BY <1>2 DEF InSet, Shortest
  <2>1. accepted[y][t] > 0 => t <= now
    BY <1>2, <1>4 DEF LimiterTypes
  <2> QED
    BY <1>4, <1>6, <2>1 DEF Shortest
<1>8. WindowsHold'
  BY <1>2, <1>6 DEF LimiterIInv, WindowsHold, Shortest
<1> QED
  BY <1>5, <1>7, <1>8 DEF LimiterIInv

\* A request that is let through is among those of the trimmed set, which were
\* fewer than the tier allows.
LEMMA AcceptKeeps ==
    ASSUME LimiterIInv, NEW x \in Tiers, Accept(x), UNCHANGED now
    PROVE  LimiterIInv'
<1>1. PICK kept : kept = Trimmed(x)
  OBVIOUS
<1>2. /\ LimiterTypes /\ UNCHANGED now
      /\ Total(kept, 0, now) < Limit[x]
      /\ hits' = [kept EXCEPT ![now] = kept[now] + 1] /\ expires' = now + Window[x]
      /\ accepted' = [accepted EXCEPT ![x][now] = accepted[x][now] + 1]
      /\ shortened' = shortened \cup Forgets(kept)
  BY <1>1 DEF LimiterIInv, Accept
<1>3. /\ kept \in [Times -> Nat]
      /\ \A t \in Times : t > now => kept[t] = 0
  BY <1>1, <1>2, TrimmedSet
<1>4. /\ now \in Nat /\ now \in Times /\ Times \subseteq Nat /\ now # 0
      /\ \A y \in Tiers : Window[y] \in Nat /\ Limit[y] \in Nat
      /\ Times = 1..MaxTime /\ MaxTime \in Nat
  <2>1. Times = 1..MaxTime /\ MaxTime \in Nat /\ now \in Times
    BY <1>2, LimiterAssumption DEF LimiterTypes, Times
  <2>2. \A y \in Tiers : Window[y] \in Nat /\ Limit[y] \in Nat
    BY LimiterAssumption
  <2> QED
    BY <2>1, <2>2
<1>5. /\ hits' \in [Times -> Nat] /\ hits'[now] = kept[now] + 1
      /\ \A t \in Times : t # now => hits'[t] = kept[t]
  BY <1>2, <1>3, <1>4
<1>6. /\ accepted' \in [Tiers -> [Times -> Nat]]
      /\ accepted'[x][now] = accepted[x][now] + 1
      /\ \A t \in Times : t # now => accepted'[x][t] = accepted[x][t]
      /\ \A y \in Tiers : y # x => accepted'[y] = accepted[y]
  <2>1. accepted[x] \in [Times -> Nat] /\ accepted \in [Tiers -> [Times -> Nat]]
    BY <1>2 DEF LimiterTypes
  <2>2. PICK g : g = [accepted[x] EXCEPT ![now] = accepted[x][now] + 1]
    OBVIOUS
  <2>3. /\ g \in [Times -> Nat] /\ g[now] = accepted[x][now] + 1
        /\ \A t \in Times : t # now => g[t] = accepted[x][t]
    BY <1>4, <2>1, <2>2
  <2>4. accepted' = [accepted EXCEPT ![x] = g]
    BY <1>2, <2>2
  <2> QED
    BY <2>1, <2>3, <2>4
<1>7. LimiterTypes'
  <2>1. \A y \in Tiers, t \in Times : t > now => accepted'[y][t] = 0
    BY <1>2, <1>4, <1>6 DEF LimiterTypes
  <2> QED
    <3>1. \A t \in Times : t > now => hits'[t] = 0
      BY <1>3, <1>4, <1>5
    <3>2. expires' \in Nat
      BY <1>2, <1>4
    <3>3. /\ now' \in Times /\ hits' \in [Times -> Nat]
          /\ accepted' \in [Tiers -> [Times -> Nat]]
      BY <1>2, <1>4, <1>5, <1>6
    <3> QED
      BY <2>1, <3>1, <3>2, <3>3 DEF LimiterTypes
<1>8. /\ \A y \in Tiers : Shortest(y) => y \notin shortened'
      /\ \A y \in Tiers, t \in Times :
            y \notin shortened' /\ t + Window[y] > now => accepted[y][t] <= kept[t]
  BY <1>1, <1>2, Trimming
<1>9. \A y \in Tiers, t \in Times :
         y \notin shortened' /\ t + Window[y] > now => accepted'[y][t] <= hits'[t]
  <2> SUFFICES ASSUME NEW y \in Tiers, NEW t \in Times,
                      y \notin shortened', t + Window[y] > now
               PROVE  accepted'[y][t] <= hits'[t]
    OBVIOUS
  <2>1. accepted[y][t] <= kept[t] /\ accepted[y][t] \in Nat /\ kept[t] \in Nat
    BY <1>2, <1>3, <1>8 DEF LimiterTypes
  <2>2. accepted'[y][t] = accepted[y][t]
        \/ (t = now /\ accepted'[y][t] = accepted[y][t] + 1)
    BY <1>6
  <2> QED
    BY <1>5, <2>1, <2>2
<1>10. InSet'
  <2> SUFFICES ASSUME NEW y \in Tiers, NEW t \in Times
               PROVE  /\ y \notin shortened' /\ t + Window[y] > now
                            => accepted'[y][t] <= hits'[t]
                      /\ Shortest(y) /\ accepted'[y][t] > 0
                            => now + Window[x] >= t + Window[y]
    BY <1>2 DEF InSet, Shortest
  <2>1. accepted'[y][t] > 0 => t <= now
    BY <1>2, <1>4, <1>7 DEF LimiterTypes
  <2> QED
    BY <1>4, <1>9, <2>1 DEF Shortest
<1>11. ASSUME NEW y \in Tiers, y \notin shortened', NEW t \in Times
       PROVE  Total(accepted'[y], Before(y, t), t) <= Limit[y]
  <2>1. /\ y \notin shortened
        /\ Total(accepted[y], Before(y, t), t) <= Limit[y]
    BY <1>2, <1>11 DEF LimiterIInv, WindowsHold, Before
  <2>2. /\ Before(y, t) \in Nat /\ t \in 0..MaxTime /\ t \in Nat
        /\ accepted[y] \in [Times -> Nat] /\ accepted'[y] \in [Times -> Nat]
    <3>1. t \in 0..MaxTime /\ t \in Nat
      BY <1>4
    <3>2. Before(y, t) \in Nat
      BY <1>4, <3>1 DEF Before
    <3>3. accepted[y] \in [Times -> Nat]
      BY <1>2 DEF LimiterTypes
    <3>4. accepted'[y] \in [Times -> Nat]
      BY <1>6
    <3> QED
      BY <3>1, <3>2, <3>3, <3>4
  <2>3. CASE y # x \/ t < now
    <3>1. \A s \in Times : s <= t => accepted'[y][s] = accepted[y][s]
      <4>1. CASE y # x
        BY <1>6, <4>1
      <4>2. CASE y = x /\ t < now
        <5>1. \A s \in Times : s <= t => s # now
          BY <1>4, <4>2
        <5> QED
          BY <1>6, <4>2, <5>1
      <4> QED
        BY <2>3, <4>1, <4>2
    <3>2. Total(accepted'[y], Before(y, t), t) = Total(accepted[y], Before(y, t), t)
      BY <2>2, <3>1, SameTotal
    <3> QED
      BY <2>1, <3>2
  <2>4. CASE y = x /\ t >= now
    <3>1. now \in 0..MaxTime /\ (IF t <= now THEN t ELSE now) = now
      BY <1>4, <2>2, <2>4
    <3>2. \A s \in Times : s > Before(y, t) =>
              IF s <= now THEN accepted'[y][s] <= hits'[s] ELSE accepted'[y][s] = 0
      <4> SUFFICES ASSUME NEW s \in Times, s > Before(y, t)
                   PROVE  IF s <= now THEN accepted'[y][s] <= hits'[s]
                                      ELSE accepted'[y][s] = 0
        OBVIOUS
      <4>1. s + Window[y] > now
        BY <1>4, <2>2, <2>4 DEF Before
      <4>2. y \notin shortened' => accepted'[y][s] <= hits'[s]
        BY <1>9, <4>1
      <4>3. s > now => accepted'[y][s] = 0
        BY <1>2, <1>7 DEF LimiterTypes
      <4>4. s <= now \/ s > now
        BY <1>4
      <4> QED
        BY <1>11, <4>2, <4>3, <4>4
    <3>3. Total(accepted'[y], Before(y, t), t)
             <= Total(hits', 0, IF t <= now THEN t ELSE now)
      BY <1>5, <2>2, <3>1, <3>2, Dominated
    <3>4. Total(hits', 0, now) = Total(kept, 0, now) + 1
      <4>1. now - 1 \in 0..MaxTime /\ ~(now <= 0)
        BY <1>4
      <4>2. Total(hits', 0, now - 1) = Total(kept, 0, now - 1)
        <5>1. \A s \in Times : s <= now - 1 => hits'[s] = kept[s]
          BY <1>4, <1>5
        <5> QED
          BY <1>3, <1>5, <4>1, <5>1, SameTotal
      <4>3. /\ Total(hits', 0, now) = Total(hits', 0, now - 1) + hits'[now]
            /\ Total(kept, 0, now) = Total(kept, 0, now - 1) + kept[now]
            /\ Total(kept, 0, now - 1) \in Nat
        BY <1>3, <1>5, <3>1, <4>1, TotalAdds
      <4> QED
        BY <1>3, <1>4, <1>5, <4>2, <4>3
    <3>5. Total(kept, 0, now) \in Nat /\ Total(accepted'[y], Before(y, t), t) \in Nat
      BY <1>3, <2>2, <3>1, TotalAdds
    <3> QED
      BY <1>2, <1>4, <2>4, <3>1, <3>3, <3>4, <3>5
  <2> QED
    BY <1>4, <2>2, <2>3, <2>4
<1>12. WindowsHold'
  BY <1>8, <1>11 DEF WindowsHold, Shortest, Before
<1> QED
  BY <1>7, <1>10, <1>12 DEF LimiterIInv

\* Time passes, or the limiter is not asked.
LEMMA LimiterRests ==
    ASSUME LimiterIInv, UNCHANGED limiter,
           now' = now \/ (now < MaxTime /\ now' = now + 1)
    PROVE  LimiterIInv'
<1>1. /\ LimiterTypes /\ UNCHANGED <<hits, expires, accepted, shortened>>
      /\ Times = 1..MaxTime /\ MaxTime \in Nat /\ now \in Nat
      /\ \A y \in Tiers : Window[y] \in Nat
  BY LimiterAssumption DEF LimiterIInv, LimiterTypes, limiter, Times
<1>2. /\ now' \in Times
      /\ \A t \in Times : (t > now' => t > now)
      /\ \A y \in Tiers, t \in Times : (t + Window[y] > now' => t + Window[y] > now)
  BY <1>1 DEF LimiterTypes
<1>3. LimiterTypes'
  BY <1>1, <1>2 DEF LimiterTypes
<1>4. InSet'
  BY <1>1, <1>2 DEF LimiterIInv, InSet, Shortest
<1>5. WindowsHold'
  BY <1>1 DEF LimiterIInv, WindowsHold
<1> QED
  BY <1>3, <1>4, <1>5 DEF LimiterIInv

\* The empty set and the tiers that accepted nothing.
LEMMA LimiterStart == LimiterInit => LimiterIInv
<1> SUFFICES ASSUME LimiterInit
             PROVE  LimiterIInv
  OBVIOUS
<1>1. /\ Times = 1..MaxTime /\ MaxTime \in Nat /\ 1 \in Times
      /\ \A y \in Tiers : Window[y] \in Nat /\ Limit[y] \in Nat
  BY LimiterAssumption DEF Times
<1>2. LimiterTypes
  BY <1>1 DEF LimiterInit, LimiterTypes
<1>3. InSet
  BY DEF LimiterInit, InSet
<1>4. ASSUME NEW y \in Tiers, NEW t \in Times
      PROVE  Total(accepted[y], Before(y, t), t) <= Limit[y]
  <2>1. Before(y, t) \in Nat /\ t \in 0..MaxTime /\ 0 \in 0..MaxTime
    BY <1>1 DEF Before
  <2>2. accepted[y] \in [Times -> Nat] /\ \A s \in Times : accepted[y][s] = 0
    BY DEF LimiterInit
  <2>3. \A s \in Times : s > Before(y, t) =>
            IF s <= 0 THEN accepted[y][s] <= accepted[y][s] ELSE accepted[y][s] = 0
    BY <2>2
  <2>4. Total(accepted[y], Before(y, t), t)
           <= Total(accepted[y], 0, IF t <= 0 THEN t ELSE 0)
    BY <2>1, <2>2, <2>3, Dominated
  <2>5. (IF t <= 0 THEN t ELSE 0) = 0 /\ Total(accepted[y], 0, 0) = 0
    BY <1>1, <2>1, <2>2, TotalAdds
  <2>6. Total(accepted[y], Before(y, t), t) \in Nat
    BY <2>1, <2>2, TotalAdds
  <2> QED
    BY <1>1, <2>4, <2>5, <2>6
<1>5. WindowsHold
  BY <1>4 DEF LimiterInit, WindowsHold, Before
<1> QED
  BY <1>2, <1>3, <1>5 DEF LimiterIInv

\* Every request asks the limiter once, when it arrives.
LEMMA LimiterStep == LimiterIInv /\ [Next]_vars => LimiterIInv'
<1> SUFFICES ASSUME LimiterIInv, [Next]_vars
             PROVE  LimiterIInv'
  OBVIOUS
<1>1. ASSUME NEW r \in Requests, Arrival(r)
      PROVE  \E x \in Tiers : (Accept(x) \/ Refuse(x)) /\ UNCHANGED now
  BY <1>1, CodesAssumption
  DEF Arrival, TurnedAway, OtherRequest, AskCode, AskTooSoon, Verify
<1>2. ASSUME NEW r \in Requests, Continue(r)
      PROVE  UNCHANGED <<now, limiter>>
  BY <1>2 DEF Continue, StoreCode, CheckLocked, CheckRight, CheckWrong, CheckLocks,
              ClearCode, VoidCode, Relock, Fail
<1>3. CASE Restart \/ Finished \/ UNCHANGED vars
  BY <1>3, LimiterRests DEF Restart, Finished, vars
<1>4. CASE Tick
  BY <1>4, LimiterRests DEF Tick
<1> QED
  BY <1>1, <1>2, <1>3, <1>4, AcceptKeeps, RefuseKeeps, LimiterRests DEF Next, Step

\* No tier accepts more than its limit in any window of its length while its
\* hits were not trimmed by a tier with a shorter window, and the tiers of the
\* shortest window, the login tier among them, never lose a hit
\* (isp-rate-limit/src/index.ts:87-97, main.ts:58-69 and 95).
THEOREM LimitsHold == Spec => []WindowsHold
<1>1. Init => LimiterIInv
  BY LimiterStart DEF Init
<1>2. LimiterIInv => WindowsHold
  BY DEF LimiterIInv
<1> QED
  BY <1>1, <1>2, LimiterStep, PTL DEF Spec
===============================================================================

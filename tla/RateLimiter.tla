------------------------------ MODULE RateLimiter ------------------------------
(***************************************************************************)
(* The sliding-window limiter in front of the auth service, for one client *)
(* address.                                                                *)
(*   packages/isp-rate-limit/src/index.ts                                  *)
(*   apps/auth-service/src/main.ts                                         *)
(* All tiers count in one sorted set, which a script updates atomically.   *)
(***************************************************************************)
EXTENDS Naturals, FiniteSets

CONSTANTS
    Tiers,
    Limit,      \* requests a tier accepts ...
    Window,     \* ... in so many units of time
    MaxTime     \* bound on the clock

ASSUME LimiterAssumption ==
    /\ Limit \in [Tiers -> Nat]
    /\ Window \in [Tiers -> Nat \ {0}]
    /\ MaxTime \in Nat \ {0}

VARIABLES
    now,
    hits,       \* the sorted set, as the number of its members at each time
    expires,    \* when the key is dropped
    accepted,   \* history: the requests of each tier accepted at each time
    shortened   \* history: the tiers that lost hits of their current window

limiter == <<hits, expires, accepted, shortened>>

Times == 1..MaxTime
Total(count, from, to) ==
    LET sum[t \in 0..MaxTime] == IF t <= from THEN 0 ELSE sum[t - 1] + count[t]
    IN sum[to]

LimiterInit ==
    /\ now = 1
    /\ hits = [t \in Times |-> 0]
    /\ expires = 0
    /\ accepted = [x \in Tiers |-> [t \in Times |-> 0]]
    /\ shortened = {}

\* Mutant: the window is cut one unit short.
InWindowShort(x, t) == t + Window[x] > now + 1

InWindow(x, t) == t + Window[x] > now

\* ZREMRANGEBYSCORE, on a key that PEXPIRE may have dropped.
Trimmed(x) == [t \in Times |-> IF now < expires /\ InWindow(x, t) THEN hits[t] ELSE 0]

\* The tiers of which the trimmed set forgets requests they would count.
Forgets(kept) ==
    {x \in Tiers : \E t \in Times : /\ t + Window[x] > now
                                    /\ accepted[x][t] > kept[t]}

\* evalConsume, for a request that is let through ...
Accept(x) ==
    LET kept == Trimmed(x) IN
    /\ Total(kept, 0, now) < Limit[x]
    /\ hits' = [kept EXCEPT ![now] = @ + 1]
    /\ expires' = now + Window[x]
    /\ accepted' = [accepted EXCEPT ![x][now] = @ + 1]
    /\ shortened' = shortened \cup Forgets(kept)

\* ... and for one that is answered 429, which trims as well.
Refuse(x) ==
    LET kept == Trimmed(x) IN
    /\ Total(kept, 0, now) >= Limit[x]
    /\ hits' = kept
    /\ expires' = now + Window[x]
    /\ shortened' = shortened \cup Forgets(kept)
    /\ UNCHANGED accepted

\* No tier accepts more than its limit in any window of its length, unless
\* requests of a tier with a shorter window trimmed its hits from the set they
\* share; and the tiers with the shortest window, among them the login tier,
\* never lose one (isp-rate-limit/src/index.ts:87-97, main.ts:58-69 and 95).
WindowsHold ==
    \A x \in Tiers :
        /\ (\A y \in Tiers : Window[x] <= Window[y]) => x \notin shortened
        /\ x \notin shortened =>
              \A t \in Times :
                  Total(accepted[x], IF t > Window[x] THEN t - Window[x] ELSE 0, t)
                      <= Limit[x]
===============================================================================

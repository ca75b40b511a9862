------------------------------ MODULE RateLimit ------------------------------
(***************************************************************************)
(* The per-tenant fixed-window rate limiter, as the ingest gateway            *)
(* (ingest/gateway/src/main.rs, rate_limit; harden.rs) and the query API      *)
(* (platform/api/middleware/ratelimit.go) both implement it: read the clock,  *)
(* INCR the window's key in the shared Redis, EXPIRE it on the first hit,     *)
(* compare the count with the limit.  The three are separate round trips, so  *)
(* other replicas, the clock and a crash come in between.  One tenant.        *)
(***************************************************************************)
EXTENDS Integers, FiniteSets

CONSTANTS
    Replica,      \* one request at a time each
    Limit,        \* rate_limit_per_min, cfg.Requests
    WindowSecs,   \* WINDOW_SECS, in ticks
    MaxDelay,     \* ticks between reading the clock and the INCR, at most
    MaxTime,      \* bound: ticks
    MaxRequests   \* bound: requests counted per window

ASSUME RateAssumption ==
    /\ IsFiniteSet(Replica)
    /\ Limit \in Nat \ {0}
    /\ WindowSecs \in Nat \ {0}
    /\ MaxDelay \in 0..(WindowSecs - 1)
    /\ MaxTime \in Nat
    /\ MaxRequests \in Nat

VARIABLES
    now,
    redis,        \* [window -> [count, expires]], count 0: no key
    req,          \* [Replica -> request state]
    admitted,     \* history, [window -> requests of the window let through by the
                  \* count], among those that reached Redis within the window
    late,         \* history, the same for those that reached Redis after its end
    started       \* [window -> requests begun]

rateVars == <<now, redis, req, admitted, late, started>>

Never == -1

WindowOf(t) == t \div WindowSecs

WindowIdx == 0..WindowOf(MaxTime)

NoKey == [count |-> 0, expires |-> Never]

\* Mutants: the part of the window that is over; the operands swapped.
RetryElapsed(t) == t % WindowSecs
\* Seconds until the window of t rolls over.
ratelimit_retry_after(t) == WindowSecs - (t % WindowSecs)

\* Mutant: one request too many is let through.
ExceededLate(count) == count > Limit + 1

ratelimit_exceeded(count) == count > Limit

Request ==
    [pc : {"idle", "incr", "expire", "decide", "rejected"},
     at : Nat, count : Nat, late : BOOLEAN, retry : Nat]

Idle == [pc |-> "idle", at |-> 0, count |-> 0, late |-> FALSE, retry |-> 0]

RateInit ==
    /\ now = 0
    /\ redis = [w \in WindowIdx |-> NoKey]
    /\ req = [r \in Replica |-> Idle]
    /\ admitted = [w \in WindowIdx |-> 0]
    /\ late = [w \in WindowIdx |-> 0]
    /\ started = [w \in WindowIdx |-> 0]

-----------------------------------------------------------------------------
(* The clock, and Redis dropping keys whose TTL has run out *)

Tick ==
    /\ now < MaxTime
    /\ \A r \in Replica : req[r].pc = "incr" => now - req[r].at < MaxDelay
    /\ now' = now + 1
    /\ redis' = [w \in WindowIdx |->
                   IF redis[w].expires # Never /\ redis[w].expires <= now + 1
                   THEN NoKey ELSE redis[w]]
    /\ UNCHANGED <<req, admitted, late, started>>

-----------------------------------------------------------------------------
(* rate_limit *)

\* SystemTime::now(), which fixes the key.
ReadClock(r) ==
    /\ req[r].pc = "idle"
    /\ started[WindowOf(now)] < MaxRequests
    /\ started' = [started EXCEPT ![WindowOf(now)] = @ + 1]
    /\ req' = [req EXCEPT ![r] = [Idle EXCEPT !.pc = "incr", !.at = now]]
    /\ UNCHANGED <<now, redis, admitted, late>>

\* INCR creates the key if it is not there, without a TTL.
Incr(r) ==
    LET w == WindowOf(req[r].at)
        count == redis[w].count + 1
    IN /\ req[r].pc = "incr"
       /\ redis' = [redis EXCEPT ![w].count = count]
       /\ req' = [req EXCEPT ![r].count = count, ![r].late = WindowOf(now) # w,
                             ![r].pc = IF count = 1 THEN "expire" ELSE "decide"]
       /\ UNCHANGED <<now, admitted, late, started>>

\* The INCR fails: the request passes (fail-open) and is not counted.
IncrFails(r) ==
    /\ req[r].pc = "incr"
    /\ req' = [req EXCEPT ![r] = Idle]
    /\ UNCHANGED <<now, redis, admitted, late, started>>

\* Mutant: the TTL is shorter than the window.
ExpireShort(r, ok) ==
    LET w == WindowOf(req[r].at)
    IN /\ req[r].pc = "expire"
       /\ redis' = IF ok /\ redis[w] # NoKey
                   THEN [redis EXCEPT ![w].expires = now + 1]
                   ELSE redis
       /\ req' = [req EXCEPT ![r].pc = "decide"]
       /\ UNCHANGED <<now, admitted, late, started>>

\* EXPIRE on the first hit; its result is ignored.
ExpireKey(r, ok) ==
    LET w == WindowOf(req[r].at)
    IN /\ req[r].pc = "expire"
       /\ redis' = IF ok /\ redis[w] # NoKey
                   THEN [redis EXCEPT ![w].expires = now + WindowSecs]
                   ELSE redis
       /\ req' = [req EXCEPT ![r].pc = "decide"]
       /\ UNCHANGED <<now, admitted, late, started>>

Admit(r) ==
    /\ req[r].pc = "decide"
    /\ ~ratelimit_exceeded(req[r].count)
    /\ IF req[r].late
       THEN late' = [late EXCEPT ![WindowOf(req[r].at)] = @ + 1] /\ UNCHANGED admitted
       ELSE admitted' = [admitted EXCEPT ![WindowOf(req[r].at)] = @ + 1] /\ UNCHANGED late
    /\ req' = [req EXCEPT ![r] = Idle]
    /\ UNCHANGED <<now, redis, started>>

\* 429 with Retry-After.
Reject(r) ==
    /\ req[r].pc = "decide"
    /\ ratelimit_exceeded(req[r].count)
    /\ req' = [req EXCEPT ![r].pc = "rejected",
                          ![r].retry = ratelimit_retry_after(req[r].at)]
    /\ UNCHANGED <<now, redis, admitted, late, started>>

\* The rejected client is gone, or the replica crashes in mid-request.
Forget(r) ==
    /\ req[r].pc # "idle"
    /\ req' = [req EXCEPT ![r] = Idle]
    /\ UNCHANGED <<now, redis, admitted, late, started>>

Step(r) ==
    \/ ReadClock(r) \/ Incr(r) \/ IncrFails(r) \/ \E ok \in BOOLEAN : ExpireKey(r, ok)
    \/ Admit(r) \/ Reject(r) \/ Forget(r)

RateNext == Tick \/ \E r \in Replica : Step(r)

RateSpec == RateInit /\ [][RateNext]_rateVars

-----------------------------------------------------------------------------
(* Properties *)

\* Type invariant of the clock, the Redis keys, the requests and the counts.
RateTypeOK ==
    /\ now \in 0..MaxTime
    /\ redis \in [WindowIdx -> [count : Nat, expires : Nat \cup {Never}]]
    /\ req \in [Replica -> Request]
    /\ admitted \in [WindowIdx -> Nat]
    /\ late \in [WindowIdx -> Nat]
    /\ started \in [WindowIdx -> Nat]

\* "the cap is enforced across every gateway replica" (main.rs:535): of the
\* requests counted within one window, at most Limit get through by their count,
\* however the replicas' round trips interleave and whichever of them fail.
\* (Requests that pass because Redis fails are not counted.)
CapPerWindow == \A w \in WindowIdx : admitted[w] <= Limit

\* A request that read the clock at the end of a window may reach Redis after the
\* window's key has expired and count from one again: the stragglers of a window
\* can double its cap, no more.
StragglersBounded == \A w \in WindowIdx : admitted[w] + late[w] <= 2 * Limit

\* A client that waits as long as Retry-After says is counted in a new window.
RetryAfterReachesNextWindow ==
    \A r \in Replica :
        req[r].pc = "rejected" =>
            WindowOf(req[r].at + req[r].retry) = WindowOf(req[r].at) + 1

=============================================================================

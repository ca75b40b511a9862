--------------------------- MODULE RateLimitProofs ---------------------------
(***************************************************************************)
(* Proofs about RateLimit, for any number of replicas, any limit, window and *)
(* delay below the window: the cap per window, the bound on stragglers and   *)
(* the window a Retry-After leads to.                                        *)
(***************************************************************************)
EXTENDS RateLimit, FiniteSetTheorems, TLAPS

-----------------------------------------------------------------------------
(* The inductive invariant *)

\* A request that has a count of window w within the limit and is to be admitted.
Passing(q, w) == q.pc \in {"expire", "decide"} /\ WindowOf(q.at) = w /\ q.count <= Limit

Counted(w) == {r \in Replica : Passing(req[r], w)}
OnTime(w) == {r \in Replica : Passing(req[r], w) /\ ~req[r].late}

\* Requests that were let through by their count, or will be.
OnTimeTotal(w) == admitted[w] + Cardinality(OnTime(w))
Total(w) == admitted[w] + late[w] + Cardinality(Counted(w))

Capped(count) == IF count < Limit THEN count ELSE Limit

\* A request acts after it read the clock, and reaches INCR within MaxDelay.
RequestTimes ==
    \A r \in Replica :
        /\ req[r].at <= now
        /\ req[r].pc = "incr" => now - req[r].at <= MaxDelay
        /\ req[r].pc = "rejected" => req[r].retry = ratelimit_retry_after(req[r].at)

\* The window's key outlives the window: whoever sets its TTL does so in the
\* window or later.
KeyOutlivesWindow ==
    \A w \in WindowIdx :
        /\ redis[w].count = 0 => redis[w].expires = Never
        /\ redis[w].expires # Never => WindowOf(redis[w].expires) > w

\* While the window lasts, every request counted in it has a count of its own.
OnTimeCapped ==
    \A w \in WindowIdx :
        /\ OnTimeTotal(w) <= Limit
        /\ WindowOf(now) <= w => OnTimeTotal(w) <= Capped(redis[w].count)

\* Until stragglers are impossible, the key is the window's first, or its
\* second, which outlives the stragglers.
AllCapped ==
    \A w \in WindowIdx :
        /\ Total(w) <= 2 * Limit
        /\ WindowOf(now) <= w + 1 =>
             \/ Total(w) <= Capped(redis[w].count)
             \/ /\ WindowOf(now) > w
                /\ Total(w) <= Limit + Capped(redis[w].count)
                /\ redis[w].expires # Never => WindowOf(redis[w].expires) > w + 1

RateInv == RateTypeOK /\ RequestTimes /\ KeyOutlivesWindow /\ OnTimeCapped /\ AllCapped

-----------------------------------------------------------------------------
(* Windows *)

\* Windows are numbered in the order of time, and one window length later is
\* the next window.
LEMMA WindowFacts ==
    /\ \A t \in Nat : WindowOf(t) \in Nat /\ WindowOf(t + WindowSecs) = WindowOf(t) + 1
    /\ \A s, t \in Nat : s <= t => WindowOf(s) <= WindowOf(t)
    /\ \A t \in Nat : t <= MaxTime => WindowOf(t) \in WindowIdx
    /\ WindowIdx \subseteq Nat
<1>1. WindowSecs \in Nat \ {0} /\ MaxTime \in Nat
  BY RateAssumption
<1>2. \A t \in Nat : WindowOf(t) \in Nat
  BY <1>1 DEF WindowOf
<1>3. \A t \in Nat : WindowOf(t + WindowSecs) = WindowOf(t) + 1
  <2> TAKE t \in Nat
  <2>1. (t + WindowSecs) \div WindowSecs = (t \div WindowSecs) + 1
    BY ONLY <1>1
  <2>2. QED
    BY <2>1 DEF WindowOf
<1>4. \A s, t \in Nat : s <= t => WindowOf(s) <= WindowOf(t)
  <2> SUFFICES ASSUME NEW s \in Nat, NEW t \in Nat, s <= t PROVE s \div WindowSecs <= t \div WindowSecs
    BY DEF WindowOf
  <2>1. QED
    BY <1>1
<1>5. QED
  <2>1. \A t \in Nat : t <= MaxTime => WindowOf(t) \in WindowIdx
    BY <1>1, <1>2, <1>4 DEF WindowIdx
  <2>2. WindowIdx \subseteq Nat
    BY <1>1, <1>2 DEF WindowIdx
  <2>3. QED
    BY <1>2, <1>3, <1>4, <2>1, <2>2

\* Waiting for the rest of the window reaches the next one.
LEMMA RetryReaches ==
    ASSUME NEW t \in Nat
    PROVE  WindowOf(t + ratelimit_retry_after(t)) = WindowOf(t) + 1 /\ ratelimit_retry_after(t) \in Nat
<1>1. WindowSecs \in Nat \ {0}
  BY RateAssumption
<1>2. (t + (WindowSecs - (t % WindowSecs))) \div WindowSecs = (t \div WindowSecs) + 1
  BY ONLY <1>1
<1>3. QED
  BY <1>1, <1>2 DEF WindowOf, ratelimit_retry_after

-----------------------------------------------------------------------------
(* Counting requests *)

\* One element more or less.
LEMMA ToggleElement ==
    ASSUME NEW S, NEW T, NEW x, IsFiniteSet(S), NEW b \in BOOLEAN,
           \A y : y # x => (y \in T <=> y \in S), x \in T <=> b
    PROVE  /\ IsFiniteSet(T) /\ Cardinality(S) \in Nat /\ Cardinality(T) \in Nat
           /\ b /\ x \notin S => Cardinality(T) = Cardinality(S) + 1
           /\ ~b /\ x \in S => Cardinality(T) = Cardinality(S) - 1
           /\ (b <=> x \in S) => Cardinality(T) = Cardinality(S)
<1>0. Cardinality(S) \in Nat
  BY FS_CardinalityType
<1>1. CASE b
  <2>1. T = S \cup {x}
    BY <1>1
  <2>2. QED
    BY <1>0, <1>1, <2>1, FS_AddElement, FS_CardinalityType
<1>2. CASE ~b
  <2>1. T = S \ {x}
    BY <1>2
  <2>2. IsFiniteSet(T) /\ Cardinality(T) \in Nat
    BY <2>1, FS_RemoveElement, FS_CardinalityType
  <2>3. QED
    BY <1>0, <1>2, <2>1, <2>2, FS_RemoveElement
<1>3. QED
  BY <1>1, <1>2

\* The requests in flight are finitely many.
LEMMA CountTypes ==
    ASSUME NEW w
    PROVE  /\ IsFiniteSet(Counted(w)) /\ Cardinality(Counted(w)) \in Nat
           /\ IsFiniteSet(OnTime(w)) /\ Cardinality(OnTime(w)) \in Nat
<1>1. Counted(w) \in SUBSET Replica /\ OnTime(w) \in SUBSET Replica
  BY DEF Counted, OnTime
<1>2. QED
  BY <1>1, RateAssumption, FS_Subset, FS_CardinalityType

\* How the counts change when one request does.
LEMMA ChangeOne ==
    ASSUME NEW r \in Replica, NEW q \in Request, req \in [Replica -> Request],
           req' = [req EXCEPT ![r] = q], NEW w
    PROVE  /\ Cardinality(Counted(w)') \in Nat /\ Cardinality(OnTime(w)') \in Nat
           /\ Passing(q, w) /\ ~Passing(req[r], w) =>
                Cardinality(Counted(w)') = Cardinality(Counted(w)) + 1
           /\ ~Passing(q, w) /\ Passing(req[r], w) =>
                Cardinality(Counted(w)') = Cardinality(Counted(w)) - 1
           /\ (Passing(q, w) <=> Passing(req[r], w)) =>
                Cardinality(Counted(w)') = Cardinality(Counted(w))
           /\ (Passing(q, w) /\ ~q.late) /\ ~(Passing(req[r], w) /\ ~req[r].late) =>
                Cardinality(OnTime(w)') = Cardinality(OnTime(w)) + 1
           /\ ~(Passing(q, w) /\ ~q.late) /\ Passing(req[r], w) /\ ~req[r].late =>
                Cardinality(OnTime(w)') = Cardinality(OnTime(w)) - 1
           /\ (Passing(q, w) /\ ~q.late <=> Passing(req[r], w) /\ ~req[r].late) =>
                Cardinality(OnTime(w)') = Cardinality(OnTime(w))
<1> DEFINE S == Counted(w)
           T == {x \in Replica : Passing(req'[x], w)}
           U == OnTime(w)
           V == {x \in Replica : Passing(req'[x], w) /\ ~req'[x].late}
           b == Passing(q, w)
           c == Passing(q, w) /\ ~q.late
<1>0. Counted(w)' = T /\ OnTime(w)' = V
  BY DEF Counted, OnTime, Passing, WindowOf
<1>1. IsFiniteSet(S) /\ IsFiniteSet(U) /\ b \in BOOLEAN /\ c \in BOOLEAN
  BY CountTypes DEF Passing
<1>2. req'[r] = q /\ \A y \in Replica : y # r => req'[y] = req[y]
  OBVIOUS
<1>3. (\A y : y # r => (y \in T <=> y \in S)) /\ (r \in T <=> b) /\ (r \in S <=> Passing(req[r], w))
  BY <1>2 DEF Counted
<1>4. /\ (\A y : y # r => (y \in V <=> y \in U)) /\ (r \in V <=> c)
      /\ r \in U <=> (Passing(req[r], w) /\ ~req[r].late)
  BY <1>2 DEF OnTime
<1> HIDE DEF S, T, U, V
<1>5. /\ Cardinality(T) \in Nat
      /\ b /\ r \notin S => Cardinality(T) = Cardinality(S) + 1
      /\ ~b /\ r \in S => Cardinality(T) = Cardinality(S) - 1
      /\ (b <=> r \in S) => Cardinality(T) = Cardinality(S)
  <2> HIDE DEF b
  <2>1. QED
    BY ONLY <1>1, <1>3, ToggleElement
<1>6. /\ Cardinality(V) \in Nat
      /\ c /\ r \notin U => Cardinality(V) = Cardinality(U) + 1
      /\ ~c /\ r \in U => Cardinality(V) = Cardinality(U) - 1
      /\ (c <=> r \in U) => Cardinality(V) = Cardinality(U)
  <2> HIDE DEF c
  <2>1. QED
    BY ONLY <1>1, <1>4, ToggleElement
<1>7. QED
  BY <1>0, <1>3, <1>4, <1>5, <1>6 DEF S, U

-----------------------------------------------------------------------------
(* Steps *)

\* The types of what the proofs below compute with.
LEMMA RateTypes ==
    ASSUME RateInv
    PROVE  /\ now \in Nat /\ now <= MaxTime /\ WindowOf(now) \in Nat
           /\ Limit \in Nat \ {0} /\ WindowSecs \in Nat \ {0} /\ MaxDelay \in 0..(WindowSecs - 1)
           /\ req \in [Replica -> Request]
           /\ \A r \in Replica :
                /\ req[r] \in Request /\ req[r].at \in Nat /\ req[r].count \in Nat
                /\ req[r].at <= now /\ WindowOf(req[r].at) \in WindowIdx
                /\ WindowOf(req[r].at) <= WindowOf(now)
           /\ \A w \in WindowIdx :
                /\ w \in Nat /\ redis[w].count \in Nat /\ redis[w].expires \in Nat \cup {Never}
                /\ admitted[w] \in Nat /\ late[w] \in Nat
                /\ OnTimeTotal(w) \in Nat /\ Total(w) \in Nat /\ Capped(redis[w].count) \in 0..Limit
           /\ Idle \in Request
<1>1. /\ Limit \in Nat \ {0} /\ WindowSecs \in Nat \ {0} /\ MaxDelay \in 0..(WindowSecs - 1)
      /\ MaxTime \in Nat
  BY RateAssumption
<1>2. now \in Nat /\ now <= MaxTime /\ WindowOf(now) \in Nat /\ req \in [Replica -> Request]
  BY <1>1, WindowFacts DEF RateInv, RateTypeOK
<1>3. ASSUME NEW r \in Replica
      PROVE  /\ req[r] \in Request /\ req[r].at \in Nat /\ req[r].count \in Nat
             /\ req[r].at <= now /\ WindowOf(req[r].at) \in WindowIdx
             /\ WindowOf(req[r].at) <= WindowOf(now)
  <2>1. req[r] \in Request /\ req[r].at \in Nat /\ req[r].count \in Nat
    BY <1>2 DEF Request
  <2>2. req[r].at <= now
    BY DEF RateInv, RequestTimes
  <2> DEFINE t == req[r].at
  <2>3. t \in Nat /\ t <= now
    BY ONLY <2>1, <2>2
  <2> HIDE DEF t
  <2>4. WindowOf(t) \in WindowIdx /\ WindowOf(t) <= WindowOf(now)
    BY ONLY <1>1, <1>2, <2>3, WindowFacts
  <2>5. QED
    BY ONLY <2>1, <2>2, <2>4 DEF t
<1>4. ASSUME NEW w \in WindowIdx
      PROVE  /\ w \in Nat /\ redis[w].count \in Nat /\ redis[w].expires \in Nat \cup {Never}
             /\ admitted[w] \in Nat /\ late[w] \in Nat
             /\ OnTimeTotal(w) \in Nat /\ Total(w) \in Nat /\ Capped(redis[w].count) \in 0..Limit
  <2>1. /\ w \in Nat /\ redis[w].count \in Nat /\ redis[w].expires \in Nat \cup {Never}
        /\ admitted[w] \in Nat /\ late[w] \in Nat
    BY WindowFacts DEF RateInv, RateTypeOK
  <2>2. OnTimeTotal(w) \in Nat /\ Total(w) \in Nat
    BY ONLY <2>1, CountTypes DEF OnTimeTotal, Total
  <2>3. Capped(redis[w].count) \in 0..Limit
    BY ONLY <1>1, <2>1 DEF Capped
  <2>4. QED
    BY ONLY <2>1, <2>2, <2>3
<1>5. Idle \in Request
  BY DEF Idle, Request
<1>6. QED
  BY <1>1, <1>2, <1>3, <1>4, <1>5

\* A step that counts no request anew: at most a TTL is set, one window from now.
LEMMA NoGrowth ==
    ASSUME RateInv, RateTypeOK', RequestTimes', now' = now,
           \A w \in WindowIdx :
               /\ redis'[w].count = redis[w].count
               /\ \/ redis'[w].expires = redis[w].expires
                  \/ /\ redis'[w].expires = now + WindowSecs
                     /\ WindowOf(now) >= w /\ redis[w].count # 0
               /\ OnTimeTotal(w)' <= OnTimeTotal(w) /\ Total(w)' <= Total(w)
               /\ OnTimeTotal(w)' \in Nat /\ Total(w)' \in Nat
    PROVE  RateInv'
<1>1. WindowOf(now)' = WindowOf(now) /\ WindowOf(now + WindowSecs) = WindowOf(now) + 1
  BY RateTypes, WindowFacts DEF WindowOf
<1>2. KeyOutlivesWindow'
  <2> SUFFICES ASSUME NEW w \in WindowIdx
               PROVE  /\ redis'[w].count = 0 => redis'[w].expires = Never
                      /\ redis'[w].expires # Never => WindowOf(redis'[w].expires) > w
    BY DEF KeyOutlivesWindow, WindowIdx, WindowOf
  <2>1. /\ redis[w].count = 0 => redis[w].expires = Never
        /\ redis[w].expires # Never => WindowOf(redis[w].expires) > w
    BY DEF RateInv, KeyOutlivesWindow
  <2>2. CASE redis'[w].expires = redis[w].expires
    BY <2>1, <2>2
  <2>3. CASE redis'[w].expires = now + WindowSecs /\ WindowOf(now) >= w /\ redis[w].count # 0
    <3>1. WindowOf(now) + 1 > w
      BY <2>3, RateTypes
    <3>2. redis'[w].count = redis[w].count
      OBVIOUS
    <3>3. QED
      BY ONLY <1>1, <2>3, <3>1, <3>2
  <2>4. QED
    BY <2>2, <2>3
<1>3. OnTimeCapped'
  <2> SUFFICES ASSUME NEW w \in WindowIdx
               PROVE  /\ OnTimeTotal(w)' <= Limit
                      /\ WindowOf(now) <= w => OnTimeTotal(w)' <= Capped(redis'[w].count)
    BY <1>1 DEF OnTimeCapped, WindowIdx, WindowOf, Capped
  <2> DEFINE x == OnTimeTotal(w)
             y == OnTimeTotal(w)'
             c == Capped(redis[w].count)
  <2>1. x \in Nat /\ y \in Nat /\ y <= x /\ c \in 0..Limit /\ Limit \in Nat
    BY RateTypes
  <2>2. x <= Limit /\ (WindowOf(now) <= w => x <= c)
    BY DEF RateInv, OnTimeCapped
  <2>3. Capped(redis'[w].count) = c
    OBVIOUS
  <2> HIDE DEF x, y, c
  <2>4. y <= Limit /\ (WindowOf(now) <= w => y <= c)
    BY ONLY <2>1, <2>2
  <2>5. QED
    BY ONLY <2>3, <2>4 DEF y
<1>4. AllCapped'
  <2> SUFFICES ASSUME NEW w \in WindowIdx
               PROVE  /\ Total(w)' <= 2 * Limit
                      /\ WindowOf(now) <= w + 1 =>
                           \/ Total(w)' <= Capped(redis'[w].count)
                           \/ /\ WindowOf(now) > w
                              /\ Total(w)' <= Limit + Capped(redis'[w].count)
                              /\ redis'[w].expires # Never => WindowOf(redis'[w].expires) > w + 1
    BY <1>1 DEF AllCapped, WindowIdx, WindowOf, Capped
  <2> DEFINE x == Total(w)
             y == Total(w)'
             c == Capped(redis[w].count)
             m == WindowOf(now)
             e == redis[w].expires # Never => WindowOf(redis[w].expires) > w + 1
             f == redis'[w].expires # Never => WindowOf(redis'[w].expires) > w + 1
  <2>1. x \in Nat /\ y \in Nat /\ y <= x /\ c \in 0..Limit /\ Limit \in Nat /\ m \in Nat /\ w \in Nat
    BY RateTypes
  <2>2. /\ x <= 2 * Limit
        /\ m <= w + 1 => x <= c \/ (m > w /\ x <= Limit + c /\ e)
    BY DEF RateInv, AllCapped
  <2>3. Capped(redis'[w].count) = c
    OBVIOUS
  <2>4. m > w /\ e => f
    <3>1. CASE redis'[w].expires = redis[w].expires
      BY ONLY <3>1
    <3>2. CASE redis'[w].expires = now + WindowSecs
      <4>1. m > w => WindowOf(now) + 1 > w + 1
        BY ONLY <2>1
      <4>2. QED
        BY ONLY <1>1, <3>2, <4>1
    <3>3. QED
      BY <3>1, <3>2
  <2> HIDE DEF x, y, c, m, e, f
  <2>5. y <= 2 * Limit /\ (m <= w + 1 => y <= c \/ (m > w /\ y <= Limit + c /\ f))
    BY ONLY <2>1, <2>2, <2>4
  <2>6. QED
    BY ONLY <2>3, <2>5 DEF y, f, m
<1>5. QED
  BY <1>2, <1>3, <1>4 DEF RateInv

\* The clock readings after a step of one request.
LEMMA TimesKept ==
    ASSUME RateInv, NEW r \in Replica, NEW q \in Request, req' = [req EXCEPT ![r] = q], now' = now,
           q.at <= now, q.pc = "incr" => now - q.at <= MaxDelay,
           q.pc = "rejected" => q.retry = ratelimit_retry_after(q.at)
    PROVE  RequestTimes'
<1>1. req'[r] = q /\ \A y \in Replica : y # r => req'[y] = req[y]
  BY RateTypes
<1>2. QED
  BY <1>1 DEF RateInv, RequestTimes, ratelimit_retry_after

\* A request that goes on, or gives up, without being counted anew.
LEMMA TotalsShrink ==
    ASSUME RateInv, NEW r \in Replica, NEW q \in Request, req' = [req EXCEPT ![r] = q],
           admitted' = admitted, late' = late,
           \A w : Passing(q, w) => Passing(req[r], w) /\ q.late = req[r].late
    PROVE  \A w \in WindowIdx : /\ OnTimeTotal(w)' <= OnTimeTotal(w) /\ Total(w)' <= Total(w)
                                /\ OnTimeTotal(w)' \in Nat /\ Total(w)' \in Nat
<1> TAKE w \in WindowIdx
<1> DEFINE a == admitted[w]
           l == late[w]
           c == Cardinality(Counted(w))
           d == Cardinality(Counted(w)')
           o == Cardinality(OnTime(w))
           p == Cardinality(OnTime(w)')
<1>1. a \in Nat /\ l \in Nat /\ c \in Nat /\ o \in Nat
  BY RateTypes, CountTypes
<1>2. /\ OnTimeTotal(w) = a + o /\ OnTimeTotal(w)' = a + p
      /\ Total(w) = a + l + c /\ Total(w)' = a + l + d
  BY DEF OnTimeTotal, Total
<1>3. d \in Nat /\ p \in Nat /\ (d = c \/ d = c - 1) /\ (p = o \/ p = o - 1)
  <2>1. req \in [Replica -> Request] /\ (Passing(q, w) => Passing(req[r], w) /\ q.late = req[r].late)
    BY RateTypes
  <2>2. CASE Passing(q, w)
    BY ONLY <2>1, <2>2, req' = [req EXCEPT ![r] = q], ChangeOne
  <2>3. CASE ~Passing(q, w) /\ Passing(req[r], w)
    BY ONLY <2>1, <2>3, req' = [req EXCEPT ![r] = q], ChangeOne
  <2>4. CASE ~Passing(q, w) /\ ~Passing(req[r], w)
    BY ONLY <2>1, <2>4, req' = [req EXCEPT ![r] = q], ChangeOne
  <2>5. QED
    BY ONLY <2>2, <2>3, <2>4
<1> HIDE DEF a, l, c, d, o, p
<1>4. QED
  BY ONLY <1>1, <1>2, <1>3

\* ReadClock, IncrFails, ExpireKey, Reject and Forget.
LEMMA UncountedInv ==
    ASSUME RateInv, NEW r \in Replica,
           \/ ReadClock(r) \/ IncrFails(r) \/ Reject(r) \/ Forget(r)
           \/ \E ok \in BOOLEAN : ExpireKey(r, ok)
    PROVE  RateInv'
<1>0. /\ req \in [Replica -> Request] /\ req[r] \in Request /\ req[r].at \in Nat
      /\ req[r].at <= now /\ now \in Nat /\ Idle \in Request
  BY RateTypes
<1>q. ASSUME NEW q \in Request, req' = [req EXCEPT ![r] = q], UNCHANGED <<now, redis, admitted, late>>,
             started' \in [WindowIdx -> Nat],
             q.at <= now, q.pc = "incr" => now - q.at <= MaxDelay,
             q.pc = "rejected" => q.retry = ratelimit_retry_after(q.at),
             \A w : Passing(q, w) => Passing(req[r], w) /\ q.late = req[r].late
      PROVE  RateInv'
  <2>1. RequestTimes'
    BY ONLY RateInv, <1>q, TimesKept
  <2>2. \A w \in WindowIdx : /\ OnTimeTotal(w)' <= OnTimeTotal(w) /\ Total(w)' <= Total(w)
                             /\ OnTimeTotal(w)' \in Nat /\ Total(w)' \in Nat
    BY ONLY RateInv, <1>q, TotalsShrink
  <2>3. RateTypeOK'
    BY <1>q DEF RateInv, RateTypeOK
  <2>4. now' = now /\ \A w \in WindowIdx : redis'[w].count = redis[w].count
                                           /\ redis'[w].expires = redis[w].expires
    BY ONLY <1>q
  <2>5. QED
    BY ONLY RateInv, <2>1, <2>2, <2>3, <2>4, NoGrowth
<1>i. ASSUME req' = [req EXCEPT ![r] = Idle], UNCHANGED <<now, redis, admitted, late>>,
             started' \in [WindowIdx -> Nat]
      PROVE  RateInv'
  <2>1. Idle.at = 0 /\ Idle.pc = "idle"
    BY DEF Idle
  <2>2. Idle.at <= now /\ \A w : ~Passing(Idle, w)
    BY ONLY <1>0, <2>1 DEF Passing
  <2>3. QED
    BY ONLY <1>0, <1>i, <1>q, <2>1, <2>2
<1>s. started \in [WindowIdx -> Nat]
  BY DEF RateInv, RateTypeOK
<1>1. CASE ReadClock(r)
  <2> DEFINE q == [Idle EXCEPT !.pc = "incr", !.at = now]
  <2>1. q \in Request /\ q.at = now /\ q.pc = "incr"
    BY <1>0 DEF Idle, Request
  <2>2. req' = [req EXCEPT ![r] = q] /\ UNCHANGED <<now, redis, admitted, late>>
    BY <1>1 DEF ReadClock
  <2>3. started' \in [WindowIdx -> Nat]
    <3>1. WindowOf(now) \in WindowIdx
      BY RateTypes, WindowFacts
    <3>2. QED
      BY <1>1, <1>s, <3>1 DEF ReadClock
  <2> HIDE DEF q
  <2>4. q.at <= now /\ now - q.at <= MaxDelay
    BY <1>0, <2>1, RateAssumption
  <2>5. \A w : ~Passing(q, w)
    BY ONLY <2>1 DEF Passing
  <2>6. q.pc # "rejected"
    BY ONLY <2>1
  <2>7. QED
    BY ONLY <1>q, <2>1, <2>2, <2>3, <2>4, <2>5, <2>6
<1>2. CASE IncrFails(r)
  BY <1>2, <1>i, <1>s DEF IncrFails
<1>3. CASE Forget(r)
  BY <1>3, <1>i, <1>s DEF Forget
<1>4. CASE Reject(r)
  <2> DEFINE q == [req[r] EXCEPT !.pc = "rejected", !.retry = ratelimit_retry_after(req[r].at)]
  <2>0. ratelimit_retry_after(req[r].at) \in Nat
    BY ONLY <1>0, RetryReaches
  <2>1. /\ q \in Request /\ q.at = req[r].at /\ q.pc = "rejected"
        /\ q.retry = ratelimit_retry_after(req[r].at)
    <3> DEFINE x == ratelimit_retry_after(req[r].at)
    <3> HIDE DEF x
    <3>1. x \in Nat
      BY <2>0 DEF x
    <3>2. /\ [req[r] EXCEPT !.pc = "rejected", !.retry = x] \in Request
          /\ [req[r] EXCEPT !.pc = "rejected", !.retry = x].at = req[r].at
          /\ [req[r] EXCEPT !.pc = "rejected", !.retry = x].pc = "rejected"
          /\ [req[r] EXCEPT !.pc = "rejected", !.retry = x].retry = x
      BY ONLY <1>0, <3>1 DEF Request
    <3>3. QED
      BY ONLY <3>2 DEF x
  <2>2. req' = [req EXCEPT ![r] = q] /\ UNCHANGED <<now, redis, admitted, late, started>>
    BY <1>0, <1>4 DEF Reject
  <2> HIDE DEF q
  <2>3. /\ q.pc = "rejected" => q.retry = ratelimit_retry_after(q.at)
        /\ q.pc # "incr" /\ q.at <= now
    BY ONLY <1>0, <2>1
  <2>4. \A w : ~Passing(q, w)
    BY ONLY <2>1 DEF Passing
  <2>5. started' \in [WindowIdx -> Nat]
    BY <1>s, <2>2
  <2>6. QED
    BY ONLY <1>q, <2>1, <2>2, <2>3, <2>4, <2>5
<1>5. ASSUME NEW ok \in BOOLEAN, ExpireKey(r, ok) PROVE RateInv'
  <2> DEFINE q == [req[r] EXCEPT !.pc = "decide"]
             v == WindowOf(req[r].at)
  <2>1. /\ q \in Request /\ q.at = req[r].at /\ q.pc = "decide" /\ q.late = req[r].late
        /\ q.count = req[r].count /\ req[r].pc = "expire"
    BY <1>0, <1>5 DEF Request, ExpireKey
  <2>2. req' = [req EXCEPT ![r] = q] /\ UNCHANGED <<now, admitted, late, started>>
    BY <1>0, <1>5 DEF ExpireKey
  <2>3. v \in WindowIdx /\ v <= WindowOf(now)
    BY RateTypes
  <2> HIDE DEF q
  <2>4. RequestTimes'
    <3>1. q.at <= now /\ q.pc # "incr" /\ q.pc # "rejected"
      BY ONLY <1>0, <2>1
    <3>2. QED
      BY ONLY RateInv, <2>1, <2>2, <3>1, TimesKept
  <2>5. \A w \in WindowIdx : /\ OnTimeTotal(w)' <= OnTimeTotal(w) /\ Total(w)' <= Total(w)
                             /\ OnTimeTotal(w)' \in Nat /\ Total(w)' \in Nat
    <3>1. \A w : Passing(q, w) => Passing(req[r], w) /\ q.late = req[r].late
      BY ONLY <2>1 DEF Passing
    <3>2. QED
      BY ONLY RateInv, <2>1, <2>2, <3>1, TotalsShrink
  <2> HIDE DEF v
  <2>6. redis' = redis \/ (redis[v] # NoKey /\ redis' = [redis EXCEPT ![v].expires = now + WindowSecs])
    BY <1>5 DEF ExpireKey, v
  <2>7. redis \in [WindowIdx -> [count : Nat, expires : Nat \cup {Never}]]
    BY DEF RateInv, RateTypeOK
  <2>8. redis[v] # NoKey => redis[v].count # 0
    <3>1. redis[v] \in [count : Nat, expires : Nat \cup {Never}]
      BY ONLY <2>3, <2>7
    <3>2. redis[v].count = 0 => redis[v].expires = Never
      BY <2>3 DEF RateInv, KeyOutlivesWindow
    <3>3. QED
      BY ONLY <3>1, <3>2 DEF NoKey
  <2>9. \A w \in WindowIdx :
          /\ redis'[w].count = redis[w].count
          /\ \/ redis'[w].expires = redis[w].expires
             \/ /\ redis'[w].expires = now + WindowSecs
                /\ WindowOf(now) >= w /\ redis[w].count # 0
    <3>1. CASE redis' = redis
      BY ONLY <3>1
    <3>2. CASE redis[v] # NoKey /\ redis' = [redis EXCEPT ![v].expires = now + WindowSecs]
      <4>1. /\ redis'[v].count = redis[v].count /\ redis'[v].expires = now + WindowSecs
            /\ \A w \in WindowIdx : w # v => redis'[w] = redis[w]
        BY ONLY <2>3, <2>7, <3>2
      <4>2. WindowOf(now) >= v
        BY <2>3, RateTypes
      <4>3. QED
        BY ONLY <2>8, <3>2, <4>1, <4>2
    <3>3. QED
      BY ONLY <2>6, <3>1, <3>2
  <2>10. RateTypeOK'
    <3>1. now + WindowSecs \in Nat
      BY <1>0, RateAssumption
    <3>2. redis' \in [WindowIdx -> [count : Nat, expires : Nat \cup {Never}]]
      BY ONLY <2>3, <2>6, <2>7, <3>1
    <3>3. QED
      BY <2>1, <2>2, <3>2 DEF RateInv, RateTypeOK
  <2>11. QED
    BY ONLY RateInv, <2>2, <2>4, <2>5, <2>9, <2>10, NoGrowth
<1>6. QED
  BY <1>1, <1>2, <1>3, <1>4, <1>5

\* An admission moves a request from those in flight to those let through.
LEMMA AdmitInv ==
    ASSUME RateInv, NEW r \in Replica, Admit(r)
    PROVE  RateInv'
<1> DEFINE v == WindowOf(req[r].at)
<1>0. /\ req \in [Replica -> Request] /\ req[r] \in Request /\ Idle \in Request
      /\ req[r].count \in Nat /\ v \in WindowIdx /\ now \in Nat /\ Limit \in Nat
      /\ req[r].late \in BOOLEAN
  BY RateTypes DEF Request
<1>1. /\ req[r].pc = "decide" /\ ~(req[r].count > Limit) /\ req' = [req EXCEPT ![r] = Idle]
      /\ UNCHANGED <<now, redis, started>>
  BY DEF Admit, ratelimit_exceeded
<1>2. admitted \in [WindowIdx -> Nat] /\ late \in [WindowIdx -> Nat]
  BY DEF RateInv, RateTypeOK
<1>3. \/ /\ req[r].late /\ late' = [late EXCEPT ![v] = @ + 1] /\ admitted' = admitted
      \/ /\ ~req[r].late /\ admitted' = [admitted EXCEPT ![v] = @ + 1] /\ late' = late
  BY DEF Admit
<1>4. Idle.at = 0 /\ Idle.pc = "idle"
  BY DEF Idle
<1>5. RequestTimes'
  <2>1. Idle.at <= now /\ Idle.pc # "incr" /\ Idle.pc # "rejected"
    BY ONLY <1>0, <1>4
  <2>2. QED
    BY ONLY RateInv, <1>0, <1>1, <2>1, TimesKept
<1>6. RateTypeOK'
  <2>1. admitted' \in [WindowIdx -> Nat] /\ late' \in [WindowIdx -> Nat]
    <3> HIDE DEF v
    <3>1. QED
      BY ONLY <1>0, <1>2, <1>3
  <2>2. req' \in [Replica -> Request]
    BY ONLY <1>0, <1>1
  <2>3. QED
    BY <1>1, <2>1, <2>2 DEF RateInv, RateTypeOK
<1>7. req[r].count <= Limit
  BY ONLY <1>0, <1>1
<1> HIDE DEF v
<1>8. \A w : ~Passing(Idle, w) /\ (Passing(req[r], w) <=> w = v)
  BY ONLY <1>1, <1>4, <1>7 DEF Passing, v
<1>9. \A w \in WindowIdx : /\ OnTimeTotal(w)' <= OnTimeTotal(w) /\ Total(w)' <= Total(w)
                           /\ OnTimeTotal(w)' \in Nat /\ Total(w)' \in Nat
  <2> TAKE w \in WindowIdx
  <2> DEFINE a == admitted[w]
             l == late[w]
             b == admitted'[w]
             m == late'[w]
             c == Cardinality(Counted(w))
             d == Cardinality(Counted(w)')
             o == Cardinality(OnTime(w))
             p == Cardinality(OnTime(w)')
  <2>1. a \in Nat /\ l \in Nat /\ c \in Nat /\ o \in Nat
    BY RateTypes, CountTypes
  <2>2. /\ OnTimeTotal(w) = a + o /\ OnTimeTotal(w)' = b + p
        /\ Total(w) = a + l + c /\ Total(w)' = b + m + d
    BY DEF OnTimeTotal, Total
  <2>3. /\ d \in Nat /\ p \in Nat
        /\ w = v => d = c - 1
        /\ w # v => d = c /\ p = o
        /\ w = v /\ ~req[r].late => p = o - 1
        /\ w = v /\ req[r].late => p = o
    <3>1. /\ req' = [req EXCEPT ![r] = Idle] /\ req \in [Replica -> Request] /\ Idle \in Request
          /\ ~Passing(Idle, w)
      BY ONLY <1>0, <1>1, <1>8
    <3>2. CASE w # v
      <4>1. ~Passing(req[r], w)
        BY ONLY <1>8, <3>2
      <4>2. QED
        BY ONLY <3>1, <3>2, <4>1, ChangeOne
    <3>3. CASE w = v /\ req[r].late
      <4>1. Passing(req[r], w)
        BY ONLY <1>8, <3>3
      <4>2. QED
        BY ONLY <3>1, <3>3, <4>1, ChangeOne
    <3>4. CASE w = v /\ ~req[r].late
      <4>1. Passing(req[r], w)
        BY ONLY <1>8, <3>4
      <4>2. QED
        BY ONLY <3>1, <3>4, <4>1, ChangeOne
    <3>5. QED
      BY ONLY <3>2, <3>3, <3>4
  <2>4. /\ w # v => b = a /\ m = l
        /\ w = v /\ req[r].late => b = a /\ m = l + 1
        /\ w = v /\ ~req[r].late => b = a + 1 /\ m = l
    BY ONLY <1>2, <1>3
  <2> HIDE DEF a, l, b, m, c, d, o, p
  <2>5. CASE w # v
    BY ONLY <2>1, <2>2, <2>3, <2>4, <2>5
  <2>6. CASE w = v /\ req[r].late
    BY ONLY <2>1, <2>2, <2>3, <2>4, <2>6
  <2>7. CASE w = v /\ ~req[r].late
    BY ONLY <2>1, <2>2, <2>3, <2>4, <2>7
  <2>8. QED
    BY <1>0, <2>5, <2>6, <2>7
<1>10. \A w \in WindowIdx : redis'[w].count = redis[w].count /\ redis'[w].expires = redis[w].expires
  BY ONLY <1>1
<1>11. QED
  BY ONLY RateInv, <1>1, <1>5, <1>6, <1>9, <1>10, NoGrowth

\* INCR: the request takes a count nobody else has, in the key's lifetime.
LEMMA IncrInv ==
    ASSUME RateInv, NEW r \in Replica, Incr(r)
    PROVE  RateInv'
<1> DEFINE v == WindowOf(req[r].at)
           m == WindowOf(now)
           k == redis[v].count
           q == [req[r] EXCEPT !.count = k + 1, !.late = (m # v),
                               !.pc = IF k + 1 = 1 THEN "expire" ELSE "decide"]
<1>0. /\ req \in [Replica -> Request] /\ req[r] \in Request /\ req[r].at \in Nat /\ req[r].at <= now
      /\ v \in WindowIdx /\ v \in Nat /\ m \in Nat /\ now \in Nat /\ Limit \in Nat \ {0} /\ k \in Nat
      /\ v <= m
  BY RateTypes
<1>1. /\ req[r].pc = "incr" /\ redis' = [redis EXCEPT ![v].count = k + 1]
      /\ req' = [req EXCEPT ![r] = q] /\ UNCHANGED <<now, admitted, late, started>>
  BY <1>0 DEF Incr
<1>2. m <= v + 1
  <2>1. now - req[r].at <= MaxDelay
    BY <1>1 DEF RateInv, RequestTimes
  <2> DEFINE t == req[r].at
  <2>2. t \in Nat /\ now - t <= MaxDelay
    BY <1>0, <2>1
  <2> HIDE DEF t
  <2>3. t + WindowSecs \in Nat /\ now <= t + WindowSecs
    BY ONLY <1>0, <2>2, RateAssumption
  <2>4. WindowOf(now) <= WindowOf(t + WindowSecs) /\ WindowOf(t + WindowSecs) = WindowOf(t) + 1
    BY ONLY <1>0, <2>2, <2>3, WindowFacts
  <2>5. QED
    BY ONLY <2>4 DEF t
<1>3. /\ q \in Request /\ q.at = req[r].at /\ q.pc \in {"expire", "decide"} /\ q.count = k + 1
      /\ q.late = (m # v)
  <2> DEFINE b == (m # v)
             p == IF k + 1 = 1 THEN "expire" ELSE "decide"
  <2>1. b \in BOOLEAN /\ p \in {"expire", "decide"} /\ k + 1 \in Nat
    BY <1>0
  <2> HIDE DEF b, p, k
  <2>2. /\ [req[r] EXCEPT !.count = k + 1, !.late = b, !.pc = p] \in Request
        /\ [req[r] EXCEPT !.count = k + 1, !.late = b, !.pc = p].at = req[r].at
        /\ [req[r] EXCEPT !.count = k + 1, !.late = b, !.pc = p].pc = p
        /\ [req[r] EXCEPT !.count = k + 1, !.late = b, !.pc = p].count = k + 1
        /\ [req[r] EXCEPT !.count = k + 1, !.late = b, !.pc = p].late = b
    BY ONLY <1>0, <2>1 DEF Request
  <2>3. QED
    BY ONLY <2>1, <2>2 DEF b, p
<1> HIDE DEF q, v, k, m
<1>4. redis \in [WindowIdx -> [count : Nat, expires : Nat \cup {Never}]]
  BY DEF RateInv, RateTypeOK
<1>5. /\ redis' \in [WindowIdx -> [count : Nat, expires : Nat \cup {Never}]]
      /\ redis'[v].count = k + 1 /\ redis'[v].expires = redis[v].expires
      /\ \A w \in WindowIdx : w # v => redis'[w] = redis[w]
  BY ONLY <1>0, <1>1, <1>4
<1>6. RateTypeOK'
  <2>1. req' \in [Replica -> Request]
    BY ONLY <1>0, <1>1, <1>3
  <2>2. QED
    BY <1>1, <1>5, <2>1 DEF RateInv, RateTypeOK
<1>7. RequestTimes'
  <2>1. q.at <= now /\ q.pc # "incr" /\ q.pc # "rejected"
    BY ONLY <1>0, <1>3
  <2>2. now' = now /\ req' = [req EXCEPT ![r] = q] /\ q \in Request
    BY ONLY <1>1, <1>3
  <2>3. QED
    BY ONLY RateInv, <2>1, <2>2, TimesKept
<1>8. KeyOutlivesWindow'
  <2> SUFFICES ASSUME NEW w \in WindowIdx
               PROVE  /\ redis'[w].count = 0 => redis'[w].expires = Never
                      /\ redis'[w].expires # Never => WindowOf(redis'[w].expires) > w
    BY DEF KeyOutlivesWindow, WindowIdx, WindowOf
  <2>1. /\ redis[w].count = 0 => redis[w].expires = Never
        /\ redis[w].expires # Never => WindowOf(redis[w].expires) > w
    BY DEF RateInv, KeyOutlivesWindow
  <2>2. k + 1 # 0
    BY ONLY <1>0
  <2>3. QED
    BY ONLY <1>5, <2>1, <2>2
<1>9. /\ \A w : ~Passing(req[r], w) /\ (Passing(q, w) <=> w = v /\ k + 1 <= Limit)
      /\ q.late <=> m # v
  BY ONLY <1>1, <1>3 DEF Passing, v
<1>10. \A w \in WindowIdx :
         /\ w # v => Total(w)' = Total(w) /\ OnTimeTotal(w)' = OnTimeTotal(w)
         /\ w = v /\ k + 1 <= Limit => Total(w)' = Total(w) + 1
         /\ w = v /\ k + 1 <= Limit /\ m = v => OnTimeTotal(w)' = OnTimeTotal(w) + 1
         /\ w = v /\ k + 1 <= Limit /\ m # v => OnTimeTotal(w)' = OnTimeTotal(w)
         /\ w = v /\ ~(k + 1 <= Limit) => Total(w)' = Total(w) /\ OnTimeTotal(w)' = OnTimeTotal(w)
  <2> TAKE w \in WindowIdx
  <2> DEFINE a == admitted[w]
             l == late[w]
             c == Cardinality(Counted(w))
             d == Cardinality(Counted(w)')
             o == Cardinality(OnTime(w))
             p == Cardinality(OnTime(w)')
  <2>1. a \in Nat /\ l \in Nat /\ c \in Nat /\ o \in Nat
    BY RateTypes, CountTypes
  <2>2. /\ OnTimeTotal(w) = a + o /\ OnTimeTotal(w)' = a + p
        /\ Total(w) = a + l + c /\ Total(w)' = a + l + d
    BY ONLY <1>1 DEF OnTimeTotal, Total
  <2>3. /\ req' = [req EXCEPT ![r] = q] /\ req \in [Replica -> Request] /\ q \in Request
        /\ ~Passing(req[r], w)
    BY ONLY <1>0, <1>1, <1>3, <1>9
  <2>4. CASE ~(w = v /\ k + 1 <= Limit)
    <3>1. ~Passing(q, w)
      BY ONLY <1>9, <2>4
    <3>2. d = c /\ p = o
      BY ONLY <2>3, <3>1, ChangeOne
    <3>3. Total(w)' = Total(w) /\ OnTimeTotal(w)' = OnTimeTotal(w)
      BY ONLY <2>2, <3>2
    <3>4. QED
      BY ONLY <2>4, <3>3
  <2>5. CASE w = v /\ k + 1 <= Limit /\ m = v
    <3>1. Passing(q, w) /\ ~q.late
      BY ONLY <1>9, <2>5
    <3>2. d = c + 1 /\ p = o + 1
      BY ONLY <2>3, <3>1, ChangeOne
    <3> HIDE DEF a, l, c, d, o, p
    <3>3. Total(w)' = Total(w) + 1 /\ OnTimeTotal(w)' = OnTimeTotal(w) + 1
      BY ONLY <2>1, <2>2, <3>2
    <3>4. QED
      BY ONLY <2>5, <3>3
  <2>6. CASE w = v /\ k + 1 <= Limit /\ m # v
    <3>1. Passing(q, w) /\ q.late
      BY ONLY <1>9, <2>6
    <3>2. d = c + 1 /\ p = o
      BY ONLY <2>3, <3>1, ChangeOne
    <3> HIDE DEF a, l, c, d, o, p
    <3>3. Total(w)' = Total(w) + 1 /\ OnTimeTotal(w)' = OnTimeTotal(w)
      BY ONLY <2>1, <2>2, <3>2
    <3>4. QED
      BY ONLY <2>6, <3>3
  <2>7. QED
    BY ONLY <2>4, <2>5, <2>6
<1>11. /\ k + 1 <= Limit => Capped(k) = k /\ Capped(k + 1) = k + 1
       /\ ~(k + 1 <= Limit) => Capped(k) = Limit /\ Capped(k + 1) = Limit
       /\ Capped(k + 1) \in 0..Limit
  BY ONLY <1>0 DEF Capped
<1>12. OnTimeCapped'
  <2> SUFFICES ASSUME NEW w \in WindowIdx
               PROVE  /\ OnTimeTotal(w)' <= Limit
                      /\ m <= w => OnTimeTotal(w)' <= Capped(redis'[w].count)
    BY <1>1 DEF OnTimeCapped, WindowIdx, WindowOf, Capped, m
  <2> DEFINE x == OnTimeTotal(w)
             y == OnTimeTotal(w)'
  <2>1. x \in Nat /\ x <= Limit /\ (m <= w => x <= Capped(redis[w].count))
    BY RateTypes DEF RateInv, OnTimeCapped, m
  <2>2. CASE w # v
    BY ONLY <1>5, <1>10, <2>1, <2>2
  <2>3. CASE w = v
    <3>1. Capped(redis[w].count) = Capped(k) /\ Capped(redis'[w].count) = Capped(k + 1)
      BY ONLY <1>5, <2>3 DEF k
    <3>2. /\ k + 1 <= Limit /\ m = v => y = x + 1
          /\ ~(k + 1 <= Limit /\ m = v) => y = x
      BY ONLY <1>10, <2>3
    <3>3. m <= w <=> m = v
      BY ONLY <1>0, <2>3
    <3> HIDE DEF x, y
    <3>4. y <= Limit /\ (m = v => y <= Capped(k + 1))
      BY ONLY <1>0, <1>11, <2>1, <3>1, <3>2, <3>3
    <3>5. QED
      BY ONLY <3>1, <3>3, <3>4 DEF y
  <2>4. QED
    BY ONLY <2>2, <2>3
<1>13. AllCapped'
  <2> SUFFICES ASSUME NEW w \in WindowIdx
               PROVE  /\ Total(w)' <= 2 * Limit
                      /\ m <= w + 1 =>
                           \/ Total(w)' <= Capped(redis'[w].count)
                           \/ /\ m > w
                              /\ Total(w)' <= Limit + Capped(redis'[w].count)
                              /\ redis'[w].expires # Never => WindowOf(redis'[w].expires) > w + 1
    BY <1>1 DEF AllCapped, WindowIdx, WindowOf, Capped, m
  <2> DEFINE x == Total(w)
             y == Total(w)'
             e == redis[w].expires # Never => WindowOf(redis[w].expires) > w + 1
  <2>1. /\ x \in Nat /\ x <= 2 * Limit
        /\ m <= w + 1 => x <= Capped(redis[w].count)
                         \/ (m > w /\ x <= Limit + Capped(redis[w].count) /\ e)
    BY RateTypes DEF RateInv, AllCapped, m
  <2>2. redis'[w].expires = redis[w].expires
    BY ONLY <1>5
  <2>3. CASE w # v
    BY ONLY <1>5, <1>10, <2>1, <2>3
  <2>4. CASE w = v
    <3>1. Capped(redis[w].count) = Capped(k) /\ Capped(redis'[w].count) = Capped(k + 1)
      BY ONLY <1>5, <2>4 DEF k
    <3>2. /\ k + 1 <= Limit => y = x + 1
          /\ ~(k + 1 <= Limit) => y = x
      BY ONLY <1>10, <2>4
    <3>3. m <= w + 1
      BY ONLY <1>2, <2>4
    <3> HIDE DEF x, y, e
    <3>4. x <= Capped(k) \/ (m > w /\ x <= Limit + Capped(k) /\ e)
      BY ONLY <2>1, <3>1, <3>3
    <3>5. /\ y <= 2 * Limit
          /\ y <= Capped(k + 1) \/ (m > w /\ y <= Limit + Capped(k + 1) /\ e)
      BY ONLY <1>0, <1>11, <2>1, <3>2, <3>4
    <3>6. QED
      BY ONLY <2>2, <3>1, <3>5 DEF y, e
  <2>5. QED
    BY ONLY <2>3, <2>4
<1>14. QED
  BY ONLY <1>6, <1>7, <1>8, <1>12, <1>13 DEF RateInv

\* The clock: a key is dropped only after its window, and the second key of a
\* window only after its stragglers.
LEMMA TickInv ==
    ASSUME RateInv, Tick
    PROVE  RateInv'
<1> DEFINE m == WindowOf(now)
           n == WindowOf(now + 1)
           dead(w) == redis[w].expires # Never /\ redis[w].expires <= now + 1
<1>0. /\ now \in Nat /\ m \in Nat /\ Limit \in Nat \ {0} /\ now + 1 \in Nat /\ n \in Nat /\ m <= n
  BY RateTypes, WindowFacts
<1>1. /\ now' = now + 1 /\ req' = req /\ admitted' = admitted /\ late' = late /\ started' = started
      /\ redis' = [w \in WindowIdx |-> IF dead(w) THEN NoKey ELSE redis[w]]
      /\ now < MaxTime
      /\ \A r \in Replica : req[r].pc = "incr" => now - req[r].at < MaxDelay
  BY DEF Tick
<1>2. \A w \in WindowIdx : (dead(w) => redis'[w] = NoKey) /\ (~dead(w) => redis'[w] = redis[w])
  BY ONLY <1>1
<1>n. NoKey.count = 0 /\ NoKey.expires = Never /\ NoKey \in [count : Nat, expires : Nat \cup {Never}]
  BY DEF NoKey
<1>3. RateTypeOK'
  <2>1. redis \in [WindowIdx -> [count : Nat, expires : Nat \cup {Never}]]
    BY DEF RateInv, RateTypeOK
  <2>2. redis' \in [WindowIdx -> [count : Nat, expires : Nat \cup {Never}]]
    BY ONLY <1>1, <1>n, <2>1
  <2>3. now' \in 0..MaxTime
    <3>1. now' = now + 1 /\ now < MaxTime /\ MaxTime \in Nat
      BY <1>1, RateAssumption
    <3>2. QED
      BY ONLY <1>0, <3>1
  <2>4. QED
    BY <1>1, <2>2, <2>3 DEF RateInv, RateTypeOK
<1>4. RequestTimes'
  <2>0. now' = now + 1 /\ req' = req
    BY ONLY <1>1
  <2> SUFFICES ASSUME NEW r \in Replica
               PROVE  /\ req'[r].at <= now'
                      /\ req'[r].pc = "incr" => now' - req'[r].at <= MaxDelay
                      /\ req'[r].pc = "rejected" => req'[r].retry = ratelimit_retry_after(req'[r].at)
    BY DEF RequestTimes, ratelimit_retry_after
  <2> DEFINE t == req[r].at
  <2>1. t \in Nat /\ t <= now /\ MaxDelay \in Nat
    BY RateTypes
  <2>2. req[r].pc = "incr" => now - t < MaxDelay
    BY ONLY <1>1
  <2>3. req[r].pc = "rejected" => req[r].retry = ratelimit_retry_after(req[r].at)
    BY DEF RateInv, RequestTimes
  <2> HIDE DEF t
  <2>4. t <= now' /\ (req[r].pc = "incr" => now' - t <= MaxDelay)
    BY ONLY <1>0, <2>0, <2>1, <2>2
  <2>5. req' = req
    BY ONLY <2>0
  <2>6. QED
    BY ONLY <2>3, <2>4, <2>5 DEF t
<1>5. \A w \in WindowIdx :
        /\ Total(w)' = Total(w) /\ OnTimeTotal(w)' = OnTimeTotal(w)
        /\ dead(w) => WindowOf(redis[w].expires) <= n
  <2> TAKE w \in WindowIdx
  <2>1. Total(w)' = Total(w) /\ OnTimeTotal(w)' = OnTimeTotal(w)
    BY ONLY <1>1 DEF Total, OnTimeTotal, Counted, OnTime, Passing, WindowOf
  <2>2. dead(w) => WindowOf(redis[w].expires) <= n
    <3> DEFINE x == redis[w].expires
    <3>1. x \in Nat \cup {Never}
      BY RateTypes
    <3> HIDE DEF x
    <3>2. x # Never /\ x <= now + 1 => WindowOf(x) <= n
      BY ONLY <1>0, <3>1, WindowFacts
    <3>3. QED
      BY ONLY <3>2 DEF x
  <2>3. QED
    BY ONLY <2>1, <2>2
<1> HIDE DEF dead, n, m
<1>6. KeyOutlivesWindow'
  <2> SUFFICES ASSUME NEW w \in WindowIdx
               PROVE  /\ redis'[w].count = 0 => redis'[w].expires = Never
                      /\ redis'[w].expires # Never => WindowOf(redis'[w].expires) > w
    BY DEF KeyOutlivesWindow, WindowIdx, WindowOf
  <2>1. /\ redis[w].count = 0 => redis[w].expires = Never
        /\ redis[w].expires # Never => WindowOf(redis[w].expires) > w
    BY DEF RateInv, KeyOutlivesWindow
  <2>2. QED
    BY ONLY <1>2, <1>n, <2>1
<1>7. ASSUME NEW w \in WindowIdx
      PROVE  /\ w \in Nat
             /\ dead(w) => n > w /\ Capped(redis'[w].count) = 0 /\ redis'[w].expires = Never
                           /\ redis[w].expires # Never
             /\ ~dead(w) => redis'[w] = redis[w]
             /\ Capped(redis[w].count) \in 0..Limit /\ Total(w) \in Nat /\ OnTimeTotal(w) \in Nat
  <2>1. w \in Nat /\ Capped(redis[w].count) \in 0..Limit /\ Total(w) \in Nat /\ OnTimeTotal(w) \in Nat
    BY RateTypes
  <2>2. Capped(0) = 0
    BY ONLY <1>0 DEF Capped
  <2>3. dead(w) => WindowOf(redis[w].expires) > w /\ redis[w].expires # Never
    BY DEF RateInv, KeyOutlivesWindow, dead
  <2>4. dead(w) => n > w
    <3> DEFINE y == WindowOf(redis[w].expires)
    <3>1. dead(w) => y \in Nat
      <4>1. redis[w].expires \in Nat \cup {Never}
        BY RateTypes
      <4>2. QED
        BY ONLY <2>3, <4>1, WindowFacts
    <3>2. dead(w) => y > w /\ y <= n
      BY ONLY <1>5, <2>3
    <3> HIDE DEF y
    <3>3. QED
      BY ONLY <1>0, <2>1, <3>1, <3>2
  <2>5. QED
    BY ONLY <1>2, <1>n, <2>1, <2>2, <2>3, <2>4
<1>8. OnTimeCapped'
  <2> SUFFICES ASSUME NEW w \in WindowIdx
               PROVE  /\ OnTimeTotal(w)' <= Limit
                      /\ n <= w => OnTimeTotal(w)' <= Capped(redis'[w].count)
    BY <1>1 DEF OnTimeCapped, WindowIdx, WindowOf, Capped, n
  <2>1. OnTimeTotal(w) <= Limit /\ (m <= w => OnTimeTotal(w) <= Capped(redis[w].count))
    BY DEF RateInv, OnTimeCapped, m
  <2>2. OnTimeTotal(w)' = OnTimeTotal(w)
    BY ONLY <1>5
  <2>3. n <= w => m <= w /\ ~dead(w)
    BY ONLY <1>0, <1>7
  <2>4. QED
    BY ONLY <1>7, <2>1, <2>2, <2>3
<1>9. AllCapped'
  <2> SUFFICES ASSUME NEW w \in WindowIdx
               PROVE  /\ Total(w)' <= 2 * Limit
                      /\ n <= w + 1 =>
                           \/ Total(w)' <= Capped(redis'[w].count)
                           \/ /\ n > w
                              /\ Total(w)' <= Limit + Capped(redis'[w].count)
                              /\ redis'[w].expires # Never => WindowOf(redis'[w].expires) > w + 1
    BY <1>1 DEF AllCapped, WindowIdx, WindowOf, Capped, n
  <2> DEFINE x == Total(w)
             c == Capped(redis[w].count)
             e == redis[w].expires # Never => WindowOf(redis[w].expires) > w + 1
  <2>1. /\ x <= 2 * Limit
        /\ m <= w + 1 => x <= c \/ (m > w /\ x <= Limit + c /\ e)
    BY DEF RateInv, AllCapped, m
  <2>2. Total(w)' = x
    BY ONLY <1>5
  <2>3. CASE ~dead(w)
    <3>1. redis'[w] = redis[w] /\ w \in Nat
      BY ONLY <1>7, <2>3
    <3>2. (n <= w + 1 => m <= w + 1) /\ (m > w => n > w)
      BY ONLY <1>0, <3>1
    <3>3. n <= w + 1 => x <= c \/ (n > w /\ x <= Limit + c /\ e)
      BY ONLY <2>1, <3>2
    <3>4. QED
      BY ONLY <2>1, <2>2, <3>1, <3>3
  <2>4. CASE dead(w)
    <3>1. /\ w \in Nat /\ n > w /\ Capped(redis'[w].count) = 0 /\ redis'[w].expires = Never
          /\ redis[w].expires # Never /\ c \in 0..Limit /\ x \in Nat
      BY ONLY <1>7, <2>4
    <3>2. WindowOf(redis[w].expires) <= n
      BY ONLY <1>5, <2>4
    <3>3. n <= w + 1 => ~e
      <4> DEFINE y == WindowOf(redis[w].expires)
      <4>1. y \in Nat
        <5>1. redis[w].expires \in Nat \cup {Never}
          BY RateTypes
        <5>2. QED
          BY ONLY <3>1, <5>1, WindowFacts
      <4>2. y <= n /\ (e => y > w + 1)
        BY ONLY <3>1, <3>2
      <4> HIDE DEF y, e
      <4>3. QED
        BY ONLY <1>0, <3>1, <4>1, <4>2
    <3> HIDE DEF x, c, e
    <3>4. n <= w + 1 => m <= w + 1
      BY ONLY <1>0, <3>1
    <3>5. n <= w + 1 => x <= Limit + 0
      BY ONLY <1>0, <2>1, <3>1, <3>3, <3>4
    <3>6. QED
      BY ONLY <2>1, <2>2, <3>1, <3>5
  <2>5. QED
    BY ONLY <2>3, <2>4
<1>10. QED
  BY ONLY <1>3, <1>4, <1>6, <1>8, <1>9 DEF RateInv

-----------------------------------------------------------------------------
(* The theorems *)

\* No key and no request at first.
LEMMA RateInitInv == RateInit => RateInv
<1> SUFFICES ASSUME RateInit PROVE RateInv
  OBVIOUS
<1>0. /\ Idle \in Request /\ Idle.pc = "idle" /\ Idle.at = 0 /\ NoKey.count = 0 /\ NoKey.expires = Never
      /\ NoKey \in [count : Nat, expires : Nat \cup {Never}]
  BY DEF Idle, Request, NoKey
<1>1. RateTypeOK
  BY <1>0, RateAssumption DEF RateInit, RateTypeOK
<1>2. RequestTimes
  BY <1>0 DEF RateInit, RequestTimes
<1>3. KeyOutlivesWindow
  BY <1>0 DEF RateInit, KeyOutlivesWindow
<1>4. ASSUME NEW w \in WindowIdx
      PROVE  Total(w) = 0 /\ OnTimeTotal(w) = 0 /\ Capped(redis[w].count) = 0
  <2>1. Counted(w) = {} /\ OnTime(w) = {}
    BY <1>0 DEF RateInit, Counted, OnTime, Passing
  <2>2. admitted[w] = 0 /\ late[w] = 0 /\ redis[w].count = 0
    BY <1>0 DEF RateInit
  <2>3. QED
    BY <2>1, <2>2, FS_EmptySet, RateAssumption DEF Total, OnTimeTotal, Capped
<1>5. OnTimeCapped /\ AllCapped
  BY <1>4, RateAssumption DEF OnTimeCapped, AllCapped
<1>6. QED
  BY <1>1, <1>2, <1>3, <1>5 DEF RateInv

\* Every step keeps the invariant.
LEMMA RateStepInv == RateInv /\ [RateNext]_rateVars => RateInv'
<1> SUFFICES ASSUME RateInv, [RateNext]_rateVars PROVE RateInv'
  OBVIOUS
<1>1. ASSUME NEW r \in Replica, Step(r) PROVE RateInv'
  BY <1>1, UncountedInv, AdmitInv, IncrInv DEF Step
<1>2. CASE UNCHANGED rateVars
  <2>1. /\ now' = now /\ redis' = redis /\ req' = req /\ admitted' = admitted /\ late' = late
        /\ started' = started
    BY <1>2 DEF rateVars
  <2>2. RateTypeOK' /\ RequestTimes' /\ KeyOutlivesWindow'
    BY <2>1 DEF RateInv, RateTypeOK, RequestTimes, KeyOutlivesWindow, WindowIdx, WindowOf,
                ratelimit_retry_after
  <2>3. \A w : Total(w)' = Total(w) /\ OnTimeTotal(w)' = OnTimeTotal(w)
    BY ONLY <2>1 DEF Total, OnTimeTotal, Counted, OnTime, Passing, WindowOf
  <2>4. OnTimeCapped'
    BY <2>1, <2>3 DEF RateInv, OnTimeCapped, WindowIdx, WindowOf, Capped
  <2>5. AllCapped'
    BY <2>1, <2>3 DEF RateInv, AllCapped, WindowIdx, WindowOf, Capped
  <2>6. QED
    BY <2>2, <2>4, <2>5 DEF RateInv
<1>3. QED
  BY <1>1, <1>2, TickInv DEF RateNext

\* The limiter's invariant.
THEOREM RateInvariance == RateSpec => []RateInv
<1>1. QED
  BY RateInitInv, RateStepInv, PTL DEF RateSpec

\* "the cap is enforced across every gateway replica" (main.rs:535).
THEOREM RateCapPerWindow == RateSpec => []CapPerWindow
<1>1. RateInv => CapPerWindow
  <2> SUFFICES ASSUME RateInv, NEW w \in WindowIdx PROVE admitted[w] <= Limit
    BY DEF CapPerWindow
  <2>1. admitted[w] \in Nat /\ Cardinality(OnTime(w)) \in Nat /\ Limit \in Nat
    BY RateTypes, CountTypes
  <2>2. admitted[w] + Cardinality(OnTime(w)) <= Limit
    BY DEF RateInv, OnTimeCapped, OnTimeTotal
  <2>3. QED
    BY ONLY <2>1, <2>2
<1>2. QED
  BY <1>1, RateInvariance, PTL

\* The stragglers of a window can double its cap, no more, for any delay below
\* the window's length.
THEOREM RateStragglersBounded == RateSpec => []StragglersBounded
<1>1. RateInv => StragglersBounded
  <2> SUFFICES ASSUME RateInv, NEW w \in WindowIdx PROVE admitted[w] + late[w] <= 2 * Limit
    BY DEF StragglersBounded
  <2>1. admitted[w] \in Nat /\ late[w] \in Nat /\ Cardinality(Counted(w)) \in Nat /\ Limit \in Nat
    BY RateTypes, CountTypes
  <2>2. admitted[w] + late[w] + Cardinality(Counted(w)) <= 2 * Limit
    BY DEF RateInv, AllCapped, Total
  <2>3. QED
    BY ONLY <2>1, <2>2
<1>2. QED
  BY <1>1, RateInvariance, PTL

\* A client that waits as long as Retry-After says is counted in a new window.
THEOREM RateRetryAfter == RateSpec => []RetryAfterReachesNextWindow
<1>1. RateInv => RetryAfterReachesNextWindow
  BY RateTypes, RetryReaches DEF RateInv, RequestTimes, RetryAfterReachesNextWindow
<1>2. QED
  BY <1>1, RateInvariance, PTL
=============================================================================

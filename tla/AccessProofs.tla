---------------------------- MODULE AccessProofs ----------------------------
(***************************************************************************)
(* Proofs about Access, for any number of concurrent requests, tokens and     *)
(* keys, any lifetime of the cached key set and any length of a fetch: what a *)
(* decision may rest on is bounded in age, tokens and API keys mixed.         *)
(***************************************************************************)
EXTENDS Access, TLAPS

-----------------------------------------------------------------------------
(* The inductive invariant *)

MaybeToken == Token \cup {NoToken}
MaybeKey == ApiKey \cup {NoOne}

CallType ==
    [pc : {"idle", "get", "lock", "fetch", "store", "verify", "lookup", "touch", "done"},
     token : MaybeToken, apiKey : MaybeKey, ks : SUBSET SigningKey,
     asked : Nat, since : Nat, status : Nat]

CallsTyped == call \in [Client -> CallType]

AccessTypeOK ==
    /\ clock \in 0..AccessTime
    /\ published \in SUBSET SigningKey
    /\ changed \in [SigningKey -> Int]
    /\ poisoned \in Int
    /\ jwks \in [keys : SUBSET SigningKey, at : Int]
    /\ api_keys \in [ApiKey -> [state : {"absent", "active", "revoked"}, exp : Nat, used : BOOLEAN]]
    /\ revokedAt \in [ApiKey -> Nat]
    /\ CallsTyped

\* The key set ks differs from what the provider serves only in keys that
\* changed, or were answered as an error page, at time t or later.
CurrentAt(ks, t) ==
    /\ \A k \in ks : k \in published \/ changed[k] >= t
    /\ \A k \in published : k \in ks \/ changed[k] >= t \/ poisoned >= t

\* An answer that waits to be stored is no older than the longest fetch.
AnswerCurrent ==
    \A c \in Client : At(c, "store") =>
        /\ call[c].asked <= clock /\ clock - call[c].asked <= MaxFetch
        /\ CurrentAt(call[c].ks, call[c].asked)

\* The cached set was current a fetch before it was stored.
CacheCurrent ==
    jwks.at # Before => jwks.at <= clock /\ CurrentAt(jwks.keys, jwks.at - MaxFetch)

\* The set a token is verified with was current less than the bound ago.
VerifyCurrent ==
    \A c \in Client : At(c, "verify") => CurrentAt(call[c].ks, clock - JwksTTL - MaxFetch + 1)

\* A request has one kind of credentials; it has no status before its decision.
OneCredential ==
    \A c \in Client :
        /\ call[c].since <= clock
        /\ call[c].pc \in {"idle", "get", "lock", "fetch", "store", "verify"} => call[c].apiKey = NoOne
        /\ call[c].pc \in {"idle", "lookup", "touch"} => call[c].token = NoToken
        /\ call[c].pc \in {"lookup", "touch"} => call[c].apiKey \in ApiKey
        /\ call[c].pc \notin {"touch", "done"} => call[c].status = 0

\* A key that can still be looked up has not been revoked.
LiveKeyUnrevoked == \A k \in ApiKey : api_keys[k].state # "revoked" => revokedAt[k] = AccessTime + 1

\* Times of the past are in the past.
HistoryIsPast ==
    /\ \A k \in SigningKey : changed[k] <= clock
    /\ poisoned <= clock

\* A token that was let through was signed by a key of the provider's.
HonouredKeyIsKnown ==
    \A c \in Client : ByToken(c, 200) => call[c].token.key \in SigningKey

AccessInv ==
    /\ AccessTypeOK /\ AnswerCurrent /\ CacheCurrent /\ VerifyCurrent /\ OneCredential
    /\ LiveKeyUnrevoked /\ HistoryIsPast /\ HonouredKeyIsKnown /\ AccessCurrent

-----------------------------------------------------------------------------

\* Everything but the requests themselves.
Rest == <<clock, published, changed, poisoned, jwks, api_keys, revokedAt>>

LEMMA AccessInitInv == AccessInit => AccessInv
<1> SUFFICES ASSUME AccessInit PROVE AccessInv
  OBVIOUS
<1> USE AccessAssumption
<1>1. AccessTypeOK
  BY DEF AccessInit, AccessTypeOK, CallsTyped, CallType, MaybeToken, MaybeKey, NoCall, Before
<1>2. AnswerCurrent /\ CacheCurrent /\ VerifyCurrent /\ OneCredential
  BY DEF AccessInit, AnswerCurrent, CacheCurrent, VerifyCurrent, OneCredential, At, NoCall
<1>3. LiveKeyUnrevoked /\ HistoryIsPast
  BY DEF AccessInit, LiveKeyUnrevoked, HistoryIsPast, Before
<1>4. AccessCurrent /\ HonouredKeyIsKnown
  BY DEF AccessInit, AccessCurrent, HonouredKeyIsKnown, RetiredKeyBounded, GoodTokenRefusedBounded, RevokedKeyRefused, ByToken,
         At, NoCall
<1> QED
  BY <1>1, <1>2, <1>3, <1>4 DEF AccessInv

\* Requests and their steps keep the types.
LEMMA CallTyped ==
    ASSUME CallsTyped, NEW c \in Client, NEW q \in CallType, call' = [call EXCEPT ![c] = q]
    PROVE  CallsTyped'
BY DEF CallsTyped

LEMMA AnswerTyped ==
    ASSUME CallsTyped, clock \in Nat, NEW c \in Client, NEW status \in Nat, Answer(c, status)
    PROVE  CallsTyped'
<1> DEFINE q == call[c]
           answered == [q EXCEPT !.pc = "done", !.status = status, !.since = clock, !.ks = {}, !.asked = 0]
<1>1. q \in CallType
  BY DEF CallsTyped
<1>2. call' = [call EXCEPT ![c] = answered]
  BY DEF Answer
<1>3. answered \in CallType
  <2> HIDE DEF q
  <2> QED BY ONLY <1>1, clock \in Nat, status \in Nat DEF CallType
<1> QED
  BY <1>2, <1>3, CallTyped

\* What a request is when it is answered.
LEMMA AnswerIs ==
    ASSUME CallsTyped, NEW c \in Client, NEW status \in Nat, Answer(c, status)
    PROVE  /\ call'[c].pc = "done" /\ call'[c].status = status /\ call'[c].since = clock
           /\ call'[c].token = call[c].token /\ call'[c].apiKey = call[c].apiKey
<1> DEFINE q == call[c]
           answered == [q EXCEPT !.pc = "done", !.status = status, !.since = clock, !.ks = {}, !.asked = 0]
<1>1. q \in CallType
  BY DEF CallsTyped
<1>2. call'[c] = answered
  BY DEF Answer, CallsTyped
<1>3. /\ answered.pc = "done" /\ answered.status = status /\ answered.since = clock
      /\ answered.token = q.token /\ answered.apiKey = q.apiKey
  <2> HIDE DEF q
  <2> QED BY ONLY <1>1 DEF CallType
<1> QED
  BY <1>2, <1>3

LEMMA SetTyped ==
    ASSUME CallsTyped, NEW c \in Client, NEW pc \in {"lock", "store", "verify"},
           NEW ks \in SUBSET SigningKey, NEW asked \in Nat,
           \/ call' = [call EXCEPT ![c].pc = pc, ![c].ks = ks]
           \/ call' = [call EXCEPT ![c].pc = pc, ![c].ks = ks, ![c].asked = asked]
    PROVE  CallsTyped'
<1> DEFINE q == call[c]
           shorter == [q EXCEPT !.pc = pc, !.ks = ks]
           longer == [q EXCEPT !.pc = pc, !.ks = ks, !.asked = asked]
<1>1. q \in CallType
  BY DEF CallsTyped
<1>2. shorter \in CallType /\ longer \in CallType
  <2> HIDE DEF q
  <2> QED BY ONLY <1>1, pc \in {"lock", "store", "verify"}, ks \in SUBSET SigningKey, asked \in Nat DEF CallType
<1>3. CASE call' = [call EXCEPT ![c] = shorter]
  BY <1>2, <1>3, CallTyped
<1>4. CASE call' = [call EXCEPT ![c] = longer]
  BY <1>2, <1>4, CallTyped
<1> QED
  BY <1>3, <1>4

LEMMA CallsStayTyped ==
    ASSUME AccessTypeOK, TokenNext \/ KeyNext PROVE CallsTyped'
<1>t. CallsTyped /\ clock \in Nat /\ published \in SUBSET SigningKey /\ jwks.keys \in SUBSET SigningKey
  BY AccessAssumption DEF AccessTypeOK
<1>a. Token \subseteq MaybeToken /\ ApiKey \subseteq MaybeKey
  BY DEF MaybeToken, MaybeKey
<1>1. ASSUME NEW c \in Client, NEW t \in Token, PresentToken(c, t) PROVE CallsTyped'
  BY ONLY <1>t, <1>1, <1>a DEF PresentToken, CallsTyped, CallType
<1>2. ASSUME NEW c \in Client, PresentNothing(c) PROVE CallsTyped'
  BY <1>t, <1>2, AnswerTyped DEF PresentNothing
<1>3. ASSUME NEW c \in Client, ReadCache(c) PROVE CallsTyped'
  <2>1. CASE JwksFresh
    BY <1>t, <1>3, <2>1, SetTyped DEF ReadCache
  <2>2. CASE ~JwksFresh
    BY <1>t, <1>3, <2>2, SetTyped DEF ReadCache
  <2> QED
    BY <2>1, <2>2
<1>4. ASSUME NEW c \in Client, LockForFetch(c) PROVE CallsTyped'
  BY ONLY <1>t, <1>4 DEF LockForFetch, CallsTyped, CallType
<1>5. ASSUME NEW c \in Client, FetchFails(c) PROVE CallsTyped'
  BY <1>t, <1>5, AnswerTyped DEF FetchFails
<1>6. ASSUME NEW c \in Client, StoreKeys(c) PROVE CallsTyped'
  BY ONLY <1>t, <1>6 DEF StoreKeys, CallsTyped, CallType
<1>7. ASSUME NEW c \in Client, NEW keys \in {published, {}}, ProviderAnswers(c, keys) PROVE CallsTyped'
  <2>1. keys \in SUBSET SigningKey
    BY <1>t
  <2> QED
    BY <1>t, <1>7, <2>1, SetTyped DEF ProviderAnswers
<1>8. ASSUME NEW c \in Client, NEW scoped \in BOOLEAN, Verify(c, scoped) PROVE CallsTyped'
  BY <1>t, <1>8, AnswerTyped DEF Verify
<1>9. ASSUME NEW c \in Client, NEW k \in ApiKey, PresentKey(c, k) PROVE CallsTyped'
  BY ONLY <1>t, <1>9, <1>a DEF PresentKey, CallsTyped, CallType
<1>10. ASSUME NEW c \in Client, NEW scoped \in BOOLEAN, LookupAPIKey(c, scoped) PROVE CallsTyped'
  <2>1. CASE ActiveKey(call[c].apiKey)
    BY ONLY <1>t, <1>10, <2>1 DEF LookupAPIKey, CallsTyped, CallType
  <2>2. CASE ~ActiveKey(call[c].apiKey)
    BY <1>t, <1>10, <2>2, AnswerTyped DEF LookupAPIKey
  <2> QED
    BY <2>1, <2>2
<1>11. ASSUME NEW c \in Client, LookupFails(c) PROVE CallsTyped'
  BY <1>t, <1>11, AnswerTyped DEF LookupFails
<1>12. ASSUME NEW c \in Client, NEW ok \in BOOLEAN, TouchLastUsed(c, ok) PROVE CallsTyped'
  BY ONLY <1>t, <1>12 DEF TouchLastUsed, CallsTyped, CallType
<1>13. CASE UNCHANGED call
  BY <1>t, <1>13 DEF CallsTyped
<1> QED
  BY <1>1, <1>2, <1>3, <1>4, <1>5, <1>6, <1>7, <1>8, <1>9, <1>10, <1>11, <1>12, <1>13
  DEF TokenNext, KeyNext, ServeToken, ServeKey, RevokeAPIKey, CreateAPIKey, Publish, Retire, AccessTick

LEMMA AccessTyped ==
    ASSUME AccessTypeOK, TokenNext \/ KeyNext PROVE AccessTypeOK'
<1> USE AccessAssumption
<1>c. CallsTyped'
  BY CallsStayTyped
<1>1. ASSUME NEW c \in Client, StoreKeys(c) PROVE AccessTypeOK'
  BY <1>1, <1>c DEF StoreKeys, AccessTypeOK, CallsTyped, CallType
<1>2. ASSUME NEW c \in Client, NEW keys \in {published, {}}, ProviderAnswers(c, keys) PROVE AccessTypeOK'
  BY <1>2, <1>c DEF ProviderAnswers, AccessTypeOK
<1>3. ASSUME NEW c \in Client, NEW ok \in BOOLEAN, TouchLastUsed(c, ok) PROVE AccessTypeOK'
  BY <1>3, <1>c DEF TouchLastUsed, AccessTypeOK
<1>4. ASSUME NEW k \in ApiKey, RevokeAPIKey(k) PROVE AccessTypeOK'
  BY <1>4, <1>c DEF RevokeAPIKey, AccessTypeOK
<1>5. ASSUME NEW k \in ApiKey, NEW exp \in {1, AccessTime + 1}, CreateAPIKey(k, exp) PROVE AccessTypeOK'
  BY <1>5, <1>c DEF CreateAPIKey, NewKey, AccessTypeOK
<1>6. ASSUME NEW k \in SigningKey, Publish(k) \/ Retire(k) PROVE AccessTypeOK'
  BY <1>6, <1>c DEF Publish, Retire, AccessTypeOK
<1>7. CASE AccessTick
  BY <1>7, <1>c DEF AccessTick, AccessTypeOK
<1>8. CASE UNCHANGED Rest
  BY <1>8, <1>c DEF Rest, AccessTypeOK
<1> QED
  BY <1>1, <1>2, <1>3, <1>4, <1>5, <1>6, <1>7, <1>8
  DEF TokenNext, KeyNext, ServeToken, ServeKey, PresentToken, PresentNothing, ReadCache, LockForFetch,
      FetchFails, Verify, PresentKey, LookupAPIKey, LookupFails, Rest

-----------------------------------------------------------------------------
(* What a step does to one request, and to what the provider is known to serve *)

\* A step of the request c.
Moves(c) ==
    \/ \E t \in Token : PresentToken(c, t)
    \/ \E k \in ApiKey : PresentKey(c, k)
    \/ PresentNothing(c) \/ ServeToken(c) \/ ServeKey(c)

LEMMA OneCallMoves ==
    ASSUME CallsTyped, TokenNext \/ KeyNext, NEW c \in Client
    PROVE  Moves(c) \/ call'[c] = call[c]
<1>1. ASSUME NEW d \in Client, Moves(d), c # d PROVE call'[c] = call[c]
  BY <1>1 DEF Moves, CallsTyped, PresentToken, PresentKey, PresentNothing, ServeToken, ServeKey, ReadCache,
     LockForFetch, FetchFails, StoreKeys, ProviderAnswers, Verify, LookupAPIKey, LookupFails, TouchLastUsed, Answer
<1>2. CASE UNCHANGED call
  BY <1>2
<1>3. UNCHANGED call \/ \E d \in Client : Moves(d)
  BY DEF TokenNext, KeyNext, Moves, Publish, Retire, AccessTick, RevokeAPIKey, CreateAPIKey
<1> QED
  BY <1>1, <1>2, <1>3

\* Only a tick moves the clock, and it waits for the requests.
LEMMA ClockMoves ==
    ASSUME TokenNext \/ KeyNext PROVE clock' = clock \/ AccessTick
BY DEF TokenNext, KeyNext, ServeToken, ServeKey, PresentToken, PresentKey, PresentNothing, ReadCache,
     LockForFetch, FetchFails, StoreKeys, ProviderAnswers, Verify, LookupAPIKey, LookupFails, TouchLastUsed,
     Publish, Retire, RevokeAPIKey, CreateAPIKey

\* The provider's keys change by Publish and Retire, and an error page is
\* noted when it is answered.
LEMMA ProviderMoves ==
    ASSUME TokenNext \/ KeyNext
    PROVE  \/ UNCHANGED <<published, changed, poisoned>>
           \/ UNCHANGED <<published, changed>> /\ poisoned' = clock
           \/ /\ UNCHANGED poisoned
              /\ \E k \in SigningKey : /\ published' = published \cup {k} \/ published' = published \ {k}
                                       /\ changed' = [changed EXCEPT ![k] = clock]
<1>1. ASSUME NEW k \in SigningKey, Publish(k) \/ Retire(k)
      PROVE  /\ UNCHANGED poisoned
             /\ published' = published \cup {k} \/ published' = published \ {k}
             /\ changed' = [changed EXCEPT ![k] = clock]
  BY <1>1 DEF Publish, Retire
<1>2. ASSUME NEW c \in Client, NEW keys \in {published, {}}, ProviderAnswers(c, keys)
      PROVE  UNCHANGED <<published, changed>> /\ (poisoned' = poisoned \/ poisoned' = clock)
  BY <1>2 DEF ProviderAnswers
<1>3. \/ \E k \in SigningKey : Publish(k) \/ Retire(k)
      \/ \E c \in Client : \E keys \in {published, {}} : ProviderAnswers(c, keys)
      \/ UNCHANGED <<published, changed, poisoned>>
  BY DEF TokenNext, KeyNext, ServeToken, ServeKey, PresentToken, PresentKey, PresentNothing, ReadCache,
     LockForFetch, FetchFails, StoreKeys, Verify, LookupAPIKey, LookupFails, TouchLastUsed,
     RevokeAPIKey, CreateAPIKey, AccessTick
<1> QED
  BY <1>1, <1>2, <1>3

\* A set that was current at t stays so, whatever the provider does later.
LEMMA StaysCurrent ==
    ASSUME AccessTypeOK, HistoryIsPast, TokenNext \/ KeyNext,
           NEW ks \in SUBSET SigningKey, NEW t \in Int, t <= clock, CurrentAt(ks, t)
    PROVE  CurrentAt(ks, t)'
<1>1. CASE UNCHANGED <<published, changed, poisoned>>
  BY <1>1 DEF CurrentAt
<1>2. CASE UNCHANGED <<published, changed>> /\ poisoned' = clock
  BY <1>2 DEF CurrentAt
<1>3. ASSUME NEW k \in SigningKey, UNCHANGED poisoned,
             published' = published \cup {k} \/ published' = published \ {k},
             changed' = [changed EXCEPT ![k] = clock]
      PROVE  CurrentAt(ks, t)'
  <2>1. changed'[k] = clock /\ \A j \in SigningKey \ {k} : changed'[j] = changed[j]
    BY <1>3 DEF AccessTypeOK
  <2>2. \A j \in SigningKey \ {k} : j \in published' <=> j \in published
    BY <1>3
  <2>3. published' \subseteq SigningKey
    BY <1>3 DEF AccessTypeOK
  <2> QED
    BY <1>3, <2>1, <2>2, <2>3 DEF CurrentAt
<1> QED
  BY <1>1, <1>2, <1>3, ProviderMoves

LEMMA AllStayCurrent ==
    ASSUME AccessTypeOK, HistoryIsPast, TokenNext \/ KeyNext
    PROVE  \A ks \in SUBSET SigningKey, t \in Int : t <= clock /\ CurrentAt(ks, t) =>
             /\ \A k \in ks : k \in published' \/ changed'[k] >= t
             /\ \A k \in published' : k \in ks \/ changed'[k] >= t \/ poisoned' >= t
BY StaysCurrent DEF CurrentAt

LEMMA CurrentEarlier ==
    ASSUME AccessTypeOK, NEW ks \in SUBSET SigningKey, NEW t \in Int, NEW s \in Int, s <= t, CurrentAt(ks, t)
    PROVE  CurrentAt(ks, s)
BY DEF CurrentAt, AccessTypeOK

\* Which move brings a request where.
LEMMA MovesTo ==
    ASSUME CallsTyped, NEW c \in Client, Moves(c)
    PROVE  /\ clock' = clock
           /\ At(c, "store")' => \E keys \in {published, {}} : ProviderAnswers(c, keys)
           /\ At(c, "verify")' => StoreKeys(c) \/ (ReadCache(c) /\ JwksFresh)
           /\ At(c, "touch")' => \E scoped \in BOOLEAN : LookupAPIKey(c, scoped)
           /\ At(c, "done")' =>
                \/ PresentNothing(c) \/ FetchFails(c) \/ LookupFails(c)
                \/ \E b \in BOOLEAN : Verify(c, b) \/ LookupAPIKey(c, b) \/ TouchLastUsed(c, b)
<1> USE DEF At, CallsTyped, CallType
<1>1. ASSUME NEW t \in Token, PresentToken(c, t) PROVE clock' = clock /\ At(c, "get")'
  BY <1>1 DEF PresentToken
<1>2. ASSUME NEW k \in ApiKey, PresentKey(c, k) PROVE clock' = clock /\ At(c, "lookup")'
  BY <1>2 DEF PresentKey
<1>3. CASE PresentNothing(c)
  <2>1. clock' = clock /\ At(c, "done")'
    BY <1>3 DEF PresentNothing, Answer
  <2> QED BY <1>3, <2>1
<1>4. CASE ReadCache(c)
  <2>1. clock' = clock /\ ((At(c, "verify")' /\ JwksFresh) \/ At(c, "lock")')
    BY <1>4 DEF ReadCache
  <2> QED BY <1>4, <2>1
<1>5. CASE LockForFetch(c)
  <2>1. clock' = clock /\ At(c, "fetch")'
    BY <1>5 DEF LockForFetch
  <2> QED BY <2>1
<1>6. CASE FetchFails(c)
  <2>1. clock' = clock /\ At(c, "done")'
    BY <1>6 DEF FetchFails, Answer
  <2> QED BY <1>6, <2>1
<1>7. CASE StoreKeys(c)
  <2>1. clock' = clock /\ At(c, "verify")'
    BY <1>7 DEF StoreKeys
  <2> QED BY <1>7, <2>1
<1>8. CASE \E keys \in {published, {}} : ProviderAnswers(c, keys)
  <2>1. clock' = clock /\ At(c, "store")'
    BY <1>8 DEF ProviderAnswers
  <2> QED BY <1>8, <2>1
<1>9. CASE \E b \in BOOLEAN : Verify(c, b)
  <2>1. clock' = clock /\ At(c, "done")'
    BY <1>9 DEF Verify, Answer
  <2> QED BY <1>9, <2>1
<1>10. CASE \E b \in BOOLEAN : LookupAPIKey(c, b)
  <2>1. clock' = clock
    BY <1>10 DEF LookupAPIKey
  <2>2. At(c, "touch")' \/ At(c, "done")'
    <3>1. CASE ActiveKey(call[c].apiKey)
      BY <1>10, <3>1 DEF LookupAPIKey
    <3>2. CASE ~ActiveKey(call[c].apiKey)
      BY <1>10, <3>2, AnswerIs DEF LookupAPIKey
    <3> QED
      BY <3>1, <3>2
  <2> QED BY <1>10, <2>1, <2>2
<1>11. CASE LookupFails(c)
  <2>1. clock' = clock /\ At(c, "done")'
    BY <1>11 DEF LookupFails, Answer
  <2> QED BY <1>11, <2>1
<1>12. CASE \E b \in BOOLEAN : TouchLastUsed(c, b)
  <2>1. clock' = clock /\ At(c, "done")'
    BY <1>12 DEF TouchLastUsed
  <2> QED BY <1>12, <2>1
<1> QED
  BY <1>1, <1>2, <1>3, <1>4, <1>5, <1>6, <1>7, <1>8, <1>9, <1>10, <1>11, <1>12 DEF Moves, ServeToken, ServeKey

-----------------------------------------------------------------------------
(* Each part of the invariant is preserved *)

LEMMA AnswersStayCurrent ==
    ASSUME AccessInv, TokenNext \/ KeyNext PROVE AnswerCurrent'
<1> SUFFICES ASSUME NEW c \in Client, At(c, "store")'
             PROVE  /\ call'[c].asked <= clock' /\ clock' - call'[c].asked <= MaxFetch
                    /\ CurrentAt(call[c].ks, call[c].asked)'
  BY DEF AnswerCurrent
<1> USE AccessAssumption
<1>t. AccessTypeOK /\ CallsTyped /\ HistoryIsPast /\ clock \in Int /\ call[c] \in CallType
  BY DEF AccessInv, AccessTypeOK, CallsTyped
<1>1. CASE call'[c] = call[c]
  <2>1. At(c, "store")
    BY <1>1 DEF At
  <2>2. /\ call[c].asked \in Int /\ call[c].ks \in SUBSET SigningKey
        /\ call[c].asked <= clock /\ clock - call[c].asked <= MaxFetch /\ CurrentAt(call[c].ks, call[c].asked)
    BY <1>t, <2>1 DEF AccessInv, AnswerCurrent, CallType
  <2>3. CurrentAt(call[c].ks, call[c].asked)'
    <3> DEFINE ks == call[c].ks
               t == call[c].asked
    <3>1. ks' = ks /\ t' = t
      BY <1>1
    <3> QED
      BY <3>1, <2>2, <1>t, AllStayCurrent DEF CurrentAt
  <2>4. clock' = clock \/ (clock' = clock + 1 /\ clock - call[c].asked < MaxFetch)
    BY ClockMoves, <2>1 DEF AccessTick
  <2> QED
    BY <1>1, <1>t, <2>2, <2>3, <2>4
<1>2. CASE Moves(c)
  <2>1. PICK keys \in {published, {}} : ProviderAnswers(c, keys)
    BY <1>2, <1>t, MovesTo
  <2>2. /\ call'[c].ks = keys /\ call'[c].asked = clock
        /\ UNCHANGED <<clock, published, changed>> /\ (keys # published => poisoned' = clock)
    BY <2>1, <1>t DEF ProviderAnswers, CallsTyped, CallType
  <2> QED
    BY <2>2, <1>t DEF CurrentAt
<1> QED
  BY <1>1, <1>2, <1>t, OneCallMoves

LEMMA CacheStaysCurrent ==
    ASSUME AccessInv, TokenNext \/ KeyNext PROVE CacheCurrent'
<1> USE AccessAssumption
<1>t. /\ AccessTypeOK /\ CallsTyped /\ HistoryIsPast /\ clock \in Nat
      /\ jwks.at \in Int /\ jwks.keys \in SUBSET SigningKey
  BY DEF AccessInv, AccessTypeOK
<1>1. CASE UNCHANGED jwks
  <2> SUFFICES ASSUME jwks.at # Before PROVE jwks.at <= clock' /\ CurrentAt(jwks.keys, jwks.at - MaxFetch)'
    BY <1>1 DEF CacheCurrent
  <2>1. jwks.at <= clock /\ CurrentAt(jwks.keys, jwks.at - MaxFetch)
    BY DEF AccessInv, CacheCurrent
  <2>2. jwks.at <= clock'
    <3>1. clock' = clock \/ clock' = clock + 1
      BY ClockMoves DEF AccessTick
    <3> QED
      BY <3>1, <1>t, <2>1
  <2>3. CurrentAt(jwks.keys, jwks.at - MaxFetch)'
    BY <1>1, <1>t, <2>1, AllStayCurrent DEF CurrentAt
  <2> QED
    BY <2>2, <2>3
<1>2. ASSUME NEW c \in Client, StoreKeys(c) PROVE CacheCurrent'
  <2>1. call[c].asked \in Nat /\ call[c].ks \in SUBSET SigningKey
    BY <1>t DEF CallsTyped, CallType
  <2>2. call[c].asked >= clock - MaxFetch /\ CurrentAt(call[c].ks, call[c].asked)
    BY <1>t, <1>2, <2>1 DEF StoreKeys, AccessInv, AnswerCurrent
  <2>3. CurrentAt(call[c].ks, clock - MaxFetch)
    BY <1>t, <2>1, <2>2, CurrentEarlier
  <2>4. /\ jwks'.keys = call[c].ks /\ jwks'.at = clock
        /\ UNCHANGED <<clock, published, changed, poisoned>>
    BY <1>2 DEF StoreKeys
  <2> QED
    BY <1>t, <2>3, <2>4 DEF CacheCurrent, CurrentAt
<1>3. UNCHANGED jwks \/ \E c \in Client : StoreKeys(c)
  BY DEF TokenNext, KeyNext, ServeToken, ServeKey, PresentToken, PresentKey, PresentNothing, ReadCache,
     LockForFetch, FetchFails, ProviderAnswers, Verify, LookupAPIKey, LookupFails, TouchLastUsed,
     Publish, Retire, RevokeAPIKey, CreateAPIKey, AccessTick
<1> QED
  BY <1>1, <1>2, <1>3

LEMMA VerifyStaysCurrent ==
    ASSUME AccessInv, TokenNext \/ KeyNext PROVE VerifyCurrent'
<1> SUFFICES ASSUME NEW c \in Client, At(c, "verify")'
             PROVE  CurrentAt(call[c].ks, clock - JwksTTL - MaxFetch + 1)'
  BY DEF VerifyCurrent
<1> USE AccessAssumption
<1>t. /\ AccessTypeOK /\ CallsTyped /\ HistoryIsPast /\ clock \in Nat
      /\ call[c].ks \in SUBSET SigningKey /\ call[c].asked \in Nat
      /\ jwks.at \in Int /\ jwks.keys \in SUBSET SigningKey
  BY DEF AccessInv, AccessTypeOK, CallsTyped, CallType
<1> DEFINE t == clock - JwksTTL - MaxFetch + 1
<1>p. t \in Int /\ t <= clock
  BY <1>t
<1>1. CASE call'[c] = call[c]
  <2>1. At(c, "verify")
    BY <1>1 DEF At
  <2>2. clock' = clock
    BY <2>1, ClockMoves DEF AccessTick
  <2>3. CurrentAt(call[c].ks, t)
    BY <2>1 DEF AccessInv, VerifyCurrent
  <2> QED
    BY <1>1, <1>t, <1>p, <2>2, <2>3, AllStayCurrent DEF CurrentAt
<1>2. CASE StoreKeys(c)
  <2>1. call[c].asked >= clock - MaxFetch /\ CurrentAt(call[c].ks, call[c].asked)
    BY <1>t, <1>2 DEF StoreKeys, AccessInv, AnswerCurrent
  <2>2. CurrentAt(call[c].ks, t)
    BY <1>t, <1>p, <2>1, CurrentEarlier
  <2>3. call'[c].ks = call[c].ks /\ UNCHANGED <<clock, published, changed, poisoned>>
    BY <1>2, <1>t DEF StoreKeys, CallsTyped, CallType
  <2> QED
    BY <2>2, <2>3 DEF CurrentAt
<1>3. CASE ReadCache(c) /\ JwksFresh
  <2>1. jwks.at - MaxFetch >= t /\ CurrentAt(jwks.keys, jwks.at - MaxFetch)
    BY <1>t, <1>3 DEF JwksFresh, AccessInv, CacheCurrent
  <2>2. CurrentAt(jwks.keys, t)
    BY <1>t, <1>p, <2>1, CurrentEarlier
  <2>3. call'[c].ks = jwks.keys /\ UNCHANGED <<clock, published, changed, poisoned>>
    BY <1>3, <1>t DEF ReadCache, CallsTyped, CallType
  <2> QED
    BY <2>2, <2>3 DEF CurrentAt
<1> QED
  BY <1>1, <1>2, <1>3, <1>t, OneCallMoves, MovesTo

LEMMA HistoryStaysPast ==
    ASSUME AccessInv, TokenNext \/ KeyNext PROVE HistoryIsPast'
<1>t. AccessTypeOK /\ HistoryIsPast
  BY DEF AccessInv
<1>1. clock \in Int /\ clock' \in Int /\ clock <= clock'
  BY <1>t, AccessAssumption, ClockMoves DEF AccessTick, AccessTypeOK
<1>2. \A k \in SigningKey : changed[k] \in Int /\ (changed'[k] = changed[k] \/ changed'[k] = clock)
  BY <1>t, ProviderMoves DEF AccessTypeOK
<1>3. poisoned \in Int /\ (poisoned' = poisoned \/ poisoned' = clock)
  BY <1>t, ProviderMoves DEF AccessTypeOK
<1> QED
  BY <1>t, <1>1, <1>2, <1>3 DEF HistoryIsPast

\* A move is an answer or one of the moves before it.
LEMMA MoveIs ==
    ASSUME NEW c \in Client, Moves(c)
    PROVE  \/ \E s \in Nat : Answer(c, s)
           \/ \E t \in Token : PresentToken(c, t)
           \/ \E k \in ApiKey : PresentKey(c, k)
           \/ ReadCache(c) \/ LockForFetch(c) \/ StoreKeys(c)
           \/ \E keys \in {published, {}} : ProviderAnswers(c, keys)
           \/ \E b \in BOOLEAN : LookupAPIKey(c, b) /\ ActiveKey(call[c].apiKey)
           \/ \E b \in BOOLEAN : TouchLastUsed(c, b)
<1>1. ASSUME PresentNothing(c) \/ FetchFails(c) \/ LookupFails(c) PROVE Answer(c, 401) \/ Answer(c, 500)
  BY <1>1 DEF PresentNothing, FetchFails, LookupFails
<1>2. ASSUME NEW b \in BOOLEAN, Verify(c, b) PROVE Answer(c, 401) \/ Answer(c, 200) \/ Answer(c, 403)
  BY <1>2 DEF Verify
<1>3. ASSUME NEW b \in BOOLEAN, LookupAPIKey(c, b), ~ActiveKey(call[c].apiKey) PROVE Answer(c, 401)
  BY <1>3 DEF LookupAPIKey
<1>4. 200 \in Nat /\ 401 \in Nat /\ 403 \in Nat /\ 500 \in Nat
  OBVIOUS
<1> QED
  BY <1>1, <1>2, <1>3, <1>4 DEF Moves, ServeToken, ServeKey

LEMMA OneCredentialStays ==
    ASSUME AccessInv, TokenNext \/ KeyNext PROVE OneCredential'
<1> USE AccessAssumption
<1>t. AccessTypeOK /\ CallsTyped /\ OneCredential /\ clock \in Nat
  BY DEF AccessInv, AccessTypeOK
<1> DEFINE Cred(q) == /\ q.pc \in {"idle", "get", "lock", "fetch", "store", "verify"} => q.apiKey = NoOne
                      /\ q.pc \in {"idle", "lookup", "touch"} => q.token = NoToken
                      /\ q.pc \in {"lookup", "touch"} => q.apiKey \in ApiKey
                      /\ q.pc \notin {"touch", "done"} => q.status = 0
<1> SUFFICES ASSUME NEW c \in Client PROVE call'[c].since <= clock' /\ Cred(call'[c])
  BY DEF OneCredential
<1>c. call[c] \in CallType /\ call[c].since \in Nat /\ call[c].since <= clock /\ Cred(call[c])
  BY <1>t DEF OneCredential, CallsTyped, CallType
<1>1. call'[c].since <= clock'
  <2>1. clock' = clock \/ clock' = clock + 1
    BY ClockMoves DEF AccessTick
  <2>2. call'[c].since = call[c].since \/ call'[c].since = clock
    <3>1. CASE call'[c] = call[c]
      BY <3>1
    <3>2. CASE \E s \in Nat : Answer(c, s)
      BY <1>t, <3>2, AnswerIs
    <3>3. ASSUME NEW b \in BOOLEAN, LookupAPIKey(c, b), ActiveKey(call[c].apiKey)
          PROVE  call'[c].since = call[c].since \/ call'[c].since = clock
      BY <1>t, <3>3 DEF LookupAPIKey, CallsTyped, CallType
    <3>4. CASE ReadCache(c) \/ LockForFetch(c) \/ StoreKeys(c)
      BY <1>t, <3>4 DEF ReadCache, LockForFetch, StoreKeys, CallsTyped, CallType
    <3>5. CASE \E keys \in {published, {}} : ProviderAnswers(c, keys)
      BY <1>t, <3>5 DEF ProviderAnswers, CallsTyped, CallType
    <3>6. CASE \E b \in BOOLEAN : TouchLastUsed(c, b)
      BY <1>t, <3>6 DEF TouchLastUsed, CallsTyped, CallType
    <3>7. CASE \E t \in Token : PresentToken(c, t)
      BY <1>t, <3>7 DEF PresentToken, CallsTyped, CallType
    <3>8. CASE \E k \in ApiKey : PresentKey(c, k)
      BY <1>t, <3>8 DEF PresentKey, CallsTyped, CallType
    <3> QED
      BY <3>1, <3>2, <3>3, <3>4, <3>5, <3>6, <3>7, <3>8, <1>t, OneCallMoves, MoveIs
  <2> QED
    BY <1>t, <1>c, <2>1, <2>2
<1>2. Cred(call'[c])
  <2>1. CASE call'[c] = call[c]
    BY <1>c, <2>1
  <2>2. CASE \E s \in Nat : Answer(c, s)
    BY <1>t, <2>2, AnswerIs
  <2>3. ASSUME NEW t \in Token, PresentToken(c, t) PROVE Cred(call'[c])
    <3>1. call[c].status = 0 /\ call[c].apiKey = NoOne
      BY <1>c, <2>3 DEF PresentToken, At
    <3>2. call'[c].pc = "get" /\ call'[c].apiKey = call[c].apiKey /\ call'[c].status = call[c].status
      BY <1>t, <2>3 DEF PresentToken, CallsTyped, CallType
    <3> QED
      BY <3>1, <3>2
  <2>4. ASSUME NEW k \in ApiKey, PresentKey(c, k) PROVE Cred(call'[c])
    <3>1. call[c].token = NoToken /\ call[c].status = 0
      BY <1>c, <2>4 DEF PresentKey, At
    <3>2. /\ call'[c].pc = "lookup" /\ call'[c].apiKey = k
          /\ call'[c].token = call[c].token /\ call'[c].status = call[c].status
      BY <1>t, <2>4 DEF PresentKey, CallsTyped, CallType
    <3> QED
      BY <3>1, <3>2
  <2>5. CASE ReadCache(c)
    BY <1>t, <1>c, <2>5 DEF ReadCache, At, CallsTyped, CallType
  <2>6. CASE LockForFetch(c) \/ StoreKeys(c)
    BY <1>t, <1>c, <2>6 DEF LockForFetch, StoreKeys, At, CallsTyped, CallType
  <2>7. CASE \E keys \in {published, {}} : ProviderAnswers(c, keys)
    BY <1>t, <1>c, <2>7 DEF ProviderAnswers, At, CallsTyped, CallType
  <2>8. ASSUME NEW b \in BOOLEAN, LookupAPIKey(c, b), ActiveKey(call[c].apiKey) PROVE Cred(call'[c])
    BY <1>t, <1>c, <2>8 DEF LookupAPIKey, At, CallsTyped, CallType
  <2>9. ASSUME NEW b \in BOOLEAN, TouchLastUsed(c, b) PROVE Cred(call'[c])
    BY <1>t, <1>c, <2>9 DEF TouchLastUsed, At, CallsTyped, CallType
  <2> QED
    BY <2>1, <2>2, <2>3, <2>4, <2>5, <2>6, <2>7, <2>8, <2>9, <1>t, OneCallMoves, MoveIs
<1> QED
  BY <1>1, <1>2

\* Only Verify lets a token through or refuses it.
LEMMA TokenDecision ==
    ASSUME AccessInv, NEW c \in Client, Moves(c), At(c, "done")', call'[c].token # NoToken,
           call'[c].status \in {200, 401}
    PROVE  /\ At(c, "verify") /\ call'[c].since = clock /\ call'[c].token = call[c].token
           /\ call'[c].status = 200 <=> Accepts(call[c].ks, call[c].token)
           /\ UNCHANGED <<clock, published, changed, poisoned>>
<1>t. /\ CallsTyped
      /\ call[c].pc \in {"idle", "lookup", "touch"} => call[c].token = NoToken
  BY DEF AccessInv, AccessTypeOK, OneCredential
<1>1. CASE PresentNothing(c)
  BY <1>1, <1>t, AnswerIs DEF PresentNothing, At
<1>2. CASE FetchFails(c) \/ LookupFails(c)
  BY <1>2, <1>t, AnswerIs DEF FetchFails, LookupFails
<1>3. ASSUME NEW b \in BOOLEAN, LookupAPIKey(c, b) PROVE FALSE
  <2>1. call[c].token = NoToken
    BY <1>3, <1>t DEF LookupAPIKey, At
  <2>2. CASE ActiveKey(call[c].apiKey)
    BY <1>3, <1>t, <2>1, <2>2 DEF LookupAPIKey, At, CallsTyped, CallType
  <2>3. CASE ~ActiveKey(call[c].apiKey)
    BY <1>3, <1>t, <2>1, <2>3, AnswerIs DEF LookupAPIKey
  <2> QED
    BY <2>2, <2>3
<1>4. ASSUME NEW b \in BOOLEAN, TouchLastUsed(c, b) PROVE FALSE
  BY <1>4, <1>t DEF TouchLastUsed, At, CallsTyped, CallType
<1>5. ASSUME NEW b \in BOOLEAN, Verify(c, b)
      PROVE  /\ At(c, "verify") /\ call'[c].since = clock /\ call'[c].token = call[c].token
             /\ call'[c].status = 200 <=> Accepts(call[c].ks, call[c].token)
             /\ UNCHANGED <<clock, published, changed, poisoned>>
  <2>1. At(c, "verify") /\ UNCHANGED <<clock, published, changed, poisoned>>
    BY <1>5 DEF Verify
  <2>2. CASE Accepts(call[c].ks, call[c].token)
    <3>1. Answer(c, 200) \/ Answer(c, 403)
      BY <1>5, <2>2 DEF Verify
    <3> QED
      BY <2>1, <2>2, <3>1, <1>t, AnswerIs
  <2>3. CASE ~Accepts(call[c].ks, call[c].token)
    <3>1. Answer(c, 401)
      BY <1>5, <2>3 DEF Verify
    <3> QED
      BY <2>1, <2>3, <3>1, <1>t, AnswerIs
  <2> QED
    BY <2>2, <2>3
<1> QED
  BY <1>1, <1>2, <1>3, <1>4, <1>5, <1>t, MovesTo

\* A key is as it was, or changed just now.
LEMMA KeyMoves ==
    ASSUME AccessTypeOK, TokenNext \/ KeyNext, NEW k \in SigningKey
    PROVE  \/ changed'[k] = changed[k] /\ (k \in published' <=> k \in published)
           \/ changed'[k] = clock
BY ProviderMoves DEF AccessTypeOK

LEMMA TokensStayBounded ==
    ASSUME AccessInv, TokenNext \/ KeyNext
    PROVE  HonouredKeyIsKnown' /\ RetiredKeyBounded' /\ GoodTokenRefusedBounded'
<1> USE AccessAssumption
<1> SUFFICES ASSUME NEW c \in Client
             PROVE  LET t == call'[c].token
                        u == call'[c].since
                    IN  /\ ByToken(c, 200)' => t.key \in SigningKey
                        /\ ByToken(c, 200)' /\ t.key \notin published' => u < changed'[t.key] + JwksTTL + MaxFetch
                        /\ ByToken(c, 401)' /\ t.wellFormed /\ t.key \in published' /\ u <= t.exp =>
                             \/ u < changed'[t.key] + JwksTTL + MaxFetch
                             \/ u < poisoned' + JwksTTL + MaxFetch
  BY DEF HonouredKeyIsKnown, RetiredKeyBounded, GoodTokenRefusedBounded
<1> DEFINE t == call[c].token
           u == call[c].since
           bound == JwksTTL + MaxFetch
<1>t. /\ AccessTypeOK /\ CallsTyped /\ clock \in Nat /\ u \in Nat /\ u <= clock
      /\ published \subseteq SigningKey /\ published' \subseteq SigningKey
      /\ poisoned \in Int /\ poisoned <= clock
      /\ \A k \in SigningKey : changed[k] \in Int
      /\ call[c].ks \subseteq SigningKey
  BY AccessTyped DEF AccessInv, AccessTypeOK, CallsTyped, CallType, OneCredential, HistoryIsPast
<1>p. poisoned' = poisoned \/ poisoned' = clock
  BY ProviderMoves
<1>1. CASE call'[c] = call[c]
  <2>1. ByToken(c, 200)' => ByToken(c, 200) /\ t.key \in SigningKey
    BY <1>1 DEF AccessInv, HonouredKeyIsKnown, ByToken, At
  <2>2. ASSUME ByToken(c, 200)', t.key \notin published' PROVE u < changed'[t.key] + JwksTTL + MaxFetch
    <3>1. t.key \notin published => u < changed[t.key] + JwksTTL + MaxFetch
      BY <2>1, <2>2 DEF AccessInv, AccessCurrent, RetiredKeyBounded
    <3> QED
      BY <1>t, <2>1, <2>2, <3>1, KeyMoves
  <2>3. ASSUME ByToken(c, 401)', t.wellFormed, t.key \in published', u <= t.exp
        PROVE  u < changed'[t.key] + JwksTTL + MaxFetch \/ u < poisoned' + JwksTTL + MaxFetch
    <3>1. t.key \in published =>
            u < changed[t.key] + JwksTTL + MaxFetch \/ u < poisoned + JwksTTL + MaxFetch
      BY <1>1, <2>3 DEF AccessInv, AccessCurrent, GoodTokenRefusedBounded, ByToken, At
    <3> QED
      BY <1>t, <1>p, <2>3, <3>1, KeyMoves
  <2> QED
    BY <1>1, <2>1, <2>2, <2>3
<1>2. CASE Moves(c)
  <2> SUFFICES ASSUME ByToken(c, 200)' \/ ByToken(c, 401)'
               PROVE  LET v == call'[c].token
                          w == call'[c].since
                      IN  /\ ByToken(c, 200)' => v.key \in SigningKey
                          /\ ByToken(c, 200)' /\ v.key \notin published' =>
                                w < changed'[v.key] + JwksTTL + MaxFetch
                          /\ ByToken(c, 401)' /\ v.wellFormed /\ v.key \in published' /\ w <= v.exp =>
                               \/ w < changed'[v.key] + JwksTTL + MaxFetch
                               \/ w < poisoned' + JwksTTL + MaxFetch
    OBVIOUS
  <2>1. /\ At(c, "verify") /\ call'[c].since = clock /\ call'[c].token = t
        /\ call'[c].status = 200 <=> Accepts(call[c].ks, t)
        /\ UNCHANGED <<clock, published, changed, poisoned>>
    BY <1>2, TokenDecision DEF ByToken
  <2>2. CurrentAt(call[c].ks, clock - JwksTTL - MaxFetch + 1)
    BY <2>1 DEF AccessInv, VerifyCurrent
  <2>3. CASE ByToken(c, 200)'
    <3>1. t.key \in call[c].ks /\ ~ByToken(c, 401)'
      BY <2>1, <2>3 DEF Accepts, ByToken
    <3> QED
      BY <1>t, <2>1, <2>2, <3>1 DEF CurrentAt
  <2>4. CASE ByToken(c, 401)'
    <3>1. ~ByToken(c, 200)' /\ ~Accepts(call[c].ks, t)
      BY <2>1, <2>4 DEF ByToken
    <3>2. ASSUME t.wellFormed, t.key \in published, clock <= t.exp PROVE t.key \notin call[c].ks
      BY <3>1, <3>2 DEF Accepts
    <3> QED
      BY <1>t, <2>1, <2>2, <3>1, <3>2 DEF CurrentAt
  <2> QED
    BY <2>3, <2>4
<1> QED
  BY <1>1, <1>2, <1>t, OneCallMoves

LEMMA LiveKeyStaysUnrevoked ==
    ASSUME AccessInv, TokenNext \/ KeyNext PROVE LiveKeyUnrevoked'
<1>t. AccessTypeOK /\ LiveKeyUnrevoked
  BY DEF AccessInv
<1>1. ASSUME NEW c \in Client, NEW ok \in BOOLEAN, TouchLastUsed(c, ok) PROVE LiveKeyUnrevoked'
  BY <1>1, <1>t DEF TouchLastUsed, LiveKeyUnrevoked, AccessTypeOK
<1>2. ASSUME NEW k \in ApiKey, RevokeAPIKey(k) PROVE LiveKeyUnrevoked'
  BY <1>2, <1>t DEF RevokeAPIKey, LiveKeyUnrevoked, AccessTypeOK
<1>3. ASSUME NEW k \in ApiKey, NEW exp \in {1, AccessTime + 1}, CreateAPIKey(k, exp) PROVE LiveKeyUnrevoked'
  BY <1>3, <1>t DEF CreateAPIKey, NewKey, LiveKeyUnrevoked, AccessTypeOK
<1>4. CASE UNCHANGED <<api_keys, revokedAt>>
  BY <1>4, <1>t DEF LiveKeyUnrevoked
<1> QED
  BY <1>1, <1>2, <1>3, <1>4
  DEF TokenNext, KeyNext, ServeToken, ServeKey, PresentToken, PresentKey, PresentNothing, ReadCache,
      LockForFetch, FetchFails, StoreKeys, ProviderAnswers, Verify, LookupAPIKey, LookupFails,
      Publish, Retire, AccessTick

LEMMA RevokedStaysRefused ==
    ASSUME AccessInv, TokenNext \/ KeyNext PROVE RevokedKeyRefused'
<1> SUFFICES ASSUME NEW c \in Client, call'[c].apiKey # NoOne, call'[c].status = 200
             PROVE  revokedAt'[call'[c].apiKey] >= call'[c].since
  BY DEF RevokedKeyRefused
<1> USE AccessAssumption
<1> DEFINE k == call[c].apiKey
<1>t. /\ CallsTyped /\ clock \in Nat /\ clock <= AccessTime
      /\ call[c].since \in Nat /\ call[c].since <= clock /\ (k # NoOne => k \in ApiKey)
      /\ \A j \in ApiKey : revokedAt[j] \in Nat
      /\ call[c].pc \notin {"touch", "done"} => call[c].status = 0
      /\ call[c].pc \in {"idle", "get", "lock", "fetch", "store", "verify"} => call[c].apiKey = NoOne
      /\ call[c].pc \in {"lookup", "touch"} => call[c].apiKey \in ApiKey
  BY DEF AccessInv, AccessTypeOK, CallsTyped, CallType, OneCredential, MaybeKey
<1>r. ASSUME NEW j \in ApiKey PROVE revokedAt'[j] = revokedAt[j] \/ revokedAt'[j] = clock
  <2>1. UNCHANGED revokedAt \/ \E i \in ApiKey : revokedAt' = [revokedAt EXCEPT ![i] = clock]
    BY DEF TokenNext, KeyNext, ServeToken, ServeKey, PresentToken, PresentKey, PresentNothing, ReadCache,
      LockForFetch, FetchFails, StoreKeys, ProviderAnswers, Verify, LookupAPIKey, LookupFails, TouchLastUsed,
      Publish, Retire, AccessTick, CreateAPIKey, RevokeAPIKey
  <2> QED
    BY <2>1 DEF AccessInv, AccessTypeOK
<1>1. CASE call'[c].apiKey = k /\ call'[c].since = call[c].since /\ call[c].status = 200
  <2>1. revokedAt[k] >= call[c].since
    BY <1>1 DEF AccessInv, AccessCurrent, RevokedKeyRefused
  <2> QED
    BY <1>1, <1>t, <1>r, <2>1
<1>2. ASSUME NEW b \in BOOLEAN, LookupAPIKey(c, b), ActiveKey(k)
      PROVE  revokedAt'[call'[c].apiKey] >= call'[c].since
  <2>1. k \in ApiKey
    BY <1>2, <1>t DEF LookupAPIKey, At
  <2>2. revokedAt[k] = AccessTime + 1
    BY <1>2, <2>1 DEF ActiveKey, AccessInv, LiveKeyUnrevoked
  <2>3. UNCHANGED revokedAt /\ call'[c].apiKey = k /\ call'[c].since = clock
    BY <1>2, <1>t DEF LookupAPIKey, CallsTyped, CallType
  <2> QED
    BY <1>t, <2>2, <2>3
<1>3. ASSUME NEW s \in Nat, Answer(c, s) PROVE call'[c].apiKey = k /\ call'[c].status = s
  BY <1>3, <1>t, AnswerIs
<1>4. CASE Moves(c)
  <2>1. CASE ReadCache(c) \/ LockForFetch(c) \/ StoreKeys(c)
    BY <1>t, <2>1 DEF ReadCache, LockForFetch, StoreKeys, At, CallsTyped, CallType
  <2>2. CASE \E keys \in {published, {}} : ProviderAnswers(c, keys)
    BY <1>t, <2>2 DEF ProviderAnswers, At, CallsTyped, CallType
  <2>3. CASE \E t \in Token : PresentToken(c, t)
    BY <1>t, <2>3 DEF PresentToken, At, CallsTyped, CallType
  <2>4. CASE \E j \in ApiKey : PresentKey(c, j)
    BY <1>t, <2>4 DEF PresentKey, At, CallsTyped, CallType
  <2>5. CASE PresentNothing(c) \/ FetchFails(c) \/ LookupFails(c)
    BY <1>3, <2>5 DEF PresentNothing, FetchFails, LookupFails
  <2>6. ASSUME NEW b \in BOOLEAN, Verify(c, b) PROVE FALSE
    BY <1>3, <1>t, <2>6 DEF Verify, At
  <2>7. ASSUME NEW b \in BOOLEAN, LookupAPIKey(c, b), ~ActiveKey(k) PROVE FALSE
    BY <1>3, <2>7 DEF LookupAPIKey
  <2>8. ASSUME NEW b \in BOOLEAN, TouchLastUsed(c, b)
        PROVE  call'[c].apiKey = k /\ call'[c].since = call[c].since /\ call[c].status = 200
    BY <1>t, <2>8 DEF TouchLastUsed, CallsTyped, CallType
  <2> QED
    BY <1>1, <1>2, <1>4, <2>1, <2>2, <2>3, <2>4, <2>5, <2>6, <2>7, <2>8 DEF Moves, ServeToken, ServeKey
<1> QED
  BY <1>1, <1>4, <1>t, OneCallMoves

-----------------------------------------------------------------------------

\* jwksEntry.get, OIDCAuth, APIKeyAuth: every state of the query API's
\* authentication satisfies the inductive invariant.
THEOREM AccessInvariance == AccessSpec => []AccessInv
<1>1. AccessInit => AccessInv
  BY AccessInitInv
<1>2. AccessInv /\ [TokenNext \/ KeyNext]_accessVars => AccessInv'
  <2> SUFFICES ASSUME AccessInv, [TokenNext \/ KeyNext]_accessVars PROVE AccessInv'
    OBVIOUS
  <2>1. CASE TokenNext \/ KeyNext
    <3>1. AccessTypeOK'
      BY <2>1, AccessTyped DEF AccessInv
    <3>2. AnswerCurrent' /\ CacheCurrent' /\ VerifyCurrent'
      BY <2>1, AnswersStayCurrent, CacheStaysCurrent, VerifyStaysCurrent
    <3>3. OneCredential' /\ LiveKeyUnrevoked' /\ HistoryIsPast'
      BY <2>1, OneCredentialStays, LiveKeyStaysUnrevoked, HistoryStaysPast
    <3>4. HonouredKeyIsKnown' /\ AccessCurrent'
      BY <2>1, TokensStayBounded, RevokedStaysRefused DEF AccessCurrent
    <3> QED
      BY <3>1, <3>2, <3>3, <3>4 DEF AccessInv
  <2>2. CASE UNCHANGED accessVars
    BY <2>2 DEF accessVars, AccessInv, AccessTypeOK, CallsTyped, AnswerCurrent, CacheCurrent, VerifyCurrent,
       OneCredential, LiveKeyUnrevoked, HistoryIsPast, HonouredKeyIsKnown, AccessCurrent, RetiredKeyBounded,
       GoodTokenRefusedBounded, RevokedKeyRefused, ByToken, At, CurrentAt
  <2> QED
    BY <2>1, <2>2
<1> QED
  BY <1>1, <1>2, PTL DEF AccessSpec

\* jwksEntry.get, OIDCAuth, APIKeyAuth: whatever the number of requests, keys
\* and tokens and the length of a fetch, a retired signing key is honoured and a
\* good token refused for less than the cache's lifetime plus a fetch, and a
\* revoked API key is refused at once.
THEOREM AccessStaysCurrent == AccessSpec => []AccessCurrent
<1>1. AccessInv => AccessCurrent
  BY DEF AccessInv
<1> QED
  BY <1>1, AccessInvariance, PTL
=============================================================================

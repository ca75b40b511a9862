------------------------------- MODULE Access -------------------------------
(***************************************************************************)
(* Authentication of the query API (platform/api/middleware: AnyAuth, OIDC,   *)
(* API keys, scopes; platform/database apikeys.go, tenant.go).  The identity  *)
(* provider's signing keys are cached in the process behind an RWMutex;       *)
(* requests that find the cache old queue for the lock and each fetches again. *)
(* API keys are looked up in Postgres on every request.                       *)
(***************************************************************************)
EXTENDS Integers, FiniteSets

CONSTANTS
    Client,       \* concurrent requests
    Token,        \* the tokens presented: records of key, exp and wellFormed
    SigningKey,   \* keys of the identity provider
    ApiKey,       \* raw API keys
    JwksTTL,      \* the cache's five minutes, in ticks
    MaxFetch,     \* ticks between the provider's answer and its being stored, at most
    AccessTime    \* bound: ticks

ASSUME AccessAssumption ==
    JwksTTL \in Nat \ {0} /\ MaxFetch \in Nat /\ AccessTime \in Nat

VARIABLES
    clock,
    published,    \* the keys the provider serves (external)
    changed,      \* history, [SigningKey -> when it was last published or retired]
    poisoned,     \* history: when the provider last answered an error page that decodes
    jwks,         \* globalJWKS: keys and fetch time
    jwksLock,     \* holder of mu
    api_keys,     \* the table: [ApiKey -> row]
    revokedAt,    \* history, [ApiKey -> when its revocation was answered]
    call          \* [Client -> request]

accessVars == <<clock, published, changed, poisoned, jwks, jwksLock, api_keys, revokedAt, call>>

NoOne == "none"
Before == -10      \* long before the first tick

NoToken == [key |-> NoOne, exp |-> 0, wellFormed |-> FALSE]

NoCall == [pc |-> "idle", token |-> NoToken, apiKey |-> NoOne, ks |-> {}, asked |-> 0,
           since |-> 0, status |-> 0]

AccessInit ==
    /\ clock = 0
    /\ published \in SUBSET SigningKey
    /\ changed = [k \in SigningKey |-> Before]
    /\ poisoned = Before
    /\ jwks = [keys |-> {}, at |-> Before]
    /\ jwksLock = NoOne
    /\ api_keys = [k \in ApiKey |-> [state |-> "absent", exp |-> 0, used |-> FALSE]]
    /\ revokedAt = [k \in ApiKey |-> AccessTime + 1]
    /\ call = [c \in Client |-> NoCall]

At(c, pc) == call[c].pc = pc

Answer(c, status) ==
    call' = [call EXCEPT ![c] = [@ EXCEPT !.pc = "done", !.status = status, !.since = clock,
                                          !.ks = {}, !.asked = 0]]

-----------------------------------------------------------------------------
(* OIDCAuth and jwksEntry.get *)

\* AnyAuth: an API key wins over a token; neither is 401.
PresentToken(c, t) ==
    /\ At(c, "idle")
    /\ call' = [call EXCEPT ![c].pc = "get", ![c].token = t]
    /\ UNCHANGED <<clock, published, changed, poisoned, jwks, jwksLock, api_keys, revokedAt>>

PresentNothing(c) ==
    /\ At(c, "idle") /\ Answer(c, 401)
    /\ UNCHANGED <<clock, published, changed, poisoned, jwks, jwksLock, api_keys, revokedAt>>

\* Mutant: a key set, once fetched, is used for ever.
JwksForever == jwks.at # Before

JwksFresh == jwks.at # Before /\ clock - jwks.at < JwksTTL

\* The read under RLock; the lock is let go before Lock is asked for, and the
\* condition is not looked at again under it.
ReadCache(c) ==
    /\ At(c, "get") /\ jwksLock = NoOne
    /\ call' = [call EXCEPT ![c].pc = IF JwksFresh THEN "verify" ELSE "lock",
                            ![c].ks = IF JwksFresh THEN jwks.keys ELSE {}]
    /\ UNCHANGED <<clock, published, changed, poisoned, jwks, jwksLock, api_keys, revokedAt>>

LockForFetch(c) ==
    /\ At(c, "lock") /\ jwksLock = NoOne
    /\ jwksLock' = c
    /\ call' = [call EXCEPT ![c].pc = "fetch"]
    /\ UNCHANGED <<clock, published, changed, poisoned, jwks, api_keys, revokedAt>>

\* The provider answers with its keys, or with an error page that is JSON: its
\* status is not looked at, so it decodes to no keys.
ProviderAnswers(c, keys) ==
    /\ At(c, "fetch")
    /\ call' = [call EXCEPT ![c].pc = "store", ![c].ks = keys, ![c].asked = clock]
    /\ poisoned' = IF keys # published THEN clock ELSE poisoned
    /\ UNCHANGED <<clock, published, changed, jwks, jwksLock, api_keys, revokedAt>>

\* Mutant: the lock is not let go on the error path.
FetchFailsLocked(c) ==
    /\ At(c, "fetch") /\ Answer(c, 500)
    /\ UNCHANGED <<clock, published, changed, poisoned, jwks, jwksLock, api_keys, revokedAt>>

\* No answer, or one that is not JSON: nothing is cached.
FetchFails(c) ==
    /\ At(c, "fetch") /\ Answer(c, 500)
    /\ jwksLock' = NoOne
    /\ UNCHANGED <<clock, published, changed, poisoned, jwks, api_keys, revokedAt>>

StoreKeys(c) ==
    /\ At(c, "store")
    /\ jwks' = [keys |-> call[c].ks, at |-> clock]
    /\ jwksLock' = NoOne
    /\ call' = [call EXCEPT ![c].pc = "verify"]
    /\ UNCHANGED <<clock, published, changed, poisoned, api_keys, revokedAt>>

\* Signature by any key of the set, expiry, issuer and tenant claims.
Accepts(ks, t) == t.wellFormed /\ t.key \in ks /\ clock <= t.exp

\* RequireScope is the last step: a token may lack the route's scope.
Verify(c, scoped) ==
    /\ At(c, "verify")
    /\ Answer(c, IF ~Accepts(call[c].ks, call[c].token) THEN 401 ELSE IF scoped THEN 200 ELSE 403)
    /\ UNCHANGED <<clock, published, changed, poisoned, jwks, jwksLock, api_keys, revokedAt>>

-----------------------------------------------------------------------------
(* APIKeyAuth and the api_keys table *)

PresentKey(c, k) ==
    /\ At(c, "idle")
    /\ call' = [call EXCEPT ![c].pc = "lookup", ![c].apiKey = k]
    /\ UNCHANGED <<clock, published, changed, poisoned, jwks, jwksLock, api_keys, revokedAt>>

ActiveKey(k) == api_keys[k].state = "active" /\ api_keys[k].exp > clock

LookupAPIKey(c, scoped) ==
    /\ At(c, "lookup")
    /\ IF ActiveKey(call[c].apiKey)
       THEN call' = [call EXCEPT ![c].pc = "touch", ![c].status = IF scoped THEN 200 ELSE 403,
                                 ![c].since = clock]
       ELSE Answer(c, 401)
    /\ UNCHANGED <<clock, published, changed, poisoned, jwks, jwksLock, api_keys, revokedAt>>

LookupFails(c) ==
    /\ At(c, "lookup") /\ Answer(c, 500)
    /\ UNCHANGED <<clock, published, changed, poisoned, jwks, jwksLock, api_keys, revokedAt>>

\* The goroutine's best-effort UPDATE, any time later, on a revoked row too.
TouchLastUsed(c, ok) ==
    /\ At(c, "touch")
    /\ call' = [call EXCEPT ![c].pc = "done"]
    /\ api_keys' = IF ok THEN [api_keys EXCEPT ![call[c].apiKey].used = TRUE] ELSE api_keys
    /\ UNCHANGED <<clock, published, changed, poisoned, jwks, jwksLock, revokedAt>>

\* Name and scopes are checked first; a fresh random key is a new row.
NewKey(exp) == [state |-> "active", exp |-> exp, used |-> FALSE]

CreateAPIKey(k, exp) ==
    /\ api_keys[k].state = "absent"
    /\ api_keys' = [api_keys EXCEPT ![k] = NewKey(exp)]
    /\ UNCHANGED <<clock, published, changed, poisoned, jwks, jwksLock, revokedAt, call>>

\* Only an active row of the caller's tenant; otherwise 404 and no change.
RevokeAPIKey(k) ==
    /\ api_keys[k].state = "active"
    /\ api_keys' = [api_keys EXCEPT ![k].state = "revoked"]
    /\ revokedAt' = [revokedAt EXCEPT ![k] = clock]
    /\ UNCHANGED <<clock, published, changed, poisoned, jwks, jwksLock, call>>

-----------------------------------------------------------------------------
(* The provider rotates its keys; time *)

Publish(k) ==
    /\ published' = published \cup {k} /\ k \notin published
    /\ changed' = [changed EXCEPT ![k] = clock]
    /\ UNCHANGED <<clock, poisoned, jwks, jwksLock, api_keys, revokedAt, call>>

Retire(k) ==
    /\ published' = published \ {k} /\ k \in published
    /\ changed' = [changed EXCEPT ![k] = clock]
    /\ UNCHANGED <<clock, poisoned, jwks, jwksLock, api_keys, revokedAt, call>>

AccessTick ==
    /\ clock < AccessTime
    /\ \A c \in Client : /\ ~At(c, "verify")
                         /\ At(c, "store") => clock - call[c].asked < MaxFetch
    /\ clock' = clock + 1
    /\ UNCHANGED <<published, changed, poisoned, jwks, jwksLock, api_keys, revokedAt, call>>

ServeToken(c) ==
    \/ ReadCache(c) \/ LockForFetch(c) \/ FetchFails(c) \/ StoreKeys(c)
    \/ \E keys \in {published, {}} : ProviderAnswers(c, keys)
    \/ \E scoped \in BOOLEAN : Verify(c, scoped)

ServeKey(c) ==
    \/ \E scoped \in BOOLEAN : LookupAPIKey(c, scoped)
    \/ LookupFails(c)
    \/ \E ok \in BOOLEAN : TouchLastUsed(c, ok)

\* The two kinds of credentials share nothing but the clock.
TokenNext ==
    \/ \E c \in Client : (\E t \in Token : PresentToken(c, t)) \/ PresentNothing(c) \/ ServeToken(c)
    \/ \E k \in SigningKey : Publish(k) \/ Retire(k)
    \/ AccessTick

KeyNext ==
    \/ \E c \in Client : (\E k \in ApiKey : PresentKey(c, k)) \/ ServeKey(c)
    \/ \E k \in ApiKey : RevokeAPIKey(k) \/ \E exp \in {1, AccessTime + 1} : CreateAPIKey(k, exp)
    \/ AccessTick

\* Both kinds of credentials together.
AccessSpec == AccessInit /\ [][TokenNext \/ KeyNext]_accessVars

-----------------------------------------------------------------------------

ByToken(c, status) == At(c, "done") /\ call[c].status = status /\ call[c].token # NoToken

\* jwksEntry.get: a signing key the provider has retired is honoured for less
\* than the cache's lifetime plus the longest fetch, however requests, fetches,
\* the clock and the rotation interleave.
RetiredKeyBounded ==
    \A c \in Client :
        LET k == call[c].token.key IN
        ByToken(c, 200) /\ k \notin published => call[c].since < changed[k] + JwksTTL + MaxFetch

\* OIDCAuth: a good token is refused only so long after its key was published
\* or the provider answered an error page in its place, which is cached too.
GoodTokenRefusedBounded ==
    \A c \in Client :
        LET t == call[c].token IN
        ByToken(c, 401) /\ t.wellFormed /\ t.key \in published /\ call[c].since <= t.exp =>
            \/ call[c].since < changed[t.key] + JwksTTL + MaxFetch
            \/ call[c].since < poisoned + JwksTTL + MaxFetch

\* APIKeyAuth: no request that arrived after the answer to the revocation of
\* its key is let through (the lookup is not cached).
RevokedKeyRefused ==
    \A c \in Client :
        LET k == call[c].apiKey IN
        k # NoOne /\ call[c].status = 200 => revokedAt[k] >= call[c].since

\* OIDCAuth, APIKeyAuth: every request that presented credentials is answered;
\* no failed fetch leaves the others waiting for the lock.
EveryRequestAnswered == \A c \in Client : ~At(c, "idle") ~> At(c, "done")

\* OIDCAuth, APIKeyAuth: no decision rests on a key set or a key row older than
\* the cache and a fetch allow: retired keys, good tokens and revoked keys.
AccessCurrent == RetiredKeyBounded /\ GoodTokenRefusedBounded /\ RevokedKeyRefused
=============================================================================

------------------------------ MODULE AuthCache ------------------------------
(***************************************************************************)
(* Authorisation in the ingest gateway (ingest/gateway/src/main.rs,          *)
(* authorize): each replica caches, per API key, the tenant's configuration  *)
(* (retention, masking actions, remap program) for AUTH_CACHE_TTL, and looks *)
(* the key up in Postgres on a miss.  The lookup and the insertion into the  *)
(* cache are separate steps, stamped with the time of the INSERTION, and     *)
(* nothing keeps two requests from looking up the same key at once.          *)
(*                                                                           *)
(* The row a lookup returns is abstracted to a version: every update of the  *)
(* tenant's retention_config or transforms row starts a new one.             *)
(***************************************************************************)
EXTENDS Integers, Sequences

CONSTANTS
    AuthGateway,  \* gateway replicas
    AuthRequest,  \* concurrent ingest requests
    Key,          \* API keys of the tenant
    Ingests,      \* the keys with the logs:ingest scope
    AuthCacheTTL, \* AUTH_CACHE_TTL, in ticks
    MaxLookup,    \* how long a lookup may be under way, in ticks
    MaxInstant,   \* bound: ticks
    MaxVersions   \* bound: configuration changes

ASSUME AuthAssumption ==
    /\ Ingests \subseteq Key
    /\ AuthCacheTTL \in Nat \ {0}
    /\ MaxLookup \in Nat
    /\ MaxInstant \in Nat
    /\ MaxVersions \in Nat

VARIABLES
    instant,      \* the clock
    \* Postgres
    revoked_at,   \* [Key -> Nat \cup {NotYet}]: revocation or expiry
    changed_at,   \* Seq(Nat): the time each configuration version began
    \* gateways
    auth_cache,   \* [AuthGateway -> [Key -> Entry \cup {Absent}]]
    authz         \* [AuthRequest -> request state]

authVars == <<instant, revoked_at, changed_at, auth_cache, authz>>

NotYet == -1

Version == 1..(MaxVersions + 1)

Current == Len(changed_at)

Active(k) == revoked_at[k] = NotYet

\* (Auth, Instant); `read' is history: when the row was read.
Entry == [version : Version, at : Nat, read : Nat]

Absent == [version |-> 0, at |-> NotYet, read |-> NotYet]

\* "granted" keeps the version the request goes on with, and when the row was
\* read that it is from.
RequestState ==
    [pc : {"start", "lookup", "store", "granted", "refused"}, gw : AuthGateway, key : Key,
     began : Nat, version : 0..(MaxVersions + 1), read : Nat \cup {NotYet}]

\* A request that arrives at g with key k.
Arriving(g, k) ==
    [pc |-> "start", gw |-> g, key |-> k, began |-> 0, version |-> 0, read |-> NotYet]

AuthInit ==
    /\ instant = 0
    /\ revoked_at = [k \in Key |-> NotYet]
    /\ changed_at = <<0>>
    /\ auth_cache = [g \in AuthGateway |-> [k \in Key |-> Absent]]
    /\ authz \in [AuthRequest -> {Arriving(g, k) : g \in AuthGateway, k \in Key}]

-----------------------------------------------------------------------------
(* Time and administration *)

\* Postgres answers, or the connection fails, within MaxLookup.
Elapse ==
    /\ instant < MaxInstant
    /\ \A r \in AuthRequest : authz[r].pc \in {"lookup", "store"} => instant - authz[r].began < MaxLookup
    /\ instant' = instant + 1
    /\ UNCHANGED <<revoked_at, changed_at, auth_cache, authz>>

\* DELETE /v1/admin/api-keys/{id}, or expires_at passes.
RevokeAPIKey(k) ==
    /\ Active(k)
    /\ revoked_at' = [revoked_at EXCEPT ![k] = instant]
    /\ UNCHANGED <<instant, changed_at, auth_cache, authz>>

\* PUT /v1/admin/retention or /v1/admin/transforms.
UpdateRetention ==
    /\ Len(changed_at) <= MaxVersions
    /\ changed_at' = Append(changed_at, instant)
    /\ UNCHANGED <<instant, revoked_at, auth_cache, authz>>

-----------------------------------------------------------------------------
(* authorize *)

\* Mutant: an entry never goes stale.
FreshForever(entry) == entry # Absent

Fresh(entry) == entry # Absent /\ instant - entry.at < AuthCacheTTL

\* Mutant: a hit renews the entry.
CacheHitRenews(r) ==
    LET entry == auth_cache[authz[r].gw][authz[r].key]
    IN /\ authz[r].pc = "start"
       /\ Fresh(entry)
       /\ authz' = [authz EXCEPT ![r].pc = "granted", ![r].began = instant,
                             ![r].version = entry.version, ![r].read = entry.read]
       /\ auth_cache' = [auth_cache EXCEPT ![authz[r].gw][authz[r].key].at = instant]
       /\ UNCHANGED <<instant, revoked_at, changed_at>>

\* A cached entry younger than the TTL is used as it is.
CacheHit(r) ==
    LET entry == auth_cache[authz[r].gw][authz[r].key]
    IN /\ authz[r].pc = "start"
       /\ Fresh(entry)
       /\ authz' = [authz EXCEPT ![r].pc = "granted", ![r].began = instant,
                             ![r].version = entry.version, ![r].read = entry.read]
       /\ UNCHANGED <<instant, revoked_at, changed_at, auth_cache>>

CacheMiss(r) ==
    /\ authz[r].pc = "start"
    /\ ~Fresh(auth_cache[authz[r].gw][authz[r].key])
    /\ authz' = [authz EXCEPT ![r].pc = "lookup", ![r].began = instant]
    /\ UNCHANGED <<instant, revoked_at, changed_at, auth_cache>>

\* The SELECT: no row for a revoked or expired key (401), 403 without the scope.
\* Neither refusal is cached.
Query(r) ==
    /\ authz[r].pc = "lookup"
    /\ authz' = IF Active(authz[r].key) /\ authz[r].key \in Ingests
              THEN [authz EXCEPT ![r].pc = "store", ![r].version = Current, ![r].read = instant]
              ELSE [authz EXCEPT ![r].pc = "refused"]
    /\ UNCHANGED <<instant, revoked_at, changed_at, auth_cache>>

\* The pool or the query fails: 500.
QueryFails(r) ==
    /\ authz[r].pc = "lookup"
    /\ authz' = [authz EXCEPT ![r].pc = "refused"]
    /\ UNCHANGED <<instant, revoked_at, changed_at, auth_cache>>

\* The entry is inserted with Instant::now(), whatever is there already.
Store(r) ==
    /\ authz[r].pc = "store"
    /\ auth_cache' = [auth_cache EXCEPT ![authz[r].gw][authz[r].key] =
                        [version |-> authz[r].version, at |-> instant, read |-> authz[r].read]]
    /\ authz' = [authz EXCEPT ![r].pc = "granted", ![r].began = instant]
    /\ UNCHANGED <<instant, revoked_at, changed_at>>

\* The request is answered; its slot serves the next one.
Finish(r, g, k) ==
    /\ authz[r].pc \in {"granted", "refused"}
    /\ authz' = [authz EXCEPT ![r] = Arriving(g, k)]
    /\ UNCHANGED <<instant, revoked_at, changed_at, auth_cache>>

\* A restarted replica has an empty cache and no requests.
Restart(g) ==
    /\ auth_cache' = [auth_cache EXCEPT ![g] = [k \in Key |-> Absent]]
    /\ authz' = [r \in AuthRequest |-> IF authz[r].gw = g THEN [authz[r] EXCEPT !.pc = "refused"]
                                                  ELSE authz[r]]
    /\ UNCHANGED <<instant, revoked_at, changed_at>>

Authorize(r) == CacheHit(r) \/ CacheMiss(r) \/ Query(r) \/ QueryFails(r) \/ Store(r)

AuthNext ==
    \/ Elapse
    \/ UpdateRetention
    \/ \E k \in Key : RevokeAPIKey(k)
    \/ \E r \in AuthRequest : Authorize(r)
    \/ \E r \in AuthRequest, g \in AuthGateway, k \in Key : Finish(r, g, k)
    \/ \E g \in AuthGateway : Restart(g)

AuthSpec == AuthInit /\ [][AuthNext]_authVars

-----------------------------------------------------------------------------
(* Properties *)

\* Type invariant of the clock, the Postgres rows, the caches and the requests.
AuthTypeOK ==
    /\ instant \in Nat
    /\ revoked_at \in [Key -> Nat \cup {NotYet}]
    /\ changed_at \in Seq(Nat) /\ Current \in Version
    /\ auth_cache \in [AuthGateway -> [Key -> Entry \cup {Absent}]]
    /\ authz \in [AuthRequest -> RequestState]

\* Revocation reaches every replica within the cache TTL plus the time a lookup
\* may be under way: a lookup that read the row just before the revocation may
\* store it later, under a fresh timestamp.
RevocationBounded ==
    \A r \in AuthRequest :
        authz[r].pc = "granted" /\ ~Active(authz[r].key)
            => authz[r].began - revoked_at[authz[r].key] < AuthCacheTTL + MaxLookup

\* "the gateway picks up the change ... on its next auth-cache refresh"
\* (transforms.go:39): no request runs with masking actions, a retention or a
\* remap program superseded longer ago than that, even when an older lookup
\* overwrites the entry of a newer one.
ConfigStalenessBounded ==
    \A r \in AuthRequest :
        authz[r].pc = "granted" /\ authz[r].version < Current
            => authz[r].began - changed_at[authz[r].version + 1] < AuthCacheTTL + MaxLookup

=============================================================================

-------------------------- MODULE AuthCacheProofs --------------------------
(***************************************************************************)
(* Staleness of the gateway's authorisation cache, for any number of        *)
(* replicas, requests and keys and for any TTL and lookup time.             *)
(*                                                                          *)
(* The bounds are not inductive: what carries them is how old the ROW       *)
(* behind an entry, a pending insertion or a grant is (its `read' time),    *)
(* and that the row was current when it was read.                           *)
(***************************************************************************)
EXTENDS AuthCache, TLAPS

\* The row a request or an entry holds was read no later than now, while the
\* key was active and the version was the current one.
RowWasCurrent(k, v, read) ==
    /\ v \in 1..Current
    /\ read \in 0..instant
    /\ Active(k) \/ read <= revoked_at[k]
    /\ v < Current => read <= changed_at[v + 1]

\* An entry is stamped at most MaxLookup after its row was read.
EntriesAreTimely ==
    \A g \in AuthGateway, k \in Key :
        auth_cache[g][k] # Absent =>
            /\ RowWasCurrent(k, auth_cache[g][k].version, auth_cache[g][k].read)
            /\ auth_cache[g][k].at <= instant
            /\ auth_cache[g][k].at - auth_cache[g][k].read <= MaxLookup

\* A lookup, and the insertion that follows it, are under way for at most
\* MaxLookup.
LookupsAreTimely ==
    \A r \in AuthRequest :
        /\ authz[r].pc \in {"lookup", "store"} =>
             authz[r].began <= instant /\ instant - authz[r].began <= MaxLookup
        /\ authz[r].pc = "store" =>
             /\ RowWasCurrent(authz[r].key, authz[r].version, authz[r].read)
             /\ authz[r].began <= authz[r].read

\* A granted request goes on with a row that is younger than the bound.
GrantsAreTimely ==
    \A r \in AuthRequest :
        authz[r].pc = "granted" =>
            /\ RowWasCurrent(authz[r].key, authz[r].version, authz[r].read)
            /\ authz[r].began - authz[r].read < AuthCacheTTL + MaxLookup

IInv == AuthTypeOK /\ EntriesAreTimely /\ LookupsAreTimely /\ GrantsAreTimely

\* The initial state: nothing is cached, nothing is under way.
LEMMA InitInv == AuthInit => IInv
<1> SUFFICES ASSUME AuthInit PROVE IInv
    OBVIOUS
<1> USE AuthAssumption DEF AuthInit, NotYet, Absent, Version, Current, RequestState, Arriving
<1>1. AuthTypeOK
    BY DEF AuthTypeOK
<1>2. EntriesAreTimely
    BY DEF EntriesAreTimely
<1>3. LookupsAreTimely /\ GrantsAreTimely
    BY DEF LookupsAreTimely, GrantsAreTimely
<1> QED
    BY <1>1, <1>2, <1>3 DEF IInv

\* What time and the administrator do (a tick, a revocation, a new version)
\* never takes away from a row that it was current when it was read.
LEMMA RowStaysCurrent ==
    ASSUME AuthTypeOK, NEW k \in Key, NEW v, NEW read, RowWasCurrent(k, v, read),
           \/ Elapse
           \/ UpdateRetention
           \/ \E j \in Key : RevokeAPIKey(j)
           \/ UNCHANGED <<instant, revoked_at, changed_at>>
    PROVE  RowWasCurrent(k, v, read)'
<1> USE DEF RowWasCurrent, AuthTypeOK, Active, Current, NotYet
<1>1. CASE Elapse
    BY <1>1 DEF Elapse
<1>2. CASE UpdateRetention
    <2>1. instant \in Nat /\ changed_at \in Seq(Nat)
        OBVIOUS
    <2>2. Len(changed_at') = Len(changed_at) + 1
        BY <1>2, <2>1 DEF UpdateRetention
    <2>3. \A i \in 1..Len(changed_at) : changed_at'[i] = changed_at[i]
        BY <1>2, <2>1 DEF UpdateRetention
    <2>4. changed_at'[Len(changed_at) + 1] = instant
        BY <1>2, <2>1 DEF UpdateRetention
    <2>5. Len(changed_at) \in Nat
        BY <2>1
    <2> QED
        BY <1>2, <2>2, <2>3, <2>4, <2>5 DEF UpdateRetention
<1>3. CASE \E j \in Key : RevokeAPIKey(j)
    BY <1>3 DEF RevokeAPIKey
<1>4. CASE UNCHANGED <<instant, revoked_at, changed_at>>
    BY <1>4
<1> QED
    BY <1>1, <1>2, <1>3, <1>4

\* Time and administration preserve the invariant.
LEMMA EnvironmentInv ==
    ASSUME IInv, Elapse \/ UpdateRetention \/ \E k \in Key : RevokeAPIKey(k)
    PROVE  IInv'
<1>0. auth_cache' = auth_cache /\ authz' = authz
    BY DEF Elapse, UpdateRetention, RevokeAPIKey
<1>00. instant \in Nat /\ instant' \in Nat /\ instant <= instant'
    BY DEF IInv, AuthTypeOK, Elapse, UpdateRetention, RevokeAPIKey
<1>1. AuthTypeOK'
    <2>1. CASE Elapse
        BY <2>1 DEF IInv, AuthTypeOK, Elapse, Current
    <2>2. CASE UpdateRetention
        <3>1. changed_at' \in Seq(Nat) /\ Len(changed_at') = Len(changed_at) + 1
            BY <2>2 DEF IInv, AuthTypeOK, UpdateRetention
        <3>2. Len(changed_at') \in 1..(MaxVersions + 1)
            BY <2>2, <3>1, AuthAssumption DEF IInv, AuthTypeOK, UpdateRetention, Current, Version
        <3> QED
            BY <2>2, <3>1, <3>2 DEF IInv, AuthTypeOK, UpdateRetention, Current, Version
    <2>3. CASE \E k \in Key : RevokeAPIKey(k)
        BY <2>3 DEF IInv, AuthTypeOK, RevokeAPIKey, Current
    <2> QED
        BY <2>1, <2>2, <2>3
<1>2. EntriesAreTimely'
    <2> SUFFICES ASSUME NEW g \in AuthGateway, NEW k \in Key, auth_cache[g][k] # Absent
                 PROVE  /\ RowWasCurrent(k, auth_cache[g][k].version, auth_cache[g][k].read)'
                        /\ auth_cache[g][k].at <= instant'
                        /\ auth_cache[g][k].at - auth_cache[g][k].read <= MaxLookup
        BY <1>0 DEF EntriesAreTimely
    <2>1. RowWasCurrent(k, auth_cache[g][k].version, auth_cache[g][k].read)
        BY DEF IInv, EntriesAreTimely
    <2>2. RowWasCurrent(k, auth_cache[g][k].version, auth_cache[g][k].read)'
        BY <1>0, <2>1, RowStaysCurrent DEF IInv
    <2>3. auth_cache[g][k] \in Entry
        BY DEF IInv, AuthTypeOK
    <2> QED
        BY <1>00, <2>2, <2>3 DEF IInv, EntriesAreTimely, Entry
<1>3. LookupsAreTimely'
    <2> SUFFICES ASSUME NEW r \in AuthRequest
                 PROVE  /\ authz[r].pc \in {"lookup", "store"} =>
                             authz[r].began <= instant' /\ instant' - authz[r].began <= MaxLookup
                        /\ authz[r].pc = "store" =>
                             /\ RowWasCurrent(authz[r].key, authz[r].version, authz[r].read)'
                             /\ authz[r].began <= authz[r].read
        BY <1>0 DEF LookupsAreTimely
    <2>1. authz[r] \in RequestState
        BY DEF IInv, AuthTypeOK
    <2>2. authz[r].pc \in {"lookup", "store"} =>
            authz[r].began <= instant' /\ instant' - authz[r].began <= MaxLookup
        BY <2>1, AuthAssumption
        DEF IInv, AuthTypeOK, LookupsAreTimely, RequestState, Elapse, UpdateRetention, RevokeAPIKey
    <2>3. authz[r].pc = "store" => RowWasCurrent(authz[r].key, authz[r].version, authz[r].read)'
        BY <1>0, <2>1, RowStaysCurrent DEF IInv, LookupsAreTimely, RequestState
    <2> QED
        BY <2>2, <2>3 DEF IInv, LookupsAreTimely
<1>4. GrantsAreTimely'
    <2> SUFFICES ASSUME NEW r \in AuthRequest, authz[r].pc = "granted"
                 PROVE  /\ RowWasCurrent(authz[r].key, authz[r].version, authz[r].read)'
                        /\ authz[r].began - authz[r].read < AuthCacheTTL + MaxLookup
        BY <1>0 DEF GrantsAreTimely
    <2>1. authz[r] \in RequestState
        BY DEF IInv, AuthTypeOK
    <2>2. RowWasCurrent(authz[r].key, authz[r].version, authz[r].read)'
        BY <1>0, <2>1, RowStaysCurrent DEF IInv, GrantsAreTimely, RequestState
    <2> QED
        BY <2>2 DEF IInv, GrantsAreTimely
<1> QED
    BY <1>1, <1>2, <1>3, <1>4 DEF IInv

\* authorize preserves the invariant: a hit only uses an entry younger than the
\* TTL, a lookup reads the current row, an insertion comes within MaxLookup.
LEMMA AuthorizeInv ==
    ASSUME IInv, NEW r \in AuthRequest, Authorize(r)
    PROVE  IInv'
<1>0. instant' = instant /\ revoked_at' = revoked_at /\ changed_at' = changed_at
    BY DEF Authorize, CacheHit, CacheMiss, Query, QueryFails, Store
<1>1. authz[r] \in RequestState /\ instant \in Nat /\ Current \in Version
    BY DEF IInv, AuthTypeOK
<1>2. \A k, v, read : RowWasCurrent(k, v, read)' <=> RowWasCurrent(k, v, read)
    BY <1>0 DEF RowWasCurrent, Active, Current
<1>3. CASE CacheHit(r)
    <2> DEFINE entry == auth_cache[authz[r].gw][authz[r].key]
    <2>1. /\ entry \in Entry
          /\ entry # Absent
          /\ instant - entry.at < AuthCacheTTL
          /\ RowWasCurrent(authz[r].key, entry.version, entry.read)
          /\ entry.at - entry.read <= MaxLookup
        BY <1>1, <1>3 DEF IInv, AuthTypeOK, CacheHit, Fresh, EntriesAreTimely, RequestState
    <2> HIDE DEF entry
    <2>2. authz' = [authz EXCEPT ![r].pc = "granted", ![r].began = instant,
                             ![r].version = entry.version, ![r].read = entry.read]
        BY <1>3 DEF CacheHit, entry
    <2>3. auth_cache' = auth_cache
        BY <1>3 DEF CacheHit
    <2>4. instant - entry.read < AuthCacheTTL + MaxLookup
        BY <1>1, <2>1, AuthAssumption DEF Entry
    <2>5. AuthTypeOK'
        <3>1. entry.version \in 0..(MaxVersions + 1) /\ entry.read \in Nat
            BY <2>1, AuthAssumption DEF Entry, Version
        <3>2. [authz[r] EXCEPT !.pc = "granted", !.began = instant,
                             !.version = entry.version, !.read = entry.read] \in RequestState
            BY <1>1, <3>1 DEF RequestState
        <3>3. authz' \in [AuthRequest -> RequestState]
            BY <2>2, <3>2 DEF IInv, AuthTypeOK
        <3> QED
            BY <1>0, <2>3, <3>3 DEF IInv, AuthTypeOK, Current
    <2>6. EntriesAreTimely'
        BY <1>0, <1>2, <2>3 DEF IInv, EntriesAreTimely
    <2>7. LookupsAreTimely'
        BY <1>0, <1>2, <2>2 DEF IInv, AuthTypeOK, LookupsAreTimely
    <2>8. GrantsAreTimely'
        BY <1>0, <1>2, <2>1, <2>2, <2>4 DEF IInv, AuthTypeOK, GrantsAreTimely, RequestState
    <2> QED
        BY <2>5, <2>6, <2>7, <2>8 DEF IInv
<1>4. CASE CacheMiss(r)
    <2>1. authz' = [authz EXCEPT ![r].pc = "lookup", ![r].began = instant] /\ auth_cache' = auth_cache
        BY <1>4 DEF CacheMiss
    <2>2. AuthTypeOK'
        BY <1>0, <1>1, <2>1 DEF IInv, AuthTypeOK, RequestState, Current
    <2>3. EntriesAreTimely'
        BY <1>0, <1>2, <2>1 DEF IInv, EntriesAreTimely
    <2>4. LookupsAreTimely'
        BY <1>0, <1>1, <1>2, <2>1, AuthAssumption DEF IInv, AuthTypeOK, LookupsAreTimely
    <2>5. GrantsAreTimely'
        BY <1>0, <1>2, <2>1 DEF IInv, AuthTypeOK, GrantsAreTimely
    <2> QED
        BY <2>2, <2>3, <2>4, <2>5 DEF IInv
<1>5. CASE Query(r) \/ QueryFails(r)
    <2>1. auth_cache' = auth_cache
        BY <1>5 DEF Query, QueryFails
    <2>2. EntriesAreTimely'
        BY <1>0, <1>2, <2>1 DEF IInv, EntriesAreTimely
    <2>3. CASE authz' = [authz EXCEPT ![r].pc = "refused"]
        <3>1. AuthTypeOK'
            BY <1>0, <1>1, <2>1, <2>3 DEF IInv, AuthTypeOK, RequestState, Current
        <3>2. LookupsAreTimely' /\ GrantsAreTimely'
            BY <1>0, <1>2, <2>3 DEF IInv, AuthTypeOK, LookupsAreTimely, GrantsAreTimely
        <3> QED
            BY <2>2, <3>1, <3>2 DEF IInv
    <2>4. CASE /\ authz[r].pc = "lookup"
               /\ Active(authz[r].key)
               /\ authz' = [authz EXCEPT ![r].pc = "store", ![r].version = Current, ![r].read = instant]
        <3>1. RowWasCurrent(authz[r].key, Current, instant)
            BY <1>1, <2>4, AuthAssumption DEF RowWasCurrent, Version
        <3>2. AuthTypeOK'
            <4>1. Current \in 0..(MaxVersions + 1)
                BY <1>1, AuthAssumption DEF Version
            <4>2. [authz[r] EXCEPT !.pc = "store", !.version = Current, !.read = instant]
                    \in RequestState
                BY <1>1, <4>1 DEF RequestState
            <4>3. authz' \in [AuthRequest -> RequestState]
                BY <2>4, <4>2 DEF IInv, AuthTypeOK
            <4> QED
                BY <1>0, <2>1, <4>3 DEF IInv, AuthTypeOK, Current
        <3>3. authz[r].began <= instant
            BY <2>4 DEF IInv, LookupsAreTimely
        <3>4. LookupsAreTimely'
            BY <1>0, <1>2, <2>4, <3>1, <3>3 DEF IInv, AuthTypeOK, LookupsAreTimely
        <3>5. GrantsAreTimely'
            BY <1>0, <1>2, <2>4 DEF IInv, AuthTypeOK, GrantsAreTimely
        <3> QED
            BY <2>2, <3>2, <3>4, <3>5 DEF IInv
    <2> QED
        BY <1>5, <2>3, <2>4 DEF Query, QueryFails
<1>6. CASE Store(r)
    <2> DEFINE entry == [version |-> authz[r].version, at |-> instant, read |-> authz[r].read]
    <2>1. /\ RowWasCurrent(authz[r].key, authz[r].version, authz[r].read)
          /\ instant - authz[r].read <= MaxLookup
          /\ authz[r].key \in Key /\ authz[r].gw \in AuthGateway
        BY <1>1, <1>6, AuthAssumption
        DEF IInv, Store, LookupsAreTimely, RowWasCurrent, RequestState
    <2>2. entry \in Entry
        BY <1>1, <2>1, AuthAssumption DEF RowWasCurrent, Entry, Version
    <2> HIDE DEF entry
    <2>3. auth_cache' = [auth_cache EXCEPT ![authz[r].gw][authz[r].key] = entry]
        BY <1>6 DEF Store, entry
    <2>4. authz' = [authz EXCEPT ![r].pc = "granted", ![r].began = instant]
        BY <1>6 DEF Store
    <2>5. AuthTypeOK'
        BY <1>0, <1>1, <2>1, <2>2, <2>3, <2>4 DEF IInv, AuthTypeOK, RequestState, Current
    <2>6. EntriesAreTimely'
        <3> SUFFICES ASSUME NEW g \in AuthGateway, NEW k \in Key, auth_cache'[g][k] # Absent
                     PROVE  /\ RowWasCurrent(k, auth_cache'[g][k].version, auth_cache'[g][k].read)
                            /\ auth_cache'[g][k].at <= instant
                            /\ auth_cache'[g][k].at - auth_cache'[g][k].read <= MaxLookup
            BY <1>0, <1>2 DEF EntriesAreTimely
        <3>1. CASE g = authz[r].gw /\ k = authz[r].key
            <4>1. auth_cache'[g][k] = entry
                BY <2>1, <2>3, <3>1 DEF IInv, AuthTypeOK
            <4> QED
                BY <1>1, <2>1, <3>1, <4>1 DEF entry
        <3>2. CASE ~(g = authz[r].gw /\ k = authz[r].key)
            <4>1. auth_cache'[g][k] = auth_cache[g][k]
                BY <2>1, <2>3, <3>2 DEF IInv, AuthTypeOK
            <4> QED
                BY <4>1 DEF IInv, EntriesAreTimely
        <3> QED
            BY <3>1, <3>2
    <2>7. LookupsAreTimely'
        BY <1>0, <1>2, <2>4 DEF IInv, AuthTypeOK, LookupsAreTimely
    <2>8. instant - authz[r].read < AuthCacheTTL + MaxLookup
        BY <1>1, <2>1, AuthAssumption DEF RowWasCurrent
    <2>9. GrantsAreTimely'
        BY <1>0, <1>2, <2>1, <2>4, <2>8 DEF IInv, AuthTypeOK, GrantsAreTimely
    <2> QED
        BY <2>5, <2>6, <2>7, <2>9 DEF IInv
<1> QED
    BY <1>3, <1>4, <1>5, <1>6 DEF Authorize

\* The end of a request and the restart of a replica only forget.
LEMMA ForgetInv ==
    ASSUME IInv,
           \/ \E r \in AuthRequest, g \in AuthGateway, k \in Key : Finish(r, g, k)
           \/ \E g \in AuthGateway : Restart(g)
    PROVE  IInv'
<1>0. instant' = instant /\ revoked_at' = revoked_at /\ changed_at' = changed_at
    BY DEF Finish, Restart
<1>1. \A k, v, read : RowWasCurrent(k, v, read)' <=> RowWasCurrent(k, v, read)
    BY <1>0 DEF RowWasCurrent, Active, Current
<1>2. CASE \E r \in AuthRequest, g \in AuthGateway, k \in Key : Finish(r, g, k)
    <2> PICK r \in AuthRequest, g \in AuthGateway, k \in Key : Finish(r, g, k)
        BY <1>2
    <2>1. authz' = [authz EXCEPT ![r] = Arriving(g, k)] /\ auth_cache' = auth_cache
        BY DEF Finish
    <2>2. Arriving(g, k) \in RequestState
        BY AuthAssumption DEF Arriving, RequestState
    <2>3. Arriving(g, k).pc = "start"
        BY DEF Arriving
    <2>4. AuthTypeOK'
        BY <1>0, <2>1, <2>2 DEF IInv, AuthTypeOK, Current
    <2>5. EntriesAreTimely'
        BY <1>0, <1>1, <2>1 DEF IInv, EntriesAreTimely
    <2>6. LookupsAreTimely' /\ GrantsAreTimely'
        BY <1>0, <1>1, <2>1, <2>3 DEF IInv, AuthTypeOK, LookupsAreTimely, GrantsAreTimely
    <2> QED
        BY <2>4, <2>5, <2>6 DEF IInv
<1>3. CASE \E g \in AuthGateway : Restart(g)
    <2> PICK g \in AuthGateway : Restart(g)
        BY <1>3
    <2>1. /\ auth_cache' = [auth_cache EXCEPT ![g] = [k \in Key |-> Absent]]
          /\ authz' = [r \in AuthRequest |-> IF authz[r].gw = g THEN [authz[r] EXCEPT !.pc = "refused"]
                                                        ELSE authz[r]]
        BY DEF Restart
    <2>2. \A r \in AuthRequest : authz'[r] \in RequestState
        BY <2>1 DEF IInv, AuthTypeOK, RequestState
    <2>3. \A r \in AuthRequest : authz'[r] = authz[r] \/ authz'[r].pc = "refused"
        BY <2>1 DEF IInv, AuthTypeOK, RequestState
    <2>4. AuthTypeOK'
        BY <1>0, <2>1, <2>2 DEF IInv, AuthTypeOK, Current
    <2>5. EntriesAreTimely'
        BY <1>0, <1>1, <2>1 DEF IInv, AuthTypeOK, EntriesAreTimely
    <2>6. LookupsAreTimely' /\ GrantsAreTimely'
        BY <1>0, <1>1, <2>3 DEF IInv, LookupsAreTimely, GrantsAreTimely
    <2> QED
        BY <2>4, <2>5, <2>6 DEF IInv
<1> QED
    BY <1>2, <1>3

\* IInv is an invariant of the specification.
LEMMA Invariance == AuthSpec => []IInv
<1>1. IInv /\ [AuthNext]_authVars => IInv'
    <2> SUFFICES ASSUME IInv, [AuthNext]_authVars PROVE IInv'
        OBVIOUS
    <2>1. CASE Elapse \/ UpdateRetention \/ \E k \in Key : RevokeAPIKey(k)
        BY <2>1, EnvironmentInv
    <2>2. CASE \E r \in AuthRequest : Authorize(r)
        BY <2>2, AuthorizeInv
    <2>3. CASE \/ \E r \in AuthRequest, g \in AuthGateway, k \in Key : Finish(r, g, k)
               \/ \E g \in AuthGateway : Restart(g)
        BY <2>3, ForgetInv
    <2>4. CASE UNCHANGED authVars
        BY <2>4 DEF authVars, IInv, AuthTypeOK, EntriesAreTimely, LookupsAreTimely, GrantsAreTimely,
                    RowWasCurrent, Active, Current
    <2> QED
        BY <2>1, <2>2, <2>3, <2>4 DEF AuthNext
<1> QED
    BY <1>1, InitInv, PTL DEF AuthSpec

\* A revoked or expired key is refused by every replica at the latest
\* AuthCacheTTL + MaxLookup after its revocation, whatever lookups were under
\* way and however requests overwrote each other's entries (main.rs:459-532).
THEOREM AuthRevocationBounded == AuthSpec => []RevocationBounded
<1>1. IInv => RevocationBounded
    <2> SUFFICES ASSUME IInv, NEW r \in AuthRequest, authz[r].pc = "granted", ~Active(authz[r].key)
                 PROVE  authz[r].began - revoked_at[authz[r].key] < AuthCacheTTL + MaxLookup
        BY DEF RevocationBounded
    <2>1. authz[r].began - authz[r].read < AuthCacheTTL + MaxLookup /\ authz[r].read \in Nat
          /\ authz[r].read <= revoked_at[authz[r].key]
        BY DEF IInv, GrantsAreTimely, RowWasCurrent
    <2>2. authz[r].began \in Nat /\ authz[r].key \in Key
        BY DEF IInv, AuthTypeOK, RequestState
    <2>3. revoked_at[authz[r].key] \in Nat
        BY <2>2 DEF IInv, AuthTypeOK, Active
    <2> QED
        BY <2>1, <2>2, <2>3, AuthAssumption
<1> QED
    BY <1>1, Invariance, PTL

\* A request runs with a configuration that was current at most
\* AuthCacheTTL + MaxLookup ago.
THEOREM AuthConfigStalenessBounded == AuthSpec => []ConfigStalenessBounded
<1>1. IInv => ConfigStalenessBounded
    <2> SUFFICES ASSUME IInv, NEW r \in AuthRequest, authz[r].pc = "granted", authz[r].version < Current
                 PROVE  authz[r].began - changed_at[authz[r].version + 1] < AuthCacheTTL + MaxLookup
        BY DEF ConfigStalenessBounded
    <2>1. authz[r].began - authz[r].read < AuthCacheTTL + MaxLookup /\ authz[r].read \in Nat
          /\ authz[r].version \in 1..Current /\ authz[r].read <= changed_at[authz[r].version + 1]
        BY DEF IInv, GrantsAreTimely, RowWasCurrent
    <2>2. authz[r].began \in Nat
        BY DEF IInv, AuthTypeOK, RequestState
    <2>3. changed_at[authz[r].version + 1] \in Nat
        BY <2>1 DEF IInv, AuthTypeOK, Current
    <2> QED
        BY <2>1, <2>2, <2>3, AuthAssumption
<1> QED
    BY <1>1, Invariance, PTL

=============================================================================

------------------------------ MODULE MCGateway ------------------------------
(* The ingest gateway: authorisation from the cache, the rate limit, and the  *)
(* handlers in front of the stream and the writers.  They share no state that *)
(* is modelled, so a behaviour exercises one of them, chosen at the start.    *)
EXTENDS RateLimit, AuthCache, Ingest

VARIABLE focus     \* the part under load

gatewayVars == <<focus, rateVars, authVars, allVars>>

\* A log line, its retry (m1 and m2 are attempts at i1), and another log line
\* that the PII gate drops.
MCSignal == [m \in Message |-> "logs"]
MCIds == [m \in Message |-> m]
MCInputOf == [m \in Message |-> IF m = "m3" THEN "i2" ELSE "i1"]
MCTrace == [i \in Input |-> "none"]

GatewayInit ==
    /\ focus \in {"limit", "cache", "publish"}
    /\ RateInit /\ AuthInit /\ IngestInit
    /\ focus # "cache" => \A r \in AuthRequest : authz[r].gw = CHOOSE g \in AuthGateway : TRUE

LimitStep == focus = "limit" /\ RateNext /\ UNCHANGED <<focus, authVars, allVars>>
CacheStep == focus = "cache" /\ AuthNext /\ UNCHANGED <<focus, rateVars, allVars>>
PublishStep == focus = "publish" /\ IngestNext /\ UNCHANGED <<focus, rateVars, authVars>>

GatewayNext == LimitStep \/ CacheStep \/ PublishStep

GatewaySpec == GatewayInit /\ [][GatewayNext]_gatewayVars
=============================================================================

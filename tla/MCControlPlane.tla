--------------------------- MODULE MCControlPlane ---------------------------
(* The stateful handlers of the query API and of the alerting engine's        *)
(* delivery, each with its own concurrent callers.  They share no state, so a *)
(* behaviour exercises one of them, chosen at the start.                      *)
EXTENDS Access, Copilot, DeadLetters, Erasure, IncidentRoom, Webhooks

VARIABLE focus     \* the component under load

vars == <<focus, accessVars, copilotVars, dlqVars, erasureVars, roomVars, reportVars, webhookVars>>

Tokens == {[key |-> k, exp |-> e, wellFormed |-> TRUE] : k \in SigningKey, e \in {1, AccessTime}}
Records == {[tenant |-> t, table |-> "metrics", user |-> "u", time |-> 1] : t \in {"mine", "other"}}
           \cup {[tenant |-> "mine", table |-> "metrics", user |-> "v", time |-> 2],
                 [tenant |-> "mine", table |-> "logs", user |-> "u", time |-> 1]}

Init ==
    /\ focus \in {"tokens", "keys", "flags", "chat", "dlq", "erasure", "room", "report", "webhooks"}
    /\ AccessInit /\ CopilotInit /\ DlqInit /\ ErasureInit /\ RoomInit /\ ReportInit /\ WebhookInit
    /\ focus # "tokens" => published = {}
    /\ focus \notin {"flags", "chat"} => ~ai_features.exists
    /\ focus # "erasure" => stored = {}
    /\ focus # "report" => incident.severity = "low"
    /\ focus # "webhooks" => \A e \in Endpoint : endpoints[e] = "absent"

OneAdmin == {CHOOSE a \in Admin : TRUE}

AccessStep ==
    /\ (focus = "tokens" /\ TokenNext) \/ (focus = "keys" /\ KeyNext)
    /\ UNCHANGED <<focus, copilotVars, dlqVars, erasureVars, roomVars, reportVars, webhookVars>>
CopilotStep ==
    /\ (focus = "flags" /\ PutNext(Admin, Flag)) \/ (focus = "chat" /\ (PutNext(OneAdmin, {"omitted"}) \/ AskNext))
    /\ UNCHANGED <<focus, accessVars, dlqVars, erasureVars, roomVars, reportVars, webhookVars>>
DlqStep ==
    /\ focus = "dlq" /\ DlqNext
    /\ UNCHANGED <<focus, accessVars, copilotVars, erasureVars, roomVars, reportVars, webhookVars>>
ErasureStep ==
    /\ focus = "erasure" /\ ErasureNext
    /\ UNCHANGED <<focus, accessVars, copilotVars, dlqVars, roomVars, reportVars, webhookVars>>
RoomStep ==
    /\ focus = "room" /\ RoomNext
    /\ UNCHANGED <<focus, accessVars, copilotVars, dlqVars, erasureVars, reportVars, webhookVars>>
ReportStep ==
    /\ focus = "report" /\ ReportNext
    /\ UNCHANGED <<focus, accessVars, copilotVars, dlqVars, erasureVars, roomVars, webhookVars>>
WebhookStep ==
    /\ focus = "webhooks" /\ WebhookNext
    /\ UNCHANGED <<focus, accessVars, copilotVars, dlqVars, erasureVars, roomVars, reportVars>>

Next == AccessStep \/ CopilotStep \/ DlqStep \/ ErasureStep \/ RoomStep \/ ReportStep \/ WebhookStep

\* A handler runs on and the fetch ends (the client's context or the provider's
\* answer ends it); sync.RWMutex does not starve a writer.  The goroutine of a
\* dispatch runs on, every attempt ending by its own timeout.
Fairness ==
    /\ \A c \in Client : /\ WF_accessVars(focus = "tokens" /\ ServeToken(c))
                         /\ WF_accessVars(focus = "keys" /\ ServeKey(c))
    /\ \A v \in Event : WF_webhookVars(focus = "webhooks" /\ Deliver(v))

Spec == Init /\ [][Next]_vars /\ Fairness
=============================================================================

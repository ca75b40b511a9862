------------------------------ MODULE Webhooks ------------------------------
(***************************************************************************)
(* Outbound webhooks (domains/webhook, platform/api/handler/webhooks.go) as   *)
(* the alerting engine calls them: a goroutine per event, thirty seconds for  *)
(* all endpoints together, ten for one attempt, three attempts each, a pause  *)
(* between two.  Loading the endpoints, each attempt, whatever comes of it,   *)
(* and each pause take time, in units longer than a pause.  The receiver may  *)
(* have got a request whose answer is lost, and may redirect it.              *)
(***************************************************************************)
EXTENDS Integers, Sequences, FiniteSets, SequencesExt

CONSTANTS
    Endpoint,       \* webhook_endpoints rows of the tenant
    Event,          \* events dispatched, each by its own goroutine
    maxAttempts,    \* attempts per endpoint
    ClientTimeout,  \* time one attempt may take, redirects included
    Deadline,       \* time the dispatch's context allows
    MaxRedirects    \* redirects http.Client follows in one attempt

ASSUME WebhookAssumption ==
    IsFiniteSet(Endpoint) /\ maxAttempts \in Nat \ {0} /\ {ClientTimeout, Deadline, MaxRedirects} \subseteq Nat

VARIABLES
    endpoints,      \* [Endpoint -> "absent" | "active" | "deleted"]
    dispatch,       \* [Event -> goroutine]
    received,       \* [Event -> [Endpoint -> POSTs its receiver, or the one it redirects to, got]]
    retriable,      \* history, [Event -> [Endpoint -> attempts that got there and are to be retried]]
    redirected,     \* history, [Event -> [Endpoint -> POSTs repeated by a redirect]]
    deletedBefore   \* history, [Event -> endpoints deleted before it was dispatched]

webhookVars == <<endpoints, dispatch, received, retriable, redirected, deletedBefore>>

NoDispatch == [pc |-> "idle", loaded |-> {}, left |-> <<>>, attempt |-> 0, elapsed |-> 0, tried |-> {}]

WebhookInit ==
    /\ endpoints \in [Endpoint -> {"absent", "active"}]
    /\ dispatch = [v \in Event |-> NoDispatch]
    /\ received = [v \in Event |-> [e \in Endpoint |-> 0]]
    /\ retriable = [v \in Event |-> [e \in Endpoint |-> 0]]
    /\ redirected = [v \in Event |-> [e \in Endpoint |-> 0]]
    /\ deletedBefore = [v \in Event |-> {}]

CreateWebhook(e) ==
    /\ endpoints[e] = "absent"
    /\ endpoints' = [endpoints EXCEPT ![e] = "active"]
    /\ UNCHANGED <<dispatch, received, retriable, redirected, deletedBefore>>

DeleteWebhook(e) ==
    /\ endpoints[e] = "active"
    /\ endpoints' = [endpoints EXCEPT ![e] = "deleted"]
    /\ UNCHANGED <<dispatch, received, retriable, redirected, deletedBefore>>

loadEndpoints == {e \in Endpoint : endpoints[e] = "active"}

\* The query takes t; its rows come in any order; if it fails, or finds none,
\* the dispatch ends.
Dispatch(v, ok, t) ==
    /\ dispatch[v].pc = "idle"
    /\ \E order \in SetToSeqs(loadEndpoints) :
         dispatch' = [dispatch EXCEPT ![v] =
           IF ok /\ order # <<>>
           THEN [NoDispatch EXCEPT !.pc = "deliver", !.loaded = loadEndpoints, !.left = order, !.elapsed = t]
           ELSE [NoDispatch EXCEPT !.pc = "done"]]
    /\ deletedBefore' = [deletedBefore EXCEPT ![v] = {e \in Endpoint : endpoints[e] = "deleted"}]
    /\ UNCHANGED <<endpoints, received, retriable, redirected>>

\* How an attempt ends: with an answer ("5xx": or a redirect that is not followed,
\* without a place to go or one too many), a URL that does not parse, a request
\* that fails or times out before ("unsent") or after ("lost") it got there.
Outcome == {"malformed", "2xx", "4xx", "5xx", "unsent", "lost"}
Got(o) == o \in {"2xx", "4xx", "5xx", "lost"}

\* deliver returns: success, or an answer that is not worth a retry.
Final(o) == o \in {"2xx", "4xx", "malformed"}

\* Mutant: the first endpoint that cannot be delivered to ends the dispatch.
AfterEndpointStop(d, o) ==
    IF o = "2xx" /\ Len(d.left) > 1 THEN [d EXCEPT !.pc = "deliver", !.left = Tail(@), !.attempt = 0]
    ELSE [d EXCEPT !.left = <<>>, !.pc = "done"]

AfterEndpoint(d, o) ==
    IF Len(d.left) > 1 THEN [d EXCEPT !.pc = "deliver", !.left = Tail(@), !.attempt = 0]
    ELSE [d EXCEPT !.left = <<>>, !.pc = "done"]

NextAttempt(d, o) ==
    IF Final(o) \/ d.attempt + 1 = maxAttempts THEN AfterEndpoint(d, o)
    ELSE [d EXCEPT !.pc = "pause", !.attempt = @ + 1]

\* http.Client: a POST answered 307 or 308 is sent again where the answer says,
\* k times; one answered 301, 302 or 303 goes on as a GET (get).
Redirects == [k : 0..MaxRedirects, get : BOOLEAN]

\* One attempt, of r redirects and t time, unless the context ends it earlier.
Attempt(v, o, r, t) ==
    LET d == dispatch[v]
        e == Head(d.left)
        got == r.get \/ Got(o)
    IN  /\ d.pc = "deliver" /\ d.elapsed < Deadline /\ d.elapsed + t <= Deadline
        /\ o = "malformed" => r.k = 0 /\ ~r.get /\ t = 0
        /\ dispatch' = [dispatch EXCEPT ![v] =
             NextAttempt([d EXCEPT !.tried = @ \cup {e}, !.elapsed = @ + t], o)]
        /\ received' = [received EXCEPT ![v][e] = @ + r.k + IF got THEN 1 ELSE 0]
        /\ retriable' = [retriable EXCEPT ![v][e] = @ + IF got /\ ~Final(o) THEN 1 ELSE 0]
        /\ redirected' = [redirected EXCEPT ![v][e] = @ + r.k]
        /\ UNCHANGED <<endpoints, deletedBefore>>

\* The pause before a retry, t of a unit or none.
Pause(v, t) ==
    /\ dispatch[v].pc = "pause" /\ dispatch[v].elapsed + t <= Deadline
    /\ dispatch' = [dispatch EXCEPT ![v].pc = "deliver", ![v].elapsed = @ + t]
    /\ UNCHANGED <<endpoints, received, retriable, redirected, deletedBefore>>

\* Mutant: the end of the context is not noticed while an endpoint is left.
DeadlinePassedLate(v) ==
    /\ dispatch[v].pc = "deliver" /\ dispatch[v].elapsed >= Deadline /\ dispatch[v].left = <<>>
    /\ dispatch' = [dispatch EXCEPT ![v].pc = "done"]
    /\ UNCHANGED <<endpoints, received, retriable, redirected, deletedBefore>>

\* The context is over: what is left fails at once, with nothing sent.
DeadlinePassed(v) ==
    /\ dispatch[v].pc \in {"deliver", "pause"} /\ dispatch[v].elapsed >= Deadline
    /\ dispatch' = [dispatch EXCEPT ![v].pc = "done", ![v].left = <<>>]
    /\ UNCHANGED <<endpoints, received, retriable, redirected, deletedBefore>>

Deliver(v) ==
    \/ \E o \in Outcome, r \in Redirects, t \in 0..ClientTimeout : Attempt(v, o, r, t)
    \/ \E t \in 0..1 : Pause(v, t)
    \/ DeadlinePassed(v)

WebhookNext ==
    \/ \E e \in Endpoint : CreateWebhook(e) \/ DeleteWebhook(e)
    \/ \E v \in Event : (\E ok \in BOOLEAN, t \in 0..Deadline : Dispatch(v, ok, t)) \/ Deliver(v)

WebhookSpec == WebhookInit /\ [][WebhookNext]_webhookVars

-----------------------------------------------------------------------------

\* deliver: redirects apart, an endpoint gets an event again only for an attempt
\* that got there and whose answer was lost, a server error or a redirect not
\* followed, and at most maxAttempts times.
RepeatNeedsRetry ==
    \A v \in Event, e \in Endpoint :
        LET sent == received[v][e] - redirected[v][e]
        IN  sent <= 1 + retriable[v][e] /\ sent <= maxAttempts

\* Dispatch: when it is over every endpoint it loaded has been tried, however
\* the others failed, unless the shared deadline was used up (by slow answers,
\* timeouts, pauses or the loading).
SkippedNeedsDeadline ==
    \A v \in Event : dispatch[v].pc = "done" /\ dispatch[v].elapsed < Deadline =>
        dispatch[v].tried = dispatch[v].loaded

\* loadEndpoints, DeleteWebhook: an endpoint deleted before an event was
\* dispatched never gets it, while a dispatch under way may still reach it.
DeletedIsLeftAlone == \A v \in Event : \A e \in deletedBefore[v] : received[v][e] = 0

\* webhook.go: what an endpoint receives is what it is owed: no repeat without a
\* retry or a redirect, no omission without the deadline, nothing once it was deleted.
DeliveryOwed == RepeatNeedsRetry /\ SkippedNeedsDeadline /\ DeletedIsLeftAlone

\* deliver, dispatchWebhook: every dispatch ends, whatever the receivers do.
DispatchEnds == \A v \in Event : dispatch[v].pc \in {"deliver", "pause"} ~> dispatch[v].pc = "done"
=============================================================================

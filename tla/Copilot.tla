------------------------------ MODULE Copilot -------------------------------
(***************************************************************************)
(* The governed LLM copilot (domains/aigateway, platform/api/handler          *)
(* copilot.go, copilot_chat.go): the per-tenant feature flags and their       *)
(* partial PUT, the opt-in gate, the conversation whose turns are stored raw  *)
(* and replayed, the masked call and the best-effort audit.  One tenant, one  *)
(* conversation; every statement and the call may fail, and a client that     *)
(* goes away cancels the statements still to come.                            *)
(***************************************************************************)
EXTENDS Integers, Sequences, FiniteSets, SequencesExt

CONSTANTS
    Asker,                \* concurrent questions of one conversation
    Admin,                \* concurrent PUTs of the feature flags
    DefaultHistoryTurns   \* turns replayed at most

ASSUME HistoryAssumption == DefaultHistoryTurns \in Nat

VARIABLES
    ai_features,      \* the tenant's row
    put,              \* [Admin -> PUT in progress]
    consentAsked,     \* history: some PUT asked for consent = true
    copilot_messages, \* the turns of the conversation, oldest first
    ask,              \* [Asker -> request]
    sent              \* history, [Asker -> the prompt the LLM got, <<>> if none]

copilotVars == <<ai_features, put, consentAsked, copilot_messages, ask, sent>>

Flag == {"true", "false", "omitted"}
NoPut == [pc |-> "idle", enabled |-> "omitted", consent |-> "omitted", e |-> FALSE, c |-> FALSE]
NoAsk == [pc |-> "idle", chat |-> FALSE, gone |-> FALSE, sawOn |-> FALSE, prompt |-> <<>>,
          llm |-> "none", lost |-> FALSE, audited |-> FALSE, faulted |-> FALSE]

\* A turn of the conversation; user turns are stored as they were asked.
Turn(role, a) == [role |-> role, by |-> a, masked |-> FALSE]

CopilotInit ==
    /\ \E on \in BOOLEAN : ai_features = [exists |-> on, enabled |-> on, consent |-> FALSE]
    /\ put = [a \in Admin |-> NoPut]
    /\ consentAsked = FALSE
    /\ copilot_messages = <<>>
    /\ ask = [a \in Asker |-> NoAsk]
    /\ sent = [a \in Asker |-> <<>>]

-----------------------------------------------------------------------------
(* UpdateAIFeatures: read, merge, upsert *)

BeginPut(a, enabled, consent) ==
    /\ put[a].pc = "idle"
    /\ put' = [put EXCEPT ![a] = [NoPut EXCEPT !.pc = "read", !.enabled = enabled, !.consent = consent]]
    /\ consentAsked' = (consentAsked \/ consent = "true")
    /\ UNCHANGED <<ai_features, copilot_messages, ask, sent>>

Merge(flag, current) == IF flag = "omitted" THEN current ELSE flag = "true"

\* The error of the SELECT is dropped: the defaults, both false, are merged.
ReadFlags(a, ok) ==
    /\ put[a].pc = "read"
    /\ put' = [put EXCEPT ![a].pc = "write",
                          ![a].e = Merge(put[a].enabled, ok /\ ai_features.enabled),
                          ![a].c = Merge(put[a].consent, ok /\ ai_features.consent)]
    /\ UNCHANGED <<ai_features, consentAsked, copilot_messages, ask, sent>>

WriteFlags(a, ok) ==
    /\ put[a].pc = "write"
    /\ put' = [put EXCEPT ![a].pc = "done"]
    /\ ai_features' = IF ok THEN [exists |-> TRUE, enabled |-> put[a].e, consent |-> put[a].c]
                      ELSE ai_features
    /\ ask' = [q \in Asker |-> IF ask[q].pc = "gate" /\ ai_features'.enabled
                               THEN [ask[q] EXCEPT !.sawOn = TRUE] ELSE ask[q]]
    /\ UNCHANGED <<consentAsked, copilot_messages, sent>>

-----------------------------------------------------------------------------
(* Copilot and CopilotConversationMessage *)

Ask(q, chat) ==
    /\ ask[q].pc = "idle"
    /\ ask' = [ask EXCEPT ![q].pc = "gate", ![q].chat = chat, ![q].sawOn = ai_features.enabled]
    /\ UNCHANGED <<ai_features, put, consentAsked, copilot_messages, sent>>

\* The client disconnects: its context is cancelled.
ClientGone(q) ==
    /\ ask[q].pc \notin {"idle", "done"} /\ ~ask[q].gone
    /\ ask' = [ask EXCEPT ![q].gone = TRUE]
    /\ UNCHANGED <<ai_features, put, consentAsked, copilot_messages, sent>>

\* An error or a missing row is off.
copilotFeatureEnabled(ok) == ok /\ ai_features.exists /\ ai_features.enabled

May(q, ok) == ok => ~ask[q].gone    \* a cancelled statement fails

Gate(q, ok) ==
    /\ ask[q].pc = "gate" /\ May(q, ok)
    /\ ask' = [ask EXCEPT ![q].pc = IF ~copilotFeatureEnabled(ok) THEN "done"
                                    ELSE IF ask[q].chat THEN "history" ELSE "govern",
                          ![q].prompt = IF copilotFeatureEnabled(ok) /\ ~ask[q].chat
                                        THEN <<Turn("user", q)>> ELSE <<>>]
    /\ UNCHANGED <<ai_features, put, consentAsked, copilot_messages, sent>>

BuildThreadPrompt(history, q) ==
    LET n == Len(history)
    IN  Append(IF n > DefaultHistoryTurns THEN SubSeq(history, n - DefaultHistoryTurns + 1, n) ELSE history,
               Turn("user", q))

\* Mutant: the question is stored first and so comes back in the history.
HistoryAfterStore(q, ok) ==
    /\ ask[q].pc = "history" /\ May(q, ok)
    /\ ask' = [ask EXCEPT ![q].pc = "user",
                 ![q].prompt = BuildThreadPrompt(IF ok THEN Append(copilot_messages, Turn("user", q)) ELSE <<>>, q)]
    /\ UNCHANGED <<ai_features, put, consentAsked, copilot_messages, sent>>

\* copilotChatOwns and copilotChatHistory: without the conversation 404; the
\* history is empty when it cannot be read.
History(q, ok) ==
    /\ ask[q].pc = "history" /\ May(q, ok)
    /\ ask' = [ask EXCEPT ![q].pc = "user",
                 ![q].prompt = BuildThreadPrompt(IF ok THEN copilot_messages ELSE <<>>, q)]
    /\ UNCHANGED <<ai_features, put, consentAsked, copilot_messages, sent>>

NotOwned(q) ==
    /\ ask[q].pc = "history"
    /\ ask' = [ask EXCEPT ![q].pc = "done"]
    /\ UNCHANGED <<ai_features, put, consentAsked, copilot_messages, sent>>

PersistUser(q, ok) ==
    /\ ask[q].pc = "user" /\ May(q, ok)
    /\ copilot_messages' = IF ok THEN Append(copilot_messages, Turn("user", q)) ELSE copilot_messages
    /\ ask' = [ask EXCEPT ![q].pc = "govern", ![q].lost = ~ok]
    /\ UNCHANGED <<ai_features, put, consentAsked, sent>>

\* Mutant: only the new question is masked.
MaskPIIQuestion(prompt) == [prompt EXCEPT ![Len(prompt)].masked = TRUE]

MaskPII(prompt) == [i \in DOMAIN prompt |-> [prompt[i] EXCEPT !.masked = TRUE]]

\* The model's answer; an error of transport or status, an answer that does not
\* decode or has no query in it are one.
Complete(ok) == IF ok THEN "ok" ELSE "error"

\* Govern: mask, call.
Govern(q, ok) ==
    /\ ask[q].pc = "govern" /\ May(q, ok)
    /\ sent' = [sent EXCEPT ![q] = MaskPII(ask[q].prompt)]
    /\ ask' = [ask EXCEPT ![q].pc = "audit", ![q].llm = Complete(ok)]
    /\ UNCHANGED <<ai_features, put, consentAsked, copilot_messages>>

\* aigwLogDecision: its error is dropped; a failed call answers 502 after it.
LogDecision(q, ok) ==
    /\ ask[q].pc = "audit" /\ May(q, ok)
    /\ ask' = [ask EXCEPT ![q].pc = IF ask[q].llm = "ok" /\ ask[q].chat THEN "assistant" ELSE "done",
                          ![q].audited = ok, ![q].faulted = ~ok]
    /\ UNCHANGED <<ai_features, put, consentAsked, copilot_messages, sent>>

PersistAssistant(q, ok) ==
    /\ ask[q].pc = "assistant" /\ May(q, ok)
    /\ copilot_messages' = IF ok THEN Append(copilot_messages, Turn("assistant", q)) ELSE copilot_messages
    /\ ask' = [ask EXCEPT ![q].pc = "done"]
    /\ UNCHANGED <<ai_features, put, consentAsked, sent>>

PutNext(admins, consents) ==
    \E a \in admins, ok \in BOOLEAN :
        (\E e \in Flag, c \in consents : BeginPut(a, e, c)) \/ ReadFlags(a, ok) \/ WriteFlags(a, ok)

AskNext ==
    \E q \in Asker, ok \in BOOLEAN :
        \/ Ask(q, ok) \/ ClientGone(q) \/ Gate(q, ok) \/ History(q, ok) \/ NotOwned(q)
        \/ PersistUser(q, ok) \/ Govern(q, ok) \/ LogDecision(q, ok) \/ PersistAssistant(q, ok)

CopilotSpec == CopilotInit /\ [][PutNext(Admin, Flag) \/ AskNext]_copilotVars

-----------------------------------------------------------------------------

\* copilotFeatureEnabled, Govern: the LLM is called for a question only if the
\* tenant was opted in at some moment between its arrival and the gate.
CallNeedsOptIn == \A q \in Asker : sent[q] # <<>> => ask[q].sawOn

\* UpdateAIFeatures: however PUTs interleave and fail, training consent is on
\* only if some PUT asked for it; enabling the copilot never implies it.
ConsentWasAsked == ai_features.consent => consentAsked

\* MaskPII, BuildThreadPrompt: turns are stored as asked, yet no turn of a
\* replayed conversation leaves the process unmasked.
OnlyMaskedLeaves == \A q \in Asker : \A i \in DOMAIN sent[q] : sent[q][i].masked

\* aigwLogDecision: a call that was made, successful or not, is in the decision
\* log once its request is over, unless the INSERT itself failed.
AttemptAudited ==
    \A q \in Asker : sent[q] # <<>> /\ ask[q].pc = "done" => ask[q].audited \/ ask[q].faulted

\* CopilotConversationMessage: with questions interleaved, a prompt ends in its
\* own question and has it once, and a stored answer follows its question
\* unless that was lost.
OwnQuestionOnce ==
    /\ \A q \in Asker : sent[q] # <<>> =>
         \A i \in DOMAIN sent[q] : (sent[q][i].role = "user" /\ sent[q][i].by = q) <=> i = Len(sent[q])
    /\ \A i \in DOMAIN copilot_messages :
         LET t == copilot_messages[i] IN
         t.role = "assistant" => ask[t.by].lost \/ \E j \in 1..(i - 1) : copilot_messages[j] = Turn("user", t.by)

\* Govern and the handlers around it, however flags change and questions
\* interleave: calls are opted in, masked and audited, consent is never implied.
CopilotGoverned == CallNeedsOptIn /\ ConsentWasAsked /\ OnlyMaskedLeaves /\ AttemptAudited
=============================================================================

---------------------------- MODULE TelegramTurns ----------------------------
(***************************************************************************)
(* Messages of one Telegram chat, from the update to the answer.           *)
(*                                                                         *)
(* The onboarding job writes the bot's token and a webhook secret to a     *)
(* Kubernetes Secret and then registers the webhook; a retry of the job    *)
(* makes a fresh secret.  A replica keeps the Secret it read for ever.     *)
(* The webhook compares the secret of an update, runs the conversation     *)
(* graph, sends the answer and records the outcome; Telegram repeats an    *)
(* update until it is acknowledged.  Meanwhile a person may take the       *)
(* conversation over through the API.                                      *)
(***************************************************************************)
EXTENDS Naturals, FiniteSets

CONSTANTS
    Messages,        \* what the customer writes
    Handlers,        \* requests that the replicas handle at once
    Replicas,
    NoMessage,       \* the message of an idle handler
    MaxTakeovers,    \* bound on changes of the state by the API
    MaxTurnFaults    \* bound on failures, crashes and early repetitions

ASSUME TelegramAssumption ==
    /\ NoMessage \notin Messages
    /\ {MaxTakeovers, MaxTurnFaults} \subseteq Nat

VARIABLES
    job,             \* the next step of the onboarding job
    fresh,           \* the webhook secret of this run of the job
    secret,          \* the one in the Kubernetes Secret, 0 for none
    hook,            \* the one Telegram sends, 0 while no webhook is registered
    known,           \* known[p]: the one replica p has read, 0 for none
    asked,           \* messages the customer has written
    acknowledged,    \* messages whose update was answered with 200
    state,           \* conversations.state, "none" for no row
    question,        \* messages stored as the customer's
    reply,           \* messages whose answer is stored
    delivery,        \* delivery[m]: messages.delivery of that answer
    sent,            \* messages that were answered in the chat
    doing,           \* doing[h]: the next step of handler h
    turn,            \* turn[h]: its message, replica, secret and what the graph holds
    takeovers,       \* changes of the state by the API so far
    turnFaults,      \* faults so far, at most MaxTurnFaults
    before           \* history: turns that read the state before a person changed it

jobVars == <<job, fresh, secret, hook>>
chatVars == <<asked, acknowledged, sent>>
tableVars == <<state, question, reply, delivery>>
telegramVars == <<jobVars, known, chatVars, tableVars, doing, turn, takeovers, turnFaults,
                  before>>

States == {"BOT_ACTIVE", "HUMAN_REQUESTED", "HUMAN_ACTIVE"}

Plans == {"human", "question", "out_of_scope"}

NoTurn == [message |-> NoMessage, replica |-> CHOOSE p \in Replicas : TRUE, token |-> 0,
           state |-> "none", plan |-> "none", answer |-> "none", outcome |-> "none"]

TurnFault == turnFaults < MaxTurnFaults /\ turnFaults' = turnFaults + 1

Advance(h, here, there) ==
    /\ doing[h] = here
    /\ doing' = [doing EXCEPT ![h] = there]

Message(h) == turn[h].message

\* Handler h is done with its request.
Close(h) ==
    /\ doing' = [doing EXCEPT ![h] = "idle"]
    /\ turn' = [turn EXCEPT ![h] = NoTurn]
    /\ before' = before \ {h}

-----------------------------------------------------------------------------
(* The onboarding job's last steps. *)

\* write_secret: the Secret is created, or patched after a 409.
WriteSecret ==
    /\ job = "secret"
    /\ secret' = fresh
    /\ job' = "webhook"
    /\ UNCHANGED <<fresh, hook, known, chatVars, tableVars, doing, turn, takeovers,
                   turnFaults, before>>

\* setWebhook.
RegisterWebhook ==
    /\ job = "webhook"
    /\ hook' = fresh
    /\ job' = "link"
    /\ UNCHANGED <<fresh, secret, known, chatVars, tableVars, doing, turn, takeovers,
                   turnFaults, before>>

\* getMe, then mark_job_succeeded.
ReadBotLink ==
    /\ job = "link"
    /\ job' = "succeeded"
    /\ UNCHANGED <<fresh, secret, hook, known, chatVars, tableVars, doing, turn, takeovers,
                   turnFaults, before>>

FailJob ==
    /\ job \in {"secret", "webhook", "link"}
    /\ TurnFault
    /\ job' = "failed"
    /\ UNCHANGED <<fresh, secret, hook, known, chatVars, tableVars, doing, turn, takeovers,
                   before>>

\* The retry endpoint makes a fresh webhook secret.
RetryJob ==
    /\ job = "failed"
    /\ fresh' = fresh + 1
    /\ job' = "secret"
    /\ UNCHANGED <<secret, hook, known, chatVars, tableVars, doing, turn, takeovers,
                   turnFaults, before>>

-----------------------------------------------------------------------------
(* Telegram, and a person at the API. *)

Ask(m) ==
    /\ hook # 0 /\ m \notin asked
    /\ asked' = asked \union {m}
    /\ UNCHANGED <<jobVars, known, acknowledged, sent, tableVars, doing, turn, takeovers,
                   turnFaults, before>>

\* Telegram posts an update until it is acknowledged, and again if the answer is slow.
Post(h, m) ==
    /\ doing[h] = "idle"
    /\ m \in asked \ acknowledged
    /\ IF \E g \in Handlers : Message(g) = m THEN TurnFault ELSE UNCHANGED turnFaults
    /\ \E p \in Replicas :
           turn' = [turn EXCEPT ![h] = [NoTurn EXCEPT !.message = m, !.replica = p,
                                                      !.token = hook]]
    /\ doing' = [doing EXCEPT ![h] = "resolving"]
    /\ UNCHANGED <<jobVars, known, chatVars, tableVars, takeovers, before>>

\* PATCH /conversations/{id}/state sets what it is given.
UpdateState(s) ==
    /\ state # "none" /\ takeovers < MaxTakeovers
    /\ takeovers' = takeovers + 1
    /\ state' = s
    /\ before' = {h \in Handlers : turn[h].state # "none"}
    /\ UNCHANGED <<jobVars, known, chatVars, question, reply, delivery, doing, turn,
                   turnFaults>>

-----------------------------------------------------------------------------
(* The webhook. *)

\* resolve: a Secret once read is never read again; an update with another secret is
\* refused with 403 and stays unacknowledged.
Resolve(h) ==
    LET p == turn[h].replica
        credentials == IF known[p] # 0 THEN known[p] ELSE secret
    IN  /\ doing[h] = "resolving"
        /\ known' = [known EXCEPT ![p] = credentials]
        /\ IF turn[h].token = credentials
           THEN doing' = [doing EXCEPT ![h] = "opening"] /\ UNCHANGED <<turn, before>>
           ELSE Close(h)
        /\ UNCHANGED <<jobVars, chatVars, tableVars, takeovers, turnFaults>>

\* get_or_create_conversation: an upsert that returns the row.
GetOrCreate(h) ==
    /\ Advance(h, "opening", "planning")
    /\ state' = IF state = "none" THEN "BOT_ACTIVE" ELSE state
    /\ turn' = [turn EXCEPT ![h].state = state']
    /\ UNCHANGED <<jobVars, known, chatVars, question, reply, delivery, takeovers,
                   turnFaults, before>>

\* plan_question; what the model says of a repeated message may differ.
Plan(h) ==
    /\ Advance(h, "planning", "saving")
    /\ \E p \in Plans : turn' = [turn EXCEPT ![h].plan = p]
    /\ UNCHANGED <<jobVars, known, chatVars, tableVars, takeovers, turnFaults, before>>

\* persist_customer_message: ON CONFLICT DO NOTHING, and the turn goes on either way.
SaveQuestion(h) ==
    /\ Advance(h, "saving", IF turn[h].plan = "out_of_scope" THEN "answering" ELSE "routing")
    /\ question' = question \union {Message(h)}
    /\ UNCHANGED <<jobVars, known, chatVars, state, reply, delivery, turn, takeovers,
                   turnFaults, before>>

\* Variant: every request for a person is recorded.
AlwaysRecordsRequest(h) == turn[h].plan = "human"

\* A request for a person is recorded if the bot had the conversation when it was read.
RecordsRequest(h) == turn[h].plan = "human" /\ turn[h].state = "BOT_ACTIVE"

\* apply_human_request_state and update_state.
ApplyHumanRequest(h) ==
    /\ Advance(h, "routing", "answering")
    /\ IF RecordsRequest(h)
       THEN /\ state' = "HUMAN_REQUESTED"
            /\ turn' = [turn EXCEPT ![h].state = "HUMAN_REQUESTED"]
       ELSE UNCHANGED <<state, turn>>
    /\ UNCHANGED <<jobVars, known, chatVars, question, reply, delivery, takeovers,
                   turnFaults, before>>

\* answer_out_of_scope, or retrieve, answer and search_tenant_website; a person who has
\* the conversation keeps the model from answering.
Answer(h) ==
    /\ Advance(h, "answering", "recording")
    /\ turn' = [turn EXCEPT ![h].answer =
                  CASE turn[h].plan = "out_of_scope" -> "explained"
                    [] turn[h].plan = "human" -> "requested"
                    [] turn[h].state = "HUMAN_ACTIVE" -> "handled"
                    [] OTHER -> "generated"]
    /\ UNCHANGED <<jobVars, known, chatVars, tableVars, takeovers, turnFaults, before>>

\* persist_reply: ON CONFLICT DO NOTHING, and the answer of this turn is sent either way.
PersistReply(h) ==
    /\ Advance(h, "recording", "sending")
    /\ reply' = reply \union {Message(h)}
    /\ UNCHANGED <<jobVars, known, chatVars, state, question, delivery, turn, takeovers,
                   turnFaults, before>>

Send(h) ==
    /\ Advance(h, "sending", "reporting")
    /\ sent' = sent \union {Message(h)}
    /\ turn' = [turn EXCEPT ![h].outcome = "accepted"]
    /\ UNCHANGED <<jobVars, known, asked, acknowledged, tableVars, takeovers, turnFaults,
                   before>>

\* The call fails before or after Telegram has taken the message.
SendFails(h) ==
    /\ Advance(h, "sending", "reporting")
    /\ TurnFault
    /\ sent' \in {sent, sent \union {Message(h)}}
    /\ turn' = [turn EXCEPT ![h].outcome = "failed"]
    /\ UNCHANGED <<jobVars, known, asked, acknowledged, tableVars, takeovers, before>>

\* Variant: a failed send is logged and the update acknowledged.
ReportQuietly(h) ==
    /\ doing[h] = "reporting"
    /\ delivery' = [delivery EXCEPT ![Message(h)] = turn[h].outcome]
    /\ acknowledged' = acknowledged \union {Message(h)}
    /\ Close(h)
    /\ UNCHANGED <<jobVars, known, asked, sent, state, question, reply, takeovers,
                   turnFaults>>

\* finally: delivered, whose own failure is swallowed; then 200, or the error of the send.
Report(h) ==
    /\ doing[h] = "reporting"
    /\ \/ delivery' = [delivery EXCEPT ![Message(h)] = turn[h].outcome] /\ UNCHANGED turnFaults
       \/ UNCHANGED delivery /\ TurnFault
    /\ acknowledged' = IF turn[h].outcome = "accepted"
                       THEN acknowledged \union {Message(h)} ELSE acknowledged
    /\ Close(h)
    /\ UNCHANGED <<jobVars, known, asked, sent, state, question, reply, takeovers>>

\* A statement, the Kubernetes API or the model fails: 500.
FailTurn(h) ==
    /\ doing[h] \notin {"idle", "sending", "reporting"}
    /\ TurnFault
    /\ Close(h)
    /\ UNCHANGED <<jobVars, known, chatVars, tableVars, takeovers>>

\* A replica is replaced: its requests are gone and so is what it knew.
Restart(p) ==
    LET lost == {h \in Handlers : doing[h] # "idle" /\ turn[h].replica = p}
    IN  /\ known[p] # 0 \/ lost # {}
        /\ TurnFault
        /\ known' = [known EXCEPT ![p] = 0]
        /\ doing' = [h \in Handlers |-> IF h \in lost THEN "idle" ELSE doing[h]]
        /\ turn' = [h \in Handlers |-> IF h \in lost THEN NoTurn ELSE turn[h]]
        /\ before' = before \ lost
        /\ UNCHANGED <<jobVars, chatVars, tableVars, takeovers>>

-----------------------------------------------------------------------------
(* Specification *)

TelegramInit ==
    /\ job = "secret" /\ fresh = 1 /\ secret = 0 /\ hook = 0
    /\ known = [p \in Replicas |-> 0]
    /\ asked = {} /\ acknowledged = {} /\ sent = {}
    /\ state = "none" /\ question = {} /\ reply = {}
    /\ delivery = [m \in Messages |-> "none"]
    /\ doing = [h \in Handlers |-> "idle"]
    /\ turn = [h \in Handlers |-> NoTurn]
    /\ takeovers = 0 /\ turnFaults = 0
    /\ before = {}

ProvisionTelegram == WriteSecret \/ RegisterWebhook \/ ReadBotLink \/ RetryJob

Handle(h) ==
    \/ Resolve(h) \/ GetOrCreate(h) \/ Plan(h) \/ SaveQuestion(h) \/ ApplyHumanRequest(h)
    \/ Answer(h) \/ PersistReply(h) \/ Send(h) \/ Report(h)

TelegramNext ==
    \/ ProvisionTelegram \/ FailJob
    \/ \E m \in Messages : Ask(m) \/ \E h \in Handlers : Post(h, m)
    \/ \E s \in States : UpdateState(s)
    \/ \E h \in Handlers : Handle(h) \/ SendFails(h) \/ FailTurn(h)
    \/ \E p \in Replicas : Restart(p)

\* The job runs and is retried, handlers go on, and Telegram keeps repeating updates.
TelegramFairness ==
    /\ WF_telegramVars(ProvisionTelegram)
    /\ \A h \in Handlers : WF_telegramVars(Handle(h))
    /\ \A m \in Messages : SF_telegramVars(\E h \in Handlers : Post(h, m))

TelegramSpec == TelegramInit /\ [][TelegramNext]_telegramVars /\ TelegramFairness

-----------------------------------------------------------------------------
(* Properties *)

\* A replica refuses the updates because the Secret it read is an old one.
Outdated == \E p \in Replicas : known[p] \notin {0, hook}

\* "Until a human actually joins": a customer's request takes a conversation from the
\* person who has it only if its turn read the state before the person changed it.
OperatorOverriddenByOverlapOnly ==
    [][state = "HUMAN_ACTIVE" /\ state' = "HUMAN_REQUESTED"
         => \/ takeovers' # takeovers
            \/ \E h \in before : doing[h] = "routing"]_telegramVars

\* Every message that the customer writes is answered in the chat, whatever fails, unless
\* a replica keeps a secret that the job has replaced.
TelegramReplyArrives == <>[]~Outdated => \A m \in Messages : m \in asked ~> m \in sent
=============================================================================

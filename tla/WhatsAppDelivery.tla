-------------------------- MODULE WhatsAppDelivery --------------------------
(***************************************************************************)
(* Answering WhatsApp messages of one business number.                     *)
(*                                                                         *)
(* Meta posts customer messages to whatsapp_webhook (app/main.py), several *)
(* at once and as often as it likes.  A request claims each message with a *)
(* receipt row, runs the conversation graph, and sends the reply under the *)
(* number's advisory delivery lock.  The number may also be used by people *)
(* in the WhatsApp Business App: an echo of a human reply pauses its chat, *)
(* and history events import old messages (app/whatsapp_coexistence.py).   *)
(*                                                                         *)
(* All statements run on one connection pool.  The delivery lock keeps a   *)
(* connection for itself, also while it is waited for, and whoever holds   *)
(* it needs another one.                                                   *)
(***************************************************************************)
EXTENDS Naturals, FiniteSets

CONSTANTS
    Messages,        \* text messages of customers
    Echoes,          \* messages people send from the business app
    Chats,
    ChatOf,          \* the chat of each message and echo
    Handlers,        \* requests the replicas handle at once
    NoOne,           \* the delivery lock is free
    NoMessage,       \* no message at hand
    PoolSize,        \* connections of the pool
    PauseOnReply,    \* whatsapp_connections.pause_on_human_reply
    MaxRequests,     \* bound on webhook requests
    MaxFaults        \* bound on errors, lost locks and crashes

ASSUME DeliveryAssumption ==
    /\ ChatOf \in [Messages \union Echoes -> Chats]
    /\ NoOne \notin Handlers
    /\ NoMessage \notin Messages
    /\ PoolSize \in Nat /\ MaxRequests \in Nat /\ MaxFaults \in Nat
    /\ PauseOnReply \in BOOLEAN

VARIABLES
    active,      \* the connection is active, so the number has a tenant
    receipt,     \* receipt[m]: whatsapp_webhook_receipts.status, "none" without a row
    imported,    \* rows of whatsapp_imported_messages
    paused,      \* rows of whatsapp_paused_chats
    stored,      \* messages and echoes in the transcript (table messages)
    delivery,    \* delivery[m]: messages.delivery of the reply, "none" without a reply
    sends,       \* sends[m]: replies to m that reached Meta
    lock,        \* holder of the delivery lock
    pc,          \* pc[h]: where request h is
    todo,        \* todo[h]: messages of the request not looked at yet
    msg,         \* msg[h]: the message being handled
    tenant,      \* tenant[h]: resolve_active found the tenant
    status,      \* status[h]: receipt_status to be recorded
    outcome,     \* outcome[h]: delivery outcome to be recorded
    requests,    \* requests so far, at most MaxRequests
    faults       \* faults so far, at most MaxFaults

tableVars == <<active, receipt, imported, paused, stored, delivery>>
requestVars == <<pc, todo, msg, tenant, status, outcome>>
vars == <<tableVars, sends, lock, requestVars, requests, faults>>

-----------------------------------------------------------------------------
(* Helpers *)

\* The requests that keep a connection for the delivery lock.
Locking == {h \in Handlers : pc[h] \in {"locking", "rechecking", "sending", "unlocking"}}

\* A statement needs a connection of the pool.
Query == Cardinality(Locking) < PoolSize

Goto(h, label) == pc' = [pc EXCEPT ![h] = label]

Fault == faults < MaxFaults /\ faults' = faults + 1

\* The next message of the request, or the end of it.
Advance(h, rest) ==
    /\ Goto(h, IF rest = {} THEN "idle" ELSE "claiming")
    /\ msg' = [msg EXCEPT ![h] = NoMessage]

Conclude(h, receiptStatus, deliveryOutcome) ==
    /\ status' = [status EXCEPT ![h] = receiptStatus]
    /\ outcome' = [outcome EXCEPT ![h] = deliveryOutcome]

Paused(m) == ChatOf[m] \in paused

-----------------------------------------------------------------------------
(* whatsapp_webhook *)

Post(h, batch) ==
    /\ pc[h] = "idle"
    /\ requests < MaxRequests /\ requests' = requests + 1
    /\ todo' = [todo EXCEPT ![h] = batch]
    /\ Goto(h, "resolving")
    /\ UNCHANGED <<tableVars, sends, lock, msg, tenant, status, outcome, faults>>

Resolve(h) ==
    /\ pc[h] = "resolving" /\ Query
    /\ tenant' = [tenant EXCEPT ![h] = active]
    /\ Goto(h, "claiming")
    /\ UNCHANGED <<tableVars, sends, lock, todo, msg, status, outcome, requests, faults>>

\* Variant: a redelivered message is claimed again unless its reply was sent.
ClaimableUnsent(m) == receipt[m] # "sent" /\ m \notin imported

\* claim_message: one INSERT ... SELECT ... ON CONFLICT DO NOTHING.
Claimable(m) == receipt[m] = "none" /\ m \notin imported

Claim(h, m) ==
    /\ pc[h] = "claiming" /\ Query
    /\ m \in todo[h]
    /\ todo' = [todo EXCEPT ![h] = todo[h] \ {m}]
    /\ receipt' = IF Claimable(m)
                  THEN [receipt EXCEPT ![m] = IF tenant[h] THEN "processing" ELSE "ignored"]
                  ELSE receipt
    /\ IF Claimable(m) /\ tenant[h]
       THEN Goto(h, "checking") /\ msg' = [msg EXCEPT ![h] = m]
       ELSE Advance(h, todo[h] \ {m})
    /\ UNCHANGED <<active, imported, paused, stored, delivery, sends, lock, tenant, status,
                   outcome, requests, faults>>

CheckPaused(h) ==
    /\ pc[h] = "checking" /\ Query
    /\ Goto(h, IF Paused(msg[h]) THEN "storing" ELSE "answering")
    /\ UNCHANGED <<tableVars, sends, lock, todo, msg, tenant, status, outcome, requests, faults>>

\* A paused chat: the message is stored, then its receipt is marked.
StoreOnly(h) ==
    /\ pc[h] = "storing" /\ Query
    /\ stored' = stored \union {msg[h]}
    /\ Goto(h, "ignoring")
    /\ UNCHANGED <<active, receipt, imported, paused, delivery, sends, lock, todo, msg, tenant,
                   status, outcome, requests, faults>>

Ignore(h) ==
    /\ pc[h] = "ignoring" /\ Query
    /\ receipt' = [receipt EXCEPT ![msg[h]] = "ignored"]
    /\ Advance(h, todo[h])
    /\ UNCHANGED <<active, imported, paused, stored, delivery, sends, lock, todo, tenant, status,
                   outcome, requests, faults>>

\* invoke_service_graph: the message and the reply are stored.
Answer(h) ==
    /\ pc[h] = "answering" /\ Query
    /\ stored' = stored \union {msg[h]}
    /\ delivery' = [delivery EXCEPT ![msg[h]] = "unknown"]
    /\ Goto(h, "connecting")
    /\ UNCHANGED <<active, receipt, imported, paused, sends, lock, todo, msg, tenant, status,
                   outcome, requests, faults>>

\* The graph fails, before or after it stored the message.
AnswerFails(h) ==
    /\ pc[h] = "answering"
    /\ Fault
    /\ stored' \in {stored, stored \union {msg[h]}}
    /\ Conclude(h, "failed", "failed")
    /\ Goto(h, "settling")
    /\ UNCHANGED <<active, receipt, imported, paused, delivery, sends, lock, todo, msg, tenant,
                   requests>>

\* delivery_lock takes a connection, then waits for the advisory lock on it.
Connect(h) ==
    /\ pc[h] = "connecting" /\ Query
    /\ Goto(h, "locking")
    /\ UNCHANGED <<tableVars, sends, lock, todo, msg, tenant, status, outcome, requests, faults>>

Lock(h) ==
    /\ pc[h] = "locking"
    /\ lock = NoOne
    /\ lock' = h
    /\ Goto(h, "rechecking")
    /\ UNCHANGED <<tableVars, sends, todo, msg, tenant, status, outcome, requests, faults>>

\* Variant: the pause is looked at before the graph only.
RecheckSkipped(h) ==
    /\ pc[h] = "rechecking" /\ Query
    /\ Goto(h, "sending") /\ UNCHANGED <<status, outcome>>
    /\ UNCHANGED <<tableVars, sends, lock, todo, msg, tenant, requests, faults>>

Recheck(h) ==
    /\ pc[h] = "rechecking" /\ Query
    /\ IF Paused(msg[h])
       THEN Goto(h, "unlocking") /\ Conclude(h, "ignored", "failed")
       ELSE Goto(h, "sending") /\ UNCHANGED <<status, outcome>>
    /\ UNCHANGED <<tableVars, sends, lock, todo, msg, tenant, requests, faults>>

Send(h) ==
    /\ pc[h] = "sending" /\ Query
    /\ sends' = [sends EXCEPT ![msg[h]] = sends[msg[h]] + 1]
    /\ Conclude(h, "sent", "accepted")
    /\ Goto(h, "unlocking")
    /\ UNCHANGED <<tableVars, lock, todo, msg, tenant, requests, faults>>

\* Variant: an error of the send is taken for a rejection.
SendFailsRejected(h) ==
    /\ pc[h] = "sending" /\ Query
    /\ Fault
    /\ sends' \in {sends, [sends EXCEPT ![msg[h]] = sends[msg[h]] + 1]}
    /\ Conclude(h, "failed", "failed")
    /\ Goto(h, "unlocking")
    /\ UNCHANGED <<tableVars, lock, todo, msg, tenant, requests>>

\* No credentials, a rejection or a timeout: Meta may or may not have the reply.
SendFails(h) ==
    /\ pc[h] = "sending" /\ Query
    /\ Fault
    /\ sends' \in {sends, [sends EXCEPT ![msg[h]] = sends[msg[h]] + 1]}
    /\ Conclude(h, "failed", "unknown")
    /\ Goto(h, "unlocking")
    /\ UNCHANGED <<tableVars, lock, todo, msg, tenant, requests>>

\* Variant: giving up on a paused chat leaves the block without unlocking.
UnlockForgotten(h) ==
    /\ pc[h] = "unlocking"
    /\ lock' = IF lock = h /\ status[h] # "ignored" THEN NoOne ELSE lock
    /\ UNCHANGED <<status, outcome>>
    /\ Goto(h, "settling")
    /\ UNCHANGED <<tableVars, sends, todo, msg, tenant, requests, faults>>

\* Unlocking on a dead connection raises after the send: its outcome becomes unknown.
Unlock(h) ==
    /\ pc[h] = "unlocking"
    /\ lock' = IF lock = h THEN NoOne ELSE lock
    /\ IF lock # h /\ status[h] = "sent"
       THEN Conclude(h, "failed", "unknown")
       ELSE UNCHANGED <<status, outcome>>
    /\ Goto(h, "settling")
    /\ UNCHANGED <<tableVars, sends, todo, msg, tenant, requests, faults>>

Settle(h) ==
    /\ pc[h] = "settling" /\ Query
    /\ receipt' = [receipt EXCEPT ![msg[h]] = status[h]]
    /\ Goto(h, "reporting")
    /\ UNCHANGED <<active, imported, paused, stored, delivery, sends, lock, todo, msg, tenant,
                   status, outcome, requests, faults>>

\* IssueService.delivered: errors are swallowed.
Report(h) ==
    /\ pc[h] = "reporting" /\ Query
    /\ \/ /\ delivery' = IF delivery[msg[h]] = "none" THEN delivery
                         ELSE [delivery EXCEPT ![msg[h]] = outcome[h]]
          /\ UNCHANGED faults
       \/ Fault /\ UNCHANGED delivery
    /\ Advance(h, todo[h])
    /\ UNCHANGED <<active, receipt, imported, paused, stored, sends, lock, todo, tenant, status,
                   outcome, requests>>

\* A statement outside the try block fails: the request ends with an error.
Abort(h) ==
    /\ pc[h] \in {"resolving", "claiming", "checking", "storing", "ignoring", "settling"}
    /\ Fault
    /\ Goto(h, "idle")
    /\ msg' = [msg EXCEPT ![h] = NoMessage]
    /\ UNCHANGED <<tableVars, sends, lock, todo, tenant, status, outcome, requests>>

\* The connection of the lock breaks; PostgreSQL frees the lock, the request goes on.
LoseLock(h) ==
    /\ lock = h
    /\ Fault
    /\ lock' = NoOne
    /\ UNCHANGED <<tableVars, sends, requestVars, requests>>

Crash(h) ==
    /\ pc[h] # "idle"
    /\ Fault
    /\ lock' = IF lock = h THEN NoOne ELSE lock
    /\ Goto(h, "idle")
    /\ msg' = [msg EXCEPT ![h] = NoMessage]
    /\ UNCHANGED <<tableVars, sends, todo, tenant, status, outcome, requests>>

-----------------------------------------------------------------------------
(* handle_coexistence and activation *)

\* An echo is handled in one transaction under the delivery lock.
Echo(e) ==
    /\ Query /\ lock = NoOne
    /\ imported' = imported \union {e}
    /\ paused' = IF e \notin imported /\ PauseOnReply THEN paused \union {ChatOf[e]} ELSE paused
    /\ stored' = IF active THEN stored \union imported' ELSE stored
    /\ UNCHANGED <<active, receipt, delivery, sends, lock, requestVars, requests, faults>>

\* A history event: archival only, whether or not it is about messages seen live.
History(x) ==
    /\ Query /\ lock = NoOne
    /\ imported' = imported \union {x}
    /\ stored' = IF active THEN stored \union imported' ELSE stored
    /\ UNCHANGED <<active, receipt, paused, delivery, sends, lock, requestVars, requests, faults>>

\* The provisioning job activates the connection and imports what is pending.
Activate ==
    /\ ~active /\ Query
    /\ active' = TRUE
    /\ stored' = stored \union imported
    /\ UNCHANGED <<receipt, imported, paused, delivery, sends, lock, requestVars, requests, faults>>

-----------------------------------------------------------------------------
Init ==
    /\ active = FALSE
    /\ receipt = [m \in Messages |-> "none"]
    /\ imported = {} /\ paused = {} /\ stored = {}
    /\ delivery = [m \in Messages |-> "none"]
    /\ sends = [m \in Messages |-> 0]
    /\ lock = NoOne
    /\ pc = [h \in Handlers |-> "idle"]
    /\ todo = [h \in Handlers |-> {}]
    /\ msg = [h \in Handlers |-> NoMessage]
    /\ tenant = [h \in Handlers |-> FALSE]
    /\ status = [h \in Handlers |-> "failed"]
    /\ outcome = [h \in Handlers |-> "unknown"]
    /\ requests = 0 /\ faults = 0

Progress(h) ==
    \/ Resolve(h) \/ CheckPaused(h) \/ StoreOnly(h) \/ Ignore(h) \/ Answer(h) \/ Connect(h)
    \/ Lock(h) \/ Recheck(h) \/ Send(h) \/ Unlock(h) \/ Settle(h) \/ Report(h)
    \/ \E m \in Messages : Claim(h, m)

HandlerStep(h) ==
    \/ \E batch \in (SUBSET Messages) \ {{}} : Post(h, batch)
    \/ Progress(h)
    \/ AnswerFails(h) \/ SendFails(h) \/ Abort(h) \/ LoseLock(h) \/ Crash(h)

Next ==
    \/ \E h \in Handlers : HandlerStep(h)
    \/ \E e \in Echoes : Echo(e)
    \/ \E x \in Messages \union Echoes : History(x)
    \/ Activate

Spec == Init /\ [][Next]_vars

\* The event loop runs every request; the pool and the lock serve their waiters in turn.
FairSpec == Spec /\ \A h \in Handlers : SF_vars(Progress(h))

-----------------------------------------------------------------------------
(* Properties *)

Labels == {"idle", "resolving", "claiming", "checking", "storing", "ignoring", "answering",
           "connecting", "locking", "rechecking", "sending", "unlocking", "settling",
           "reporting"}

\* The receipts, outcomes and requests keep to the values their columns
\* and the code that writes them allow.
DeliveryTypeOK ==
    /\ active \in BOOLEAN
    /\ receipt \in [Messages -> {"none", "processing", "sent", "failed", "ignored"}]
    /\ imported \subseteq Messages \union Echoes /\ stored \subseteq Messages \union Echoes
    /\ paused \subseteq Chats
    /\ delivery \in [Messages -> {"none", "unknown", "accepted", "failed"}]
    /\ sends \in [Messages -> Nat]
    /\ lock \in Handlers \union {NoOne}
    /\ pc \in [Handlers -> Labels]
    /\ todo \in [Handlers -> SUBSET Messages]
    /\ msg \in [Handlers -> Messages \union {NoMessage}]
    /\ tenant \in [Handlers -> BOOLEAN]
    /\ status \in [Handlers -> {"sent", "failed", "ignored"}]
    /\ outcome \in [Handlers -> {"unknown", "accepted", "failed"}]
    /\ requests \in Nat /\ faults \in Nat

\* However often Meta posts a message and wherever requests stop, the customer gets at
\* most one reply to it (claim_message: "Never retry unknown outbound delivery").
AtMostOneReply == \A m \in Messages : sends[m] <= 1

\* What is recorded of a reply is true of Meta's side: accepted or sent means the reply
\* went out, failed or ignored by the pause means it did not; doubt is recorded as unknown.
OutcomeTruthful ==
    \A m \in Messages :
        /\ delivery[m] = "accepted" => sends[m] = 1
        /\ delivery[m] = "failed" => sends[m] = 0
        /\ receipt[m] = "sent" => sends[m] = 1
        /\ receipt[m] = "ignored" => sends[m] = 0

\* No step sends a reply into a paused chat while its request holds the delivery lock
\* (docs/whatsapp-coexistence.md: "The send path rechecks the pause under the same
\* database lock used by echo handling").
PausedChatsStaySilent ==
    [][\A h \in Handlers, m \in Messages :
          lock = h /\ msg[h] = m /\ Paused(m) => sends'[m] = sends[m]]_vars

\* A message imported before any request claimed it is archive: no step answers it
\* (docs/whatsapp-coexistence.md: "Imported messages never trigger replies").
ArchiveStaysSilent ==
    [][\A m \in imported \intersect Messages :
          receipt[m] = "none" => receipt'[m] = "none" /\ sends'[m] = 0]_vars

\* What the customers and the readers of the receipts see of it (module CustomerReplies):
\* a receipt in "processing" says that the message is taken.
Told == [m \in Messages |-> IF receipt[m] = "processing" THEN "taken" ELSE receipt[m]]

Replies == INSTANCE CustomerReplies WITH
    archived <- imported \intersect Messages,
    told <- Told,
    replies <- sends

\* The requests, however they interleave, repeat or stop, keep that promise: archive is
\* never answered, an answer goes out at most once and before its receipt is final, and
\* a final receipt never changes.
ImplementsReplies == Replies!Spec

\* What keeps a request waiting, apart from its own computation: the delivery lock, which it
\* waits for with a connection of its own, or else a connection for its next statement.
CanProceed(h) ==
    \/ pc[h] = "locking" /\ lock = NoOne
    \/ pc[h] = "unlocking"
    \/ /\ pc[h] \notin {"idle", "locking", "unlocking"}
       /\ pc[h] = "claiming" => todo[h] # {}
       /\ Query

\* When none of the running requests can go on, the connections that wait for or hold the
\* delivery lock have used up the pool: the lock alone never blocks, whoever crashed, lost
\* it or raised while holding it (delivery_lock unlocks in a finally block).
BlockedByPoolOnly ==
    (\E h \in Handlers : pc[h] # "idle") /\ (\A h \in Handlers : ~CanProceed(h)) => ~Query

\* A request whose reply is computed comes to an end: the reply is sent or its failure
\* recorded (README.md: "the app sends the graph reply back to the customer").
RepliesSettle == \A h \in Handlers : pc[h] = "connecting" ~> pc[h] = "idle"
=============================================================================

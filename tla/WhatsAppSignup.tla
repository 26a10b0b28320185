--------------------------- MODULE WhatsAppSignup ---------------------------
(***************************************************************************)
(* Connecting a WhatsApp number to one onboarding session                  *)
(* (app/whatsapp_signup.py): attempts are started, completed and           *)
(* cancelled, from several browser tabs and replicas.                      *)
(*                                                                         *)
(* Starting and cancelling are one transaction each; completing holds a    *)
(* session-level advisory lock over statements that commit one by one,     *)
(* with calls to Meta and to the credential store between them, so that a  *)
(* later attempt resumes what an earlier one had done.  All take the same  *)
(* lock.  Preferences and the activation by the onboarding job do not.     *)
(*                                                                         *)
(* The browser is verified, and sessions share nothing but the uniqueness  *)
(* of numbers.  A completion that finds its attempt used, superseded or    *)
(* expired leaves no trace and is no step.                                 *)
(***************************************************************************)
EXTENDS Naturals, FiniteSets

CONSTANTS
    Attempts,     \* signup attempts of the session, each started once
    Phones,       \* numbers Meta may return for an authorization
    NoAttempt,    \* the lock is free, no credential is stored
    NoPhone,      \* no number is connected
    Coexistence,  \* mode = "coexistence", the one that may import history
    MaxFaults     \* bound on failed steps, crashes and lost SQL connections

ASSUME SignupAssumption ==
    /\ IsFiniteSet(Attempts)
    /\ NoAttempt \notin Attempts
    /\ NoPhone \notin Phones
    /\ Coexistence \in BOOLEAN
    /\ MaxFaults \in Nat

VARIABLES
    stage,       \* stage[a]: the row of attempt a and the request that makes it
    created,     \* created[a]: created_at, the rank of its transaction's begin; 0 before
    expired,     \* attempts past expires_at
    preference,  \* whatsapp_archive_preferences: import_enabled, locked
    connection,  \* the whatsapp_connections row
    credential,  \* the attempt whose token the credential store holds
    subscribed,  \* is the app subscribed to the number's account at Meta?
    requests,    \* history requests Meta accepted
    lock,        \* the attempt whose completion holds the session's advisory lock
    pc,          \* pc[a]: where the completion of a is
    seen,        \* seen[a]: the connection row it read
    asset,       \* asset[a]: the number it verified
    wants,       \* wants[a]: import_enabled as it read it
    faults       \* faults so far, at most MaxFaults

attemptVars == <<stage, created, expired>>
metaVars == <<credential, subscribed, requests>>
localVars == <<seen, asset, wants>>
vars == <<attemptVars, preference, connection, metaVars, lock, pc, localVars, faults>>

-----------------------------------------------------------------------------
(* Helpers *)

NoConnection ==
    [status |-> "none", phone |-> NoPhone, subscribed |-> FALSE, registered |-> FALSE,
     requested |-> FALSE, import |-> FALSE]

Goto(a, label) == pc' = [pc EXCEPT ![a] = label]

Fault == faults < MaxFaults /\ faults' = faults + 1

\* Attempts whose row is committed.
Rows == {a \in Attempts : stage[a] \in {"live", "used"}}

Free == lock = NoAttempt

\* The SQL statements of a completion need the connection that has its lock.
At(a, label) == pc[a] = label /\ lock = a

\* The completion ends, returning or raising, and gives its lock back.
Release(a) ==
    /\ lock' = NoAttempt
    /\ Goto(a, "idle")
    /\ seen' = [seen EXCEPT ![a] = NoConnection]
    /\ asset' = [asset EXCEPT ![a] = NoPhone]
    /\ wants' = [wants EXCEPT ![a] = FALSE]

-----------------------------------------------------------------------------
(* start and cancel, preferences, activation *)

\* The transaction begins, which fixes created_at; it has yet to get the lock.
BeginStart(a) ==
    /\ stage[a] = "none"
    /\ stage' = [stage EXCEPT ![a] = "begun"]
    /\ created' = [created EXCEPT ![a] = 1 + Cardinality({b \in Attempts : created[b] # 0})]
    /\ UNCHANGED <<expired, preference, connection, metaVars, lock, pc, localVars, faults>>

\* With the lock: freeze the preferences, use up the live attempt, insert the new one.
Start(a) ==
    /\ stage[a] = "begun"
    /\ Free
    /\ preference.import => Coexistence
    /\ preference' = [preference EXCEPT !.locked = TRUE]
    /\ stage' = [b \in Attempts |-> IF b = a THEN "live"
                                    ELSE IF stage[b] = "live" THEN "used" ELSE stage[b]]
    /\ UNCHANGED <<created, expired, connection, metaVars, lock, pc, localVars, faults>>

\* An import the mode does not know or without a drive: the transaction rolls back.
StartRefused(a) ==
    /\ stage[a] = "begun"
    /\ Free
    /\ preference.import
    /\ stage' = [stage EXCEPT ![a] = "refused"]
    /\ UNCHANGED <<created, expired, preference, connection, metaVars, lock, pc, localVars,
                   faults>>

Expire(a) ==
    /\ stage[a] = "live" /\ a \notin expired
    /\ expired' = expired \union {a}
    /\ UNCHANGED <<stage, created, preference, connection, metaVars, lock, pc, localVars, faults>>

Connected == connection.status \in {"connected", "active"}

Newer(a) == \E b \in Rows : created[b] > created[a]

\* Variant: any cancelled attempt unfreezes the preferences.
CancelLate(a) ==
    /\ a \in Rows
    /\ Free
    /\ ~Connected
    /\ stage' = [stage EXCEPT ![a] = "used"]
    /\ preference' = [preference EXCEPT !.locked = FALSE]
    /\ UNCHANGED <<created, expired, connection, metaVars, lock, pc, localVars, faults>>

\* Variant: a number that is already connected does not keep its preferences.
CancelConnected(a) ==
    /\ a \in Rows
    /\ Free
    /\ ~Newer(a)
    /\ stage' = [stage EXCEPT ![a] = "used"]
    /\ preference' = [preference EXCEPT !.locked = FALSE]
    /\ UNCHANGED <<created, expired, connection, metaVars, lock, pc, localVars, faults>>

\* By the user, or by redirect_complete when a completion was declined or raised.
Cancel(a) ==
    /\ a \in Rows
    /\ Free
    /\ ~Connected /\ ~Newer(a)
    /\ stage' = [stage EXCEPT ![a] = "used"]
    /\ preference' = [preference EXCEPT !.locked = FALSE]
    /\ UNCHANGED <<created, expired, connection, metaVars, lock, pc, localVars, faults>>

\* MediaArchive.preferences
SetImport(enabled) ==
    /\ ~preference.locked
    /\ preference' = [preference EXCEPT !.import = enabled]
    /\ UNCHANGED <<attemptVars, connection, metaVars, lock, pc, localVars, faults>>

\* The onboarding job of the session activates the connection it was submitted with.
Activate ==
    /\ Connected
    /\ connection' = [connection EXCEPT !.status = "active"]
    /\ UNCHANGED <<attemptVars, preference, metaVars, lock, pc, localVars, faults>>

-----------------------------------------------------------------------------
(* complete *)

\* Take the lock and use the attempt up; it must be live.
Consume(a) ==
    /\ pc[a] = "idle"
    /\ Free
    /\ stage[a] = "live" /\ a \notin expired
    /\ stage' = [stage EXCEPT ![a] = "used"]
    /\ lock' = a
    /\ Goto(a, "exchanging")
    /\ UNCHANGED <<created, expired, preference, connection, metaVars, localVars, faults>>

\* Exchange the code for a token and verify the number it was granted for.
Exchange(a) ==
    /\ pc[a] = "exchanging"
    /\ \E p \in Phones : asset' = [asset EXCEPT ![a] = p]
    /\ Goto(a, "reading")
    /\ UNCHANGED <<attemptVars, preference, connection, metaVars, lock, seen, wants, faults>>

\* Variant: an active connection is read like any other.
ReadActive(a) ==
    /\ At(a, "reading")
    /\ connection.phone \in {NoPhone, asset[a]}
    /\ seen' = [seen EXCEPT ![a] = connection]
    /\ Goto(a, "saving")
    /\ UNCHANGED <<attemptVars, preference, connection, metaVars, lock, asset, wants, faults>>

\* Variant: the number that is connected is not compared with the one of this attempt.
ReadAnyNumber(a) ==
    /\ At(a, "reading")
    /\ connection.status # "active"
    /\ seen' = [seen EXCEPT ![a] = connection]
    /\ Goto(a, "saving")
    /\ UNCHANGED <<attemptVars, preference, connection, metaVars, lock, asset, wants, faults>>

\* The row as it is now; neither another number nor an active connection is accepted.
Read(a) ==
    /\ At(a, "reading")
    /\ connection.phone \in {NoPhone, asset[a]} /\ connection.status # "active"
    /\ seen' = [seen EXCEPT ![a] = connection]
    /\ Goto(a, "saving")
    /\ UNCHANGED <<attemptVars, preference, connection, metaVars, lock, asset, wants, faults>>

\* connection_asset_change_not_supported, connection_already_active, or a refusal by Meta.
Refuse(a) ==
    /\ \/ At(a, "exchanging")
       \/ /\ At(a, "reading")
          /\ connection.phone \notin {NoPhone, asset[a]} \/ connection.status = "active"
    /\ Release(a)
    /\ UNCHANGED <<attemptVars, preference, connection, metaVars, faults>>

\* Read the preference; insert the row, or update the one that is there.
SaveAsset(a) ==
    /\ At(a, "saving")
    /\ preference.import => Coexistence
    /\ wants' = [wants EXCEPT ![a] = preference.import]
    /\ connection' = [connection EXCEPT !.status = "connecting", !.phone = asset[a]]
    /\ Goto(a, "preferring")
    /\ UNCHANGED <<attemptVars, preference, metaVars, lock, seen, asset, faults>>

\* history_requires_coexistence, or another session has the number (UNIQUE).
SaveRefused(a) ==
    /\ At(a, "saving")
    /\ (preference.import /\ ~Coexistence) \/ seen[a].phone = NoPhone
    /\ Release(a)
    /\ UNCHANGED <<attemptVars, preference, connection, metaVars, faults>>

SavePreference(a) ==
    /\ At(a, "preferring")
    /\ connection' = [connection EXCEPT !.import = wants[a]]
    /\ Goto(a, "storing")
    /\ UNCHANGED <<attemptVars, preference, metaVars, lock, localVars, faults>>

\* The new token replaces the old one.
Store(a) ==
    /\ pc[a] = "storing"
    /\ credential' = a
    /\ Goto(a, IF seen[a].subscribed THEN "registering" ELSE "subscribing")
    /\ UNCHANGED <<attemptVars, preference, connection, subscribed, requests, lock, localVars,
                   faults>>

Subscribe(a) ==
    /\ pc[a] = "subscribing"
    /\ subscribed' = TRUE
    /\ Goto(a, "subscribed")
    /\ UNCHANGED <<attemptVars, preference, connection, credential, requests, lock, localVars,
                   faults>>

RecordSubscribed(a) ==
    /\ At(a, "subscribed")
    /\ connection' = [connection EXCEPT !.subscribed = TRUE]
    /\ Goto(a, "registering")
    /\ UNCHANGED <<attemptVars, preference, metaVars, lock, localVars, faults>>

\* Variant: the history is requested whenever an attempt wants it.
RegisterAgain(a) ==
    /\ At(a, "registering")
    /\ connection' = [connection EXCEPT !.registered = TRUE]
    /\ Goto(a, IF wants[a] THEN "requesting" ELSE "marking")
    /\ UNCHANGED <<attemptVars, preference, metaVars, lock, localVars, faults>>

\* The number is registered already, which is only recorded.
Register(a) ==
    /\ At(a, "registering")
    /\ connection' = [connection EXCEPT !.registered = TRUE]
    /\ Goto(a, IF wants[a] /\ ~seen[a].requested THEN "requesting" ELSE "marking")
    /\ UNCHANGED <<attemptVars, preference, metaVars, lock, localVars, faults>>

RequestHistory(a) ==
    /\ pc[a] = "requesting"
    /\ requests' = requests + 1
    /\ Goto(a, "requested")
    /\ UNCHANGED <<attemptVars, preference, connection, credential, subscribed, lock, localVars,
                   faults>>

RecordRequested(a) ==
    /\ At(a, "requested")
    /\ connection' = [connection EXCEPT !.requested = TRUE]
    /\ Goto(a, "marking")
    /\ UNCHANGED <<attemptVars, preference, metaVars, lock, localVars, faults>>

\* The table's CHECK of what a connected row must have is no guard: it cannot fail, which
\* ConnectedIsComplete shows.
MarkConnected(a) ==
    /\ At(a, "marking")
    /\ connection' = [connection EXCEPT !.status = "connected"]
    /\ Release(a)
    /\ UNCHANGED <<attemptVars, preference, metaVars, faults>>

\* A step of the try block raises: connection_setup_failed.
Fail(a) ==
    /\ lock = a
    /\ pc[a] \in {"storing", "subscribing", "subscribed", "registering", "requesting",
                  "requested", "marking"}
    /\ Fault
    /\ connection' = [connection EXCEPT !.status = "failed"]
    /\ Release(a)
    /\ UNCHANGED <<attemptVars, preference, metaVars>>

\* The process dies, and PostgreSQL frees the lock.
Crash(a) ==
    /\ lock = a
    /\ Fault
    /\ Release(a)
    /\ UNCHANGED <<attemptVars, preference, connection, metaVars>>

\* The SQL connection breaks; the completion goes on until it needs it.
LoseLock(a) ==
    /\ lock = a
    /\ Fault
    /\ lock' = NoAttempt
    /\ UNCHANGED <<attemptVars, preference, connection, metaVars, pc, localVars>>

\* A statement on a broken connection raises, and so does the handler's.
Disconnected(a) ==
    /\ pc[a] # "idle" /\ lock # a
    /\ Goto(a, "idle")
    /\ seen' = [seen EXCEPT ![a] = NoConnection]
    /\ asset' = [asset EXCEPT ![a] = NoPhone]
    /\ wants' = [wants EXCEPT ![a] = FALSE]
    /\ UNCHANGED <<attemptVars, preference, connection, metaVars, lock, faults>>

-----------------------------------------------------------------------------
Init ==
    /\ stage = [a \in Attempts |-> "none"]
    /\ created = [a \in Attempts |-> 0]
    /\ expired = {}
    /\ preference = [import |-> FALSE, locked |-> FALSE]
    /\ connection = NoConnection
    /\ credential = NoAttempt /\ subscribed = FALSE /\ requests = 0
    /\ lock = NoAttempt
    /\ pc = [a \in Attempts |-> "idle"]
    /\ seen = [a \in Attempts |-> NoConnection]
    /\ asset = [a \in Attempts |-> NoPhone]
    /\ wants = [a \in Attempts |-> FALSE]
    /\ faults = 0

AttemptStep(a) ==
    BeginStart(a) \/ Start(a) \/ StartRefused(a) \/ Expire(a) \/ Cancel(a)

Complete(a) ==
    \/ Consume(a) \/ Exchange(a) \/ Read(a) \/ Refuse(a) \/ SaveAsset(a) \/ SaveRefused(a)
    \/ SavePreference(a) \/ Store(a) \/ Subscribe(a) \/ RecordSubscribed(a) \/ Register(a)
    \/ RequestHistory(a) \/ RecordRequested(a) \/ MarkConnected(a) \/ Fail(a) \/ Crash(a)
    \/ LoseLock(a) \/ Disconnected(a)

Next ==
    \/ \E a \in Attempts : AttemptStep(a) \/ Complete(a)
    \/ \E enabled \in BOOLEAN : SetImport(enabled)
    \/ Activate

Spec == Init /\ [][Next]_vars

-----------------------------------------------------------------------------
(* Properties *)

Connections ==
    [status : {"none", "connecting", "connected", "active", "failed"},
     phone : Phones \union {NoPhone}, subscribed : BOOLEAN, registered : BOOLEAN,
     requested : BOOLEAN, import : BOOLEAN]

Labels == {"idle", "exchanging", "reading", "saving", "preferring", "storing", "subscribing",
           "subscribed", "registering", "requesting", "requested", "marking"}

\* Rows, locks and local variables keep to their columns and types.
SignupTypeOK ==
    /\ stage \in [Attempts -> {"none", "begun", "live", "used", "refused"}]
    /\ created \in [Attempts -> Nat]
    /\ expired \subseteq Attempts
    /\ preference \in [import : BOOLEAN, locked : BOOLEAN]
    /\ connection \in Connections
    /\ credential \in Attempts \union {NoAttempt}
    /\ subscribed \in BOOLEAN /\ requests \in Nat
    /\ lock \in Attempts \union {NoAttempt}
    /\ pc \in [Attempts -> Labels]
    /\ seen \in [Attempts -> Connections]
    /\ asset \in [Attempts -> Phones \union {NoPhone}]
    /\ wants \in [Attempts -> BOOLEAN]
    /\ faults \in Nat

\* While an attempt can still be completed, or its completion holds the lock, the
\* preferences are frozen, whichever other attempts are cancelled and however late
\* (cancel: "A late cancellation must never unlock a newer signup attempt").
LiveAttemptFreezes ==
    \A a \in Attempts : stage[a] = "live" \/ lock = a => preference.locked

\* They are frozen while the attempt that began last can be completed or is being completed,
\* in whatever order starts that overlap get the lock; an attempt that another one begun
\* later got ahead of has no such promise.
NewestAttemptFreezes ==
    \A a \in Attempts : (stage[a] = "live" \/ lock = a) /\ ~Newer(a) => preference.locked

\* A connected number was set up entirely, over however many attempts: a token is stored,
\* Meta delivers its messages, and its history was requested if it is to be imported.
ConnectedIsComplete ==
    Connected =>
        /\ credential # NoAttempt
        /\ connection.subscribed /\ connection.registered /\ subscribed
        /\ connection.import => connection.requested /\ requests > 0

\* What the business sees of its attempts and of its number (module NumberConnection).
InStage(s) == {a \in Attempts : stage[a] = s}

Shown == IF connection.status = "connecting" THEN "open" ELSE connection.status

IsSetUp(step) ==
    \/ step = "token" /\ credential # NoAttempt
    \/ step = "subscription" /\ subscribed
    \/ step = "registration" /\ connection.registered
    \/ step = "history" /\ requests > 0

SetUp == {step \in {"token", "subscription", "registration", "history"} : IsSetUp(step)}

Number == INSTANCE NumberConnection WITH
    live <- InStage("live"), spent <- InStage("used"), number <- connection.phone,
    state <- Shown, setup <- SetUp, import <- connection.import

\* Attempts that resume, overtake or repeat each other, with lost locks, failed steps and
\* starts that overlap, keep that promise: one number for good ("connection_asset_change_
\* not_supported"), connected only when all is set up, at most one attempt to complete.
ImplementsConnection == Number!Spec

\* A number is connected without, or against, a frozen preference.
Dishonoured == Connected /\ (~preference.locked \/ connection.import # preference.import)

\* A number is connected, and its history imported, as the preferences say, which cannot be
\* changed any more, unless the attempt that connects it began before one that was inserted
\* earlier, whose cancellation could unfreeze them.
DishonouredByCrossingOnly ==
    [][~Dishonoured /\ Dishonoured' => \E a \in Attempts : At(a, "marking") /\ Newer(a)]_vars

\* Resumed attempts do not repeat the history request: Meta gets another one only after a
\* fault (docs/whatsapp-coexistence.md: a request accepted immediately before a crash).
HistoryRequestedOnce == requests <= 1 + faults

ActiveLost == connection.status = "active" /\ connection'.status # "active"

\* An active connection is taken back by nothing but a completion that had read the row
\* before it was activated (_connect: "connection_already_active").
ActiveLostToOverlapOnly ==
    [][ActiveLost => \E a \in Attempts : At(a, "saving") /\ seen[a].status # "active"]_vars
=============================================================================

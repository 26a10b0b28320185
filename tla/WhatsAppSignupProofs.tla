------------------------ MODULE WhatsAppSignupProofs ------------------------
(***************************************************************************)
(* Proofs about WhatsAppSignup, for any attempts, numbers and faults.      *)
(*                                                                         *)
(* What is recorded of a connection is never taken back, so what a         *)
(* completion read of it stays true, and while it has the lock nobody else *)
(* records anything.  The preferences are frozen for the attempt that      *)
(* began last: whatever order starts that overlap get the lock in, no      *)
(* cancellation finds it superseded.                                       *)
(***************************************************************************)
EXTENDS WhatsAppSignup, FiniteSetTheorems, TLAPS

\* How far a completion is: the number saved, the preference too, the token stored,
\* the subscription recorded, the registration recorded.
Saved == Labels \ {"idle", "exchanging", "reading", "saving"}
Preferred == Saved \ {"preferring"}
Stored == Preferred \ {"storing"}
Subscribed == {"registering", "requesting", "requested", "marking"}
Registered == Subscribed \ {"registering"}

\* What the row says is so at Meta.
RecordInv ==
    /\ connection.subscribed => subscribed
    /\ connection.requested => requests > 0
    /\ \A a \in Attempts : pc[a] = "subscribed" => subscribed
    /\ \A a \in Attempts : pc[a] = "requested" => requests > 0

\* What a completion read stays true, and decides what it does.
SeenInv ==
    \A a \in Attempts :
        /\ seen[a].subscribed => connection.subscribed
        /\ seen[a].requested => connection.requested
        /\ pc[a] = "saving" => seen[a].status # "active"
        /\ pc[a] = "requesting" => ~seen[a].requested

\* What the completion that has the lock has done.
HolderInv ==
    \A a \in Attempts : lock = a =>
        /\ pc[a] # "idle"
        /\ pc[a] \in Saved => connection.status = "connecting"
        /\ pc[a] \in Preferred => connection.import = wants[a]
        /\ pc[a] \in Stored => credential # NoAttempt
        /\ pc[a] \in Subscribed => connection.subscribed
        /\ pc[a] \in Registered => connection.registered
        /\ pc[a] = "marking" /\ wants[a] => connection.requested
        /\ pc[a] \in {"saving"} \union (Saved \ {"marking"}) =>
              seen[a].requested = connection.requested

SetupInv == RecordInv /\ SeenInv /\ HolderInv /\ ConnectedIsComplete

SignupInv == SignupTypeOK /\ SetupInv

\* Attempts are told apart by created_at, and a completion is of one that was inserted.
StartInv ==
    /\ \A a \in Attempts : stage[a] = "none" <=> created[a] = 0
    /\ \A a \in Attempts : created[a] <= Cardinality({b \in Attempts : created[b] # 0})
    /\ \A a, b \in Attempts : created[a] = created[b] /\ created[a] # 0 => a = b
    /\ \A a \in Attempts : lock = a => a \in Rows

\* While the completion of the newest attempt has the lock, its preference is the one in
\* the table.
WantsInv ==
    \A a \in Attempts :
        lock = a /\ ~Newer(a) /\ pc[a] \in Saved => wants[a] = preference.import

FreezeInv == StartInv /\ NewestAttemptFreezes /\ WantsInv

\* A completion that ends leaves its variables well typed.
LEMMA ReleaseTypes ==
    ASSUME SignupTypeOK, NEW a \in Attempts, Release(a)
    PROVE  /\ lock' = NoAttempt
           /\ pc' \in [Attempts -> Labels]
           /\ seen' \in [Attempts -> Connections]
           /\ asset' \in [Attempts -> Phones \union {NoPhone}]
           /\ wants' \in [Attempts -> BOOLEAN]
  BY DEF SignupTypeOK, Release, Goto, Labels, Connections, NoConnection

\* Every step keeps every variable in its set.
LEMMA SignupTypeStep ==
    SignupTypeOK /\ [Next]_vars => SignupTypeOK'
<1> SUFFICES ASSUME SignupTypeOK, [Next]_vars PROVE SignupTypeOK'
  OBVIOUS
<1> USE SignupAssumption DEF SignupTypeOK, Connections, Labels, attemptVars, metaVars,
           localVars
<1>1. ASSUME NEW a \in Attempts, BeginStart(a) PROVE SignupTypeOK'
  <2>1. Cardinality({b \in Attempts : created[b] # 0}) \in Nat
    BY FS_CardinalityType, FS_Subset
  <2>2. QED
    BY <1>1, <2>1 DEF BeginStart
<1>2. ASSUME NEW a \in Attempts, Start(a) PROVE SignupTypeOK'
  <2>1. stage' \in [Attempts -> {"none", "begun", "live", "used", "refused"}]
    BY <1>2 DEF Start
  <2>2. preference' \in [import : BOOLEAN, locked : BOOLEAN]
    BY <1>2 DEF Start
  <2>3. QED
    BY <1>2, <2>1, <2>2 DEF Start
<1>3. ASSUME NEW a \in Attempts, StartRefused(a) PROVE SignupTypeOK'
  BY <1>3 DEF StartRefused, Free
<1>4. ASSUME NEW a \in Attempts, Expire(a) PROVE SignupTypeOK'
  BY <1>4 DEF Expire
<1>5. ASSUME NEW a \in Attempts, Cancel(a) PROVE SignupTypeOK'
  BY <1>5 DEF Cancel, Free, Newer, Connected, Rows
<1>6. ASSUME NEW a \in Attempts, Consume(a) PROVE SignupTypeOK'
  BY <1>6 DEF Consume, Free, Goto
<1>7. ASSUME NEW a \in Attempts, Exchange(a) PROVE SignupTypeOK'
  BY <1>7 DEF Exchange, Goto
<1>8. ASSUME NEW a \in Attempts, Read(a) PROVE SignupTypeOK'
  BY <1>8 DEF Read, At, Goto
<1>9. ASSUME NEW a \in Attempts, Refuse(a) PROVE SignupTypeOK'
  BY <1>9, ReleaseTypes DEF Refuse, At
<1>10. ASSUME NEW a \in Attempts, SaveAsset(a) PROVE SignupTypeOK'
  BY <1>10 DEF SaveAsset, At, Goto
<1>11. ASSUME NEW a \in Attempts, SaveRefused(a) PROVE SignupTypeOK'
  BY <1>11, ReleaseTypes DEF SaveRefused, At
<1>12. ASSUME NEW a \in Attempts, SavePreference(a) PROVE SignupTypeOK'
  BY <1>12 DEF SavePreference, At, Goto
<1>13. ASSUME NEW a \in Attempts, Store(a) PROVE SignupTypeOK'
  BY <1>13 DEF Store, Goto
<1>14. ASSUME NEW a \in Attempts, Subscribe(a) PROVE SignupTypeOK'
  BY <1>14 DEF Subscribe, Goto
<1>15. ASSUME NEW a \in Attempts, RecordSubscribed(a) PROVE SignupTypeOK'
  BY <1>15 DEF RecordSubscribed, At, Goto
<1>16. ASSUME NEW a \in Attempts, Register(a) PROVE SignupTypeOK'
  BY <1>16 DEF Register, At, Goto
<1>17. ASSUME NEW a \in Attempts, RequestHistory(a) PROVE SignupTypeOK'
  BY <1>17 DEF RequestHistory, Goto
<1>18. ASSUME NEW a \in Attempts, RecordRequested(a) PROVE SignupTypeOK'
  BY <1>18 DEF RecordRequested, At, Goto
<1>19. ASSUME NEW a \in Attempts, MarkConnected(a) PROVE SignupTypeOK'
  BY <1>19, ReleaseTypes DEF MarkConnected, At
<1>20. ASSUME NEW a \in Attempts, Fail(a) PROVE SignupTypeOK'
  <2>1. connection' \in Connections
    BY <1>20 DEF Fail
  <2>2. QED
    BY <1>20, <2>1, ReleaseTypes DEF Fail, Fault
<1>21. ASSUME NEW a \in Attempts, Crash(a) PROVE SignupTypeOK'
  BY <1>21, ReleaseTypes DEF Crash, Fault
<1>22. ASSUME NEW a \in Attempts, LoseLock(a) PROVE SignupTypeOK'
  BY <1>22 DEF LoseLock, Fault
<1>23. ASSUME NEW a \in Attempts, Disconnected(a) PROVE SignupTypeOK'
  BY <1>23 DEF Disconnected, Goto, NoConnection
<1>24. ASSUME NEW enabled \in BOOLEAN, SetImport(enabled) PROVE SignupTypeOK'
  BY <1>24 DEF SetImport
<1>25. ASSUME Activate PROVE SignupTypeOK'
  BY <1>25 DEF Activate, Connected
<1>26. CASE UNCHANGED vars
  BY <1>26 DEF vars
<1>27. QED
  BY <1>1, <1>2, <1>3, <1>4, <1>5, <1>6, <1>7, <1>8, <1>9, <1>10, <1>11, <1>12, <1>13,
     <1>14, <1>15, <1>16, <1>17, <1>18, <1>19, <1>20, <1>21, <1>22, <1>23, <1>24,
     <1>25, <1>26
     DEF Next, AttemptStep, Complete

\* What is recorded was done before.
LEMMA RecordStep ==
    SignupInv /\ [Next]_vars => RecordInv'
<1> SUFFICES ASSUME SignupInv, [Next]_vars PROVE RecordInv'
  OBVIOUS
<1> USE SignupAssumption DEF SignupInv, SetupInv, SignupTypeOK, Connections, RecordInv,
           Labels, attemptVars, metaVars, localVars
<1>1. ASSUME NEW a \in Attempts, BeginStart(a) PROVE RecordInv'
  BY <1>1 DEF BeginStart
<1>2. ASSUME NEW a \in Attempts, Start(a) PROVE RecordInv'
  BY <1>2 DEF Start, Free
<1>3. ASSUME NEW a \in Attempts, StartRefused(a) PROVE RecordInv'
  BY <1>3 DEF StartRefused, Free
<1>4. ASSUME NEW a \in Attempts, Expire(a) PROVE RecordInv'
  BY <1>4 DEF Expire
<1>5. ASSUME NEW a \in Attempts, Cancel(a) PROVE RecordInv'
  BY <1>5 DEF Cancel, Free, Newer, Connected, Rows
<1>6. ASSUME NEW a \in Attempts, Consume(a) PROVE RecordInv'
  BY <1>6 DEF Consume, Free, Goto
<1>7. ASSUME NEW a \in Attempts, Exchange(a) PROVE RecordInv'
  BY <1>7 DEF Exchange, Goto
<1>8. ASSUME NEW a \in Attempts, Read(a) PROVE RecordInv'
  BY <1>8 DEF Read, At, Goto
<1>9. ASSUME NEW a \in Attempts, Refuse(a) PROVE RecordInv'
  BY <1>9 DEF Refuse, At, Release, Goto
<1>10. ASSUME NEW a \in Attempts, SaveAsset(a) PROVE RecordInv'
  BY <1>10 DEF SaveAsset, At, Goto
<1>11. ASSUME NEW a \in Attempts, SaveRefused(a) PROVE RecordInv'
  BY <1>11 DEF SaveRefused, At, Release, Goto
<1>12. ASSUME NEW a \in Attempts, SavePreference(a) PROVE RecordInv'
  BY <1>12 DEF SavePreference, At, Goto
<1>13. ASSUME NEW a \in Attempts, Store(a) PROVE RecordInv'
  BY <1>13 DEF Store, Goto
<1>14. ASSUME NEW a \in Attempts, Subscribe(a) PROVE RecordInv'
  BY <1>14 DEF Subscribe, Goto
<1>15. ASSUME NEW a \in Attempts, RecordSubscribed(a) PROVE RecordInv'
  BY <1>15 DEF RecordSubscribed, At, Goto
<1>16. ASSUME NEW a \in Attempts, Register(a) PROVE RecordInv'
  BY <1>16 DEF Register, At, Goto
<1>17. ASSUME NEW a \in Attempts, RequestHistory(a) PROVE RecordInv'
  BY <1>17 DEF RequestHistory, Goto
<1>18. ASSUME NEW a \in Attempts, RecordRequested(a) PROVE RecordInv'
  BY <1>18 DEF RecordRequested, At, Goto
<1>19. ASSUME NEW a \in Attempts, MarkConnected(a) PROVE RecordInv'
  BY <1>19 DEF MarkConnected, At, Release, Goto
<1>20. ASSUME NEW a \in Attempts, Fail(a) PROVE RecordInv'
  BY <1>20 DEF Fail, Fault, Release, Goto
<1>21. ASSUME NEW a \in Attempts, Crash(a) PROVE RecordInv'
  BY <1>21 DEF Crash, Fault, Release, Goto
<1>22. ASSUME NEW a \in Attempts, LoseLock(a) PROVE RecordInv'
  BY <1>22 DEF LoseLock, Fault
<1>23. ASSUME NEW a \in Attempts, Disconnected(a) PROVE RecordInv'
  BY <1>23 DEF Disconnected, Goto
<1>24. ASSUME NEW enabled \in BOOLEAN, SetImport(enabled) PROVE RecordInv'
  BY <1>24 DEF SetImport
<1>25. ASSUME Activate PROVE RecordInv'
  BY <1>25 DEF Activate, Connected
<1>26. CASE UNCHANGED vars
  BY <1>26 DEF vars
<1>27. QED
  BY <1>1, <1>2, <1>3, <1>4, <1>5, <1>6, <1>7, <1>8, <1>9, <1>10, <1>11, <1>12, <1>13,
     <1>14, <1>15, <1>16, <1>17, <1>18, <1>19, <1>20, <1>21, <1>22, <1>23, <1>24,
     <1>25, <1>26
     DEF Next, AttemptStep, Complete

\* What a completion has read stays true.
LEMMA SeenStep ==
    SignupInv /\ [Next]_vars => SeenInv'
<1> SUFFICES ASSUME SignupInv, [Next]_vars PROVE SeenInv'
  OBVIOUS
<1> USE SignupAssumption DEF SignupInv, SetupInv, SignupTypeOK, Connections, SeenInv, Labels,
           NoConnection, attemptVars, metaVars, localVars
<1>1. ASSUME NEW a \in Attempts, BeginStart(a) PROVE SeenInv'
  BY <1>1 DEF BeginStart
<1>2. ASSUME NEW a \in Attempts, Start(a) PROVE SeenInv'
  BY <1>2 DEF Start, Free
<1>3. ASSUME NEW a \in Attempts, StartRefused(a) PROVE SeenInv'
  BY <1>3 DEF StartRefused, Free
<1>4. ASSUME NEW a \in Attempts, Expire(a) PROVE SeenInv'
  BY <1>4 DEF Expire
<1>5. ASSUME NEW a \in Attempts, Cancel(a) PROVE SeenInv'
  BY <1>5 DEF Cancel, Free, Newer, Connected, Rows
<1>6. ASSUME NEW a \in Attempts, Consume(a) PROVE SeenInv'
  BY <1>6 DEF Consume, Free, Goto
<1>7. ASSUME NEW a \in Attempts, Exchange(a) PROVE SeenInv'
  BY <1>7 DEF Exchange, Goto
<1>8. ASSUME NEW a \in Attempts, Read(a) PROVE SeenInv'
  BY <1>8 DEF Read, At, Goto
<1>9. ASSUME NEW a \in Attempts, Refuse(a) PROVE SeenInv'
  BY <1>9 DEF Refuse, At, Release, Goto
<1>10. ASSUME NEW a \in Attempts, SaveAsset(a) PROVE SeenInv'
  BY <1>10 DEF SaveAsset, At, Goto
<1>11. ASSUME NEW a \in Attempts, SaveRefused(a) PROVE SeenInv'
  BY <1>11 DEF SaveRefused, At, Release, Goto
<1>12. ASSUME NEW a \in Attempts, SavePreference(a) PROVE SeenInv'
  BY <1>12 DEF SavePreference, At, Goto
<1>13. ASSUME NEW a \in Attempts, Store(a) PROVE SeenInv'
  BY <1>13 DEF Store, Goto
<1>14. ASSUME NEW a \in Attempts, Subscribe(a) PROVE SeenInv'
  BY <1>14 DEF Subscribe, Goto
<1>15. ASSUME NEW a \in Attempts, RecordSubscribed(a) PROVE SeenInv'
  BY <1>15 DEF RecordSubscribed, At, Goto
<1>16. ASSUME NEW a \in Attempts, Register(a) PROVE SeenInv'
  BY <1>16 DEF Register, At, Goto
<1>17. ASSUME NEW a \in Attempts, RequestHistory(a) PROVE SeenInv'
  BY <1>17 DEF RequestHistory, Goto
<1>18. ASSUME NEW a \in Attempts, RecordRequested(a) PROVE SeenInv'
  BY <1>18 DEF RecordRequested, At, Goto
<1>19. ASSUME NEW a \in Attempts, MarkConnected(a) PROVE SeenInv'
  BY <1>19 DEF MarkConnected, At, Release, Goto
<1>20. ASSUME NEW a \in Attempts, Fail(a) PROVE SeenInv'
  BY <1>20 DEF Fail, Fault, Release, Goto
<1>21. ASSUME NEW a \in Attempts, Crash(a) PROVE SeenInv'
  BY <1>21 DEF Crash, Fault, Release, Goto
<1>22. ASSUME NEW a \in Attempts, LoseLock(a) PROVE SeenInv'
  BY <1>22 DEF LoseLock, Fault
<1>23. ASSUME NEW a \in Attempts, Disconnected(a) PROVE SeenInv'
  BY <1>23 DEF Disconnected, Goto
<1>24. ASSUME NEW enabled \in BOOLEAN, SetImport(enabled) PROVE SeenInv'
  BY <1>24 DEF SetImport
<1>25. ASSUME Activate PROVE SeenInv'
  BY <1>25 DEF Activate, Connected
<1>26. CASE UNCHANGED vars
  BY <1>26 DEF vars
<1>27. QED
  BY <1>1, <1>2, <1>3, <1>4, <1>5, <1>6, <1>7, <1>8, <1>9, <1>10, <1>11, <1>12, <1>13,
     <1>14, <1>15, <1>16, <1>17, <1>18, <1>19, <1>20, <1>21, <1>22, <1>23, <1>24,
     <1>25, <1>26
     DEF Next, AttemptStep, Complete

\* Nobody undoes what the holder of the lock has done.
LEMMA HolderStep ==
    SignupInv /\ [Next]_vars => HolderInv'
<1> SUFFICES ASSUME SignupInv, [Next]_vars PROVE HolderInv'
  OBVIOUS
<1> USE SignupAssumption DEF SignupInv, SetupInv, SignupTypeOK, Connections, SeenInv,
           HolderInv, Saved, Preferred, Stored, Subscribed, Registered, Labels, attemptVars,
           metaVars, localVars
<1>1. ASSUME NEW a \in Attempts, BeginStart(a) PROVE HolderInv'
  BY <1>1 DEF BeginStart
<1>2. ASSUME NEW a \in Attempts, Start(a) PROVE HolderInv'
  BY <1>2 DEF Start, Free
<1>3. ASSUME NEW a \in Attempts, StartRefused(a) PROVE HolderInv'
  BY <1>3 DEF StartRefused, Free
<1>4. ASSUME NEW a \in Attempts, Expire(a) PROVE HolderInv'
  BY <1>4 DEF Expire
<1>5. ASSUME NEW a \in Attempts, Cancel(a) PROVE HolderInv'
  BY <1>5 DEF Cancel, Free, Newer, Connected, Rows
<1>6. ASSUME NEW a \in Attempts, Consume(a) PROVE HolderInv'
  BY <1>6 DEF Consume, Free, Goto
<1>7. ASSUME NEW a \in Attempts, Exchange(a) PROVE HolderInv'
  BY <1>7 DEF Exchange, Goto
<1>8. ASSUME NEW a \in Attempts, Read(a) PROVE HolderInv'
  BY <1>8 DEF Read, At, Goto
<1>9. ASSUME NEW a \in Attempts, Refuse(a) PROVE HolderInv'
  BY <1>9 DEF Refuse, At, Release, Goto
<1>10. ASSUME NEW a \in Attempts, SaveAsset(a) PROVE HolderInv'
  BY <1>10 DEF SaveAsset, At, Goto
<1>11. ASSUME NEW a \in Attempts, SaveRefused(a) PROVE HolderInv'
  BY <1>11 DEF SaveRefused, At, Release, Goto
<1>12. ASSUME NEW a \in Attempts, SavePreference(a) PROVE HolderInv'
  BY <1>12 DEF SavePreference, At, Goto
<1>13. ASSUME NEW a \in Attempts, Store(a) PROVE HolderInv'
  BY <1>13 DEF Store, Goto
<1>14. ASSUME NEW a \in Attempts, Subscribe(a) PROVE HolderInv'
  BY <1>14 DEF Subscribe, Goto
<1>15. ASSUME NEW a \in Attempts, RecordSubscribed(a) PROVE HolderInv'
  BY <1>15 DEF RecordSubscribed, At, Goto
<1>16. ASSUME NEW a \in Attempts, Register(a) PROVE HolderInv'
  BY <1>16 DEF Register, At, Goto
<1>17. ASSUME NEW a \in Attempts, RequestHistory(a) PROVE HolderInv'
  BY <1>17 DEF RequestHistory, Goto
<1>18. ASSUME NEW a \in Attempts, RecordRequested(a) PROVE HolderInv'
  BY <1>18 DEF RecordRequested, At, Goto
<1>19. ASSUME NEW a \in Attempts, MarkConnected(a) PROVE HolderInv'
  BY <1>19 DEF MarkConnected, At, Release, Goto
<1>20. ASSUME NEW a \in Attempts, Fail(a) PROVE HolderInv'
  BY <1>20 DEF Fail, Fault, Release, Goto
<1>21. ASSUME NEW a \in Attempts, Crash(a) PROVE HolderInv'
  BY <1>21 DEF Crash, Fault, Release, Goto
<1>22. ASSUME NEW a \in Attempts, LoseLock(a) PROVE HolderInv'
  BY <1>22 DEF LoseLock, Fault
<1>23. ASSUME NEW a \in Attempts, Disconnected(a) PROVE HolderInv'
  BY <1>23 DEF Disconnected, Goto
<1>24. ASSUME NEW enabled \in BOOLEAN, SetImport(enabled) PROVE HolderInv'
  BY <1>24 DEF SetImport
<1>25. ASSUME Activate PROVE HolderInv'
  BY <1>25 DEF Activate, Connected
<1>26. CASE UNCHANGED vars
  BY <1>26 DEF vars
<1>27. QED
  BY <1>1, <1>2, <1>3, <1>4, <1>5, <1>6, <1>7, <1>8, <1>9, <1>10, <1>11, <1>12, <1>13,
     <1>14, <1>15, <1>16, <1>17, <1>18, <1>19, <1>20, <1>21, <1>22, <1>23, <1>24,
     <1>25, <1>26
     DEF Next, AttemptStep, Complete

\* No step connects a number that is not set up.
LEMMA CompleteStep ==
    SignupInv /\ [Next]_vars => ConnectedIsComplete'
<1> SUFFICES ASSUME SignupInv, [Next]_vars PROVE ConnectedIsComplete'
  OBVIOUS
<1> USE SignupAssumption DEF SignupInv, SetupInv, SignupTypeOK, Connections, RecordInv,
           HolderInv, ConnectedIsComplete, Connected, Saved, Preferred, Stored, Subscribed,
           Registered, Labels, attemptVars, metaVars, localVars
<1>1. ASSUME NEW a \in Attempts, BeginStart(a) PROVE ConnectedIsComplete'
  BY <1>1 DEF BeginStart
<1>2. ASSUME NEW a \in Attempts, Start(a) PROVE ConnectedIsComplete'
  BY <1>2 DEF Start, Free
<1>3. ASSUME NEW a \in Attempts, StartRefused(a) PROVE ConnectedIsComplete'
  BY <1>3 DEF StartRefused, Free
<1>4. ASSUME NEW a \in Attempts, Expire(a) PROVE ConnectedIsComplete'
  BY <1>4 DEF Expire
<1>5. ASSUME NEW a \in Attempts, Cancel(a) PROVE ConnectedIsComplete'
  BY <1>5 DEF Cancel, Free, Newer, Connected, Rows
<1>6. ASSUME NEW a \in Attempts, Consume(a) PROVE ConnectedIsComplete'
  BY <1>6 DEF Consume, Free, Goto
<1>7. ASSUME NEW a \in Attempts, Exchange(a) PROVE ConnectedIsComplete'
  BY <1>7 DEF Exchange, Goto
<1>8. ASSUME NEW a \in Attempts, Read(a) PROVE ConnectedIsComplete'
  BY <1>8 DEF Read, At, Goto
<1>9. ASSUME NEW a \in Attempts, Refuse(a) PROVE ConnectedIsComplete'
  BY <1>9 DEF Refuse, At, Release, Goto
<1>10. ASSUME NEW a \in Attempts, SaveAsset(a) PROVE ConnectedIsComplete'
  BY <1>10 DEF SaveAsset, At, Goto
<1>11. ASSUME NEW a \in Attempts, SaveRefused(a) PROVE ConnectedIsComplete'
  BY <1>11 DEF SaveRefused, At, Release, Goto
<1>12. ASSUME NEW a \in Attempts, SavePreference(a) PROVE ConnectedIsComplete'
  BY <1>12 DEF SavePreference, At, Goto
<1>13. ASSUME NEW a \in Attempts, Store(a) PROVE ConnectedIsComplete'
  BY <1>13 DEF Store, Goto
<1>14. ASSUME NEW a \in Attempts, Subscribe(a) PROVE ConnectedIsComplete'
  BY <1>14 DEF Subscribe, Goto
<1>15. ASSUME NEW a \in Attempts, RecordSubscribed(a) PROVE ConnectedIsComplete'
  BY <1>15 DEF RecordSubscribed, At, Goto
<1>16. ASSUME NEW a \in Attempts, Register(a) PROVE ConnectedIsComplete'
  BY <1>16 DEF Register, At, Goto
<1>17. ASSUME NEW a \in Attempts, RequestHistory(a) PROVE ConnectedIsComplete'
  BY <1>17 DEF RequestHistory, Goto
<1>18. ASSUME NEW a \in Attempts, RecordRequested(a) PROVE ConnectedIsComplete'
  BY <1>18 DEF RecordRequested, At, Goto
<1>19. ASSUME NEW a \in Attempts, MarkConnected(a) PROVE ConnectedIsComplete'
  BY <1>19 DEF MarkConnected, At, Release, Goto
<1>20. ASSUME NEW a \in Attempts, Fail(a) PROVE ConnectedIsComplete'
  BY <1>20 DEF Fail, Fault, Release, Goto
<1>21. ASSUME NEW a \in Attempts, Crash(a) PROVE ConnectedIsComplete'
  BY <1>21 DEF Crash, Fault, Release, Goto
<1>22. ASSUME NEW a \in Attempts, LoseLock(a) PROVE ConnectedIsComplete'
  BY <1>22 DEF LoseLock, Fault
<1>23. ASSUME NEW a \in Attempts, Disconnected(a) PROVE ConnectedIsComplete'
  BY <1>23 DEF Disconnected, Goto
<1>24. ASSUME NEW enabled \in BOOLEAN, SetImport(enabled) PROVE ConnectedIsComplete'
  BY <1>24 DEF SetImport
<1>25. ASSUME Activate PROVE ConnectedIsComplete'
  BY <1>25 DEF Activate, Connected
<1>26. CASE UNCHANGED vars
  BY <1>26 DEF vars
<1>27. QED
  BY <1>1, <1>2, <1>3, <1>4, <1>5, <1>6, <1>7, <1>8, <1>9, <1>10, <1>11, <1>12, <1>13,
     <1>14, <1>15, <1>16, <1>17, <1>18, <1>19, <1>20, <1>21, <1>22, <1>23, <1>24,
     <1>25, <1>26
     DEF Next, AttemptStep, Complete

\* The strengthened invariant holds in every reachable state.
THEOREM SignupInductive == Spec => []SignupInv
<1>1. Init => SignupInv
  <2> USE SignupAssumption DEF Init, NoConnection
  <2>1. Init => SignupTypeOK
    <3>1. NoConnection \in Connections
      BY DEF Connections
    <3>2. Init => pc \in [Attempts -> Labels]
      BY DEF Labels
    <3>3. Init => seen \in [Attempts -> Connections] /\ connection \in Connections
      BY <3>1
    <3>4. Init => wants \in [Attempts -> BOOLEAN]
      OBVIOUS
    <3>5. Init => preference \in [import : BOOLEAN, locked : BOOLEAN]
      OBVIOUS
    <3>6. Init => created \in [Attempts -> Nat] /\ requests \in Nat /\ faults \in Nat
      OBVIOUS
    <3>7. Init => stage \in [Attempts -> {"none", "begun", "live", "used", "refused"}]
      OBVIOUS
    <3>8. Init => /\ expired \subseteq Attempts /\ credential \in Attempts \union {NoAttempt}
                  /\ lock \in Attempts \union {NoAttempt} /\ subscribed \in BOOLEAN
                  /\ asset \in [Attempts -> Phones \union {NoPhone}]
      OBVIOUS
    <3> HIDE DEF Init, NoConnection
    <3>9. QED
      BY <3>2, <3>3, <3>4, <3>5, <3>6, <3>7, <3>8 DEF SignupTypeOK
  <2>2. Init => RecordInv /\ SeenInv /\ HolderInv
    BY DEF RecordInv, SeenInv, HolderInv
  <2>3. Init => ConnectedIsComplete
    BY DEF ConnectedIsComplete, Connected
  <2>4. QED
    BY <2>1, <2>2, <2>3 DEF SignupInv, SetupInv
<1>2. SignupInv /\ [Next]_vars => SignupInv'
  BY SignupTypeStep, RecordStep, SeenStep, HolderStep, CompleteStep DEF SignupInv, SetupInv
<1>3. QED
  BY <1>1, <1>2, PTL DEF Spec

\* Rows, locks and local variables keep to their types in any number of attempts.
THEOREM SignupTypeCorrect == Spec => []SignupTypeOK
<1>1. SignupInv => SignupTypeOK
  BY DEF SignupInv
<1>2. QED
  BY <1>1, SignupInductive, PTL

\* A number is connected only with its token stored, its subscription and registration
\* recorded and its history requested if it is wanted, whatever was resumed or lost.
THEOREM NumbersAreSetUp == Spec => []ConnectedIsComplete
<1>1. SignupInv => ConnectedIsComplete
  BY DEF SignupInv, SetupInv
<1>2. QED
  BY <1>1, SignupInductive, PTL

\* Completions that lost the lock and have yet to request the history.
Lingering == {a \in Attempts : pc[a] = "requesting" /\ lock # a}

\* Is the request that needs no fault recorded, or about to be?
Done == IF connection.requested \/ \E a \in Attempts : lock = a /\ pc[a] = "requested"
        THEN 1 ELSE 0

\* Every request but one is, or will be, paid for by a fault.
CountInv == requests + Cardinality(Lingering) <= faults + Done

\* There are finitely many such completions.
LEMMA LingeringFinite == IsFiniteSet(Lingering) /\ Cardinality(Lingering) \in Nat
<1>1. Lingering \subseteq Attempts
  BY DEF Lingering
<1>2. IsFiniteSet(Lingering)
  BY <1>1, FS_Subset, SignupAssumption
<1>3. QED
  BY <1>2, FS_CardinalityType

\* The arithmetic of such a step: what was paid for stays paid for.
LEMMA Balance ==
    ASSUME NEW r \in Nat, NEW c \in Nat, NEW f \in Nat, NEW d \in {0, 1}, r + c <= f + d,
           NEW r1 \in Nat, NEW c1 \in Nat, NEW f1 \in Nat, NEW d1 \in {0, 1},
           c1 <= c, r1 + f + d <= r + f1 + d1
    PROVE  r1 + c1 <= f1 + d1
  OBVIOUS

\* A step after which no more completions linger and that pays for its requests.
LEMMA CountKept ==
    ASSUME SignupTypeOK, SignupTypeOK', CountInv, Lingering' \subseteq Lingering,
           requests' + faults + Done <= requests + faults' + Done'
    PROVE  CountInv'
<1>1. IsFiniteSet(Lingering) /\ Cardinality(Lingering) \in Nat
  BY LingeringFinite
<1>2. IsFiniteSet(Lingering') /\ Cardinality(Lingering') \in Nat
  BY <1>1, FS_Subset, FS_CardinalityType
<1>3. Cardinality(Lingering') <= Cardinality(Lingering)
  BY <1>1, FS_Subset
<1>4. Done \in {0, 1} /\ Done' \in {0, 1}
  BY DEF Done
<1>5. requests \in Nat /\ requests' \in Nat /\ faults \in Nat /\ faults' \in Nat
  BY DEF SignupTypeOK
<1>6. requests + Cardinality(Lingering) <= faults + Done
  BY DEF CountInv
<1>7. requests' + Cardinality(Lingering') <= faults' + Done'
  BY <1>1, <1>2, <1>3, <1>4, <1>5, <1>6, Balance
<1>8. QED
  BY <1>7 DEF CountInv

\* No step requests the history again without a fault to show for it.
LEMMA CountStep ==
    SignupInv /\ CountInv /\ [Next]_vars => CountInv'
<1> SUFFICES ASSUME SignupInv, CountInv, [Next]_vars PROVE CountInv'
  OBVIOUS
<1>0. SignupTypeOK /\ SignupTypeOK'
  BY SignupTypeStep DEF SignupInv
<1> USE <1>0, SignupAssumption
    DEF SignupInv, SignupTypeOK, Connections, At, attemptVars, metaVars,
           localVars
<1>1. ASSUME NEW a \in Attempts, BeginStart(a) PROVE CountInv'
  <2>1. Lingering' \subseteq Lingering
    BY <1>1 DEF Lingering, BeginStart
  <2>2. requests' + faults + Done <= requests + faults' + Done'
    BY <1>1 DEF Done, BeginStart
  <2>3. QED
    BY <2>1, <2>2, CountKept
<1>2. ASSUME NEW a \in Attempts, Start(a) PROVE CountInv'
  <2>1. Lingering' \subseteq Lingering
    BY <1>2 DEF Lingering, Start, Free
  <2>2. requests' + faults + Done <= requests + faults' + Done'
    BY <1>2 DEF Done, Start, Free
  <2>3. QED
    BY <2>1, <2>2, CountKept
<1>3. ASSUME NEW a \in Attempts, StartRefused(a) PROVE CountInv'
  <2>1. Lingering' \subseteq Lingering
    BY <1>3 DEF Lingering, StartRefused, Free
  <2>2. requests' + faults + Done <= requests + faults' + Done'
    BY <1>3 DEF Done, StartRefused, Free
  <2>3. QED
    BY <2>1, <2>2, CountKept
<1>4. ASSUME NEW a \in Attempts, Expire(a) PROVE CountInv'
  <2>1. Lingering' \subseteq Lingering
    BY <1>4 DEF Lingering, Expire
  <2>2. requests' + faults + Done <= requests + faults' + Done'
    BY <1>4 DEF Done, Expire
  <2>3. QED
    BY <2>1, <2>2, CountKept
<1>5. ASSUME NEW a \in Attempts, Cancel(a) PROVE CountInv'
  <2>1. Lingering' \subseteq Lingering
    BY <1>5 DEF Lingering, Cancel, Free, Newer, Connected, Rows
  <2>2. requests' + faults + Done <= requests + faults' + Done'
    BY <1>5 DEF Done, Cancel, Free, Newer, Connected, Rows
  <2>3. QED
    BY <2>1, <2>2, CountKept
<1>6. ASSUME NEW a \in Attempts, Consume(a) PROVE CountInv'
  <2>1. Lingering' \subseteq Lingering
    BY <1>6 DEF Lingering, Consume, Free, Goto
  <2>2. requests' + faults + Done <= requests + faults' + Done'
    BY <1>6 DEF Done, Consume, Free, Goto
  <2>3. QED
    BY <2>1, <2>2, CountKept
<1>7. ASSUME NEW a \in Attempts, Exchange(a) PROVE CountInv'
  <2>1. Lingering' \subseteq Lingering
    BY <1>7 DEF Lingering, Exchange, Goto
  <2>2. requests' + faults + Done <= requests + faults' + Done'
    BY <1>7 DEF Done, Exchange, Goto
  <2>3. QED
    BY <2>1, <2>2, CountKept
<1>8. ASSUME NEW a \in Attempts, Read(a) PROVE CountInv'
  <2>1. Lingering' \subseteq Lingering
    BY <1>8 DEF Lingering, Read, At, Goto
  <2>2. requests' + faults + Done <= requests + faults' + Done'
    BY <1>8 DEF Done, Read, At, Goto
  <2>3. QED
    BY <2>1, <2>2, CountKept
<1>9. ASSUME NEW a \in Attempts, Refuse(a) PROVE CountInv'
  <2>1. Lingering' \subseteq Lingering
    BY <1>9 DEF Lingering, Refuse, At, Release, Goto
  <2>2. requests' + faults + Done <= requests + faults' + Done'
    BY <1>9 DEF Done, Refuse, At, Release, Goto
  <2>3. QED
    BY <2>1, <2>2, CountKept
<1>10. ASSUME NEW a \in Attempts, SaveAsset(a) PROVE CountInv'
  <2>1. Lingering' \subseteq Lingering
    BY <1>10 DEF Lingering, SaveAsset, At, Goto
  <2>2. requests' + faults + Done <= requests + faults' + Done'
    BY <1>10 DEF Done, SaveAsset, At, Goto
  <2>3. QED
    BY <2>1, <2>2, CountKept
<1>11. ASSUME NEW a \in Attempts, SaveRefused(a) PROVE CountInv'
  <2>1. Lingering' \subseteq Lingering
    BY <1>11 DEF Lingering, SaveRefused, At, Release, Goto
  <2>2. requests' + faults + Done <= requests + faults' + Done'
    BY <1>11 DEF Done, SaveRefused, At, Release, Goto
  <2>3. QED
    BY <2>1, <2>2, CountKept
<1>12. ASSUME NEW a \in Attempts, SavePreference(a) PROVE CountInv'
  <2>1. Lingering' \subseteq Lingering
    BY <1>12 DEF Lingering, SavePreference, At, Goto
  <2>2. requests' + faults + Done <= requests + faults' + Done'
    BY <1>12 DEF Done, SavePreference, At, Goto
  <2>3. QED
    BY <2>1, <2>2, CountKept
<1>13. ASSUME NEW a \in Attempts, Store(a) PROVE CountInv'
  <2>1. Lingering' \subseteq Lingering
    BY <1>13 DEF Lingering, Store, Goto
  <2>2. requests' + faults + Done <= requests + faults' + Done'
    BY <1>13 DEF Done, Store, Goto
  <2>3. QED
    BY <2>1, <2>2, CountKept
<1>14. ASSUME NEW a \in Attempts, Subscribe(a) PROVE CountInv'
  <2>1. Lingering' \subseteq Lingering
    BY <1>14 DEF Lingering, Subscribe, Goto
  <2>2. requests' + faults + Done <= requests + faults' + Done'
    BY <1>14 DEF Done, Subscribe, Goto
  <2>3. QED
    BY <2>1, <2>2, CountKept
<1>15. ASSUME NEW a \in Attempts, RecordSubscribed(a) PROVE CountInv'
  <2>1. Lingering' \subseteq Lingering
    BY <1>15 DEF Lingering, RecordSubscribed, At, Goto
  <2>2. requests' + faults + Done <= requests + faults' + Done'
    BY <1>15 DEF Done, RecordSubscribed, At, Goto
  <2>3. QED
    BY <2>1, <2>2, CountKept
<1>16. ASSUME NEW a \in Attempts, Register(a) PROVE CountInv'
  <2>1. Lingering' \subseteq Lingering
    BY <1>16 DEF Lingering, Register, At, Goto
  <2>2. requests' + faults + Done <= requests + faults' + Done'
    BY <1>16 DEF Done, Register, At, Goto
  <2>3. QED
    BY <2>1, <2>2, CountKept
<1>17. ASSUME NEW a \in Attempts, RequestHistory(a) PROVE CountInv'
  <2>1. CASE lock = a
    <3>1. Lingering' \subseteq Lingering
      BY <1>17, <2>1 DEF Lingering, RequestHistory, Goto
    <3>2. ~connection.requested
      BY <1>17, <2>1 DEF RequestHistory, SetupInv, SeenInv, HolderInv, Saved, Labels
    <3>3. Done = 0 /\ Done' = 1
      BY <1>17, <2>1, <3>2 DEF Done, RequestHistory, Goto
    <3>4. requests' = requests + 1 /\ faults' = faults
      BY <1>17 DEF RequestHistory
    <3>5. QED
      BY <3>1, <3>3, <3>4, CountKept
  <2>2. CASE lock # a
    <3>1. Lingering' = Lingering \ {a} /\ a \in Lingering
      BY <1>17, <2>2 DEF Lingering, RequestHistory, Goto
    <3>2. requests' = requests + 1 /\ faults' = faults /\ Done' = Done
      BY <1>17, <2>2 DEF Done, RequestHistory, Goto
    <3>3. IsFiniteSet(Lingering) /\ Cardinality(Lingering) \in Nat
      BY LingeringFinite
    <3>4. Cardinality(Lingering') = Cardinality(Lingering) - 1
      BY <3>1, <3>3, FS_RemoveElement
    <3>5. QED
      BY <3>2, <3>3, <3>4 DEF CountInv, Done
  <2>3. QED
    BY <2>1, <2>2
<1>18. ASSUME NEW a \in Attempts, RecordRequested(a) PROVE CountInv'
  <2>1. Lingering' \subseteq Lingering
    BY <1>18 DEF Lingering, RecordRequested, At, Goto
  <2>2. requests' + faults + Done <= requests + faults' + Done'
    BY <1>18 DEF Done, RecordRequested, At, Goto
  <2>3. QED
    BY <2>1, <2>2, CountKept
<1>19. ASSUME NEW a \in Attempts, MarkConnected(a) PROVE CountInv'
  <2>1. Lingering' \subseteq Lingering
    BY <1>19 DEF Lingering, MarkConnected, At, Release, Goto
  <2>2. requests' + faults + Done <= requests + faults' + Done'
    BY <1>19 DEF Done, MarkConnected, At, Release, Goto
  <2>3. QED
    BY <2>1, <2>2, CountKept
<1>20. ASSUME NEW a \in Attempts, Fail(a) PROVE CountInv'
  <2>1. Lingering' \subseteq Lingering
    BY <1>20 DEF Lingering, Fail, Fault, Release, Goto
  <2>2. requests' + faults + Done <= requests + faults' + Done'
    BY <1>20 DEF Done, Fail, Fault, Release, Goto
  <2>3. QED
    BY <2>1, <2>2, CountKept
<1>21. ASSUME NEW a \in Attempts, Crash(a) PROVE CountInv'
  <2>1. Lingering' \subseteq Lingering
    BY <1>21 DEF Lingering, Crash, Fault, Release, Goto
  <2>2. requests' + faults + Done <= requests + faults' + Done'
    BY <1>21 DEF Done, Crash, Fault, Release, Goto
  <2>3. QED
    BY <2>1, <2>2, CountKept
<1>22. ASSUME NEW a \in Attempts, LoseLock(a) PROVE CountInv'
  <2>1. CASE pc[a] # "requesting"
    <3>1. Lingering' \subseteq Lingering
      BY <1>22, <2>1 DEF Lingering, LoseLock
    <3>2. requests' + faults + Done <= requests + faults' + Done'
      BY <1>22 DEF Done, LoseLock, Fault
    <3>3. QED
      BY <3>1, <3>2, CountKept
  <2>2. CASE pc[a] = "requesting"
    <3>1. Lingering' = Lingering \union {a} /\ a \notin Lingering
      BY <1>22, <2>2 DEF Lingering, LoseLock
    <3>2. requests' = requests /\ faults' = faults + 1 /\ Done' = Done
      BY <1>22, <2>2 DEF Done, LoseLock, Fault
    <3>3. IsFiniteSet(Lingering) /\ Cardinality(Lingering) \in Nat
      BY LingeringFinite
    <3>4. Cardinality(Lingering') = Cardinality(Lingering) + 1
      BY <3>1, <3>3, FS_AddElement
    <3>5. QED
      BY <3>2, <3>3, <3>4 DEF CountInv, Done
  <2>3. QED
    BY <2>1, <2>2
<1>23. ASSUME NEW a \in Attempts, Disconnected(a) PROVE CountInv'
  <2>1. Lingering' \subseteq Lingering
    BY <1>23 DEF Lingering, Disconnected, Goto
  <2>2. requests' + faults + Done <= requests + faults' + Done'
    BY <1>23 DEF Done, Disconnected, Goto
  <2>3. QED
    BY <2>1, <2>2, CountKept
<1>24. ASSUME NEW enabled \in BOOLEAN, SetImport(enabled) PROVE CountInv'
  <2>1. Lingering' \subseteq Lingering
    BY <1>24 DEF Lingering, SetImport
  <2>2. requests' + faults + Done <= requests + faults' + Done'
    BY <1>24 DEF Done, SetImport
  <2>3. QED
    BY <2>1, <2>2, CountKept
<1>25. ASSUME Activate PROVE CountInv'
  <2>1. Lingering' \subseteq Lingering
    BY <1>25 DEF Lingering, Activate, Connected
  <2>2. requests' + faults + Done <= requests + faults' + Done'
    BY <1>25 DEF Done, Activate, Connected
  <2>3. QED
    BY <2>1, <2>2, CountKept
<1>26. CASE UNCHANGED vars
  <2>1. Lingering' \subseteq Lingering
    BY <1>26 DEF Lingering, vars
  <2>2. requests' + faults + Done <= requests + faults' + Done'
    BY <1>26 DEF Done, vars
  <2>3. QED
    BY <2>1, <2>2, CountKept
<1>27. QED
  BY <1>1, <1>2, <1>3, <1>4, <1>5, <1>6, <1>7, <1>8, <1>9, <1>10, <1>11, <1>12, <1>13,
     <1>14, <1>15, <1>16, <1>17, <1>18, <1>19, <1>20, <1>21, <1>22, <1>23, <1>24,
     <1>25, <1>26
     DEF Next, AttemptStep, Complete

\* A step may do so only to a row that a completion is about to overwrite.
OverlapOnly == ActiveLost => \E a \in Attempts : At(a, "saving") /\ seen[a].status # "active"

\* Only a completion with an older row takes an activation back.
LEMMA ActiveStep ==
    SignupInv /\ [Next]_vars => OverlapOnly
<1> SUFFICES ASSUME SignupInv, [Next]_vars PROVE OverlapOnly
  OBVIOUS
<1> USE SignupAssumption DEF SignupInv, SetupInv, SeenInv, HolderInv, SignupTypeOK,
           Connections, At, OverlapOnly, ActiveLost, Saved, Labels, attemptVars, metaVars,
           localVars
<1>1. ASSUME NEW a \in Attempts, BeginStart(a) PROVE OverlapOnly
  BY <1>1 DEF BeginStart
<1>2. ASSUME NEW a \in Attempts, Start(a) PROVE OverlapOnly
  BY <1>2 DEF Start, Free
<1>3. ASSUME NEW a \in Attempts, StartRefused(a) PROVE OverlapOnly
  BY <1>3 DEF StartRefused, Free
<1>4. ASSUME NEW a \in Attempts, Expire(a) PROVE OverlapOnly
  BY <1>4 DEF Expire
<1>5. ASSUME NEW a \in Attempts, Cancel(a) PROVE OverlapOnly
  BY <1>5 DEF Cancel, Free, Newer, Connected, Rows
<1>6. ASSUME NEW a \in Attempts, Consume(a) PROVE OverlapOnly
  BY <1>6 DEF Consume, Free, Goto
<1>7. ASSUME NEW a \in Attempts, Exchange(a) PROVE OverlapOnly
  BY <1>7 DEF Exchange, Goto
<1>8. ASSUME NEW a \in Attempts, Read(a) PROVE OverlapOnly
  BY <1>8 DEF Read, At, Goto
<1>9. ASSUME NEW a \in Attempts, Refuse(a) PROVE OverlapOnly
  BY <1>9 DEF Refuse, At, Release, Goto
<1>10. ASSUME NEW a \in Attempts, SaveAsset(a) PROVE OverlapOnly
  BY <1>10 DEF SaveAsset, At, Goto
<1>11. ASSUME NEW a \in Attempts, SaveRefused(a) PROVE OverlapOnly
  BY <1>11 DEF SaveRefused, At, Release, Goto
<1>12. ASSUME NEW a \in Attempts, SavePreference(a) PROVE OverlapOnly
  BY <1>12 DEF SavePreference, At, Goto
<1>13. ASSUME NEW a \in Attempts, Store(a) PROVE OverlapOnly
  BY <1>13 DEF Store, Goto
<1>14. ASSUME NEW a \in Attempts, Subscribe(a) PROVE OverlapOnly
  BY <1>14 DEF Subscribe, Goto
<1>15. ASSUME NEW a \in Attempts, RecordSubscribed(a) PROVE OverlapOnly
  BY <1>15 DEF RecordSubscribed, At, Goto
<1>16. ASSUME NEW a \in Attempts, Register(a) PROVE OverlapOnly
  BY <1>16 DEF Register, At, Goto
<1>17. ASSUME NEW a \in Attempts, RequestHistory(a) PROVE OverlapOnly
  BY <1>17 DEF RequestHistory, Goto
<1>18. ASSUME NEW a \in Attempts, RecordRequested(a) PROVE OverlapOnly
  BY <1>18 DEF RecordRequested, At, Goto
<1>19. ASSUME NEW a \in Attempts, MarkConnected(a) PROVE OverlapOnly
  BY <1>19 DEF MarkConnected, At, Release, Goto
<1>20. ASSUME NEW a \in Attempts, Fail(a) PROVE OverlapOnly
  BY <1>20 DEF Fail, Fault, Release, Goto
<1>21. ASSUME NEW a \in Attempts, Crash(a) PROVE OverlapOnly
  BY <1>21 DEF Crash, Fault, Release, Goto
<1>22. ASSUME NEW a \in Attempts, LoseLock(a) PROVE OverlapOnly
  BY <1>22 DEF LoseLock, Fault
<1>23. ASSUME NEW a \in Attempts, Disconnected(a) PROVE OverlapOnly
  BY <1>23 DEF Disconnected, Goto
<1>24. ASSUME NEW enabled \in BOOLEAN, SetImport(enabled) PROVE OverlapOnly
  BY <1>24 DEF SetImport
<1>25. ASSUME Activate PROVE OverlapOnly
  BY <1>25 DEF Activate, Connected
<1>26. CASE UNCHANGED vars
  BY <1>26 DEF vars
<1>27. QED
  BY <1>1, <1>2, <1>3, <1>4, <1>5, <1>6, <1>7, <1>8, <1>9, <1>10, <1>11, <1>12, <1>13,
     <1>14, <1>15, <1>16, <1>17, <1>18, <1>19, <1>20, <1>21, <1>22, <1>23, <1>24,
     <1>25, <1>26
     DEF Next, AttemptStep, Complete

\* Every step keeps attempts apart.
LEMMA StartStep ==
    SignupTypeOK /\ StartInv /\ [Next]_vars => StartInv'
<1> SUFFICES ASSUME SignupTypeOK, StartInv, [Next]_vars PROVE StartInv'
  OBVIOUS
<1> USE SignupAssumption DEF SignupTypeOK, StartInv, Rows, attemptVars, metaVars, localVars
<1>1. ASSUME NEW a \in Attempts, BeginStart(a) PROVE StartInv'
  <2> DEFINE old == {b \in Attempts : created[b] # 0}
             new == {b \in Attempts : created'[b] # 0}
  <2>1. IsFiniteSet(old)
    BY FS_Subset
  <2>2. Cardinality(old) \in Nat
    BY <2>1, FS_CardinalityType
  <2>3. created' = [created EXCEPT ![a] = 1 + Cardinality(old)]
    BY <1>1 DEF BeginStart
  <2>4. new = old \union {a} /\ a \notin old
    <3>1. created[a] = 0 /\ created'[a] # 0
      BY <1>1, <2>2, <2>3 DEF BeginStart
    <3>2. \A b \in Attempts \ {a} : created'[b] = created[b]
      BY <2>3
    <3>3. QED
      BY <3>1, <3>2
  <2>5. \A b \in Attempts : created[b] <= Cardinality(old)
    OBVIOUS
  <2>7. stage' = [stage EXCEPT ![a] = "begun"] /\ stage[a] = "none" /\ lock' = lock
    BY <1>1 DEF BeginStart
  <2> HIDE DEF old, new
  <2>6. Cardinality(new) = 1 + Cardinality(old)
    <3>1. Cardinality(old \union {a}) = Cardinality(old) + 1
      BY <2>1, <2>4, FS_AddElement
    <3>2. QED
      BY <2>2, <2>4, <3>1
  <2>8. \A b \in Attempts : stage'[b] = "none" <=> created'[b] = 0
    BY <2>2, <2>3, <2>7
  <2>9. \A b \in Attempts : created'[b] <= Cardinality(new)
    BY <2>2, <2>3, <2>5, <2>6
  <2>10. \A b, c \in Attempts : created'[b] = created'[c] /\ created'[b] # 0 => b = c
    BY <2>2, <2>3, <2>5
  <2>11. \A b \in Attempts : lock' = b => b \in Rows'
    BY <2>7
  <2>12. QED
    BY <2>8, <2>9, <2>10, <2>11 DEF new
<1>2. ASSUME NEW a \in Attempts, Start(a) PROVE StartInv'
  BY <1>2 DEF Start, Free
<1>3. ASSUME NEW a \in Attempts, StartRefused(a) PROVE StartInv'
  BY <1>3 DEF StartRefused, Free
<1>4. ASSUME NEW a \in Attempts, Expire(a) PROVE StartInv'
  BY <1>4 DEF Expire
<1>5. ASSUME NEW a \in Attempts, Cancel(a) PROVE StartInv'
  BY <1>5 DEF Cancel, Free, Newer, Connected, Rows
<1>6. ASSUME NEW a \in Attempts, Consume(a) PROVE StartInv'
  BY <1>6 DEF Consume, Free, Goto
<1>7. ASSUME NEW a \in Attempts, Exchange(a) PROVE StartInv'
  BY <1>7 DEF Exchange, Goto
<1>8. ASSUME NEW a \in Attempts, Read(a) PROVE StartInv'
  BY <1>8 DEF Read, At, Goto
<1>9. ASSUME NEW a \in Attempts, Refuse(a) PROVE StartInv'
  BY <1>9 DEF Refuse, At, Release, Goto
<1>10. ASSUME NEW a \in Attempts, SaveAsset(a) PROVE StartInv'
  BY <1>10 DEF SaveAsset, At, Goto
<1>11. ASSUME NEW a \in Attempts, SaveRefused(a) PROVE StartInv'
  BY <1>11 DEF SaveRefused, At, Release, Goto
<1>12. ASSUME NEW a \in Attempts, SavePreference(a) PROVE StartInv'
  BY <1>12 DEF SavePreference, At, Goto
<1>13. ASSUME NEW a \in Attempts, Store(a) PROVE StartInv'
  BY <1>13 DEF Store, Goto
<1>14. ASSUME NEW a \in Attempts, Subscribe(a) PROVE StartInv'
  BY <1>14 DEF Subscribe, Goto
<1>15. ASSUME NEW a \in Attempts, RecordSubscribed(a) PROVE StartInv'
  BY <1>15 DEF RecordSubscribed, At, Goto
<1>16. ASSUME NEW a \in Attempts, Register(a) PROVE StartInv'
  BY <1>16 DEF Register, At, Goto
<1>17. ASSUME NEW a \in Attempts, RequestHistory(a) PROVE StartInv'
  BY <1>17 DEF RequestHistory, Goto
<1>18. ASSUME NEW a \in Attempts, RecordRequested(a) PROVE StartInv'
  BY <1>18 DEF RecordRequested, At, Goto
<1>19. ASSUME NEW a \in Attempts, MarkConnected(a) PROVE StartInv'
  BY <1>19 DEF MarkConnected, At, Release, Goto
<1>20. ASSUME NEW a \in Attempts, Fail(a) PROVE StartInv'
  BY <1>20 DEF Fail, Fault, Release, Goto
<1>21. ASSUME NEW a \in Attempts, Crash(a) PROVE StartInv'
  BY <1>21 DEF Crash, Fault, Release, Goto
<1>22. ASSUME NEW a \in Attempts, LoseLock(a) PROVE StartInv'
  BY <1>22 DEF LoseLock, Fault
<1>23. ASSUME NEW a \in Attempts, Disconnected(a) PROVE StartInv'
  BY <1>23 DEF Disconnected, Goto
<1>24. ASSUME NEW enabled \in BOOLEAN, SetImport(enabled) PROVE StartInv'
  BY <1>24 DEF SetImport
<1>25. ASSUME Activate PROVE StartInv'
  BY <1>25 DEF Activate, Connected
<1>26. CASE UNCHANGED vars
  BY <1>26 DEF vars
<1>27. QED
  BY <1>1, <1>2, <1>3, <1>4, <1>5, <1>6, <1>7, <1>8, <1>9, <1>10, <1>11, <1>12, <1>13,
     <1>14, <1>15, <1>16, <1>17, <1>18, <1>19, <1>20, <1>21, <1>22, <1>23, <1>24,
     <1>25, <1>26
     DEF Next, AttemptStep, Complete

\* No step unfreezes the preferences of the newest attempt while it can be completed.
LEMMA FreezeStep ==
    SignupTypeOK /\ FreezeInv /\ [Next]_vars => NewestAttemptFreezes'
<1> SUFFICES ASSUME SignupTypeOK, FreezeInv, [Next]_vars PROVE NewestAttemptFreezes'
  OBVIOUS
<1> USE SignupAssumption DEF SignupTypeOK, FreezeInv, StartInv, NewestAttemptFreezes, Rows,
           Newer, attemptVars, metaVars, localVars
<1>1. ASSUME NEW a \in Attempts, BeginStart(a) PROVE NewestAttemptFreezes'
  BY <1>1 DEF BeginStart
<1>2. ASSUME NEW a \in Attempts, Start(a) PROVE NewestAttemptFreezes'
  BY <1>2 DEF Start, Free
<1>3. ASSUME NEW a \in Attempts, StartRefused(a) PROVE NewestAttemptFreezes'
  BY <1>3 DEF StartRefused, Free
<1>4. ASSUME NEW a \in Attempts, Expire(a) PROVE NewestAttemptFreezes'
  BY <1>4 DEF Expire
<1>5. ASSUME NEW a \in Attempts, Cancel(a) PROVE NewestAttemptFreezes'
  BY <1>5 DEF Cancel, Free, Newer, Connected, Rows
<1>6. ASSUME NEW a \in Attempts, Consume(a) PROVE NewestAttemptFreezes'
  BY <1>6 DEF Consume, Free, Goto
<1>7. ASSUME NEW a \in Attempts, Exchange(a) PROVE NewestAttemptFreezes'
  BY <1>7 DEF Exchange, Goto
<1>8. ASSUME NEW a \in Attempts, Read(a) PROVE NewestAttemptFreezes'
  BY <1>8 DEF Read, At, Goto
<1>9. ASSUME NEW a \in Attempts, Refuse(a) PROVE NewestAttemptFreezes'
  BY <1>9 DEF Refuse, At, Release, Goto
<1>10. ASSUME NEW a \in Attempts, SaveAsset(a) PROVE NewestAttemptFreezes'
  BY <1>10 DEF SaveAsset, At, Goto
<1>11. ASSUME NEW a \in Attempts, SaveRefused(a) PROVE NewestAttemptFreezes'
  BY <1>11 DEF SaveRefused, At, Release, Goto
<1>12. ASSUME NEW a \in Attempts, SavePreference(a) PROVE NewestAttemptFreezes'
  BY <1>12 DEF SavePreference, At, Goto
<1>13. ASSUME NEW a \in Attempts, Store(a) PROVE NewestAttemptFreezes'
  BY <1>13 DEF Store, Goto
<1>14. ASSUME NEW a \in Attempts, Subscribe(a) PROVE NewestAttemptFreezes'
  BY <1>14 DEF Subscribe, Goto
<1>15. ASSUME NEW a \in Attempts, RecordSubscribed(a) PROVE NewestAttemptFreezes'
  BY <1>15 DEF RecordSubscribed, At, Goto
<1>16. ASSUME NEW a \in Attempts, Register(a) PROVE NewestAttemptFreezes'
  BY <1>16 DEF Register, At, Goto
<1>17. ASSUME NEW a \in Attempts, RequestHistory(a) PROVE NewestAttemptFreezes'
  BY <1>17 DEF RequestHistory, Goto
<1>18. ASSUME NEW a \in Attempts, RecordRequested(a) PROVE NewestAttemptFreezes'
  BY <1>18 DEF RecordRequested, At, Goto
<1>19. ASSUME NEW a \in Attempts, MarkConnected(a) PROVE NewestAttemptFreezes'
  BY <1>19 DEF MarkConnected, At, Release, Goto
<1>20. ASSUME NEW a \in Attempts, Fail(a) PROVE NewestAttemptFreezes'
  BY <1>20 DEF Fail, Fault, Release, Goto
<1>21. ASSUME NEW a \in Attempts, Crash(a) PROVE NewestAttemptFreezes'
  BY <1>21 DEF Crash, Fault, Release, Goto
<1>22. ASSUME NEW a \in Attempts, LoseLock(a) PROVE NewestAttemptFreezes'
  BY <1>22 DEF LoseLock, Fault
<1>23. ASSUME NEW a \in Attempts, Disconnected(a) PROVE NewestAttemptFreezes'
  BY <1>23 DEF Disconnected, Goto
<1>24. ASSUME NEW enabled \in BOOLEAN, SetImport(enabled) PROVE NewestAttemptFreezes'
  BY <1>24 DEF SetImport
<1>25. ASSUME Activate PROVE NewestAttemptFreezes'
  BY <1>25 DEF Activate, Connected
<1>26. CASE UNCHANGED vars
  BY <1>26 DEF vars
<1>27. QED
  BY <1>1, <1>2, <1>3, <1>4, <1>5, <1>6, <1>7, <1>8, <1>9, <1>10, <1>11, <1>12, <1>13,
     <1>14, <1>15, <1>16, <1>17, <1>18, <1>19, <1>20, <1>21, <1>22, <1>23, <1>24,
     <1>25, <1>26
     DEF Next, AttemptStep, Complete

\* While a completion is running the preference stays what it read.
LEMMA WantsStep ==
    SignupInv /\ FreezeInv /\ [Next]_vars => WantsInv'
<1> SUFFICES ASSUME SignupInv, FreezeInv, [Next]_vars PROVE WantsInv'
  OBVIOUS
<1> USE SignupAssumption DEF SignupInv, SignupTypeOK, FreezeInv, StartInv,
           NewestAttemptFreezes, WantsInv, Newer, Rows, Saved, Labels, attemptVars,
           metaVars, localVars
<1>1. ASSUME NEW a \in Attempts, BeginStart(a) PROVE WantsInv'
  BY <1>1 DEF BeginStart
<1>2. ASSUME NEW a \in Attempts, Start(a) PROVE WantsInv'
  BY <1>2 DEF Start, Free
<1>3. ASSUME NEW a \in Attempts, StartRefused(a) PROVE WantsInv'
  BY <1>3 DEF StartRefused, Free
<1>4. ASSUME NEW a \in Attempts, Expire(a) PROVE WantsInv'
  BY <1>4 DEF Expire
<1>5. ASSUME NEW a \in Attempts, Cancel(a) PROVE WantsInv'
  BY <1>5 DEF Cancel, Free, Newer, Connected, Rows
<1>6. ASSUME NEW a \in Attempts, Consume(a) PROVE WantsInv'
  BY <1>6 DEF Consume, Free, Goto
<1>7. ASSUME NEW a \in Attempts, Exchange(a) PROVE WantsInv'
  BY <1>7 DEF Exchange, Goto
<1>8. ASSUME NEW a \in Attempts, Read(a) PROVE WantsInv'
  BY <1>8 DEF Read, At, Goto
<1>9. ASSUME NEW a \in Attempts, Refuse(a) PROVE WantsInv'
  BY <1>9 DEF Refuse, At, Release, Goto
<1>10. ASSUME NEW a \in Attempts, SaveAsset(a) PROVE WantsInv'
  BY <1>10 DEF SaveAsset, At, Goto
<1>11. ASSUME NEW a \in Attempts, SaveRefused(a) PROVE WantsInv'
  BY <1>11 DEF SaveRefused, At, Release, Goto
<1>12. ASSUME NEW a \in Attempts, SavePreference(a) PROVE WantsInv'
  BY <1>12 DEF SavePreference, At, Goto
<1>13. ASSUME NEW a \in Attempts, Store(a) PROVE WantsInv'
  BY <1>13 DEF Store, Goto
<1>14. ASSUME NEW a \in Attempts, Subscribe(a) PROVE WantsInv'
  BY <1>14 DEF Subscribe, Goto
<1>15. ASSUME NEW a \in Attempts, RecordSubscribed(a) PROVE WantsInv'
  BY <1>15 DEF RecordSubscribed, At, Goto
<1>16. ASSUME NEW a \in Attempts, Register(a) PROVE WantsInv'
  BY <1>16 DEF Register, At, Goto
<1>17. ASSUME NEW a \in Attempts, RequestHistory(a) PROVE WantsInv'
  BY <1>17 DEF RequestHistory, Goto
<1>18. ASSUME NEW a \in Attempts, RecordRequested(a) PROVE WantsInv'
  BY <1>18 DEF RecordRequested, At, Goto
<1>19. ASSUME NEW a \in Attempts, MarkConnected(a) PROVE WantsInv'
  BY <1>19 DEF MarkConnected, At, Release, Goto
<1>20. ASSUME NEW a \in Attempts, Fail(a) PROVE WantsInv'
  BY <1>20 DEF Fail, Fault, Release, Goto
<1>21. ASSUME NEW a \in Attempts, Crash(a) PROVE WantsInv'
  BY <1>21 DEF Crash, Fault, Release, Goto
<1>22. ASSUME NEW a \in Attempts, LoseLock(a) PROVE WantsInv'
  BY <1>22 DEF LoseLock, Fault
<1>23. ASSUME NEW a \in Attempts, Disconnected(a) PROVE WantsInv'
  BY <1>23 DEF Disconnected, Goto
<1>24. ASSUME NEW enabled \in BOOLEAN, SetImport(enabled) PROVE WantsInv'
  BY <1>24 DEF SetImport
<1>25. ASSUME Activate PROVE WantsInv'
  BY <1>25 DEF Activate, Connected
<1>26. CASE UNCHANGED vars
  BY <1>26 DEF vars
<1>27. QED
  BY <1>1, <1>2, <1>3, <1>4, <1>5, <1>6, <1>7, <1>8, <1>9, <1>10, <1>11, <1>12, <1>13,
     <1>14, <1>15, <1>16, <1>17, <1>18, <1>19, <1>20, <1>21, <1>22, <1>23, <1>24,
     <1>25, <1>26
     DEF Next, AttemptStep, Complete

\* Only the completion of an attempt that is not the newest departs from the preference.
CrossingOnly ==
    ~Dishonoured /\ Dishonoured' => \E a \in Attempts : At(a, "marking") /\ Newer(a)

\* No other step connects a number against the preference or takes the freeze away.
LEMMA HonourStep ==
    SignupInv /\ FreezeInv /\ [Next]_vars => CrossingOnly
<1> SUFFICES ASSUME SignupInv, FreezeInv, [Next]_vars PROVE CrossingOnly
  OBVIOUS
<1> USE SignupAssumption DEF SignupInv, SetupInv, HolderInv, SignupTypeOK, Connections,
           FreezeInv, NewestAttemptFreezes, WantsInv, CrossingOnly, Dishonoured, Connected,
           Saved, Preferred, Labels, At, attemptVars, metaVars, localVars
<1>1. ASSUME NEW a \in Attempts, BeginStart(a) PROVE CrossingOnly
  BY <1>1 DEF BeginStart
<1>2. ASSUME NEW a \in Attempts, Start(a) PROVE CrossingOnly
  BY <1>2 DEF Start, Free
<1>3. ASSUME NEW a \in Attempts, StartRefused(a) PROVE CrossingOnly
  BY <1>3 DEF StartRefused, Free
<1>4. ASSUME NEW a \in Attempts, Expire(a) PROVE CrossingOnly
  BY <1>4 DEF Expire
<1>5. ASSUME NEW a \in Attempts, Cancel(a) PROVE CrossingOnly
  BY <1>5 DEF Cancel, Free, Newer, Connected, Rows
<1>6. ASSUME NEW a \in Attempts, Consume(a) PROVE CrossingOnly
  BY <1>6 DEF Consume, Free, Goto
<1>7. ASSUME NEW a \in Attempts, Exchange(a) PROVE CrossingOnly
  BY <1>7 DEF Exchange, Goto
<1>8. ASSUME NEW a \in Attempts, Read(a) PROVE CrossingOnly
  BY <1>8 DEF Read, At, Goto
<1>9. ASSUME NEW a \in Attempts, Refuse(a) PROVE CrossingOnly
  BY <1>9 DEF Refuse, At, Release, Goto
<1>10. ASSUME NEW a \in Attempts, SaveAsset(a) PROVE CrossingOnly
  BY <1>10 DEF SaveAsset, At, Goto
<1>11. ASSUME NEW a \in Attempts, SaveRefused(a) PROVE CrossingOnly
  BY <1>11 DEF SaveRefused, At, Release, Goto
<1>12. ASSUME NEW a \in Attempts, SavePreference(a) PROVE CrossingOnly
  BY <1>12 DEF SavePreference, At, Goto
<1>13. ASSUME NEW a \in Attempts, Store(a) PROVE CrossingOnly
  BY <1>13 DEF Store, Goto
<1>14. ASSUME NEW a \in Attempts, Subscribe(a) PROVE CrossingOnly
  BY <1>14 DEF Subscribe, Goto
<1>15. ASSUME NEW a \in Attempts, RecordSubscribed(a) PROVE CrossingOnly
  BY <1>15 DEF RecordSubscribed, At, Goto
<1>16. ASSUME NEW a \in Attempts, Register(a) PROVE CrossingOnly
  BY <1>16 DEF Register, At, Goto
<1>17. ASSUME NEW a \in Attempts, RequestHistory(a) PROVE CrossingOnly
  BY <1>17 DEF RequestHistory, Goto
<1>18. ASSUME NEW a \in Attempts, RecordRequested(a) PROVE CrossingOnly
  BY <1>18 DEF RecordRequested, At, Goto
<1>19. ASSUME NEW a \in Attempts, MarkConnected(a) PROVE CrossingOnly
  BY <1>19 DEF MarkConnected, At, Release, Goto
<1>20. ASSUME NEW a \in Attempts, Fail(a) PROVE CrossingOnly
  BY <1>20 DEF Fail, Fault, Release, Goto
<1>21. ASSUME NEW a \in Attempts, Crash(a) PROVE CrossingOnly
  BY <1>21 DEF Crash, Fault, Release, Goto
<1>22. ASSUME NEW a \in Attempts, LoseLock(a) PROVE CrossingOnly
  BY <1>22 DEF LoseLock, Fault
<1>23. ASSUME NEW a \in Attempts, Disconnected(a) PROVE CrossingOnly
  BY <1>23 DEF Disconnected, Goto
<1>24. ASSUME NEW enabled \in BOOLEAN, SetImport(enabled) PROVE CrossingOnly
  BY <1>24 DEF SetImport
<1>25. ASSUME Activate PROVE CrossingOnly
  BY <1>25 DEF Activate, Connected
<1>26. CASE UNCHANGED vars
  BY <1>26 DEF vars
<1>27. QED
  BY <1>1, <1>2, <1>3, <1>4, <1>5, <1>6, <1>7, <1>8, <1>9, <1>10, <1>11, <1>12, <1>13,
     <1>14, <1>15, <1>16, <1>17, <1>18, <1>19, <1>20, <1>21, <1>22, <1>23, <1>24,
     <1>25, <1>26
     DEF Next, AttemptStep, Complete

\* Meta gets a second history request only after a fault, however attempts are resumed.
THEOREM RequestsAreNotRepeated == Spec => []HistoryRequestedOnce
<1>1. Init => CountInv
  <2>1. SUFFICES ASSUME Init PROVE CountInv
    OBVIOUS
  <2>2. Lingering = {}
    BY <2>1 DEF Init, Lingering
  <2>3. Cardinality(Lingering) = 0
    BY <2>2, FS_EmptySet
  <2>4. QED
    BY <2>1, <2>3 DEF Init, NoConnection, CountInv, Done
<1>2. SignupInv /\ CountInv /\ [Next]_vars => CountInv'
  BY CountStep
<1>3. SignupInv /\ CountInv => HistoryRequestedOnce
  <2>1. SUFFICES ASSUME SignupInv, CountInv PROVE HistoryRequestedOnce
    OBVIOUS
  <2>2. Cardinality(Lingering) \in Nat /\ Done \in {0, 1}
    BY LingeringFinite DEF Done
  <2>3. QED
    BY <2>1, <2>2 DEF SignupInv, SignupTypeOK, CountInv, HistoryRequestedOnce
<1>4. QED
  BY <1>1, <1>2, <1>3, SignupInductive, PTL DEF Spec

\* An activation is taken back by nothing but a completion that had read the row before it.
THEOREM ActivationsLast == Spec => ActiveLostToOverlapOnly
<1>1. SignupInv /\ [Next]_vars => [OverlapOnly]_vars
  BY ActiveStep
<1>2. QED
  BY <1>1, SignupInductive, PTL DEF Spec, ActiveLostToOverlapOnly, OverlapOnly

\* The invariants of the preferences hold in every state.
THEOREM FreezeInductive == Spec => []FreezeInv
<1>1. Init => FreezeInv
  <2>1. SUFFICES ASSUME Init PROVE FreezeInv
    OBVIOUS
  <2>2. {b \in Attempts : created[b] # 0} = {}
    BY <2>1 DEF Init
  <2>3. StartInv
    BY <2>1, <2>2, FS_EmptySet, SignupAssumption DEF Init, StartInv, Rows
  <2>4. NewestAttemptFreezes /\ WantsInv
    BY <2>1, SignupAssumption DEF Init, NewestAttemptFreezes, WantsInv
  <2>5. QED
    BY <2>3, <2>4 DEF FreezeInv
<1>2. SignupInv /\ FreezeInv /\ [Next]_vars => FreezeInv'
  BY StartStep, FreezeStep, WantsStep DEF SignupInv, FreezeInv
<1>3. QED
  BY <1>1, <1>2, SignupInductive, PTL DEF Spec

\* The preferences stay frozen for the attempt that began last, in whatever order the starts
\* get the lock and however late others are cancelled.
THEOREM AttemptsFreeze == Spec => []NewestAttemptFreezes
<1>1. FreezeInv => NewestAttemptFreezes
  BY DEF FreezeInv
<1>2. QED
  BY <1>1, FreezeInductive, PTL

\* A number is connected as the frozen preferences say, unless by an attempt that another
\* one begun later got ahead of; nothing changes them afterwards.
THEOREM PreferencesHold == Spec => DishonouredByCrossingOnly
<1>1. SignupInv /\ FreezeInv /\ [Next]_vars => [CrossingOnly]_vars
  BY HonourStep
<1>2. QED
  BY <1>1, SignupInductive, FreezeInductive, PTL
     DEF Spec, DishonouredByCrossingOnly, CrossingOnly

-----------------------------------------------------------------------------
(* The promise to the business *)

\* A completion has used its attempt up; from the moment it has compared the number it
\* verified with the row, nobody but the lock's holder can give the row another one.
NumberInv ==
    \A a \in Attempts :
        /\ pc[a] # "idle" => stage[a] = "used"
        /\ pc[a] \notin {"idle", "exchanging"} => asset[a] \in Phones
        /\ pc[a] \in Saved => connection.phone # NoPhone
        /\ lock = a /\ pc[a] = "saving" => connection.phone \in {NoPhone, asset[a]}

LEMMA NumberInvStep == SignupTypeOK /\ SignupTypeOK' /\ NumberInv /\ [Next]_vars => NumberInv'
<1> SUFFICES ASSUME SignupTypeOK, SignupTypeOK', NumberInv, [Next]_vars PROVE NumberInv'
  OBVIOUS
<1> USE SignupAssumption DEF NumberInv, SignupTypeOK, Saved, Labels, Connections, attemptVars,
        metaVars, localVars
<1>1. ASSUME NEW a \in Attempts, AttemptStep(a) PROVE NumberInv'
  <2>1. CASE BeginStart(a) \/ StartRefused(a)
    BY <2>1 DEF BeginStart, StartRefused
  <2>2. CASE Start(a)
    BY <2>2 DEF Start
  <2>3. CASE Expire(a) \/ Cancel(a)
    BY <2>3 DEF Expire, Cancel, Rows
  <2> QED
    BY <1>1, <2>1, <2>2, <2>3 DEF AttemptStep
<1>2. ASSUME NEW a \in Attempts, Complete(a) PROVE NumberInv'
  <2>1. CASE Consume(a)
    BY <2>1 DEF Consume, Goto, Free
  <2>2. CASE Exchange(a)
    BY <2>2 DEF Exchange, Goto
  <2>3. CASE Read(a)
    BY <2>3 DEF Read, At, Goto
  <2>4. CASE Refuse(a) \/ SaveRefused(a) \/ Crash(a)
    BY <2>4 DEF Refuse, SaveRefused, Crash, Release, Goto
  <2>5. CASE SaveAsset(a)
    <3>1. connection'.phone = asset[a] /\ asset[a] \in Phones
      BY <2>5 DEF SaveAsset, At
    <3> QED
      BY <2>5, <3>1 DEF SaveAsset, At, Goto
  <2>6. CASE SavePreference(a) \/ RecordSubscribed(a) \/ Register(a) \/ RecordRequested(a)
    <3>1. connection'.phone = connection.phone
      BY <2>6 DEF SavePreference, RecordSubscribed, Register, RecordRequested
    <3> QED
      BY <2>6, <3>1 DEF SavePreference, RecordSubscribed, Register, RecordRequested, At, Goto
  <2>7. CASE Store(a) \/ Subscribe(a) \/ RequestHistory(a)
    BY <2>7 DEF Store, Subscribe, RequestHistory, Goto
  <2>8. CASE MarkConnected(a) \/ Fail(a)
    <3>1. connection'.phone = connection.phone
      BY <2>8 DEF MarkConnected, Fail
    <3> QED
      BY <2>8, <3>1 DEF MarkConnected, Fail, Release, Goto
  <2>9. CASE LoseLock(a) \/ Disconnected(a)
    BY <2>9 DEF LoseLock, Disconnected, Goto
  <2> QED
    BY <1>2, <2>1, <2>2, <2>3, <2>4, <2>5, <2>6, <2>7, <2>8, <2>9 DEF Complete
<1>3. ASSUME NEW enabled \in BOOLEAN, SetImport(enabled) PROVE NumberInv'
  BY <1>3 DEF SetImport
<1>4. CASE Activate
  BY <1>4 DEF Activate
<1>5. CASE UNCHANGED vars
  BY <1>5 DEF vars
<1> QED
  BY <1>1, <1>2, <1>3, <1>4, <1>5 DEF Next

\* The steps that change nothing the business sees.
LEMMA NumberStutters ==
    UNCHANGED <<connection.phone, connection.status, connection.registered, connection.import,
                credential, subscribed, requests, InStage("live"), InStage("used")>>
        => UNCHANGED Number!vars
BY DEF Number!vars, Shown, SetUp, IsSetUp

LEMMA SetUpOfOne ==
    ASSUME NEW s \in {"token", "subscription", "registration", "history"}, IsSetUp(s)',
           \A t : t # s => (IsSetUp(t)' <=> IsSetUp(t))
    PROVE  SetUp' = SetUp \union {s}
BY DEF SetUp

\* Starts, cancellations and the begin of a completion.
LEMMA AttemptNumber ==
    ASSUME SignupInv, NumberInv, NEW a \in Attempts, AttemptStep(a) \/ Consume(a)
    PROVE  [Number!Next]_Number!vars
<1> USE DEF SignupInv, SignupTypeOK, attemptVars, metaVars, localVars
<1>1. UNCHANGED <<connection, credential, subscribed, requests>>
  BY DEF AttemptStep, BeginStart, Start, StartRefused, Expire, Cancel, Consume
<1>2. UNCHANGED <<connection.phone, Shown, SetUp, connection.import>>
  BY <1>1 DEF Shown, SetUp, IsSetUp
<1>3. CASE BeginStart(a) \/ StartRefused(a) \/ Expire(a)
  <2>1. UNCHANGED <<InStage("live"), InStage("used")>>
    BY <1>3 DEF BeginStart, StartRefused, Expire, InStage
  <2> QED
    BY <1>2, <2>1 DEF Number!vars
<1>4. CASE Start(a)
  <2>1. a \notin InStage("live") \union InStage("used")
    BY <1>4 DEF Start, InStage
  <2>2. InStage("live")' = {a} /\ InStage("used")' = InStage("used") \union InStage("live")
    BY <1>4 DEF Start, InStage
  <2> QED
    BY <1>2, <2>1, <2>2 DEF Number!Next, Number!Issue
<1>5. ASSUME stage[a] \in {"live", "used"}, stage' = [stage EXCEPT ![a] = "used"]
      PROVE  [Number!Next]_Number!vars
  <2>1. InStage("live")' = InStage("live") \ {a} /\ InStage("used")' = InStage("used") \union {a}
    BY <1>5 DEF InStage
  <2>2. CASE a \in InStage("live")
    BY <1>2, <2>1, <2>2 DEF Number!Next, Number!Spend
  <2>3. CASE a \notin InStage("live")
    <3>1. UNCHANGED <<InStage("live"), InStage("used")>>
      BY <1>5, <2>1, <2>3 DEF InStage
    <3> QED
      BY <1>2, <3>1 DEF Number!vars
  <2> QED
    BY <2>2, <2>3
<1>6. CASE Cancel(a) \/ Consume(a)
  BY <1>5, <1>6 DEF Cancel, Consume, Rows
<1> QED
  BY <1>3, <1>4, <1>6 DEF AttemptStep

\* What a completion does to the row and at Meta.
LEMMA CompletionNumber ==
    ASSUME SignupInv, NumberInv, NEW a \in Attempts, Complete(a), ~Consume(a)
    PROVE  [Number!Next]_Number!vars
<1> USE DEF SignupInv, SignupTypeOK, SetupInv, Connections, attemptVars, metaVars, localVars, At
<1>1. UNCHANGED <<InStage("live"), InStage("used")>>
  <2>1. stage' = stage
    BY DEF Complete, Exchange, Read, Refuse, SaveAsset, SaveRefused, SavePreference, Store,
       Subscribe, RecordSubscribed, Register, RequestHistory, RecordRequested, MarkConnected,
       Fail, Crash, LoseLock, Disconnected
  <2> QED
    BY <2>1 DEF InStage
<1>2. CASE Exchange(a) \/ Read(a) \/ Refuse(a) \/ SaveRefused(a) \/ Crash(a) \/ LoseLock(a)
           \/ Disconnected(a)
  <2>1. UNCHANGED <<connection, credential, subscribed, requests>>
    BY <1>2 DEF Exchange, Read, Refuse, SaveRefused, Crash, LoseLock, Disconnected
  <2> QED
    BY <1>1, <2>1, NumberStutters
<1>3. CASE RecordSubscribed(a) \/ RecordRequested(a)
  <2>1. UNCHANGED <<connection.phone, connection.status, connection.registered,
                    connection.import, credential, subscribed, requests>>
    BY <1>3 DEF RecordSubscribed, RecordRequested
  <2> QED
    BY <1>1, <2>1, NumberStutters
<1>4. CASE SaveAsset(a)
  <2>1. /\ lock = a /\ pc[a] = "saving" /\ UNCHANGED <<credential, subscribed, requests>>
        /\ connection'.phone = asset[a] /\ connection'.status = "connecting"
        /\ UNCHANGED <<connection.registered, connection.import>>
    BY <1>4 DEF SaveAsset
  <2>2. /\ a \in InStage("used") /\ asset[a] \in Phones
        /\ connection.phone \in {NoPhone, asset[a]}
    BY <2>1 DEF NumberInv, InStage
  <2>3. Shown' = "open" /\ SetUp' = SetUp
    BY <2>1 DEF Shown, SetUp, IsSetUp
  <2>4. Number!Open(a, asset[a])
    BY <1>1, <2>1, <2>2, <2>3 DEF Number!Open
  <2> QED
    BY <2>2, <2>4 DEF Number!Next
<1>5. CASE SavePreference(a)
  <2>1. /\ connection.status = "connecting" /\ connection'.import \in BOOLEAN
        /\ UNCHANGED <<connection.phone, connection.status, connection.registered, credential,
                       subscribed, requests>>
    BY <1>5 DEF SavePreference, HolderInv, Saved, Labels
  <2>2. Shown = "open" /\ Shown' = Shown /\ SetUp' = SetUp
    BY <2>1 DEF Shown, SetUp, IsSetUp
  <2> QED
    BY <1>1, <2>1, <2>2 DEF Number!Next, Number!Choose
<1>6. CASE Store(a) \/ Subscribe(a) \/ Register(a) \/ RequestHistory(a)
  <2>1. pc[a] \in Saved
    BY <1>6 DEF Store, Subscribe, Register, RequestHistory, Saved, Labels
  <2>2. connection.phone # NoPhone
    BY <2>1 DEF NumberInv
  <2>3. UNCHANGED <<connection.phone, connection.status, connection.import>>
    BY <1>6 DEF Store, Subscribe, Register, RequestHistory
  <2>4. \E s \in {"token", "subscription", "registration", "history"} :
            SetUp' = SetUp \union {s}
    <3>1. CASE Store(a)
      <4>1. IsSetUp("token")' /\ \A t : t # "token" => (IsSetUp(t)' <=> IsSetUp(t))
        BY <3>1, SignupAssumption DEF Store, IsSetUp
      <4> QED
        BY <4>1, SetUpOfOne
    <3>2. CASE Subscribe(a)
      <4>1. IsSetUp("subscription")' /\ \A t : t # "subscription" => (IsSetUp(t)' <=> IsSetUp(t))
        BY <3>2 DEF Subscribe, IsSetUp
      <4> QED
        BY <4>1, SetUpOfOne
    <3>3. CASE Register(a)
      <4>1. IsSetUp("registration")' /\ \A t : t # "registration" => (IsSetUp(t)' <=> IsSetUp(t))
        BY <3>3 DEF Register, IsSetUp
      <4> QED
        BY <4>1, SetUpOfOne
    <3>4. CASE RequestHistory(a)
      <4>1. IsSetUp("history")' /\ \A t : t # "history" => (IsSetUp(t)' <=> IsSetUp(t))
        BY <3>4 DEF RequestHistory, IsSetUp
      <4> QED
        BY <4>1, SetUpOfOne
    <3> QED
      BY <1>6, <3>1, <3>2, <3>3, <3>4
  <2>5. Shown' = Shown
    BY <2>3 DEF Shown
  <2> QED
    BY <1>1, <2>2, <2>3, <2>4, <2>5 DEF Number!Next, Number!SetUp, Number!Steps
<1>7. CASE MarkConnected(a)
  <2>1. /\ connection.status = "connecting" /\ connection'.status = "connected"
        /\ UNCHANGED <<connection.phone, connection.import, connection.registered, credential,
                       subscribed, requests>>
    BY <1>7 DEF MarkConnected, HolderInv, Saved, Labels
  <2>2. /\ IsSetUp("token") /\ IsSetUp("subscription") /\ IsSetUp("registration")
        /\ connection.import => IsSetUp("history")
    <3>1. /\ credential # NoAttempt /\ connection.subscribed /\ connection.registered
          /\ connection.import => connection.requested
      BY <1>7 DEF MarkConnected, HolderInv, Saved, Preferred, Stored, Subscribed, Registered,
         Labels
    <3> QED
      BY <3>1 DEF RecordInv, IsSetUp
  <2>3. Shown = "open" /\ Shown' = "connected" /\ SetUp' = SetUp
    BY <2>1 DEF Shown, SetUp, IsSetUp
  <2>4. Number!Steps \ {"history"} \subseteq SetUp /\ (connection.import => "history" \in SetUp)
    BY <2>2 DEF SetUp, Number!Steps
  <2> QED
    BY <1>1, <2>1, <2>3, <2>4 DEF Number!Next, Number!Connect
<1>8. CASE Fail(a)
  <2>1. /\ connection.status = "connecting" /\ connection'.status = "failed"
        /\ UNCHANGED <<connection.phone, connection.import, connection.registered, credential,
                       subscribed, requests>>
    BY <1>8 DEF Fail, HolderInv, Saved, Labels
  <2>2. Shown = "open" /\ Shown' = "failed" /\ SetUp' = SetUp
    BY <2>1 DEF Shown, SetUp, IsSetUp
  <2> QED
    BY <1>1, <2>1, <2>2 DEF Number!Next, Number!GiveUp
<1> QED
  BY <1>2, <1>3, <1>4, <1>5, <1>6, <1>7, <1>8 DEF Complete

LEMMA NumberStep == SignupInv /\ NumberInv /\ [Next]_vars => [Number!Next]_Number!vars
<1> SUFFICES ASSUME SignupInv, NumberInv, [Next]_vars PROVE [Number!Next]_Number!vars
  OBVIOUS
<1>1. ASSUME NEW a \in Attempts, AttemptStep(a) \/ Complete(a) PROVE [Number!Next]_Number!vars
  BY <1>1, AttemptNumber, CompletionNumber
<1>2. ASSUME NEW enabled \in BOOLEAN, SetImport(enabled) PROVE [Number!Next]_Number!vars
  <2>1. UNCHANGED <<connection, credential, subscribed, requests, stage>>
    BY <1>2 DEF SetImport, attemptVars, metaVars
  <2> QED
    BY <2>1, NumberStutters DEF InStage
<1>3. CASE Activate
  <2>1. /\ connection.status \in {"connected", "active"} /\ connection'.status = "active"
        /\ UNCHANGED <<connection.phone, connection.import, connection.registered, credential,
                       subscribed, requests, stage>>
    BY <1>3 DEF Activate, Connected, attemptVars, metaVars, SignupInv, SignupTypeOK, Connections
  <2>2. /\ Shown = connection.status /\ Shown' = "active" /\ SetUp' = SetUp
        /\ UNCHANGED <<InStage("live"), InStage("used")>>
    BY <2>1 DEF Shown, SetUp, IsSetUp, InStage
  <2> QED
    BY <2>1, <2>2 DEF Number!Next, Number!Activate, Number!vars
<1>4. CASE UNCHANGED vars
  BY <1>4, NumberStutters DEF vars, InStage, attemptVars, metaVars
<1> QED
  BY <1>1, <1>2, <1>3, <1>4 DEF Next

\* However attempts resume, overtake and repeat each other, whether starts overlap or not:
\* the session gets one number and keeps it, at most one attempt can be completed, and the
\* number counts as connected only when it is set up.
THEOREM RefinesConnection == Spec => ImplementsConnection
<1>1. Init => NumberInv /\ Number!Init
  <2>1. Init => NumberInv
    BY SignupAssumption DEF Init, NumberInv, Saved
  <2>2. Init => Number!Init
    BY DEF Init, NoConnection, Number!Init, InStage, Shown, SetUp, IsSetUp
  <2> QED
    BY <2>1, <2>2
<1>2. SignupInv /\ SignupInv' /\ NumberInv /\ [Next]_vars => NumberInv'
  BY NumberInvStep DEF SignupInv
<1>3. SignupInv /\ NumberInv /\ [Next]_vars => [Number!Next]_Number!vars
  BY NumberStep
<1> QED
  BY SignupInductive, <1>1, <1>2, <1>3, PTL DEF ImplementsConnection, Spec, Number!Spec
===============================================================================

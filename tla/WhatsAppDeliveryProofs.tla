------------------------ MODULE WhatsAppDeliveryProofs ------------------------
(***************************************************************************)
(* Proofs about WhatsAppDelivery, for any messages, chats, requests, pool  *)
(* and number of faults.                                                   *)
(*                                                                         *)
(* The receipt is the only thing that keeps two requests apart: whoever    *)
(* handles a message has its receipt row, nobody else ever gets it, and so *)
(* what the request knows of the reply stays true until it is recorded.    *)
(***************************************************************************)
EXTENDS WhatsAppDelivery, FiniteSetTheorems, TLAPS

\* Where a request handles a message, before and after the reply is decided.
Deciding == {"checking", "storing", "ignoring", "answering", "connecting", "locking",
             "rechecking", "sending"}
Recording == {"unlocking", "settling", "reporting"}
Unsettled == {"unlocking", "settling"}

\* A request that is about to claim has a message to claim.
QueueInv == \A h \in Handlers : pc[h] \in {"resolving", "claiming"} => todo[h] # {}

\* A message is handled by one request, which has its receipt.
ClaimInv ==
    /\ \A h \in Handlers : pc[h] \notin Deciding \union Recording => msg[h] = NoMessage
    /\ \A h \in Handlers : pc[h] \in Deciding \union Recording =>
          msg[h] \in Messages /\ receipt[msg[h]] # "none"
    /\ \A g, h \in Handlers : msg[g] = msg[h] /\ msg[h] # NoMessage => g = h

\* What the tables and the requests say of replies is true.
RecordInv ==
    /\ AtMostOneReply
    /\ OutcomeTruthful
    /\ \A m \in Messages : receipt[m] = "none" => sends[m] = 0 /\ delivery[m] = "none"
    /\ \A h \in Handlers : pc[h] \in Deciding =>
          receipt[msg[h]] = "processing" /\ sends[msg[h]] = 0
    /\ \A h \in Handlers : pc[h] \in Unsettled => receipt[msg[h]] = "processing"
    /\ \A h \in Handlers : pc[h] \in Deciding \union Recording =>
          delivery[msg[h]] \in {"none", "unknown"}
    /\ \A h \in Handlers : pc[h] \in Recording =>
          /\ status[h] = "sent" \/ outcome[h] = "accepted" => sends[msg[h]] = 1
          /\ status[h] = "ignored" \/ outcome[h] = "failed" => sends[msg[h]] = 0

\* Whoever still has the lock when it sends has seen that its chat is not paused.
PauseInv ==
    \A h \in Handlers : lock = h =>
        /\ pc[h] \in {"rechecking", "sending", "unlocking"}
        /\ pc[h] = "sending" => ~Paused(msg[h])

DeliveryInv == DeliveryTypeOK /\ QueueInv /\ ClaimInv /\ RecordInv /\ PauseInv

\* Every step keeps every variable in its set.
LEMMA DeliveryTypeStep == DeliveryInv /\ [Next]_vars => DeliveryTypeOK'
<1> SUFFICES ASSUME DeliveryInv, [Next]_vars PROVE DeliveryTypeOK'
  OBVIOUS
<1> USE DeliveryAssumption DEF DeliveryInv, DeliveryTypeOK, ClaimInv, Labels, Deciding, Recording, tableVars, requestVars
<1>1. ASSUME NEW h \in Handlers, NEW batch \in (SUBSET Messages) \ {{}}, Post(h, batch) PROVE DeliveryTypeOK'
  BY <1>1 DEF Post, Goto
<1>2. ASSUME NEW h \in Handlers, Resolve(h) PROVE DeliveryTypeOK'
  BY <1>2 DEF Resolve, Goto
<1>3. ASSUME NEW h \in Handlers, NEW m \in Messages, Claim(h, m) PROVE DeliveryTypeOK'
  BY <1>3 DEF Claim, Claimable, Goto, Advance
<1>4. ASSUME NEW h \in Handlers, CheckPaused(h) PROVE DeliveryTypeOK'
  BY <1>4 DEF CheckPaused, Goto, Paused
<1>5. ASSUME NEW h \in Handlers, StoreOnly(h) PROVE DeliveryTypeOK'
  BY <1>5 DEF StoreOnly, Goto
<1>6. ASSUME NEW h \in Handlers, Ignore(h) PROVE DeliveryTypeOK'
  BY <1>6 DEF Ignore, Goto, Advance
<1>7. ASSUME NEW h \in Handlers, Answer(h) PROVE DeliveryTypeOK'
  BY <1>7 DEF Answer, Goto
<1>8. ASSUME NEW h \in Handlers, AnswerFails(h) PROVE DeliveryTypeOK'
  BY <1>8 DEF AnswerFails, Goto, Fault, Conclude
<1>9. ASSUME NEW h \in Handlers, Connect(h) PROVE DeliveryTypeOK'
  BY <1>9 DEF Connect, Goto
<1>10. ASSUME NEW h \in Handlers, Lock(h) PROVE DeliveryTypeOK'
  BY <1>10 DEF Lock, Goto
<1>11. ASSUME NEW h \in Handlers, Recheck(h) PROVE DeliveryTypeOK'
  BY <1>11 DEF Recheck, Goto, Conclude, Paused
<1>12. ASSUME NEW h \in Handlers, Send(h) PROVE DeliveryTypeOK'
  BY <1>12 DEF Send, Goto, Conclude
<1>13. ASSUME NEW h \in Handlers, SendFails(h) PROVE DeliveryTypeOK'
  BY <1>13 DEF SendFails, Goto, Fault, Conclude
<1>14. ASSUME NEW h \in Handlers, Unlock(h) PROVE DeliveryTypeOK'
  BY <1>14 DEF Unlock, Goto, Conclude
<1>15. ASSUME NEW h \in Handlers, Settle(h) PROVE DeliveryTypeOK'
  BY <1>15 DEF Settle, Goto
<1>16. ASSUME NEW h \in Handlers, Report(h) PROVE DeliveryTypeOK'
  BY <1>16 DEF Report, Goto, Fault, Advance
<1>17. ASSUME NEW h \in Handlers, Abort(h) PROVE DeliveryTypeOK'
  BY <1>17 DEF Abort, Goto, Fault
<1>18. ASSUME NEW h \in Handlers, LoseLock(h) PROVE DeliveryTypeOK'
  BY <1>18 DEF LoseLock, Fault
<1>19. ASSUME NEW h \in Handlers, Crash(h) PROVE DeliveryTypeOK'
  BY <1>19 DEF Crash, Goto, Fault
<1>20. ASSUME NEW e \in Echoes, Echo(e) PROVE DeliveryTypeOK'
  BY <1>20 DEF Echo
<1>21. ASSUME NEW x \in Messages \union Echoes, History(x) PROVE DeliveryTypeOK'
  BY <1>21 DEF History
<1>22. CASE Activate
  BY <1>22 DEF Activate
<1>23. CASE UNCHANGED vars
  BY <1>23 DEF vars
<1>24. QED
  BY <1>1, <1>2, <1>3, <1>4, <1>5, <1>6, <1>7, <1>8, <1>9, <1>10, <1>11, <1>12, <1>13,
     <1>14, <1>15, <1>16, <1>17, <1>18, <1>19, <1>20, <1>21, <1>22, <1>23 
     DEF Next, HandlerStep, Progress

\* Requests look for a next message only while there is one.
LEMMA QueueStep == DeliveryInv /\ [Next]_vars => QueueInv'
<1> SUFFICES ASSUME DeliveryInv, [Next]_vars, NEW h \in Handlers,
                    pc'[h] \in {"resolving", "claiming"}
             PROVE  todo'[h] # {}
  BY DEF QueueInv
<1> USE DEF DeliveryInv, DeliveryTypeOK, QueueInv, requestVars, Goto, Advance
<1>1. ASSUME NEW g \in Handlers, NEW batch \in (SUBSET Messages) \ {{}}, Post(g, batch)
      PROVE  todo'[h] # {}
  <2>1. todo' = [todo EXCEPT ![g] = batch] /\ pc' = [pc EXCEPT ![g] = "resolving"]
    BY <1>1 DEF Post
  <2>2. CASE g = h
    BY <2>1, <2>2
  <2>3. CASE g # h
    BY <2>1, <2>3
  <2>4. QED
    BY <2>2, <2>3
<1>2. ASSUME NEW g \in Handlers, NEW m \in Messages, Claim(g, m)
      PROVE  todo'[h] # {}
  BY <1>2 DEF Claim
<1>3. ASSUME NEW g \in Handlers, Resolve(g) \/ Ignore(g) \/ Report(g)
      PROVE  todo'[h] # {}
  BY <1>3 DEF Resolve, Ignore, Report
<1>4. ASSUME NEW g \in Handlers, Goto(g, pc'[g]), pc'[g] \notin {"resolving", "claiming"},
             todo' = todo
      PROVE  todo'[h] # {}
  BY <1>4
<1>5. ASSUME pc' = pc /\ todo' = todo
      PROVE  todo'[h] # {}
  BY <1>5
<1>6. ASSUME NEW g \in Handlers,
             \/ CheckPaused(g) \/ StoreOnly(g) \/ Answer(g) \/ AnswerFails(g) \/ Connect(g)
             \/ Lock(g) \/ Recheck(g) \/ Send(g) \/ SendFails(g) \/ Unlock(g) \/ Settle(g)
             \/ Abort(g) \/ Crash(g)
      PROVE  todo'[h] # {}
  <2>1. Goto(g, pc'[g]) /\ pc'[g] \notin {"resolving", "claiming"} /\ todo' = todo
    BY <1>6 DEF CheckPaused, StoreOnly, Answer, AnswerFails, Connect, Lock, Recheck, Send,
                SendFails, Unlock, Settle, Abort, Crash
  <2>2. QED
    BY <2>1, <1>4
<1>7. \/ \E g \in Handlers : LoseLock(g)
      \/ \E e \in Echoes : Echo(e)
      \/ \E x \in Messages \union Echoes : History(x)
      \/ Activate \/ UNCHANGED vars
      => pc' = pc /\ todo' = todo
  BY DEF LoseLock, Echo, History, Activate, vars
<1>8. QED
  BY <1>1, <1>2, <1>3, <1>5, <1>6, <1>7, Zenon DEF Next, HandlerStep, Progress

\* Only the request that inserts the receipt gets to handle the message.
LEMMA ClaimStep == DeliveryInv /\ [Next]_vars => ClaimInv'
<1> SUFFICES ASSUME DeliveryInv, [Next]_vars PROVE ClaimInv'
  OBVIOUS
<1> USE DeliveryAssumption DEF DeliveryInv, DeliveryTypeOK, ClaimInv, Labels, Deciding, Recording, tableVars, requestVars
<1>1. ASSUME NEW h \in Handlers, NEW batch \in (SUBSET Messages) \ {{}}, Post(h, batch) PROVE ClaimInv'
  BY <1>1 DEF Post, Goto
<1>2. ASSUME NEW h \in Handlers, Resolve(h) PROVE ClaimInv'
  BY <1>2 DEF Resolve, Goto
<1>3. ASSUME NEW h \in Handlers, NEW m \in Messages, Claim(h, m) PROVE ClaimInv'
  BY <1>3 DEF Claim, Claimable, Goto, Advance
<1>4. ASSUME NEW h \in Handlers, CheckPaused(h) PROVE ClaimInv'
  BY <1>4 DEF CheckPaused, Goto, Paused
<1>5. ASSUME NEW h \in Handlers, StoreOnly(h) PROVE ClaimInv'
  BY <1>5 DEF StoreOnly, Goto
<1>6. ASSUME NEW h \in Handlers, Ignore(h) PROVE ClaimInv'
  BY <1>6 DEF Ignore, Goto, Advance
<1>7. ASSUME NEW h \in Handlers, Answer(h) PROVE ClaimInv'
  BY <1>7 DEF Answer, Goto
<1>8. ASSUME NEW h \in Handlers, AnswerFails(h) PROVE ClaimInv'
  BY <1>8 DEF AnswerFails, Goto, Fault, Conclude
<1>9. ASSUME NEW h \in Handlers, Connect(h) PROVE ClaimInv'
  BY <1>9 DEF Connect, Goto
<1>10. ASSUME NEW h \in Handlers, Lock(h) PROVE ClaimInv'
  BY <1>10 DEF Lock, Goto
<1>11. ASSUME NEW h \in Handlers, Recheck(h) PROVE ClaimInv'
  BY <1>11 DEF Recheck, Goto, Conclude, Paused
<1>12. ASSUME NEW h \in Handlers, Send(h) PROVE ClaimInv'
  BY <1>12 DEF Send, Goto, Conclude
<1>13. ASSUME NEW h \in Handlers, SendFails(h) PROVE ClaimInv'
  BY <1>13 DEF SendFails, Goto, Fault, Conclude
<1>14. ASSUME NEW h \in Handlers, Unlock(h) PROVE ClaimInv'
  BY <1>14 DEF Unlock, Goto, Conclude
<1>15. ASSUME NEW h \in Handlers, Settle(h) PROVE ClaimInv'
  BY <1>15 DEF Settle, Goto
<1>16. ASSUME NEW h \in Handlers, Report(h) PROVE ClaimInv'
  BY <1>16 DEF Report, Goto, Fault, Advance
<1>17. ASSUME NEW h \in Handlers, Abort(h) PROVE ClaimInv'
  BY <1>17 DEF Abort, Goto, Fault
<1>18. ASSUME NEW h \in Handlers, LoseLock(h) PROVE ClaimInv'
  BY <1>18 DEF LoseLock, Fault
<1>19. ASSUME NEW h \in Handlers, Crash(h) PROVE ClaimInv'
  BY <1>19 DEF Crash, Goto, Fault
<1>20. ASSUME NEW e \in Echoes, Echo(e) PROVE ClaimInv'
  BY <1>20 DEF Echo
<1>21. ASSUME NEW x \in Messages \union Echoes, History(x) PROVE ClaimInv'
  BY <1>21 DEF History
<1>22. CASE Activate
  BY <1>22 DEF Activate
<1>23. CASE UNCHANGED vars
  BY <1>23 DEF vars
<1>24. QED
  BY <1>1, <1>2, <1>3, <1>4, <1>5, <1>6, <1>7, <1>8, <1>9, <1>10, <1>11, <1>12, <1>13,
     <1>14, <1>15, <1>16, <1>17, <1>18, <1>19, <1>20, <1>21, <1>22, <1>23 
     DEF Next, HandlerStep, Progress

\* What is recorded of a reply was true and stays true.
LEMMA RecordStep == DeliveryInv /\ [Next]_vars => RecordInv'
<1> SUFFICES ASSUME DeliveryInv, [Next]_vars PROVE RecordInv'
  OBVIOUS
<1> USE DeliveryAssumption DEF DeliveryInv, DeliveryTypeOK, ClaimInv, RecordInv, AtMostOneReply,
           OutcomeTruthful, Labels, Deciding, Recording, Unsettled, tableVars, requestVars
<1>1. ASSUME NEW h \in Handlers, NEW batch \in (SUBSET Messages) \ {{}}, Post(h, batch) PROVE RecordInv'
  BY <1>1 DEF Post, Goto
<1>2. ASSUME NEW h \in Handlers, Resolve(h) PROVE RecordInv'
  BY <1>2 DEF Resolve, Goto
<1>3. ASSUME NEW h \in Handlers, NEW m \in Messages, Claim(h, m) PROVE RecordInv'
  <2>1. pc[h] = "claiming" /\ msg[h] = NoMessage /\ UNCHANGED <<delivery, sends, status, outcome>>
    BY <1>3 DEF Claim, Claimable, Goto, Advance
  <2>2. \A g \in Handlers : pc[g] \in Deciding \union Recording =>
            /\ g # h /\ pc'[g] = pc[g] /\ msg'[g] = msg[g]
            /\ receipt'[msg[g]] = receipt[msg[g]]
    BY <1>3 DEF Claim, Claimable, Goto, Advance
  <2>3. CASE Claimable(m) /\ tenant[h]
    BY <1>3, <2>1, <2>2, <2>3 DEF Claim, Claimable, Goto, Advance
  <2>4. CASE ~(Claimable(m) /\ tenant[h])
    BY <1>3, <2>1, <2>2, <2>4 DEF Claim, Claimable, Goto, Advance
  <2>5. QED
    BY <2>3, <2>4
<1>4. ASSUME NEW h \in Handlers, CheckPaused(h) PROVE RecordInv'
  BY <1>4 DEF CheckPaused, Goto, Paused
<1>5. ASSUME NEW h \in Handlers, StoreOnly(h) PROVE RecordInv'
  BY <1>5 DEF StoreOnly, Goto
<1>6. ASSUME NEW h \in Handlers, Ignore(h) PROVE RecordInv'
  BY <1>6 DEF Ignore, Goto, Advance
<1>7. ASSUME NEW h \in Handlers, Answer(h) PROVE RecordInv'
  BY <1>7 DEF Answer, Goto
<1>8. ASSUME NEW h \in Handlers, AnswerFails(h) PROVE RecordInv'
  BY <1>8 DEF AnswerFails, Goto, Fault, Conclude
<1>9. ASSUME NEW h \in Handlers, Connect(h) PROVE RecordInv'
  BY <1>9 DEF Connect, Goto
<1>10. ASSUME NEW h \in Handlers, Lock(h) PROVE RecordInv'
  BY <1>10 DEF Lock, Goto
<1>11. ASSUME NEW h \in Handlers, Recheck(h) PROVE RecordInv'
  BY <1>11 DEF Recheck, Goto, Conclude, Paused
<1>12. ASSUME NEW h \in Handlers, Send(h) PROVE RecordInv'
  <2>1. msg[h] \in Messages /\ sends[msg[h]] = 0 /\ receipt[msg[h]] = "processing"
    BY <1>12 DEF Send, Goto, Conclude
  <2>2. sends'[msg[h]] \in {0, 1}
    BY <1>12, <2>1 DEF Send, Goto, Conclude
  <2>3. \A m \in Messages : m # msg[h] => sends'[m] = sends[m]
    BY <1>12 DEF Send, Goto, Conclude
  <2>4. UNCHANGED <<receipt, delivery, msg>> /\ pc' = [pc EXCEPT ![h] = "unlocking"]
    BY <1>12 DEF Send, Goto, Conclude
  <2>5. \A g \in Handlers : g # h /\ pc[g] \in Deciding \union Recording =>
            msg[g] # msg[h] /\ sends'[msg[g]] = sends[msg[g]]
    BY <2>1, <2>3
  <2>6. AtMostOneReply'
    BY <2>2, <2>3
  <2>7. OutcomeTruthful'
    BY <2>1, <2>3, <2>4
  <2>8. (\A m \in Messages : receipt[m] = "none" => sends[m] = 0 /\ delivery[m] = "none")'
    BY <2>1, <2>3, <2>4
  <2>9. (\A g \in Handlers : pc[g] \in Deciding =>
             receipt[msg[g]] = "processing" /\ sends[msg[g]] = 0)'
    BY <2>4, <2>5
  <2>10. (\A g \in Handlers : pc[g] \in Deciding \union Recording =>
             delivery[msg[g]] \in {"none", "unknown"})'
    BY <1>12, <2>4 DEF Send, Goto, Conclude
  <2>11. (\A g \in Handlers : pc[g] \in Recording =>
             /\ status[g] = "sent" \/ outcome[g] = "accepted" => sends[msg[g]] = 1
             /\ status[g] = "ignored" \/ outcome[g] = "failed" => sends[msg[g]] = 0)'
    <3>1. ASSUME NEW g \in Handlers, g # h
          PROVE  /\ status'[g] = status[g] /\ outcome'[g] = outcome[g] /\ pc'[g] = pc[g]
                 /\ msg'[g] = msg[g]
      BY <1>12, <3>1, <2>4 DEF Send, Goto, Conclude
    <3>2. /\ status'[h] = "sent" \/ outcome'[h] = "accepted" => sends'[msg[h]] = 1
          /\ status'[h] # "ignored" /\ outcome'[h] # "failed"
      BY <1>12, <2>1 DEF Send, Goto, Conclude
    <3>3. QED
      BY <3>1, <3>2, <2>4, <2>5
  <2>12. (\A g \in Handlers : pc[g] \in Unsettled => receipt[msg[g]] = "processing")'
    BY <2>1, <2>4
  <2>13. QED
    BY <2>6, <2>7, <2>8, <2>9, <2>10, <2>11, <2>12
<1>13. ASSUME NEW h \in Handlers, SendFails(h) PROVE RecordInv'
  <2>1. msg[h] \in Messages /\ sends[msg[h]] = 0 /\ receipt[msg[h]] = "processing"
    BY <1>13 DEF SendFails, Goto, Fault, Conclude
  <2>2. sends'[msg[h]] \in {0, 1}
    BY <1>13, <2>1 DEF SendFails, Goto, Fault, Conclude
  <2>3. \A m \in Messages : m # msg[h] => sends'[m] = sends[m]
    BY <1>13 DEF SendFails, Goto, Fault, Conclude
  <2>4. UNCHANGED <<receipt, delivery, msg>> /\ pc' = [pc EXCEPT ![h] = "unlocking"]
    BY <1>13 DEF SendFails, Goto, Fault, Conclude
  <2>5. \A g \in Handlers : g # h /\ pc[g] \in Deciding \union Recording =>
            msg[g] # msg[h] /\ sends'[msg[g]] = sends[msg[g]]
    BY <2>1, <2>3
  <2>6. AtMostOneReply'
    BY <2>2, <2>3
  <2>7. OutcomeTruthful'
    BY <2>1, <2>3, <2>4
  <2>8. (\A m \in Messages : receipt[m] = "none" => sends[m] = 0 /\ delivery[m] = "none")'
    BY <2>1, <2>3, <2>4
  <2>9. (\A g \in Handlers : pc[g] \in Deciding =>
             receipt[msg[g]] = "processing" /\ sends[msg[g]] = 0)'
    BY <2>4, <2>5
  <2>10. (\A g \in Handlers : pc[g] \in Deciding \union Recording =>
             delivery[msg[g]] \in {"none", "unknown"})'
    BY <1>13, <2>4 DEF SendFails, Goto, Fault, Conclude
  <2>11. (\A g \in Handlers : pc[g] \in Recording =>
             /\ status[g] = "sent" \/ outcome[g] = "accepted" => sends[msg[g]] = 1
             /\ status[g] = "ignored" \/ outcome[g] = "failed" => sends[msg[g]] = 0)'
    <3>1. ASSUME NEW g \in Handlers, g # h
          PROVE  /\ status'[g] = status[g] /\ outcome'[g] = outcome[g] /\ pc'[g] = pc[g]
                 /\ msg'[g] = msg[g]
      BY <1>13, <3>1, <2>4 DEF SendFails, Goto, Fault, Conclude
    <3>2. /\ status'[h] = "sent" \/ outcome'[h] = "accepted" => sends'[msg[h]] = 1
          /\ status'[h] # "ignored" /\ outcome'[h] # "failed"
      BY <1>13, <2>1 DEF SendFails, Goto, Fault, Conclude
    <3>3. QED
      BY <3>1, <3>2, <2>4, <2>5
  <2>12. (\A g \in Handlers : pc[g] \in Unsettled => receipt[msg[g]] = "processing")'
    BY <2>1, <2>4
  <2>13. QED
    BY <2>6, <2>7, <2>8, <2>9, <2>10, <2>11, <2>12
<1>14. ASSUME NEW h \in Handlers, Unlock(h) PROVE RecordInv'
  BY <1>14 DEF Unlock, Goto, Conclude
<1>15. ASSUME NEW h \in Handlers, Settle(h) PROVE RecordInv'
  BY <1>15 DEF Settle, Goto
<1>16. ASSUME NEW h \in Handlers, Report(h) PROVE RecordInv'
  BY <1>16 DEF Report, Goto, Fault, Advance
<1>17. ASSUME NEW h \in Handlers, Abort(h) PROVE RecordInv'
  BY <1>17 DEF Abort, Goto, Fault
<1>18. ASSUME NEW h \in Handlers, LoseLock(h) PROVE RecordInv'
  BY <1>18 DEF LoseLock, Fault
<1>19. ASSUME NEW h \in Handlers, Crash(h) PROVE RecordInv'
  BY <1>19 DEF Crash, Goto, Fault
<1>20. ASSUME NEW e \in Echoes, Echo(e) PROVE RecordInv'
  BY <1>20 DEF Echo
<1>21. ASSUME NEW x \in Messages \union Echoes, History(x) PROVE RecordInv'
  BY <1>21 DEF History
<1>22. CASE Activate
  BY <1>22 DEF Activate
<1>23. CASE UNCHANGED vars
  BY <1>23 DEF vars
<1>24. QED
  BY <1>1, <1>2, <1>3, <1>4, <1>5, <1>6, <1>7, <1>8, <1>9, <1>10, <1>11, <1>12, <1>13,
     <1>14, <1>15, <1>16, <1>17, <1>18, <1>19, <1>20, <1>21, <1>22, <1>23 
     DEF Next, HandlerStep, Progress

\* No chat is paused between the recheck and the end of the send, as long as the lock is kept.
LEMMA PauseStep == DeliveryInv /\ [Next]_vars => PauseInv'
<1> SUFFICES ASSUME DeliveryInv, [Next]_vars PROVE PauseInv'
  OBVIOUS
<1> USE DeliveryAssumption DEF DeliveryInv, DeliveryTypeOK, ClaimInv, PauseInv, Paused, Labels, Deciding, Recording, tableVars, requestVars
<1>1. ASSUME NEW h \in Handlers, NEW batch \in (SUBSET Messages) \ {{}}, Post(h, batch) PROVE PauseInv'
  BY <1>1 DEF Post, Goto
<1>2. ASSUME NEW h \in Handlers, Resolve(h) PROVE PauseInv'
  BY <1>2 DEF Resolve, Goto
<1>3. ASSUME NEW h \in Handlers, NEW m \in Messages, Claim(h, m) PROVE PauseInv'
  BY <1>3 DEF Claim, Claimable, Goto, Advance
<1>4. ASSUME NEW h \in Handlers, CheckPaused(h) PROVE PauseInv'
  BY <1>4 DEF CheckPaused, Goto
<1>5. ASSUME NEW h \in Handlers, StoreOnly(h) PROVE PauseInv'
  BY <1>5 DEF StoreOnly, Goto
<1>6. ASSUME NEW h \in Handlers, Ignore(h) PROVE PauseInv'
  BY <1>6 DEF Ignore, Goto, Advance
<1>7. ASSUME NEW h \in Handlers, Answer(h) PROVE PauseInv'
  BY <1>7 DEF Answer, Goto
<1>8. ASSUME NEW h \in Handlers, AnswerFails(h) PROVE PauseInv'
  BY <1>8 DEF AnswerFails, Goto, Fault, Conclude
<1>9. ASSUME NEW h \in Handlers, Connect(h) PROVE PauseInv'
  BY <1>9 DEF Connect, Goto
<1>10. ASSUME NEW h \in Handlers, Lock(h) PROVE PauseInv'
  BY <1>10 DEF Lock, Goto
<1>11. ASSUME NEW h \in Handlers, Recheck(h) PROVE PauseInv'
  BY <1>11 DEF Recheck, Goto, Conclude
<1>12. ASSUME NEW h \in Handlers, Send(h) PROVE PauseInv'
  BY <1>12 DEF Send, Goto, Conclude
<1>13. ASSUME NEW h \in Handlers, SendFails(h) PROVE PauseInv'
  BY <1>13 DEF SendFails, Goto, Fault, Conclude
<1>14. ASSUME NEW h \in Handlers, Unlock(h) PROVE PauseInv'
  BY <1>14 DEF Unlock, Goto, Conclude
<1>15. ASSUME NEW h \in Handlers, Settle(h) PROVE PauseInv'
  BY <1>15 DEF Settle, Goto
<1>16. ASSUME NEW h \in Handlers, Report(h) PROVE PauseInv'
  BY <1>16 DEF Report, Goto, Fault, Advance
<1>17. ASSUME NEW h \in Handlers, Abort(h) PROVE PauseInv'
  BY <1>17 DEF Abort, Goto, Fault
<1>18. ASSUME NEW h \in Handlers, LoseLock(h) PROVE PauseInv'
  BY <1>18 DEF LoseLock, Fault
<1>19. ASSUME NEW h \in Handlers, Crash(h) PROVE PauseInv'
  BY <1>19 DEF Crash, Goto, Fault
<1>20. ASSUME NEW e \in Echoes, Echo(e) PROVE PauseInv'
  BY <1>20 DEF Echo
<1>21. ASSUME NEW x \in Messages \union Echoes, History(x) PROVE PauseInv'
  BY <1>21 DEF History
<1>22. CASE Activate
  BY <1>22 DEF Activate
<1>23. CASE UNCHANGED vars
  BY <1>23 DEF vars
<1>24. QED
  BY <1>1, <1>2, <1>3, <1>4, <1>5, <1>6, <1>7, <1>8, <1>9, <1>10, <1>11, <1>12, <1>13,
     <1>14, <1>15, <1>16, <1>17, <1>18, <1>19, <1>20, <1>21, <1>22, <1>23 
     DEF Next, HandlerStep, Progress

\* The strengthened invariant holds in every reachable state.
THEOREM DeliveryInductive == Spec => []DeliveryInv
<1>1. Init => DeliveryInv
  <2>1. Init => DeliveryTypeOK
    <3>1. Init => /\ lock \in Handlers \union {NoOne} /\ requests \in Nat /\ faults \in Nat
                  /\ sends \in [Messages -> Nat]
      BY DEF Init
    <3>2. Init => active \in BOOLEAN
      BY Zenon DEF Init
    <3>3. Init => tenant \in [Handlers -> BOOLEAN]
      BY Zenon DEF Init
    <3>4. QED
      BY <3>1, <3>2, <3>3 DEF Init, DeliveryTypeOK, Labels
  <2>2. Init => ClaimInv
    BY DeliveryAssumption DEF Init, ClaimInv, Deciding, Recording
  <2>3. Init => RecordInv
    BY DEF Init, RecordInv, AtMostOneReply, OutcomeTruthful, Deciding, Recording, Unsettled
  <2>4. Init => PauseInv
    BY DeliveryAssumption DEF Init, PauseInv
  <2>5. Init => QueueInv
    BY DEF Init, QueueInv
  <2>6. QED
    BY <2>1, <2>2, <2>3, <2>4, <2>5 DEF DeliveryInv
<1>2. DeliveryInv /\ [Next]_vars => DeliveryInv'
  BY DeliveryTypeStep, QueueStep, ClaimStep, RecordStep, PauseStep DEF DeliveryInv
<1>3. QED
  BY <1>1, <1>2, PTL DEF Spec

\* Receipts, outcomes and requests keep to their types.
THEOREM DeliveryTypeCorrect == Spec => []DeliveryTypeOK
<1>1. DeliveryInv => DeliveryTypeOK
  BY DEF DeliveryInv
<1>2. QED
  BY <1>1, DeliveryInductive, PTL

\* However often and wherever a message is posted, and wherever its request stops, its
\* customer gets at most one reply.
THEOREM AtMostOneReplyEver == Spec => []AtMostOneReply
<1>1. DeliveryInv => AtMostOneReply
  BY DEF DeliveryInv, RecordInv
<1>2. QED
  BY <1>1, DeliveryInductive, PTL

\* Receipts and outcomes never claim what did not happen.
THEOREM RecordsAreTruthful == Spec => []OutcomeTruthful
<1>1. DeliveryInv => OutcomeTruthful
  BY DEF DeliveryInv, RecordInv
<1>2. QED
  BY <1>1, DeliveryInductive, PTL

\* As long as the delivery lock is not lost, no reply goes into a chat a person has taken over.
THEOREM PausedChatsAreSilent == Spec => PausedChatsStaySilent
<1> DEFINE Silent ==
          \A h \in Handlers, m \in Messages :
              lock = h /\ msg[h] = m /\ Paused(m) => sends'[m] = sends[m]
<1>1. DeliveryInv /\ [Next]_vars => Silent
  <2> SUFFICES ASSUME DeliveryInv, [Next]_vars PROVE Silent
    OBVIOUS
  <2> USE DeliveryAssumption DEF DeliveryInv, DeliveryTypeOK, ClaimInv, PauseInv, Paused,
           Labels, Deciding, Recording, tableVars, requestVars
  <2>1. ASSUME NEW g \in Handlers, NEW batch \in (SUBSET Messages) \ {{}}, Post(g, batch) PROVE Silent
    BY <2>1 DEF Post, Goto
  <2>2. ASSUME NEW g \in Handlers, Resolve(g) PROVE Silent
    BY <2>2 DEF Resolve, Goto
  <2>3. ASSUME NEW g \in Handlers, NEW n \in Messages, Claim(g, n) PROVE Silent
    BY <2>3 DEF Claim, Claimable, Goto, Advance
  <2>4. ASSUME NEW g \in Handlers, CheckPaused(g) PROVE Silent
    BY <2>4 DEF CheckPaused, Goto
  <2>5. ASSUME NEW g \in Handlers, StoreOnly(g) PROVE Silent
    BY <2>5 DEF StoreOnly, Goto
  <2>6. ASSUME NEW g \in Handlers, Ignore(g) PROVE Silent
    BY <2>6 DEF Ignore, Goto, Advance
  <2>7. ASSUME NEW g \in Handlers, Answer(g) PROVE Silent
    BY <2>7 DEF Answer, Goto
  <2>8. ASSUME NEW g \in Handlers, AnswerFails(g) PROVE Silent
    BY <2>8 DEF AnswerFails, Goto, Fault, Conclude
  <2>9. ASSUME NEW g \in Handlers, Connect(g) PROVE Silent
    BY <2>9 DEF Connect, Goto
  <2>10. ASSUME NEW g \in Handlers, Lock(g) PROVE Silent
    BY <2>10 DEF Lock, Goto
  <2>11. ASSUME NEW g \in Handlers, Recheck(g) PROVE Silent
    BY <2>11 DEF Recheck, Goto, Conclude
  <2>12. ASSUME NEW g \in Handlers, Send(g) PROVE Silent
    BY <2>12 DEF Send, Goto, Conclude
  <2>13. ASSUME NEW g \in Handlers, SendFails(g) PROVE Silent
    BY <2>13 DEF SendFails, Goto, Fault, Conclude
  <2>14. ASSUME NEW g \in Handlers, Unlock(g) PROVE Silent
    BY <2>14 DEF Unlock, Goto, Conclude
  <2>15. ASSUME NEW g \in Handlers, Settle(g) PROVE Silent
    BY <2>15 DEF Settle, Goto
  <2>16. ASSUME NEW g \in Handlers, Report(g) PROVE Silent
    BY <2>16 DEF Report, Goto, Fault, Advance
  <2>17. ASSUME NEW g \in Handlers, Abort(g) PROVE Silent
    BY <2>17 DEF Abort, Goto, Fault
  <2>18. ASSUME NEW g \in Handlers, LoseLock(g) PROVE Silent
    BY <2>18 DEF LoseLock, Fault
  <2>19. ASSUME NEW g \in Handlers, Crash(g) PROVE Silent
    BY <2>19 DEF Crash, Goto, Fault
  <2>20. ASSUME NEW e \in Echoes, Echo(e) PROVE Silent
    BY <2>20 DEF Echo
  <2>21. ASSUME NEW x \in Messages \union Echoes, History(x) PROVE Silent
    BY <2>21 DEF History
  <2>22. CASE Activate
    BY <2>22 DEF Activate
  <2>23. CASE UNCHANGED vars
    BY <2>23 DEF vars
  <2>24. QED
    BY <2>1, <2>2, <2>3, <2>4, <2>5, <2>6, <2>7, <2>8, <2>9, <2>10, <2>11, <2>12,
       <2>13, <2>14, <2>15, <2>16, <2>17, <2>18, <2>19, <2>20, <2>21, <2>22, <2>23 
       DEF Next, HandlerStep, Progress
<1>2. DeliveryInv /\ [Next]_vars => [Silent]_vars
  BY <1>1
<1>3. QED
  BY <1>2, DeliveryInductive, PTL DEF Spec, PausedChatsStaySilent

\* A message that was imported before it was claimed is never claimed and never answered.
THEOREM ArchivesAreSilent == Spec => ArchiveStaysSilent
<1> DEFINE Quiet ==
          \A m \in imported \intersect Messages :
              receipt[m] = "none" => receipt'[m] = "none" /\ sends'[m] = 0
<1>1. DeliveryInv /\ [Next]_vars => Quiet
  <2> SUFFICES ASSUME DeliveryInv, [Next]_vars PROVE Quiet
    OBVIOUS
  <2> USE DeliveryAssumption DEF DeliveryInv, DeliveryTypeOK, ClaimInv, RecordInv,
           Labels, Deciding, Recording, tableVars, requestVars
  <2>1. ASSUME NEW g \in Handlers, NEW batch \in (SUBSET Messages) \ {{}}, Post(g, batch) PROVE Quiet
    BY <2>1 DEF Post, Goto
  <2>2. ASSUME NEW g \in Handlers, Resolve(g) PROVE Quiet
    BY <2>2 DEF Resolve, Goto
  <2>3. ASSUME NEW g \in Handlers, NEW n \in Messages, Claim(g, n) PROVE Quiet
    BY <2>3 DEF Claim, Claimable, Goto, Advance
  <2>4. ASSUME NEW g \in Handlers, CheckPaused(g) PROVE Quiet
    BY <2>4 DEF CheckPaused, Goto, Paused
  <2>5. ASSUME NEW g \in Handlers, StoreOnly(g) PROVE Quiet
    BY <2>5 DEF StoreOnly, Goto
  <2>6. ASSUME NEW g \in Handlers, Ignore(g) PROVE Quiet
    BY <2>6 DEF Ignore, Goto, Advance
  <2>7. ASSUME NEW g \in Handlers, Answer(g) PROVE Quiet
    BY <2>7 DEF Answer, Goto
  <2>8. ASSUME NEW g \in Handlers, AnswerFails(g) PROVE Quiet
    BY <2>8 DEF AnswerFails, Goto, Fault, Conclude
  <2>9. ASSUME NEW g \in Handlers, Connect(g) PROVE Quiet
    BY <2>9 DEF Connect, Goto
  <2>10. ASSUME NEW g \in Handlers, Lock(g) PROVE Quiet
    BY <2>10 DEF Lock, Goto
  <2>11. ASSUME NEW g \in Handlers, Recheck(g) PROVE Quiet
    BY <2>11 DEF Recheck, Goto, Conclude, Paused
  <2>12. ASSUME NEW g \in Handlers, Send(g) PROVE Quiet
    BY <2>12 DEF Send, Goto, Conclude
  <2>13. ASSUME NEW g \in Handlers, SendFails(g) PROVE Quiet
    BY <2>13 DEF SendFails, Goto, Fault, Conclude
  <2>14. ASSUME NEW g \in Handlers, Unlock(g) PROVE Quiet
    BY <2>14 DEF Unlock, Goto, Conclude
  <2>15. ASSUME NEW g \in Handlers, Settle(g) PROVE Quiet
    BY <2>15 DEF Settle, Goto
  <2>16. ASSUME NEW g \in Handlers, Report(g) PROVE Quiet
    BY <2>16 DEF Report, Goto, Fault, Advance
  <2>17. ASSUME NEW g \in Handlers, Abort(g) PROVE Quiet
    BY <2>17 DEF Abort, Goto, Fault
  <2>18. ASSUME NEW g \in Handlers, LoseLock(g) PROVE Quiet
    BY <2>18 DEF LoseLock, Fault
  <2>19. ASSUME NEW g \in Handlers, Crash(g) PROVE Quiet
    BY <2>19 DEF Crash, Goto, Fault
  <2>20. ASSUME NEW e \in Echoes, Echo(e) PROVE Quiet
    BY <2>20 DEF Echo
  <2>21. ASSUME NEW x \in Messages \union Echoes, History(x) PROVE Quiet
    BY <2>21 DEF History
  <2>22. CASE Activate
    BY <2>22 DEF Activate
  <2>23. CASE UNCHANGED vars
    BY <2>23 DEF vars
  <2>24. QED
    BY <2>1, <2>2, <2>3, <2>4, <2>5, <2>6, <2>7, <2>8, <2>9, <2>10, <2>11, <2>12,
       <2>13, <2>14, <2>15, <2>16, <2>17, <2>18, <2>19, <2>20, <2>21, <2>22, <2>23 
       DEF Next, HandlerStep, Progress
<1>2. DeliveryInv /\ [Next]_vars => [Quiet]_vars
  BY <1>1
<1>3. QED
  BY <1>2, DeliveryInductive, PTL DEF Spec, ArchiveStaysSilent

-----------------------------------------------------------------------------
(* The lock and the pool *)

\* Requests that all wait leave no connection: the lock is never kept by a request that has
\* gone, so as long as statements get connections some request can go on.
THEOREM OnlyThePoolBlocks == Spec => []BlockedByPoolOnly
<1>1. DeliveryInv => BlockedByPoolOnly
  <2> SUFFICES ASSUME DeliveryInv, Query, NEW h \in Handlers, pc[h] # "idle"
               PROVE  \E g \in Handlers : CanProceed(g)
    BY DEF BlockedByPoolOnly
  <2> USE DEF DeliveryInv, DeliveryTypeOK, QueueInv, ClaimInv, PauseInv
  <2>1. CASE pc[h] # "locking"
    BY <2>1 DEF CanProceed
  <2>2. CASE pc[h] = "locking" /\ lock = NoOne
    BY <2>2 DEF CanProceed
  <2>3. CASE lock # NoOne
    \* The holder unlocks, or has a statement to run.
    <3>1. lock \in Handlers /\ pc[lock] \in {"rechecking", "sending", "unlocking"}
      BY <2>3
    <3>2. CanProceed(lock)
      BY <3>1 DEF CanProceed
    <3>3. QED
      BY <3>1, <3>2
  <2>4. QED
    BY <2>1, <2>2, <2>3
<1>2. QED
  BY <1>1, DeliveryInductive, PTL

\* With more connections than requests, some request can always go on.
THEOREM LargePoolsNeverBlock ==
    ASSUME IsFiniteSet(Handlers), Cardinality(Handlers) < PoolSize
    PROVE  Spec => [](\A h \in Handlers : pc[h] # "idle" => \E g \in Handlers : CanProceed(g))
<1> DEFINE Alive == \A h \in Handlers : pc[h] # "idle" => \E g \in Handlers : CanProceed(g)
<1>1. BlockedByPoolOnly => Alive
  <2>1. Locking \subseteq Handlers
    BY DEF Locking
  <2>2. /\ Cardinality(Locking) \in Nat /\ Cardinality(Handlers) \in Nat
        /\ Cardinality(Locking) <= Cardinality(Handlers)
    BY <2>1, FS_Subset, FS_CardinalityType
  <2>3. Query
    BY <2>2, DeliveryAssumption DEF Query
  <2>4. QED
    BY <2>3 DEF BlockedByPoolOnly
<1>2. QED
  BY <1>1, OnlyThePoolBlocks, PTL

-----------------------------------------------------------------------------
(* The promise to customers and readers of receipts *)

\* Writing one receipt changes what is told of one message.
LEMMA ToldOfOne ==
    ASSUME NEW m \in Messages, NEW s \in {"processing", "sent", "failed", "ignored"},
           NEW t, t = IF s = "processing" THEN "taken" ELSE s,
           receipt \in [Messages -> {"none", "processing", "sent", "failed", "ignored"}],
           receipt' = [receipt EXCEPT ![m] = s]
    PROVE  Told' = [Told EXCEPT ![m] = t]
<1>1. ASSUME NEW n \in Messages PROVE Told'[n] = [Told EXCEPT ![m] = t][n]
  <2>1. CASE n = m
    BY <2>1 DEF Told
  <2>2. CASE n # m
    BY <2>2 DEF Told
  <2>3. QED
    BY <2>1, <2>2
<1>2. /\ Told' = [n \in Messages |-> Told'[n]]
      /\ [Told EXCEPT ![m] = t] = [n \in Messages |-> [Told EXCEPT ![m] = t][n]]
  BY DEF Told
<1>3. QED
  BY <1>1, <1>2

\* Every step of the requests is a step of CustomerReplies or changes nothing there.
LEMMA RepliesStep == DeliveryInv /\ [Next]_vars => [Replies!Next]_Replies!vars
<1> SUFFICES ASSUME DeliveryInv, [Next]_vars PROVE [Replies!Next]_Replies!vars
  OBVIOUS
<1> USE DeliveryAssumption DEF Replies!vars, DeliveryInv, DeliveryTypeOK, ClaimInv,
           Deciding, Recording, Unsettled, Labels, tableVars, requestVars
<1>a. \A m \in Messages, s \in {"processing", "sent", "failed", "ignored"} :
        receipt' = [receipt EXCEPT ![m] = s] =>
          Told' = [Told EXCEPT ![m] = IF s = "processing" THEN "taken" ELSE s]
  BY ToldOfOne
<1>b. ASSUME imported' \intersect Messages = imported \intersect Messages,
             Told' = Told, sends' = sends
      PROVE  UNCHANGED Replies!vars
  BY <1>b DEF Told
<1>c. receipt' = receipt => Told' = Told
  BY DEF Told
<1>1. ASSUME NEW h \in Handlers, NEW m \in Messages, Claim(h, m)
      PROVE  Replies!Next \/ UNCHANGED Replies!vars
  <2>1. UNCHANGED <<imported, sends>>
    BY <1>1 DEF Claim
  <2>2. CASE Claimable(m)
    <3>1. Told[m] = "none" /\ m \notin imported
      BY <2>2 DEF Told, Claimable
    <3>2. receipt' = [receipt EXCEPT ![m] = "processing"]
            \/ receipt' = [receipt EXCEPT ![m] = "ignored"]
      BY <1>1, <2>2 DEF Claim
    <3>3. Told' \in {[Told EXCEPT ![m] = s] : s \in {"taken", "ignored"}}
      BY <3>2, <1>a
    <3>4. Replies!Take(m)
      BY <2>1, <3>1, <3>3 DEF Replies!Take, Told
    <3>5. QED
      BY <3>4 DEF Replies!Next
  <2>3. CASE ~Claimable(m)
    BY <1>1, <2>1, <2>3, <1>b, <1>c DEF Claim
  <2>4. QED
    BY <2>2, <2>3
<1>2. ASSUME NEW h \in Handlers, Ignore(h) \/ Settle(h)
      PROVE  Replies!Next
  <2> DEFINE m == msg[h]
  <2>1. PICK s \in {"sent", "failed", "ignored"} : receipt' = [receipt EXCEPT ![m] = s]
                                               /\ (pc[h] = "settling" => s = status[h])
                                               /\ (pc[h] = "ignoring" => s = "ignored")
    BY <1>2 DEF Ignore, Settle
  <2>2. /\ m \in Messages /\ receipt[m] = "processing" /\ UNCHANGED <<imported, sends>>
        /\ pc[h] \in {"ignoring", "settling"}
    BY <1>2 DEF Ignore, Settle, RecordInv
  <2>3. Told[m] = "taken" /\ Told' = [Told EXCEPT ![m] = s]
    BY <2>1, <2>2, <1>a DEF Told
  <2>4. (s = "sent" => sends[m] = 1) /\ (s = "ignored" => sends[m] = 0)
    BY <2>1, <2>2 DEF RecordInv
  <2>5. Replies!Tell(m, s)
    BY <2>2, <2>3, <2>4 DEF Replies!Tell, Told
  <2>6. QED
    BY <2>2, <2>5 DEF Replies!Next
<1>3. ASSUME NEW h \in Handlers, Send(h) \/ SendFails(h)
      PROVE  Replies!Next \/ UNCHANGED Replies!vars
  <2> DEFINE m == msg[h]
  <2>1. /\ m \in Messages /\ receipt[m] = "processing" /\ sends[m] = 0
        /\ UNCHANGED <<imported, receipt>>
    BY <1>3 DEF Send, SendFails, RecordInv
  <2>2. sends' = sends \/ sends' = [sends EXCEPT ![m] = 1]
    BY <1>3, <2>1 DEF Send, SendFails
  <2>3. sends' = [sends EXCEPT ![m] = 1] => Replies!Reply(m)
    BY <2>1, <1>c DEF Replies!Reply, Told
  <2>4. QED
    BY <2>1, <2>2, <2>3, <1>b, <1>c DEF Replies!Next
<1>4. ASSUME NEW x \in Messages \union Echoes, imported' = imported \union {x},
             UNCHANGED <<receipt, sends>>
      PROVE  Replies!Next \/ UNCHANGED Replies!vars
  <2>1. CASE x \in Messages
    <3>1. imported' \intersect Messages = (imported \intersect Messages) \union {x}
      BY <1>4, <2>1
    <3>2. Replies!Archive(x)
      BY <1>4, <3>1, <1>c DEF Replies!Archive, Told
    <3>3. QED
      BY <2>1, <3>2 DEF Replies!Next
  <2>2. CASE x \notin Messages
    <3>1. imported' \intersect Messages = imported \intersect Messages
      BY <1>4, <2>2
    <3>2. QED
      BY <1>4, <3>1, <1>b, <1>c
  <2>3. QED
    BY <2>1, <2>2
<1>5. ASSUME UNCHANGED <<imported, receipt, sends>> PROVE UNCHANGED Replies!vars
  BY <1>5, <1>b, <1>c
<1>6. \/ \E h \in Handlers, m \in Messages : Claim(h, m)
      \/ \E h \in Handlers : Ignore(h) \/ Settle(h)
      \/ \E h \in Handlers : Send(h) \/ SendFails(h)
      \/ \E x \in Messages \union Echoes :
            imported' = imported \union {x} /\ UNCHANGED <<receipt, sends>>
      \/ UNCHANGED <<imported, receipt, sends>>
  BY DEF Next, HandlerStep, Progress, Post, Resolve, CheckPaused, StoreOnly, Answer, AnswerFails,
         Connect, Lock, Recheck, Unlock, Report, Abort, LoseLock, Crash, Echo, History, Activate,
         vars
<1>7. QED
  BY <1>1, <1>2, <1>3, <1>4, <1>5, <1>6

\* The requests implement the promise made to customers and to the readers of receipts.
THEOREM RefinesReplies == Spec => ImplementsReplies
<1>1. Init => Replies!Init
  BY DEF Init, Replies!Init, Told
<1>2. QED
  BY <1>1, RepliesStep, DeliveryInductive, PTL DEF Spec, ImplementsReplies, Replies!Spec
===============================================================================

---------------------- MODULE OnboardingSessionsProofs ----------------------
(***************************************************************************)
(* Proofs about OnboardingSessions, for any requests, websites and limits. *)
(*                                                                         *)
(* A code that can still be entered has not been accepted; a request that  *)
(* found a code wrong is about to count it against the code, or a newer    *)
(* one has taken its place.                                                *)
(***************************************************************************)
EXTENDS OnboardingSessions, FiniteSetTheorems, TLAPS

\* What is known of a code or link that can still be entered.
CodeInv ==
    /\ account.open => ~account.verified /\ uses.account = 0
    /\ site.open => ~site.verified /\ uses.site = 0
    /\ link => uses.link = 0

\* Requests that have found a code wrong and not counted it yet.
Pending(operation) == {r \in Requests : At(r, operation, "recording")}

\* A guess against a code is counted, about to be, or was in a request that ended early.
GuessInv ==
    /\ Live(account) =>
          guesses.account <= account.failed + Cardinality(Pending("verify_account")) + faults
    /\ Live(site) =>
          guesses.site <= site.failed + Cardinality(Pending("verify_site")) + faults

SessionInv ==
    SessionTypeOK /\ CodeInv /\ CodesWorkOnce /\ GuessInv /\ GuessesBounded

-----------------------------------------------------------------------------
(* Types *)

LEMMA TurnTypes ==
    ASSUME SessionTypeOK, NEW r \in Requests, NEW o \in Operations, NEW l \in Labels,
           Turn(r, o, l)
    PROVE  /\ op' \in [Requests -> Operations] /\ pc' \in [Requests -> Labels]
           /\ op'[r] = o /\ pc'[r] = l
  BY DEF SessionTypeOK, Turn

LEMMA EndTypes ==
    ASSUME SessionTypeOK, NEW r \in Requests, End(r)
    PROVE  /\ op' \in [Requests -> Operations] /\ pc' \in [Requests -> Labels]
           /\ seen' \in [Requests -> Drafts]
           /\ target' \in [Requests -> Websites \union {NoWebsite}]
           /\ pc'[r] = "idle"
  BY DEF SessionTypeOK, End, Turn, Operations, Labels, EmptyDraft, Drafts

LEMMA CodeTypes ==
    /\ NoCode \in Addresses /\ NewCode \in Addresses
    /\ \A b \in BOOLEAN : [NoCode EXCEPT !.verified = b] \in Addresses
<1>1. NoCode \in Addresses /\ NewCode \in Addresses
  BY SessionAssumption DEF NoCode, NewCode, Addresses
<1>2. [NoCode EXCEPT !.verified = TRUE] \in Addresses
  BY <1>1 DEF Addresses
<1>3. [NoCode EXCEPT !.verified = FALSE] \in Addresses
  BY <1>1 DEF Addresses
<1>4. QED
  BY <1>1, <1>2, <1>3, Zenon

LEMMA AcceptedTypes ==
    ASSUME NEW address \in Addresses
    PROVE  [address EXCEPT !.verified = TRUE, !.open = FALSE] \in Addresses
<1>1. [address EXCEPT !.verified = TRUE] \in Addresses
  BY DEF Addresses
<1>2. QED
  BY <1>1 DEF Addresses

LEMMA RecordedTypes ==
    ASSUME NEW address \in Addresses
    PROVE  Recorded(address) \in Addresses
  BY SessionAssumption DEF Recorded, Live, Addresses

\* Every step keeps every variable in its set.
LEMMA SessionTypeStep ==
    SessionTypeOK /\ [Next]_vars => SessionTypeOK'
<1> SUFFICES ASSUME SessionTypeOK, [Next]_vars PROVE SessionTypeOK'
  OBVIOUS
<1> USE SessionAssumption DEF SessionTypeOK, rowVars, historyVars, requestVars
<1>1. ASSUME NEW r \in Requests, Begin(r) PROVE SessionTypeOK'
  <2>1. op' \in [Requests -> Operations] /\ pc' \in [Requests -> Labels]
    BY <1>1 DEF Begin, Turn, Operations, Labels
  <2>2. target' \in [Requests -> Websites \union {NoWebsite}]
    BY <1>1 DEF Begin
  <2>3. QED
    BY <1>1, <2>1, <2>2 DEF Begin
<1>2. ASSUME NEW r \in Requests, Read(r) PROVE SessionTypeOK'
  BY <1>2 DEF Read, Labels
<1>3. ASSUME NEW r \in Requests, Abandon(r) PROVE SessionTypeOK'
  <2>1. faults' \in 0..MaxFaults
    BY <1>3 DEF Abandon
  <2>2. QED
    BY <1>3, <2>1, EndTypes DEF Abandon
<1>4. ASSUME NEW r \in Requests, StoreAccountCode(r) PROVE SessionTypeOK'
  BY <1>4, EndTypes, CodeTypes DEF StoreAccountCode, Issue
<1>5. ASSUME NEW r \in Requests, StoreSiteCode(r) PROVE SessionTypeOK'
  BY <1>5, EndTypes, CodeTypes DEF StoreSiteCode, Issue
<1>6. ASSUME NEW r \in Requests, SaveWebsite(r) PROVE SessionTypeOK'
  <2>1. /\ op' \in [Requests -> Operations] /\ pc' \in [Requests -> Labels]
        /\ seen' \in [Requests -> Drafts]
        /\ target' \in [Requests -> Websites \union {NoWebsite}]
    <3>1. CASE End(r)
      BY <3>1, EndTypes
    <3>2. CASE /\ Turn(r, "send_site", "resending")
               /\ seen' = [seen EXCEPT ![r] = EmptyDraft]
               /\ target' = [target EXCEPT ![r] = NoWebsite]
      BY <3>2 DEF Turn, Operations, Labels, EmptyDraft, Drafts
    <3>3. QED
      BY <1>6, <3>1, <3>2 DEF SaveWebsite
  <2>2. website' \in Websites \union {NoWebsite} /\ site' \in Addresses
    <3>1. website' = target[r] /\ site' = [NoCode EXCEPT !.verified = target[r] \in OwnDomain]
      BY <1>6 DEF SaveWebsite
    <3>2. (target[r] \in OwnDomain) \in BOOLEAN
      OBVIOUS
    <3>3. site' \in Addresses
      BY <3>1, <3>2, CodeTypes
    <3>4. QED
      BY <3>1, <3>3
  <2>3. draft' \in Drafts
    BY <1>6 DEF SaveWebsite, EmptyDraft, Drafts
  <2>4. QED
    BY <1>6, <2>1, <2>2, <2>3 DEF SaveWebsite
<1>7. ASSUME NEW r \in Requests, ContinueToSend(r) PROVE SessionTypeOK'
  BY <1>7, EndTypes DEF ContinueToSend, Turn, Operations, Labels
<1>8. ASSUME NEW r \in Requests, SaveAnalysis(r) PROVE SessionTypeOK'
  <2>1. draft' \in Drafts
    BY <1>8 DEF SaveAnalysis, Drafts
  <2>2. QED
    BY <1>8, <2>1, EndTypes DEF SaveAnalysis
<1>9. ASSUME NEW r \in Requests, UpdateSession(r) PROVE SessionTypeOK'
  <2>1. draft' \in Drafts
    BY <1>9 DEF UpdateSession, Drafts
  <2>2. QED
    BY <1>9, <2>1, EndTypes DEF UpdateSession
<1>10. ASSUME NEW r \in Requests, WriteBack(r) PROVE SessionTypeOK'
  BY <1>10, EndTypes DEF WriteBack
<1>11. ASSUME NEW r \in Requests, StoreLink(r) PROVE SessionTypeOK'
  BY <1>11, EndTypes DEF StoreLink, Issue
<1>12. ASSUME NEW r \in Requests, UseLink(r) PROVE SessionTypeOK'
  <2>1. uses' \in [{"account", "site", "link"} -> Nat]
    BY <1>12 DEF UseLink
  <2>2. QED
    BY <1>12, <2>1, TurnTypes DEF UseLink, Operations, Labels
<1>13. ASSUME NEW r \in Requests, SaveTelegramSetup(r) PROVE SessionTypeOK'
  <2>1. draft' \in Drafts
    BY <1>13 DEF SaveTelegramSetup, Drafts
  <2>2. seen' \in [Requests -> Drafts]
    BY <1>13 DEF SaveTelegramSetup, Drafts, EmptyDraft
  <2>3. QED
    BY <1>13, <2>1, <2>2 DEF SaveTelegramSetup, Turn, Operations, Labels
<1>14. ASSUME NEW r \in Requests, Submit(r) PROVE SessionTypeOK'
  <2>1. CASE End(r)
    BY <1>14, <2>1, EndTypes DEF Submit
  <2>2. CASE Turn(r, op[r], "starting") /\ UNCHANGED <<seen, target>>
    BY <1>14, <2>2 DEF Submit, Turn, Labels
  <2>3. CASE Turn(r, "write_back", "reading") /\ UNCHANGED <<seen, target>>
    BY <1>14, <2>3 DEF Submit, Turn, Operations, Labels
  <2>4. QED
    BY <1>14, <2>1, <2>2, <2>3 DEF Submit
<1>15. ASSUME NEW r \in Requests, StartJob(r) PROVE SessionTypeOK'
  BY <1>15 DEF StartJob, Turn, Operations, Labels
<1>16. ASSUME NEW r \in Requests, MarkSubmitted(r) PROVE SessionTypeOK'
  BY <1>16, EndTypes DEF MarkSubmitted
<1>17. ASSUME NEW r \in Requests, NEW right \in BOOLEAN, VerifyAccount(r, right)
       PROVE SessionTypeOK'
  <2>1. account' \in Addresses
    <3>1. [account EXCEPT !.verified = TRUE, !.open = FALSE] \in Addresses
      BY AcceptedTypes
    <3>2. account' = account \/ account' = [account EXCEPT !.verified = TRUE, !.open = FALSE]
      BY <1>17, Zenon DEF VerifyAccount
    <3>3. QED
      BY <3>1, <3>2
  <2>2. uses' \in [{"account", "site", "link"} -> Nat]
    BY <1>17 DEF VerifyAccount
  <2>3. guesses' \in [{"account", "site"} -> Nat]
    BY <1>17 DEF VerifyAccount
  <2>4. QED
    BY <1>17, <2>1, <2>2, <2>3 DEF VerifyAccount, Turn, Operations, Labels
<1>18. ASSUME NEW r \in Requests, NEW right \in BOOLEAN, VerifySite(r, right)
       PROVE SessionTypeOK'
  <2>1. site' \in Addresses
    <3>1. [site EXCEPT !.verified = TRUE, !.open = FALSE] \in Addresses
      BY AcceptedTypes
    <3>2. site' = site \/ site' = [site EXCEPT !.verified = TRUE, !.open = FALSE]
      BY <1>18, Zenon DEF VerifySite
    <3>3. QED
      BY <3>1, <3>2
  <2>2. uses' \in [{"account", "site", "link"} -> Nat]
    BY <1>18 DEF VerifySite
  <2>3. guesses' \in [{"account", "site"} -> Nat]
    BY <1>18 DEF VerifySite
  <2>4. QED
    BY <1>18, <2>1, <2>2, <2>3 DEF VerifySite, Turn, Operations, Labels
<1>19. ASSUME NEW r \in Requests, RecordAccount(r) PROVE SessionTypeOK'
  BY <1>19, EndTypes, RecordedTypes DEF RecordAccount
<1>20. ASSUME NEW r \in Requests, RecordSite(r) PROVE SessionTypeOK'
  BY <1>20, EndTypes, RecordedTypes DEF RecordSite
<1>21. ASSUME Expire PROVE SessionTypeOK'
  BY <1>21 DEF Expire, Addresses
<1>22. ASSUME UNCHANGED vars PROVE SessionTypeOK'
  BY <1>22 DEF vars
<1>23. QED
  BY <1>1, <1>2, <1>3, <1>4, <1>5, <1>6, <1>7, <1>8, <1>9, <1>10, <1>11, <1>12, <1>13, <1>14,
     <1>15, <1>16, <1>17, <1>18, <1>19, <1>20, <1>21, <1>22 DEF Next, Step, Verify

-----------------------------------------------------------------------------
(* Codes *)

CodesInv == CodeInv /\ CodesWorkOnce

\* Counting a failure leaves the rest of a code's record alone.
LEMMA RecordedKeeps ==
    ASSUME NEW address \in Addresses
    PROVE  /\ Recorded(address).open = address.open
           /\ Recorded(address).verified = address.verified
  BY DEF Recorded, Addresses

LEMMA CodesStep ==
    SessionTypeOK /\ CodesInv /\ [Next]_vars => CodesInv'
<1> SUFFICES ASSUME SessionTypeOK, CodesInv, [Next]_vars PROVE CodesInv'
  OBVIOUS
<1> USE DEF CodesInv, CodeInv, CodesWorkOnce
<1>0. /\ account \in Addresses /\ site \in Addresses
      /\ uses \in [{"account", "site", "link"} -> Nat]
  BY DEF SessionTypeOK
<1>1. ASSUME UNCHANGED <<account, site, link, uses>> PROVE CodesInv'
  BY <1>1
<1>2. ASSUME NEW r \in Requests, StoreAccountCode(r) PROVE CodesInv'
  BY <1>0, <1>2 DEF StoreAccountCode, NewCode
<1>3. ASSUME NEW r \in Requests, StoreSiteCode(r) PROVE CodesInv'
  BY <1>0, <1>3 DEF StoreSiteCode, NewCode
<1>4. ASSUME NEW r \in Requests, SaveWebsite(r) PROVE CodesInv'
  <2>1. site'.open = FALSE
    BY <1>4 DEF SaveWebsite, NoCode
  <2>2. QED
    BY <1>0, <1>4, <2>1 DEF SaveWebsite
<1>5. ASSUME NEW r \in Requests, StoreLink(r) PROVE CodesInv'
  BY <1>0, <1>5 DEF StoreLink
<1>6. ASSUME NEW r \in Requests, UseLink(r) PROVE CodesInv'
  BY <1>0, <1>6 DEF UseLink
<1>7. ASSUME NEW r \in Requests, NEW right \in BOOLEAN, VerifyAccount(r, right)
      PROVE CodesInv'
  <2>1. CASE right /\ Live(account)
    <3>1. account' = [account EXCEPT !.verified = TRUE, !.open = FALSE] /\ account.open
      BY <1>7, <2>1 DEF VerifyAccount, Live
    <3>2. ~account'.open
      BY <1>0, <3>1 DEF Addresses
    <3>3. uses' = [uses EXCEPT !.account = @ + 1] /\ uses.account = 0
      BY <1>7, <2>1, <3>1 DEF VerifyAccount
    <3>4. uses'.account = 1 /\ uses'.site = uses.site /\ uses'.link = uses.link
      BY <1>0, <3>3
    <3>5. UNCHANGED <<site, link>>
      BY <1>7 DEF VerifyAccount
    <3>6. DOMAIN uses = {"account", "site", "link"} /\ DOMAIN uses' = DOMAIN uses
      BY <1>0, <3>3
    <3>7. QED
      BY <3>2, <3>4, <3>5, <3>6
  <2>2. CASE ~(right /\ Live(account))
    <3>1. UNCHANGED <<account, site, link, uses>>
      BY <1>7, <2>2, Zenon DEF VerifyAccount
    <3>2. QED
      BY <1>1, <3>1
  <2>3. QED
    BY <2>1, <2>2
<1>8. ASSUME NEW r \in Requests, NEW right \in BOOLEAN, VerifySite(r, right)
      PROVE CodesInv'
  <2>1. CASE right /\ Live(site)
    <3>1. site' = [site EXCEPT !.verified = TRUE, !.open = FALSE] /\ site.open
      BY <1>8, <2>1 DEF VerifySite, Live
    <3>2. ~site'.open
      BY <1>0, <3>1 DEF Addresses
    <3>3. uses' = [uses EXCEPT !.site = @ + 1] /\ uses.site = 0
      BY <1>8, <2>1, <3>1 DEF VerifySite
    <3>4. uses'.site = 1 /\ uses'.account = uses.account /\ uses'.link = uses.link
      BY <1>0, <3>3
    <3>5. UNCHANGED <<account, link>>
      BY <1>8 DEF VerifySite
    <3>6. DOMAIN uses = {"account", "site", "link"} /\ DOMAIN uses' = DOMAIN uses
      BY <1>0, <3>3
    <3>7. QED
      BY <3>2, <3>3, <3>4, <3>5, <3>6
  <2>2. CASE ~(right /\ Live(site))
    <3>1. UNCHANGED <<account, site, link, uses>>
      BY <1>8, <2>2, Zenon DEF VerifySite
    <3>2. QED
      BY <1>1, <3>1
  <2>3. QED
    BY <2>1, <2>2
<1>9. ASSUME NEW r \in Requests, RecordAccount(r) PROVE CodesInv'
  <2>1. account' = Recorded(account) /\ UNCHANGED <<site, link, uses>>
    BY <1>9 DEF RecordAccount, historyVars
  <2>2. QED
    BY <1>0, <2>1, RecordedKeeps
<1>10. ASSUME NEW r \in Requests, RecordSite(r) PROVE CodesInv'
  <2>1. site' = Recorded(site) /\ UNCHANGED <<account, link, uses>>
    BY <1>10 DEF RecordSite, historyVars
  <2>2. QED
    BY <1>0, <2>1, RecordedKeeps
<1>11. ASSUME Expire PROVE CodesInv'
  <2>1. UNCHANGED uses
    BY <1>11 DEF Expire, historyVars
  <2>2. /\ account'.verified = account.verified /\ (account'.open => account.open)
        /\ site'.verified = site.verified /\ (site'.open => site.open)
        /\ link' => link
    BY <1>0, <1>11 DEF Expire, Addresses
  <2>3. QED
    BY <2>1, <2>2
<1>12. ASSUME NEW r \in Requests,
              \/ Begin(r) \/ Read(r) \/ Abandon(r)
              \/ ContinueToSend(r) \/ SaveAnalysis(r) \/ UpdateSession(r) \/ WriteBack(r)
              \/ SaveTelegramSetup(r) \/ Submit(r) \/ StartJob(r) \/ MarkSubmitted(r)
       PROVE CodesInv'
  <2>1. UNCHANGED <<account, site, link, uses>>
    BY <1>12
    DEF Begin, Read, Abandon, ContinueToSend, SaveAnalysis, UpdateSession, WriteBack,
        SaveTelegramSetup, Submit, StartJob, MarkSubmitted, rowVars, historyVars
  <2>2. QED
    BY <1>1, <2>1
<1>13. ASSUME UNCHANGED vars PROVE CodesInv'
  BY <1>1, <1>13 DEF vars, rowVars, historyVars
<1>14. QED
  BY <1>2, <1>3, <1>4, <1>5, <1>6, <1>7, <1>8, <1>9, <1>10, <1>11, <1>12, <1>13
  DEF Next, Step, Verify

\* A code or verification goes astray only where a stale send stores its code.
LEMMA AstrayStep ==
    ASSUME SessionTypeOK, [Next]_vars, ~Astray, Astray'
    PROVE  \E r \in Requests : StaleSend(r)
<1>0. /\ site \in Addresses /\ pc \in [Requests -> Labels]
      /\ ~ /\ UNCHANGED <<website, proof>>
           /\ site'.open \/ site'.verified => site.open \/ site.verified
  BY DEF SessionTypeOK, Astray
<1>1. ASSUME NEW r \in Requests, StoreSiteCode(r) PROVE StaleSend(r)
  <2>1. proof' = target[r] /\ website' = website /\ End(r) /\ At(r, "send_site", "writing")
    BY <1>1 DEF StoreSiteCode
  <2>2. QED
    BY <2>1, EndTypes DEF Astray, StaleSend
<1>2. ASSUME NEW r \in Requests, SaveWebsite(r) PROVE FALSE
  <2>1. website' = target[r] /\ site' = [NoCode EXCEPT !.verified = target[r] \in OwnDomain]
    BY <1>2 DEF SaveWebsite
  <2>2. ~site'.open /\ (site'.verified => website' \in OwnDomain)
    BY <2>1 DEF NoCode
  <2>3. QED
    BY <2>2 DEF Astray
<1>3. ASSUME NEW r \in Requests, NEW right \in BOOLEAN, VerifySite(r, right) PROVE FALSE
  <2>1. CASE right /\ Live(site)
    <3>1. site.open /\ UNCHANGED <<website, proof>>
      BY <1>3, <2>1 DEF VerifySite, Live
    <3>2. QED
      BY <3>1 DEF Astray
  <2>2. CASE ~(right /\ Live(site))
    <3>1. UNCHANGED <<site, website, proof>>
      BY <1>3, <2>2, Zenon DEF VerifySite
    <3>2. QED
      BY <1>0, <3>1
  <2>3. QED
    BY <2>1, <2>2
<1>4. ASSUME NEW r \in Requests, RecordSite(r) PROVE FALSE
  <2>1. site' = Recorded(site) /\ UNCHANGED <<website, proof>>
    BY <1>4 DEF RecordSite, historyVars
  <2>2. QED
    BY <1>0, <2>1, RecordedKeeps
<1>5. ASSUME Expire PROVE FALSE
  <2>1. UNCHANGED <<website, proof>>
    BY <1>5 DEF Expire, historyVars
  <2>2. site'.verified = site.verified /\ (site'.open => site.open)
    BY <1>0, <1>5 DEF Expire, Addresses
  <2>3. QED
    BY <1>0, <2>1, <2>2
<1>6. ASSUME NEW r \in Requests,
             \/ Begin(r) \/ Read(r) \/ Abandon(r) \/ StoreAccountCode(r)
             \/ ContinueToSend(r) \/ SaveAnalysis(r) \/ UpdateSession(r) \/ WriteBack(r)
             \/ StoreLink(r) \/ UseLink(r) \/ SaveTelegramSetup(r)
             \/ Submit(r) \/ StartJob(r) \/ MarkSubmitted(r) \/ RecordAccount(r)
             \/ \E right \in BOOLEAN : VerifyAccount(r, right)
      PROVE FALSE
  <2>1. UNCHANGED <<site, website, proof>>
    BY <1>6
    DEF Begin, Read, Abandon, StoreAccountCode, ContinueToSend, SaveAnalysis, UpdateSession,
        WriteBack, StoreLink, UseLink, SaveTelegramSetup, Submit, StartJob, MarkSubmitted,
        RecordAccount, VerifyAccount, rowVars, historyVars
  <2>2. QED
    BY <1>0, <2>1
<1>7. ASSUME UNCHANGED vars PROVE FALSE
  BY <1>0, <1>7 DEF vars, rowVars, historyVars
<1>8. QED
  BY <1>1, <1>2, <1>3, <1>4, <1>5, <1>6, <1>7 DEF Next, Step, Verify

-----------------------------------------------------------------------------
(* Drafts *)

\* What a request that writes the row makes of the draft it has read.
Writes(r) ==
    /\ pc[r] = "writing" /\ pc'[r] # "writing"
    /\ seen[r].telegram => draft'.telegram
    /\ \/ draft'.analysis = NoWebsite
       \/ website' = website /\ draft'.analysis = seen[r].analysis
       \/ website' = website /\ draft'.analysis = target[r] /\ op[r] = "analyze"

LEMMA DraftStep ==
    ASSUME SessionTypeOK, [Next]_vars
    PROVE  UNCHANGED <<draft, website>> \/ \E r \in Requests : Writes(r)
<1>0. /\ draft \in Drafts /\ seen \in [Requests -> Drafts]
      /\ pc \in [Requests -> Labels]
  BY DEF SessionTypeOK
<1>1. ASSUME NEW r \in Requests,
             \/ StoreAccountCode(r) \/ StoreSiteCode(r) \/ WriteBack(r) \/ StoreLink(r)
             \/ MarkSubmitted(r)
      PROVE Writes(r)
  <2>1. /\ pc[r] = "writing" /\ End(r)
        /\ draft' = seen[r] /\ website' = website
    BY <1>1
    DEF StoreAccountCode, StoreSiteCode, WriteBack, StoreLink, MarkSubmitted, At, historyVars
  <2>2. QED
    BY <2>1, EndTypes DEF Writes
<1>2. ASSUME NEW r \in Requests, SaveWebsite(r) PROVE Writes(r)
  <2>1. /\ pc[r] = "writing"
        /\ draft' = [EmptyDraft EXCEPT !.telegram = seen[r].telegram]
    BY <1>2 DEF SaveWebsite, At
  <2>2. pc'[r] # "writing"
    <3>1. CASE End(r)
      BY <3>1, EndTypes
    <3>2. CASE Turn(r, "send_site", "resending")
      BY <1>0, <3>2 DEF Turn
    <3>3. QED
      BY <1>2, <3>1, <3>2 DEF SaveWebsite
  <2>3. draft'.telegram = seen[r].telegram /\ draft'.analysis = NoWebsite
    BY <2>1 DEF EmptyDraft
  <2>4. QED
    BY <2>1, <2>2, <2>3 DEF Writes
<1>3. ASSUME NEW r \in Requests, SaveAnalysis(r) PROVE Writes(r)
  <2>1. /\ pc[r] = "writing" /\ op[r] = "analyze" /\ End(r) /\ website' = website
        /\ draft' = [seen[r] EXCEPT !.analysis = target[r], !.profile = TRUE]
    BY <1>3 DEF SaveAnalysis, At
  <2>2. draft'.telegram = seen[r].telegram /\ draft'.analysis = target[r]
    BY <1>0, <2>1 DEF Drafts
  <2>3. QED
    BY <2>1, <2>2, EndTypes DEF Writes
<1>4. ASSUME NEW r \in Requests, UpdateSession(r) PROVE Writes(r)
  <2>1. pc[r] = "writing" /\ End(r) /\ website' = website
    BY <1>4 DEF UpdateSession, At
  <2>2. draft'.telegram = seen[r].telegram /\ draft'.analysis = seen[r].analysis
    BY <1>0, <1>4 DEF UpdateSession, Drafts
  <2>3. QED
    BY <2>1, <2>2, EndTypes DEF Writes
<1>5. ASSUME NEW r \in Requests, SaveTelegramSetup(r) PROVE Writes(r)
  <2>1. /\ pc[r] = "writing" /\ Turn(r, "setup", "submitting") /\ website' = website
        /\ draft' = [seen[r] EXCEPT !.telegram = TRUE]
    BY <1>5 DEF SaveTelegramSetup, At
  <2>2. draft'.telegram /\ draft'.analysis = seen[r].analysis
    BY <1>0, <2>1 DEF Drafts
  <2>3. pc'[r] # "writing"
    BY <1>0, <2>1 DEF Turn
  <2>4. QED
    BY <2>1, <2>2, <2>3 DEF Writes
<1>6. ASSUME NEW r \in Requests,
             \/ Begin(r) \/ Read(r) \/ Abandon(r) \/ ContinueToSend(r) \/ UseLink(r)
             \/ Submit(r) \/ StartJob(r) \/ Verify(r)
      PROVE UNCHANGED <<draft, website>>
  BY <1>6
  DEF Begin, Read, Abandon, ContinueToSend, UseLink, Submit, StartJob, Verify, VerifyAccount,
      VerifySite, RecordAccount, RecordSite, rowVars
<1>7. ASSUME Expire \/ UNCHANGED vars PROVE UNCHANGED <<draft, website>>
  BY <1>7 DEF Expire, vars, rowVars
<1>8. QED
  BY <1>1, <1>2, <1>3, <1>4, <1>5, <1>6, <1>7 DEF Next, Step

LEMMA SetupStep ==
    ASSUME SessionTypeOK, [Next]_vars, SetupLost
    PROVE  \E r \in Requests : OverlappedWrite(r)
<1>1. PICK r \in Requests : Writes(r)
  BY DraftStep DEF SetupLost
<1>2. seen[r] # draft
  BY <1>1 DEF Writes, SetupLost
<1>3. QED
  BY <1>1, <1>2 DEF Writes, OverlappedWrite

LEMMA ForeignStep ==
    ASSUME SessionTypeOK, [Next]_vars, ~Foreign, Foreign'
    PROVE  \E r \in Requests : OverlappedWrite(r)
<1>1. PICK r \in Requests : Writes(r)
  BY DraftStep DEF Foreign
<1>2. seen[r] # draft \/ (op[r] = "analyze" /\ target[r] # website)
  BY <1>1 DEF Writes, Foreign
<1>3. QED
  BY <1>1, <1>2 DEF Writes, OverlappedWrite

-----------------------------------------------------------------------------
(* Guesses *)

LEMMA PendingFinite ==
    ASSUME NEW o
    PROVE  /\ IsFiniteSet(Pending(o)) /\ Cardinality(Pending(o)) \in Nat
           /\ Cardinality(Pending(o)) <= Cardinality(Requests)
           /\ Cardinality(Requests) \in Nat
<1>1. Pending(o) \subseteq Requests
  BY DEF Pending
<1>2. QED
  BY <1>1, FS_Subset, FS_CardinalityType, SessionAssumption

\* A turn that neither begins nor ends to record a failure of o leaves those pending.
LEMMA PendingSame ==
    ASSUME SessionTypeOK, NEW r \in Requests, NEW p, NEW l, Turn(r, p, l),
           NEW o, ~At(r, o, "recording"), p # o \/ l # "recording"
    PROVE  Pending(o)' = Pending(o)
<1>1. \A q \in Requests : At(q, o, "recording")' <=> At(q, o, "recording")
  BY DEF SessionTypeOK, Turn, At
<1>2. QED
  BY <1>1 DEF Pending

LEMMA PendingAdded ==
    ASSUME SessionTypeOK, NEW r \in Requests, pc[r] = "idle", NEW o, Turn(r, o, "recording")
    PROVE  /\ Cardinality(Pending(o)') = Cardinality(Pending(o)) + 1
           /\ Cardinality(Pending(o)) < Cardinality(Requests)
<1>1. Pending(o)' = Pending(o) \union {r} /\ r \notin Pending(o)
  BY DEF SessionTypeOK, Turn, At, Pending
<1>2. Cardinality(Pending(o)') = Cardinality(Pending(o)) + 1
  BY <1>1, PendingFinite, FS_AddElement
<1>3. Pending(o)' \subseteq Requests
  BY <1>1 DEF Pending
<1>4. Cardinality(Pending(o)') <= Cardinality(Requests)
  BY <1>3, FS_Subset, SessionAssumption
<1>5. QED
  BY <1>2, <1>4, PendingFinite

LEMMA PendingRemoved ==
    ASSUME SessionTypeOK, NEW r \in Requests, NEW o, At(r, o, "recording"), End(r)
    PROVE  Cardinality(Pending(o)') = Cardinality(Pending(o)) - 1
<1>1. Pending(o)' = Pending(o) \ {r} /\ r \in Pending(o)
  BY DEF SessionTypeOK, End, Turn, At, Pending
<1>2. QED
  BY <1>1, PendingFinite, FS_RemoveElement

GuessesInv == GuessInv /\ GuessesBounded

\* Steps that neither guess nor count: a code is kept, closed or replaced.
LEMMA GuessesKept ==
    ASSUME SessionTypeOK, GuessesInv,
           Pending("verify_account")' = Pending("verify_account"),
           Pending("verify_site")' = Pending("verify_site"),
           faults' = faults,
           guesses' \in [{"account", "site"} -> Nat],
           account' \in Addresses, site' \in Addresses,
           \/ guesses'.account = 0
           \/ guesses'.account = guesses.account /\ (Live(account)' => account' = account),
           \/ guesses'.site = 0
           \/ guesses'.site = guesses.site /\ (Live(site)' => site' = site)
    PROVE  GuessesInv'
<1>1. /\ guesses \in [{"account", "site"} -> Nat]
      /\ faults \in Nat /\ MaxFaults \in Nat /\ MaxAttempts \in Nat \ {0}
  BY SessionAssumption DEF SessionTypeOK
<1>2. /\ account'.failed \in Nat /\ site'.failed \in Nat
  BY DEF Addresses
<1>3. GuessInv'
  <2>1. Live(account)' =>
           guesses'.account <= account'.failed + Cardinality(Pending("verify_account")) + faults
    BY <1>1, <1>2, PendingFinite DEF GuessesInv, GuessInv, Live
  <2>2. Live(site)' =>
           guesses'.site <= site'.failed + Cardinality(Pending("verify_site")) + faults
    BY <1>1, <1>2, PendingFinite DEF GuessesInv, GuessInv, Live
  <2>3. QED
    BY <2>1, <2>2 DEF GuessInv
<1>4. GuessesBounded'
  <2>1. Cardinality(Requests) \in Nat
    BY PendingFinite
  <2>2. \A k \in {"account", "site"} : guesses'[k] = 0 \/ guesses'[k] = guesses[k]
    OBVIOUS
  <2>3. QED
    BY <1>1, <2>1, <2>2 DEF GuessesInv, GuessesBounded
<1>5. QED
  BY <1>3, <1>4 DEF GuessesInv

LEMMA GuessesStep ==
    SessionTypeOK /\ CodesInv /\ GuessesInv /\ [Next]_vars => GuessesInv'
<1> SUFFICES ASSUME SessionTypeOK, CodeInv, GuessesInv, [Next]_vars PROVE GuessesInv'
  BY DEF CodesInv
<1>0. /\ SessionTypeOK'
      /\ account \in Addresses /\ site \in Addresses
      /\ account' \in Addresses /\ site' \in Addresses
      /\ guesses \in [{"account", "site"} -> Nat] /\ guesses' \in [{"account", "site"} -> Nat]
      /\ pc \in [Requests -> Labels] /\ op \in [Requests -> Operations]
      /\ faults \in Nat /\ MaxAttempts \in Nat \ {0} /\ Cardinality(Requests) \in Nat
  <2>1. SessionTypeOK'
    BY SessionTypeStep
  <2>2. QED
    BY <2>1, PendingFinite, SessionAssumption DEF SessionTypeOK
\* A request that is not recording a failure goes on or ends.
<1>1. ASSUME NEW r \in Requests, pc[r] # "recording",
             End(r) \/ (\E p \in Operations, l \in Labels \ {"recording"} : Turn(r, p, l))
      PROVE  /\ Pending("verify_account")' = Pending("verify_account")
             /\ Pending("verify_site")' = Pending("verify_site")
  BY <1>1, PendingSame DEF End, At, Operations, Labels
<1>2. ASSUME NEW r \in Requests,
             \/ Begin(r) \/ Read(r) \/ ContinueToSend(r) \/ SaveAnalysis(r)
             \/ UpdateSession(r) \/ WriteBack(r) \/ StoreLink(r) \/ UseLink(r)
             \/ SaveTelegramSetup(r) \/ Submit(r) \/ StartJob(r) \/ MarkSubmitted(r)
      PROVE GuessesInv'
  <2>1. UNCHANGED <<account, site, guesses, faults>>
    BY <1>2
    DEF Begin, Read, ContinueToSend, SaveAnalysis, UpdateSession, WriteBack, StoreLink, UseLink,
        SaveTelegramSetup, Submit, StartJob, MarkSubmitted, rowVars, historyVars
  <2>2. /\ pc[r] # "recording"
        /\ \/ End(r)
           \/ \E p \in Operations, l \in Labels \ {"recording"} : Turn(r, p, l)
    <3>1. CASE Begin(r)
      BY <3>1 DEF Begin, Operations, Labels
    <3>2. CASE Read(r)
      <4>1. op' = [op EXCEPT ![r] = op[r]] /\ pc' = [pc EXCEPT ![r] = "writing"]
        BY <1>0, <3>2 DEF Read
      <4>2. Turn(r, op[r], "writing") /\ op[r] \in Operations
        BY <1>0, <4>1 DEF Turn
      <4>3. QED
        BY <3>2, <4>2 DEF Read, Labels
    <3>3. CASE ContinueToSend(r)
      BY <3>3 DEF ContinueToSend, At, Operations, Labels
    <3>4. CASE \/ SaveAnalysis(r) \/ UpdateSession(r) \/ WriteBack(r) \/ StoreLink(r)
               \/ MarkSubmitted(r)
      BY <3>4 DEF SaveAnalysis, UpdateSession, WriteBack, StoreLink, MarkSubmitted, At
    <3>5. CASE UseLink(r) \/ SaveTelegramSetup(r)
      BY <3>5 DEF UseLink, SaveTelegramSetup, At, Operations, Labels
    <3>6. CASE Submit(r)
      BY <1>0, <3>6 DEF Submit, Operations, Labels
    <3>7. CASE StartJob(r)
      BY <3>7 DEF StartJob, Operations, Labels
    <3>8. QED
      BY <1>2, <3>1, <3>2, <3>3, <3>4, <3>5, <3>6, <3>7
  <2>3. QED
    BY <1>0, <1>1, <2>1, <2>2, GuessesKept
<1>3. ASSUME NEW r \in Requests, Abandon(r), pc[r] # "recording" PROVE GuessesInv'
  <2>1. UNCHANGED <<account, site, guesses, faults>> /\ End(r)
    BY <1>3 DEF Abandon, rowVars, historyVars
  <2>2. QED
    BY <1>0, <1>1, <1>3, <2>1, GuessesKept
<1>4. ASSUME NEW r \in Requests, Abandon(r), pc[r] = "recording" PROVE GuessesInv'
  <2>1. UNCHANGED <<account, site, guesses>> /\ faults' = faults + 1 /\ End(r)
    BY <1>4 DEF Abandon, rowVars, historyVars
  <2>2. ASSUME NEW o \in {"verify_account", "verify_site"}
        PROVE  /\ Cardinality(Pending(o)') \in Nat
               /\ Cardinality(Pending(o)') >= Cardinality(Pending(o)) - 1
    <3>1. CASE At(r, o, "recording")
      <4>1. Cardinality(Pending(o)') = Cardinality(Pending(o)) - 1
        BY <2>1, <3>1, PendingRemoved
      <4>2. Pending(o)' \subseteq Requests
        BY DEF Pending
      <4>3. Cardinality(Pending(o)') \in Nat
        BY <4>2, FS_Subset, FS_CardinalityType, SessionAssumption
      <4>4. QED
        BY <4>1, <4>3, PendingFinite
    <3>2. CASE ~At(r, o, "recording")
      <4>1. Pending(o)' = Pending(o)
        BY <2>1, <2>2, <3>2, PendingSame DEF End
      <4>2. QED
        BY <4>1, PendingFinite
    <3>3. QED
      BY <3>1, <3>2
  <2>3. GuessInv'
    BY <1>0, <2>1, <2>2, PendingFinite DEF GuessesInv, GuessInv, Live, Addresses
  <2>4. GuessesBounded'
    BY <1>0, <2>1 DEF GuessesInv, GuessesBounded
  <2>5. QED
    BY <2>3, <2>4 DEF GuessesInv
<1>5. ASSUME NEW r \in Requests, StoreAccountCode(r) PROVE GuessesInv'
  <2>1. /\ pc[r] # "recording" /\ End(r) /\ UNCHANGED <<site, faults>>
        /\ guesses'.account = 0 /\ guesses'.site = guesses.site
    BY <1>0, <1>5 DEF StoreAccountCode, At
  <2>2. QED
    BY <1>0, <1>1, <2>1, GuessesKept
<1>6. ASSUME NEW r \in Requests, StoreSiteCode(r) PROVE GuessesInv'
  <2>1. /\ pc[r] # "recording" /\ End(r) /\ UNCHANGED <<account, faults>>
        /\ guesses'.site = 0 /\ guesses'.account = guesses.account
    BY <1>0, <1>6 DEF StoreSiteCode, At
  <2>2. QED
    BY <1>0, <1>1, <2>1, GuessesKept
<1>7. ASSUME NEW r \in Requests, SaveWebsite(r) PROVE GuessesInv'
  <2>1. /\ pc[r] # "recording" /\ UNCHANGED <<account, faults>>
        /\ End(r) \/ Turn(r, "send_site", "resending")
    BY <1>7 DEF SaveWebsite, At
  <2>2. guesses'.site = 0 /\ guesses'.account = guesses.account
    BY <1>0, <1>7 DEF SaveWebsite
  <2>3. QED
    BY <1>0, <1>1, <2>1, <2>2, GuessesKept DEF Operations, Labels
<1>8. ASSUME NEW r \in Requests, NEW right \in BOOLEAN, VerifyAccount(r, right)
      PROVE GuessesInv'
  <2>1. CASE right /\ Live(account)
    <3>1. /\ account' = [account EXCEPT !.verified = TRUE, !.open = FALSE]
          /\ guesses' = [guesses EXCEPT !.account = 0]
          /\ UNCHANGED requestVars /\ UNCHANGED <<site, faults>>
      BY <1>8, <2>1 DEF VerifyAccount
    <3>2. Pending("verify_account")' = Pending("verify_account")
          /\ Pending("verify_site")' = Pending("verify_site")
      BY <3>1 DEF Pending, At, requestVars
    <3>3. guesses'.account = 0 /\ guesses'.site = guesses.site
      BY <1>0, <3>1
    <3>4. QED
      BY <1>0, <3>1, <3>2, <3>3, GuessesKept
  <2>2. CASE ~(right /\ Live(account))
    <3> DEFINE o == "verify_account"
    <3>1. /\ pc[r] = "idle" /\ Turn(r, o, "recording")
          /\ guesses' = [guesses EXCEPT !.account = IF Live(account) THEN @ + 1 ELSE @]
          /\ UNCHANGED <<account, site, faults>>
      BY <1>8, <2>2, Zenon DEF VerifyAccount
    <3>2. /\ Cardinality(Pending(o)') = Cardinality(Pending(o)) + 1
          /\ Cardinality(Pending(o)) < Cardinality(Requests)
      BY <3>1, PendingAdded
    <3>3. Pending("verify_site")' = Pending("verify_site")
      BY <3>1, PendingSame DEF At
    <3>4. /\ guesses'.site = guesses.site
          /\ guesses'.account = IF Live(account) THEN guesses.account + 1 ELSE guesses.account
      BY <1>0, <3>1
    <3>5. GuessInv'
      <4>1. Live(account) => guesses'.account <= account.failed + Cardinality(Pending(o)') + faults
        <5>1. SUFFICES ASSUME Live(account)
                       PROVE  guesses'.account <= account.failed + Cardinality(Pending(o)') + faults
          OBVIOUS
        <5>2. guesses.account <= account.failed + Cardinality(Pending(o)) + faults
          BY <5>1 DEF GuessesInv, GuessInv
        <5>3. account.failed \in Nat
          BY <1>0 DEF Addresses
        <5>4. QED
          BY <1>0, <3>2, <3>4, <5>1, <5>2, <5>3, PendingFinite
      <4>2. Live(site) =>
               guesses.site <= site.failed + Cardinality(Pending("verify_site")) + faults
        BY DEF GuessesInv, GuessInv
      <4>3. (Live(account)' <=> Live(account)) /\ (Live(site)' <=> Live(site))
        BY <3>1 DEF Live
      <4>4. QED
        BY <3>1, <3>3, <3>4, <4>1, <4>2, <4>3 DEF GuessInv
    <3>6. GuessesBounded'
      <4>1. guesses'.account <= MaxAttempts - 1 + Cardinality(Requests) + faults
        <5>1. CASE Live(account)
          <6>1. account.failed <= MaxAttempts - 1 /\ account.failed \in Nat
            BY <1>0, <5>1 DEF Live, Addresses
          <6>2. guesses.account <= account.failed + Cardinality(Pending(o)) + faults
            BY <5>1 DEF GuessesInv, GuessInv
          <6>3. QED
            BY <1>0, <3>2, <3>4, <5>1, <6>1, <6>2, PendingFinite
        <5>2. CASE ~Live(account)
          BY <1>0, <3>4, <5>2 DEF GuessesInv, GuessesBounded
        <5>3. QED
          BY <5>1, <5>2
      <4>2. guesses'.site <= MaxAttempts - 1 + Cardinality(Requests) + faults
        BY <1>0, <3>4 DEF GuessesInv, GuessesBounded
      <4>3. QED
        BY <1>0, <3>1, <4>1, <4>2 DEF GuessesBounded
    <3>7. QED
      BY <3>5, <3>6 DEF GuessesInv
  <2>3. QED
    BY <2>1, <2>2
<1>9. ASSUME NEW r \in Requests, NEW right \in BOOLEAN, VerifySite(r, right)
      PROVE GuessesInv'
  <2>1. CASE right /\ Live(site)
    <3>1. /\ site' = [site EXCEPT !.verified = TRUE, !.open = FALSE]
          /\ guesses' = [guesses EXCEPT !.site = 0]
          /\ UNCHANGED requestVars /\ UNCHANGED <<account, faults>>
      BY <1>9, <2>1 DEF VerifySite
    <3>2. Pending("verify_account")' = Pending("verify_account")
          /\ Pending("verify_site")' = Pending("verify_site")
      BY <3>1 DEF Pending, At, requestVars
    <3>3. guesses'.site = 0 /\ guesses'.account = guesses.account
      BY <1>0, <3>1
    <3>4. QED
      BY <1>0, <3>1, <3>2, <3>3, GuessesKept
  <2>2. CASE ~(right /\ Live(site))
    <3> DEFINE o == "verify_site"
    <3>1. /\ pc[r] = "idle" /\ Turn(r, o, "recording")
          /\ guesses' = [guesses EXCEPT !.site = IF Live(site) THEN @ + 1 ELSE @]
          /\ UNCHANGED <<account, site, faults>>
      BY <1>9, <2>2, Zenon DEF VerifySite
    <3>2. /\ Cardinality(Pending(o)') = Cardinality(Pending(o)) + 1
          /\ Cardinality(Pending(o)) < Cardinality(Requests)
      BY <3>1, PendingAdded
    <3>3. Pending("verify_account")' = Pending("verify_account")
      BY <3>1, PendingSame DEF At
    <3>4. /\ guesses'.account = guesses.account
          /\ guesses'.site = IF Live(site) THEN guesses.site + 1 ELSE guesses.site
      BY <1>0, <3>1
    <3>5. GuessInv'
      <4>1. Live(site) => guesses'.site <= site.failed + Cardinality(Pending(o)') + faults
        <5>1. SUFFICES ASSUME Live(site)
                       PROVE  guesses'.site <= site.failed + Cardinality(Pending(o)') + faults
          OBVIOUS
        <5>2. guesses.site <= site.failed + Cardinality(Pending(o)) + faults
          BY <5>1 DEF GuessesInv, GuessInv
        <5>3. site.failed \in Nat
          BY <1>0 DEF Addresses
        <5>4. QED
          BY <1>0, <3>2, <3>4, <5>1, <5>2, <5>3, PendingFinite
      <4>2. Live(account) =>
               guesses.account <= account.failed + Cardinality(Pending("verify_account")) + faults
        BY DEF GuessesInv, GuessInv
      <4>3. (Live(site)' <=> Live(site)) /\ (Live(account)' <=> Live(account))
        BY <3>1 DEF Live
      <4>4. QED
        BY <3>1, <3>3, <3>4, <4>1, <4>2, <4>3 DEF GuessInv
    <3>6. GuessesBounded'
      <4>1. guesses'.site <= MaxAttempts - 1 + Cardinality(Requests) + faults
        <5>1. CASE Live(site)
          <6>1. site.failed <= MaxAttempts - 1 /\ site.failed \in Nat
            BY <1>0, <5>1 DEF Live, Addresses
          <6>2. guesses.site <= site.failed + Cardinality(Pending(o)) + faults
            BY <5>1 DEF GuessesInv, GuessInv
          <6>3. QED
            BY <1>0, <3>2, <3>4, <5>1, <6>1, <6>2, PendingFinite
        <5>2. CASE ~Live(site)
          BY <1>0, <3>4, <5>2 DEF GuessesInv, GuessesBounded
        <5>3. QED
          BY <5>1, <5>2
      <4>2. guesses'.account <= MaxAttempts - 1 + Cardinality(Requests) + faults
        BY <1>0, <3>4 DEF GuessesInv, GuessesBounded
      <4>3. QED
        BY <1>0, <3>1, <4>1, <4>2 DEF GuessesBounded
    <3>7. QED
      BY <3>5, <3>6 DEF GuessesInv
  <2>3. QED
    BY <2>1, <2>2
<1>10. ASSUME NEW r \in Requests, RecordAccount(r) PROVE GuessesInv'
  <2> DEFINE o == "verify_account"
  <2>1. /\ At(r, o, "recording") /\ End(r) /\ account' = Recorded(account)
        /\ UNCHANGED <<site, guesses, faults>>
    BY <1>10 DEF RecordAccount, historyVars
  <2>2. Cardinality(Pending(o)') = Cardinality(Pending(o)) - 1
    BY <2>1, PendingRemoved
  <2>3. Pending("verify_site")' = Pending("verify_site")
    BY <2>1, PendingSame DEF End, At
  <2>4. Live(account)' => Live(account) /\ account'.failed = account.failed + 1
    BY <1>0, <2>1 DEF Recorded, Live, Addresses, CodeInv
  <2>5. GuessInv'
    BY <1>0, <2>1, <2>2, <2>3, <2>4, PendingFinite DEF GuessesInv, GuessInv, Addresses
  <2>6. QED
    BY <2>1, <2>5 DEF GuessesInv, GuessesBounded
<1>11. ASSUME NEW r \in Requests, RecordSite(r) PROVE GuessesInv'
  <2> DEFINE o == "verify_site"
  <2>1. /\ At(r, o, "recording") /\ End(r) /\ site' = Recorded(site)
        /\ UNCHANGED <<account, guesses, faults>>
    BY <1>11 DEF RecordSite, historyVars
  <2>2. Cardinality(Pending(o)') = Cardinality(Pending(o)) - 1
    BY <2>1, PendingRemoved
  <2>3. Pending("verify_account")' = Pending("verify_account")
    BY <2>1, PendingSame DEF End, At
  <2>4. Live(site)' => Live(site) /\ site'.failed = site.failed + 1
    BY <1>0, <2>1 DEF Recorded, Live, Addresses, CodeInv
  <2>5. GuessInv'
    BY <1>0, <2>1, <2>2, <2>3, <2>4, PendingFinite DEF GuessesInv, GuessInv, Addresses
  <2>6. QED
    BY <2>1, <2>5 DEF GuessesInv, GuessesBounded
<1>12. ASSUME Expire PROVE GuessesInv'
  <2>1. UNCHANGED <<guesses, faults, op, pc>>
    BY <1>12 DEF Expire, historyVars, requestVars
  <2>2. /\ account' = account \/ ~account'.open
        /\ site' = site \/ ~site'.open
    BY <1>0, <1>12 DEF Expire, Addresses
  <2>3. /\ Pending("verify_account")' = Pending("verify_account")
        /\ Pending("verify_site")' = Pending("verify_site")
    BY <2>1 DEF Pending, At
  <2>4. QED
    BY <1>0, <2>1, <2>2, <2>3, GuessesKept DEF Live
<1>13. ASSUME UNCHANGED vars PROVE GuessesInv'
  BY <1>13
  DEF vars, rowVars, historyVars, requestVars, GuessesInv, GuessInv, GuessesBounded, Pending, At,
      Live
<1>14. QED
  BY <1>2, <1>3, <1>4, <1>5, <1>6, <1>7, <1>8, <1>9, <1>10, <1>11, <1>12, <1>13
  DEF Next, Step, Verify

-----------------------------------------------------------------------------
(* Theorems *)

LEMMA SessionInit == Init => SessionInv
<1> SUFFICES ASSUME Init PROVE SessionInv
  OBVIOUS
<1>1. SessionTypeOK
  <2>1. account \in Addresses /\ site \in Addresses
    BY CodeTypes DEF Init
  <2>2. EmptyDraft \in Drafts
    BY DEF EmptyDraft, Drafts
  <2>3. draft \in Drafts /\ seen \in [Requests -> Drafts]
    BY <2>2 DEF Init
  <2>4. /\ uses \in [{"account", "site", "link"} -> Nat]
        /\ guesses \in [{"account", "site"} -> Nat]
    BY DEF Init
  <2>5. /\ op \in [Requests -> Operations] /\ pc \in [Requests -> Labels]
        /\ target \in [Requests -> Websites \union {NoWebsite}]
    BY DEF Init, Operations, Labels
  <2>6. /\ link \in BOOLEAN /\ submitted \in BOOLEAN
        /\ website \in Websites \union {NoWebsite} /\ proof \in Websites \union {NoWebsite}
    BY DEF Init
  <2>7. issued \in Nat /\ faults \in 0..MaxFaults
    BY SessionAssumption DEF Init
  <2>8. QED
    BY <2>1, <2>3, <2>4, <2>5, <2>6, <2>7, Zenon DEF SessionTypeOK
<1>2. CodeInv /\ CodesWorkOnce
  BY DEF Init, NoCode, CodeInv, CodesWorkOnce
<1>3. GuessInv /\ GuessesBounded
  BY PendingFinite, SessionAssumption DEF Init, NoCode, GuessInv, GuessesBounded, Live
<1>4. QED
  BY <1>1, <1>2, <1>3 DEF SessionInv

\* What is known of codes, and of the requests that are counting failures, is inductive.
THEOREM SessionInductive == Spec => []SessionInv
<1>1. SessionInv /\ [Next]_vars => SessionInv'
  BY SessionTypeStep, CodesStep, GuessesStep DEF SessionInv, CodesInv, GuessesInv
<1>2. QED
  BY <1>1, SessionInit, PTL DEF Spec

\* Columns and local variables keep to their types, failures to their limit.
THEOREM SessionTypeCorrect == Spec => []SessionTypeOK
<1>1. SessionInv => SessionTypeOK
  BY DEF SessionInv
<1>2. QED
  BY <1>1, SessionInductive, PTL

\* A code mailed to another website's address only gets onto a row, and verifies its website,
\* by a send that read the session before the website was changed.
THEOREM VerificationsAreFresh == Spec => AstrayByOverlapOnly
<1>1. SessionTypeOK /\ [Next]_vars =>
         [~Astray /\ Astray' => \E r \in Requests : StaleSend(r)]_vars
  BY AstrayStep
<1>2. QED
  BY <1>1, SessionTypeCorrect, PTL DEF Spec, AstrayByOverlapOnly

\* The conditional UPDATEs accept each code and link at most once.
THEOREM CodesAreUsedOnce == Spec => []CodesWorkOnce
<1>1. SessionInv => CodesWorkOnce
  BY DEF SessionInv
<1>2. QED
  BY <1>1, SessionInductive, PTL

\* The limit of attempts holds up to the requests between checking and counting.
THEOREM GuessesAreBounded == Spec => []GuessesBounded
<1>1. SessionInv => GuessesBounded
  BY DEF SessionInv
<1>2. QED
  BY <1>1, SessionInductive, PTL

\* Only a write that read the draft before the Telegram setup was stored removes it.
THEOREM SetupsAreLostToOverlap == Spec => SetupLostToOverlapOnly
<1>1. SessionTypeOK /\ [Next]_vars =>
         [SetupLost => \E r \in Requests : OverlappedWrite(r)]_vars
  BY SetupStep
<1>2. QED
  BY <1>1, SessionTypeCorrect, PTL DEF Spec, SetupLostToOverlapOnly

\* Only a write that read, or analysed, an older state mixes websites.
THEOREM DraftsMixByOverlap == Spec => ForeignByOverlapOnly
<1>1. SessionTypeOK /\ [Next]_vars =>
         [~Foreign /\ Foreign' => \E r \in Requests : OverlappedWrite(r)]_vars
  BY ForeignStep
<1>2. QED
  BY <1>1, SessionTypeCorrect, PTL DEF Spec, ForeignByOverlapOnly

=============================================================================

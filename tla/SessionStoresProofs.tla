------------------------- MODULE SessionStoresProofs -------------------------
(***************************************************************************)
(* Proof that the memory store and the database answer alike.              *)
(*                                                                         *)
(* StoresInv relates the row to the object column by column and, through   *)
(* the rewriting of session_payload, part by part of the payload.  It is   *)
(* inductive: a code is judged and counted alike by both stores, and every *)
(* call that rewrites the row starts from what it reads back.              *)
(***************************************************************************)
EXTENDS SessionStores, TLAPS

-----------------------------------------------------------------------------
(* The types of sessions and rows. *)

StoredCodes == [sent : BOOLEAN, expires : {"never", "later", "earlier"}, used : BOOLEAN,
                tries : 0 .. MaxTries, verified : BOOLEAN]

StoredDrafts == [analysis : BOOLEAN, profile : BOOLEAN, category : Categories \union {"none"}]

StoredPayloads == [draft : StoredDrafts, telegram : BOOLEAN, consent : BOOLEAN]

StoredStatuses ==
    {"username_email_verification_pending", "website_verification_pending", "draft",
     "ready_for_review", "awaiting_telegram_setup", "ready_to_submit", "submitted", "failed"}

StoredSteps ==
    {"username-email-verification", "website-email-verification", "website", "analyzing",
     "analysis", "business", "telegram-setup", "submit", "complete"}

StoredSessions ==
    [status : StoredStatuses, step : StoredSteps, website : BOOLEAN, account : StoredCodes,
     site : StoredCodes, link : StoredCodes, draft : StoredDrafts, telegram : BOOLEAN,
     consent : BOOLEAN, job : BOOLEAN, error : BOOLEAN]

StoredRows ==
    [status : StoredStatuses, step : StoredSteps, website : BOOLEAN, account : StoredCodes,
     site : StoredCodes, link : StoredCodes, category : Categories \union {"none"},
     job : BOOLEAN, error : BOOLEAN, payload : StoredPayloads]

StoresTyped == memory \in StoredSessions /\ row \in StoredRows /\ other \in BOOLEAN

\* Column by column, the row has what the object has.
SameColumns ==
    /\ row.status = memory.status /\ row.step = memory.step
    /\ row.website = memory.website
    /\ row.account = memory.account /\ row.site = memory.site /\ row.link = memory.link
    /\ row.job = memory.job

SamePayload ==
    /\ row.payload.draft.analysis = memory.draft.analysis
    /\ row.payload.draft.profile = memory.draft.profile
    /\ memory.draft.category = IF memory.draft.profile THEN row.category ELSE "none"
    /\ row.payload.telegram = memory.telegram

SameError == row.error => memory.error

StoresInv == StoresTyped /\ SameColumns /\ SamePayload /\ SameError

\* session_payload of what was read from the row is that of the object, but for the consent.
LEMMA PayloadRead ==
    ASSUME StoresInv
    PROVE  /\ Payload(ReadRow(row)) = [draft |-> memory.draft, telegram |-> memory.telegram,
                                       consent |-> FALSE]
           /\ Payload(ReadRow(row)) \in StoredPayloads
<1> USE DEF StoresInv, StoresTyped, StoredSessions, StoredRows, StoredPayloads, StoredDrafts
<1>1. ReadRow(row).draft = [row.payload.draft EXCEPT !.category =
                               IF row.payload.draft.profile THEN row.category ELSE "none"]
  BY DEF ReadRow
<1>2. ReadRow(row).draft = memory.draft
  BY <1>1 DEF SamePayload
<1>3. ReadRow(row).telegram = memory.telegram /\ ReadRow(row).consent = FALSE
  BY DEF ReadRow, SamePayload
<1>4. Payload(ReadRow(row)) = [draft |-> memory.draft, telegram |-> memory.telegram,
                               consent |-> FALSE]
  BY <1>2, <1>3 DEF Payload
<1> QED
  BY <1>4

\* What the two stores answer follows from the columns.
LEMMA StoresInvAgrees == StoresInv => StoresAgree
<1> SUFFICES ASSUME StoresInv PROVE StoresAgree
  OBVIOUS
<1> USE DEF StoresInv, StoresTyped, StoredSessions, StoredRows
<1> DEFINE stored == ReadRow(row)
<1>1. stored.draft = memory.draft
  BY DEF ReadRow, SamePayload, StoredPayloads, StoredDrafts
<1>2. [stored EXCEPT !.consent = memory.consent, !.error = memory.error] = memory
  <2> DEFINE Object(c, e) == [status |-> memory.status, step |-> memory.step,
                              website |-> memory.website, account |-> memory.account,
                              site |-> memory.site, link |-> memory.link,
                              draft |-> memory.draft, telegram |-> memory.telegram,
                              consent |-> c, job |-> memory.job, error |-> e]
  <2>1. memory = Object(memory.consent, memory.error)
    OBVIOUS
  <2>2. stored = Object(FALSE, row.error)
    BY <1>1 DEF ReadRow, SameColumns, SamePayload
  <2>3. [Object(FALSE, row.error) EXCEPT !.consent = memory.consent]
            = Object(memory.consent, row.error)
    OBVIOUS
  <2>4. [Object(memory.consent, row.error) EXCEPT !.error = memory.error]
            = Object(memory.consent, memory.error)
    OBVIOUS
  <2> HIDE DEF Object, stored
  <2>5. [stored EXCEPT !.consent = memory.consent, !.error = memory.error]
            = [[stored EXCEPT !.consent = memory.consent] EXCEPT !.error = memory.error]
    OBVIOUS
  <2> QED
    BY <2>1, <2>2, <2>3, <2>4, <2>5
<1>3. stored.error => memory.error
  BY DEF ReadRow, SameError
<1>4. (MemoryFinds = "none") = (RowFinds = "none")
  BY DEF MemoryFinds, RowFinds, Holds, ReadRow, SameColumns
<1> QED
  BY <1>2, <1>3, <1>4 DEF StoresAgree

\* The columns and the payload of a rewritten row.
LEMMA RewriteColumns ==
    ASSUME StoresTyped, NEW status \in StoredStatuses, NEW step \in StoredSteps,
           NEW payload \in StoredPayloads, NEW error \in BOOLEAN
    PROVE  LET r == Rewrite(row, status, step, payload, error)
           IN  /\ r \in StoredRows
               /\ r.status = status /\ r.step = step /\ r.error = error
               /\ r.website = row.website /\ r.account = row.account /\ r.site = row.site
               /\ r.link = row.link /\ r.job = row.job
               /\ r.payload.draft.analysis = payload.draft.analysis
               /\ r.payload.draft.profile = payload.draft.profile
               /\ r.payload.telegram = payload.telegram
               /\ r.category = IF payload.draft.profile THEN payload.draft.category ELSE "none"
<1> DEFINE p == [payload EXCEPT !.draft.category = "none"]
<1>1. /\ p \in StoredPayloads
      /\ p.draft.analysis = payload.draft.analysis
      /\ p.draft.profile = payload.draft.profile
      /\ p.telegram = payload.telegram
  BY DEF StoredPayloads, StoredDrafts
<1>2. (IF payload.draft.profile THEN payload.draft.category ELSE "none")
          \in Categories \union {"none"}
  BY DEF StoredPayloads, StoredDrafts
<1> HIDE DEF p
<1>3. Rewrite(row, status, step, payload, error) =
          [row EXCEPT !.status = status, !.step = step, !.error = error,
                      !.category = IF payload.draft.profile THEN payload.draft.category ELSE "none",
                      !.payload = p]
  BY DEF Rewrite, p
<1> DEFINE r == Rewrite(row, status, step, payload, error)
<1>4. /\ r.status = status /\ r.step = step /\ r.error = error
      /\ r.website = row.website /\ r.account = row.account /\ r.site = row.site
      /\ r.link = row.link /\ r.job = row.job /\ r.payload = p
      /\ r.category = IF payload.draft.profile THEN payload.draft.category ELSE "none"
  BY <1>3 DEF StoresTyped, StoredRows
<1>5. r \in StoredRows
  BY <1>1, <1>2, <1>3 DEF StoresTyped, StoredRows
<1> QED
  BY <1>1, <1>4, <1>5

\* Both stores judge a code alike, and count a wrong one alike.
LEMMA CodesJudged ==
    ASSUME NEW code \in StoredCodes
    PROVE  /\ MemoryAccepts(code) <=> RowAccepts(code)
           /\ MemoryRefused(code) = RowRefused(code)
           /\ RowRefused(code) \in StoredCodes
           /\ [code EXCEPT !.used = TRUE, !.verified = TRUE] \in StoredCodes
           /\ [code EXCEPT !.expires = IF @ = "later" THEN "earlier" ELSE @] \in StoredCodes
<1> USE StoresAssumption DEF StoredCodes
<1>1. MemoryAccepts(code) <=> RowAccepts(code)
  BY DEF MemoryAccepts, RowAccepts
<1>2. MemoryRefused(code) = RowRefused(code) /\ RowRefused(code) \in StoredCodes
  <2>1. CASE ~code.verified /\ ~code.used /\ code.expires = "later" /\ code.tries < MaxTries
    <3>1. code.tries + 1 \in 0 .. MaxTries /\ code.tries + 1 <= MaxTries
      BY <2>1
    <3> QED
      BY <2>1, <3>1 DEF MemoryRefused, RowRefused
  <2>2. CASE ~code.verified /\ ~code.used /\ code.expires = "later" /\ code.tries >= MaxTries
    <3>1. code.tries = MaxTries /\ ~(code.tries + 1 <= MaxTries)
      BY <2>2
    <3>2. [code EXCEPT !.tries = MaxTries] = code
      BY <3>1
    <3> QED
      BY <2>2, <3>1, <3>2 DEF MemoryRefused, RowRefused
  <2>3. CASE code.verified \/ code.used \/ code.expires # "later"
    BY <2>3 DEF MemoryRefused, RowRefused
  <2> QED
    BY <2>1, <2>2, <2>3
<1>3. [code EXCEPT !.used = TRUE, !.verified = TRUE] \in StoredCodes
  OBVIOUS
<1>4. [code EXCEPT !.expires = IF @ = "later" THEN "earlier" ELSE @] \in StoredCodes
  OBVIOUS
<1> QED
  BY <1>1, <1>2, <1>3, <1>4

\* The codes with which a session begins and that are sent.
LEMMA NewCodes == Unsent \in StoredCodes /\ Fresh \in StoredCodes /\ NoDraft \in StoredDrafts
                    /\ \A v \in BOOLEAN : [Unsent EXCEPT !.verified = v] \in StoredCodes
<1>1. 0 \in 0 .. MaxTries
  BY StoresAssumption
<1>2. Unsent \in StoredCodes
  BY <1>1 DEF Unsent, StoredCodes
<1>3. Fresh \in StoredCodes
  BY <1>2 DEF Fresh, StoredCodes
<1>4. \A v \in BOOLEAN : [Unsent EXCEPT !.verified = v] \in StoredCodes
  BY <1>2 DEF StoredCodes
<1>5. NoDraft \in StoredDrafts
  BY DEF NoDraft, StoredDrafts
<1> QED
  BY <1>2, <1>3, <1>4, <1>5

\* Calls on codes keep the stores together.
LEMMA CodeStep ==
    ASSUME StoresInv, NEW k \in Codes,
           SaveCode(k) \/ ExpireCode(k) \/ \E right \in BOOLEAN : EnterCode(k, right)
    PROVE  StoresInv'
<1> USE DEF StoresInv, StoresTyped, StoredSessions, StoredRows, Codes
<1>0. /\ Pending(k) \in StoredStatuses /\ Entry(k) \in StoredSteps /\ After(k) \in StoredSteps
      /\ "draft" \in StoredStatuses
      /\ Fresh \in StoredCodes
  <2>1. CASE k = "account"
    BY <2>1, NewCodes DEF Pending, Entry, After, StoredStatuses, StoredSteps
  <2>2. CASE k = "site"
    BY <2>2, NewCodes DEF Pending, Entry, After, StoredStatuses, StoredSteps
  <2> QED
    BY <2>1, <2>2
<1>1. CASE SaveCode(k)
  <2> DEFINE P == Payload(ReadRow(row))
  <2>1. /\ P \in StoredPayloads /\ P.draft = memory.draft /\ P.telegram = memory.telegram
    BY PayloadRead
  <2>2. P.draft.category = memory.draft.category /\ P.draft.profile = memory.draft.profile
    BY <2>1
  <2> HIDE DEF P
  <2>3. CASE k = "account"
    <3>1. memory' \in StoredSessions /\ row' \in StoredRows /\ other' \in BOOLEAN
      BY <1>0, <1>1, <2>1, <2>3 DEF SaveCode, P
    <3>2. SameColumns' /\ SameError'
      BY <1>0, <1>1, <2>1, <2>3 DEF SaveCode, P, SameColumns, SameError
    <3>3. SamePayload'
      BY <1>0, <1>1, <2>1, <2>3 DEF SaveCode, P, SamePayload
    <3> QED
      BY <3>1, <3>2, <3>3
  <2>4. CASE k = "site"
    <3>1. memory' \in StoredSessions /\ row' \in StoredRows /\ other' \in BOOLEAN
      BY <1>0, <1>1, <2>1, <2>4 DEF SaveCode, P
    <3>2. SameColumns' /\ SameError'
      BY <1>0, <1>1, <2>1, <2>4 DEF SaveCode, P, SameColumns, SameError
    <3>3. SamePayload'
      BY <1>0, <1>1, <2>1, <2>4 DEF SaveCode, P, SamePayload
    <3> QED
      BY <3>1, <3>2, <3>3
  <2> QED
    BY <2>3, <2>4
<1>2. CASE ExpireCode(k)
  <2> DEFINE Older(code) == [code EXCEPT !.expires = IF @ = "later" THEN "earlier" ELSE @]
  <2>1. Older(memory[k]) \in StoredCodes /\ Older(memory[k]) = Older(row[k])
    BY CodesJudged DEF SameColumns
  <2>2. memory' = [memory EXCEPT ![k] = Older(memory[k])]
        /\ row' = [row EXCEPT ![k] = Older(row[k])] /\ UNCHANGED other
    BY <1>2 DEF ExpireCode
  <2> HIDE DEF Older
  <2>3. /\ memory' \in StoredSessions /\ row' \in StoredRows /\ other' \in BOOLEAN
    BY <2>1, <2>2
  <2>4. SameColumns' /\ SamePayload' /\ SameError'
    BY <2>1, <2>2 DEF SameColumns, SamePayload, SameError
  <2> QED
    BY <2>3, <2>4
<1>3. ASSUME NEW right \in BOOLEAN, EnterCode(k, right) PROVE StoresInv'
  <2>0. memory[k] = row[k] /\ memory[k] \in StoredCodes
    BY DEF SameColumns
  <2>1. MemoryAccepts(memory[k]) <=> RowAccepts(row[k])
    BY <2>0, CodesJudged
  <2>2. CASE right /\ RowAccepts(row[k])
    <3> DEFINE code == [memory[k] EXCEPT !.used = TRUE, !.verified = TRUE]
    <3>1. code \in StoredCodes /\ code = [row[k] EXCEPT !.used = TRUE, !.verified = TRUE]
      BY <2>0, CodesJudged
    <3>2. memory' = Accepted(memory, k) /\ row' = Accepted(row, k) /\ UNCHANGED other
      BY <1>3, <2>1, <2>2 DEF EnterCode
    <3>3. /\ Accepted(memory, k) = [memory EXCEPT ![k] = code, !.status = "draft",
                                                  !.step = After(k)]
          /\ Accepted(row, k) = [row EXCEPT ![k] = code, !.status = "draft", !.step = After(k)]
      <4>1. CASE k = "account"
        BY <2>0, <4>1 DEF Accepted
      <4>2. CASE k = "site"
        BY <2>0, <4>2 DEF Accepted
      <4> QED
        BY <4>1, <4>2
    <3> HIDE DEF code
    <3>4. CASE k = "account"
      <4>0. /\ memory' = [memory EXCEPT !.account = code, !.status = "draft", !.step = After(k)]
            /\ row' = [row EXCEPT !.account = code, !.status = "draft", !.step = After(k)]
        BY <3>2, <3>3, <3>4
      <4>1. memory' \in StoredSessions /\ row' \in StoredRows /\ other' \in BOOLEAN
        BY <1>0, <3>1, <3>2, <4>0, ZenonT(60)
      <4>2. SameColumns' /\ SameError' /\ SamePayload'
        BY <3>2, <4>0 DEF SameColumns, SameError, SamePayload
      <4> QED
        BY <4>1, <4>2
    <3>5. CASE k = "site"
      <4>0. /\ memory' = [memory EXCEPT !.site = code, !.status = "draft", !.step = After(k)]
            /\ row' = [row EXCEPT !.site = code, !.status = "draft", !.step = After(k)]
        BY <3>2, <3>3, <3>5
      <4>1. memory' \in StoredSessions /\ row' \in StoredRows /\ other' \in BOOLEAN
        BY <1>0, <3>1, <3>2, <4>0, ZenonT(60)
      <4>2. SameColumns' /\ SameError' /\ SamePayload'
        BY <3>2, <4>0 DEF SameColumns, SameError, SamePayload
      <4> QED
        BY <4>1, <4>2
    <3> QED
      BY <3>4, <3>5
  <2>3. CASE ~(right /\ RowAccepts(row[k]))
    <3> DEFINE code == RowRefused(row[k])
    <3>1. code \in StoredCodes /\ MemoryRefused(memory[k]) = code
      BY <2>0, CodesJudged
    <3>2. /\ memory' = [memory EXCEPT ![k] = code]
          /\ row' = [row EXCEPT ![k] = code] /\ UNCHANGED other
      BY <1>3, <2>1, <2>3, <3>1 DEF EnterCode
    <3> HIDE DEF code
    <3>3. memory' \in StoredSessions /\ row' \in StoredRows /\ other' \in BOOLEAN
      BY <3>1, <3>2
    <3>4. SameColumns' /\ SamePayload' /\ SameError'
      BY <3>1, <3>2 DEF SameColumns, SamePayload, SameError
    <3> QED
      BY <3>3, <3>4
  <2> QED
    BY <2>2, <2>3
<1> QED
  BY <1>1, <1>2, <1>3

\* A rewritten row is the row of the object that has the same status, step and payload.
LEMMA RewriteStep ==
    ASSUME StoresInv, NEW status \in StoredStatuses, NEW step \in StoredSteps,
           NEW draft \in StoredDrafts, NEW telegram \in BOOLEAN, NEW error \in BOOLEAN,
           draft.profile \/ draft.category = "none"
    PROVE  LET r == Rewrite(row, status, step,
                            [draft |-> draft, telegram |-> telegram, consent |-> FALSE], error)
           IN  /\ r \in StoredRows
               /\ r.status = status /\ r.step = step /\ r.error = error
               /\ r.website = memory.website /\ r.account = memory.account
               /\ r.site = memory.site /\ r.link = memory.link /\ r.job = memory.job
               /\ r.payload.draft.analysis = draft.analysis
               /\ r.payload.draft.profile = draft.profile
               /\ r.payload.telegram = telegram
               /\ draft.category = IF draft.profile THEN r.category ELSE "none"
<1> DEFINE payload == [draft |-> draft, telegram |-> telegram, consent |-> FALSE]
<1>1. payload \in StoredPayloads /\ payload.draft = draft /\ payload.telegram = telegram
  BY DEF StoredPayloads
<1> HIDE DEF payload
<1>2. LET r == Rewrite(row, status, step, payload, error)
      IN  /\ r \in StoredRows
          /\ r.status = status /\ r.step = step /\ r.error = error
          /\ r.website = memory.website /\ r.account = memory.account
          /\ r.site = memory.site /\ r.link = memory.link /\ r.job = memory.job
          /\ r.payload.draft.analysis = draft.analysis
          /\ r.payload.draft.profile = draft.profile
          /\ r.payload.telegram = telegram
          /\ draft.category = IF draft.profile THEN r.category ELSE "none"
  BY <1>1, RewriteColumns DEF StoresInv, SameColumns
<1> QED
  BY <1>2 DEF payload

\* Draft and payload of what is stored; a category belongs to a profile.
LEMMA DraftRead ==
    ASSUME StoresInv
    PROVE  /\ memory.draft \in StoredDrafts
           /\ memory.draft.profile \/ memory.draft.category = "none"
           /\ memory.telegram \in BOOLEAN
BY DEF StoresInv, StoresTyped, StoredSessions, SamePayload

\* Saving, changing and clearing the website keeps the stores together.
LEMMA SiteStep ==
    ASSUME StoresInv, ClearSite \/ \E verified \in BOOLEAN : SaveSite(verified)
    PROVE  StoresInv'
<1> DEFINE Written(present, code, status, step) ==
        /\ memory' = [memory EXCEPT !.website = present, !.site = code, !.status = status,
                                    !.step = step, !.draft = NoDraft]
        /\ row' = [row EXCEPT !.website = present, !.site = code, !.status = status,
                              !.step = step,
                              !.payload = [draft |-> NoDraft, telegram |-> memory.telegram,
                                           consent |-> FALSE]]
        /\ UNCHANGED other
<1>1. [Payload(ReadRow(row)) EXCEPT !.draft = NoDraft] =
          [draft |-> NoDraft, telegram |-> memory.telegram, consent |-> FALSE]
  <2> DEFINE P == Payload(ReadRow(row))
  <2> DEFINE old == memory.draft
             telegram == memory.telegram
             consent == FALSE
  <2>1. P = [draft |-> old, telegram |-> telegram, consent |-> consent]
    BY PayloadRead
  <2> HIDE DEF P, old, telegram, consent
  <2>2. [P EXCEPT !.draft = NoDraft] =
            [draft |-> NoDraft, telegram |-> telegram, consent |-> consent]
    BY <2>1
  <2> QED
    BY <2>2 DEF P, telegram, consent
<1>2. ASSUME NEW present \in BOOLEAN, NEW code \in StoredCodes, NEW status \in StoredStatuses,
             NEW step \in StoredSteps, Written(present, code, status, step)
      PROVE  StoresInv'
  <2> DEFINE P == [draft |-> NoDraft, telegram |-> memory.telegram, consent |-> FALSE]
  <2>1. P \in StoredPayloads /\ P.telegram = memory.telegram /\ P.draft = NoDraft
    BY NewCodes, DraftRead DEF StoredPayloads
  <2> HIDE DEF P
  <2>2. /\ memory' = [memory EXCEPT !.website = present, !.site = code, !.status = status,
                                    !.step = step, !.draft = NoDraft]
        /\ row' = [row EXCEPT !.website = present, !.site = code, !.status = status,
                              !.step = step, !.payload = P]
        /\ UNCHANGED other
    BY <1>2 DEF P
  <2> USE DEF StoresInv, StoresTyped
  <2>3. memory' \in StoredSessions /\ row' \in StoredRows /\ other' \in BOOLEAN
    BY <2>1, <2>2, NewCodes DEF StoredSessions, StoredRows
  <2>4. SameColumns' /\ SameError'
    BY <2>2 DEF SameColumns, SameError, StoredSessions, StoredRows
  <2>5. SamePayload'
    <3>1. memory'.draft = NoDraft /\ row'.payload = P /\ memory'.telegram = memory.telegram
      BY <2>2 DEF StoredSessions, StoredRows
    <3>2. NoDraft.profile = FALSE /\ NoDraft.category = "none"
      BY DEF NoDraft
    <3> QED
      BY <2>1, <3>1, <3>2 DEF SamePayload
  <2> QED
    BY <2>3, <2>4, <2>5
<1>3. CASE ClearSite
  <2>1. [Unsent EXCEPT !.verified = FALSE] \in StoredCodes
        /\ "draft" \in StoredStatuses /\ "analysis" \in StoredSteps
    BY NewCodes DEF StoredStatuses, StoredSteps
  <2>2. Written(FALSE, [Unsent EXCEPT !.verified = FALSE], "draft", "analysis")
    BY <1>1, <1>3 DEF ClearSite, Website
  <2> HIDE DEF Written
  <2> QED
    BY <1>2, <2>1, <2>2
<1>4. ASSUME NEW verified \in BOOLEAN, SaveSite(verified) PROVE StoresInv'
  <2> DEFINE code == [Unsent EXCEPT !.verified = verified]
             status == IF verified THEN "draft" ELSE Pending("site")
             step == IF verified THEN "analyzing" ELSE Entry("site")
  <2>1. code \in StoredCodes /\ status \in StoredStatuses /\ step \in StoredSteps
    BY NewCodes DEF StoredStatuses, StoredSteps, Pending, Entry
  <2>2. Written(TRUE, code, status, step)
    BY <1>1, <1>4 DEF SaveSite, Website
  <2> HIDE DEF Written, code, status, step
  <2> QED
    BY <1>2, <2>1, <2>2
<1> QED
  BY <1>3, <1>4

\* The payload that was read, with another draft or with Telegram set up.
LEMMA PayloadEdited ==
    ASSUME StoresInv, NEW draft \in StoredDrafts
    PROVE  /\ [Payload(ReadRow(row)) EXCEPT !.draft = draft] =
                  [draft |-> draft, telegram |-> memory.telegram, consent |-> FALSE]
           /\ [Payload(ReadRow(row)) EXCEPT !.telegram = TRUE] =
                  [draft |-> memory.draft, telegram |-> TRUE, consent |-> FALSE]
<1> DEFINE P == Payload(ReadRow(row))
           old == memory.draft
           telegram == memory.telegram
           consent == FALSE
           yes == TRUE
<1>1. P = [draft |-> old, telegram |-> telegram, consent |-> consent]
  BY PayloadRead
<1> HIDE DEF P, old, telegram, consent, yes
<1>2. [P EXCEPT !.draft = draft] = [draft |-> draft, telegram |-> telegram, consent |-> consent]
  BY <1>1
<1>3. [P EXCEPT !.telegram = yes] = [draft |-> old, telegram |-> yes, consent |-> consent]
  BY <1>1
<1> QED
  BY <1>2, <1>3 DEF P, old, telegram, consent, yes

\* The row that a call leaves which rewrites it.
Saved(status, step, draft, telegram, error) ==
    Rewrite(row, status, step, [draft |-> draft, telegram |-> telegram, consent |-> FALSE], error)

\* What r has of a session that is written with these values.
HasWritten(r, status, step, draft, telegram) ==
    /\ r \in StoredRows
    /\ r.status = status /\ r.step = step
    /\ r.website = memory.website /\ r.account = memory.account
    /\ r.site = memory.site /\ r.link = memory.link /\ r.job = memory.job
    /\ r.payload.draft.analysis = draft.analysis
    /\ r.payload.draft.profile = draft.profile
    /\ r.payload.telegram = telegram
    /\ draft.category = IF draft.profile THEN r.category ELSE "none"

LEMMA SavedRow ==
    ASSUME StoresInv, NEW status \in StoredStatuses, NEW step \in StoredSteps,
           NEW draft \in StoredDrafts, NEW telegram \in BOOLEAN, NEW error \in BOOLEAN,
           draft.profile \/ draft.category = "none"
    PROVE  /\ HasWritten(Saved(status, step, draft, telegram, error),
                         status, step, draft, telegram)
           /\ Saved(status, step, draft, telegram, error).error = error
<1> DEFINE r == Saved(status, step, draft, telegram, error)
<1>1. /\ r \in StoredRows
      /\ r.status = status /\ r.step = step /\ r.error = error
      /\ r.website = memory.website /\ r.account = memory.account
      /\ r.site = memory.site /\ r.link = memory.link /\ r.job = memory.job
      /\ r.payload.draft.analysis = draft.analysis
      /\ r.payload.draft.profile = draft.profile
      /\ r.payload.telegram = telegram
      /\ draft.category = IF draft.profile THEN r.category ELSE "none"
  BY RewriteStep DEF Saved
<1> HIDE DEF r
<1>2. HasWritten(r, status, step, draft, telegram)
  BY <1>1 DEF HasWritten
<1> QED
  BY <1>1, <1>2 DEF r

\* If the object gets the same values, the stores stay together.
LEMMA WrittenKeeps ==
    ASSUME StoresInv, NEW status, NEW step, NEW draft, NEW telegram, NEW r,
           HasWritten(r, status, step, draft, telegram),
           memory' \in StoredSessions, UNCHANGED other,
           memory'.status = status, memory'.step = step, memory'.draft = draft,
           memory'.telegram = telegram, r.error => memory'.error,
           memory'.website = memory.website, memory'.account = memory.account,
           memory'.site = memory.site,
           row' \in StoredRows,
           row'.status = r.status, row'.step = r.step, row'.website = r.website,
           row'.account = r.account, row'.site = r.site, row'.payload = r.payload,
           row'.category = r.category, row'.error = r.error,
           row'.link = memory'.link, row'.job = memory'.job
    PROVE  StoresInv'
<1>1. StoresTyped'
  BY DEF StoresInv, StoresTyped
<1>2. SameColumns'
  BY DEF SameColumns, HasWritten
<1>3. SamePayload'
  BY DEF SamePayload, HasWritten
<1>4. SameError'
  BY DEF SameError
<1> QED
  BY <1>1, <1>2, <1>3, <1>4 DEF StoresInv

\* What every such call finds.
LEMMA SessionRead ==
    ASSUME StoresInv
    PROVE  /\ memory.draft \in StoredDrafts /\ memory.telegram \in BOOLEAN
           /\ memory.draft.profile \/ memory.draft.category = "none"
           /\ memory \in StoredSessions /\ row.status = memory.status /\ row.step = memory.step
           /\ memory.status \in StoredStatuses /\ memory.step \in StoredSteps
           /\ Payload(ReadRow(row)) = [draft |-> memory.draft, telegram |-> memory.telegram,
                                       consent |-> FALSE]
BY DraftRead, PayloadRead DEF StoresInv, StoresTyped, SameColumns, StoredSessions

\* Calls that rewrite the row keep the stores together.
LEMMA DraftStep ==
    ASSUME StoresInv,
           \/ SaveResult \/ EditStep("business") \/ SaveProjects
           \/ \E c \in Categories : EditProfile(c)
    PROVE  StoresInv'
<1> DEFINE P == Payload(ReadRow(row))
<1>0. /\ memory.draft \in StoredDrafts /\ memory.telegram \in BOOLEAN
      /\ memory.draft.profile \/ memory.draft.category = "none"
      /\ memory \in StoredSessions /\ row.status = memory.status /\ row.step = memory.step
      /\ memory.status \in StoredStatuses /\ memory.step \in StoredSteps
      /\ P = [draft |-> memory.draft, telegram |-> memory.telegram, consent |-> FALSE]
  BY SessionRead
<1>1. CASE SaveResult
  <2> DEFINE draft == Analysed(memory.draft)
  <2>1. draft \in StoredDrafts /\ draft.profile
    BY <1>0 DEF Analysed, StoredDrafts
  <2>2. P.draft = memory.draft
    BY <1>0
  <2>3. [P EXCEPT !.draft = Analysed(@)] = [P EXCEPT !.draft = draft]
    BY <1>0, <2>2
  <2> DEFINE no == FALSE
  <2>4. row' = Saved("ready_for_review", "analysis", draft, memory.telegram, no) /\ no \in BOOLEAN
    BY <1>1, <2>1, <2>3, PayloadEdited DEF SaveResult, Saved
  <2>5. memory' = [memory EXCEPT !.status = "ready_for_review", !.step = "analysis",
                                 !.draft = draft] /\ UNCHANGED other
    BY <1>1 DEF SaveResult
  <2> HIDE DEF draft, P, no
  <2>6. /\ memory' \in StoredSessions /\ memory'.status = "ready_for_review"
        /\ memory'.step = "analysis" /\ memory'.draft = draft
        /\ memory'.telegram = memory.telegram /\ memory'.website = memory.website
        /\ memory'.account = memory.account /\ memory'.site = memory.site
        /\ memory'.link = memory.link /\ memory'.job = memory.job
        /\ "ready_for_review" \in StoredStatuses /\ "analysis" \in StoredSteps
    BY <1>0, <2>1, <2>5 DEF StoredSessions, StoredStatuses, StoredSteps
  <2>7. /\ HasWritten(row', "ready_for_review", "analysis", draft, memory.telegram)
        /\ row'.error = no
    BY <1>0, <2>1, <2>4, <2>6, SavedRow
  <2>8. ~no
    BY DEF no
  <2> QED
    BY <2>5, <2>6, <2>7, <2>8, WrittenKeeps DEF HasWritten
<1>2. CASE EditStep("business")
  <2>1. memory' = [memory EXCEPT !.step = "business"] /\ UNCHANGED other
    BY <1>2 DEF EditStep
  <2>2. row' = Saved(memory.status, "business", memory.draft, memory.telegram, FALSE)
    BY <1>0, <1>2 DEF EditStep, Saved
  <2>3. /\ memory' \in StoredSessions /\ memory'.status = memory.status
        /\ memory'.step = "business" /\ memory'.draft = memory.draft
        /\ memory'.telegram = memory.telegram /\ memory'.website = memory.website
        /\ memory'.account = memory.account /\ memory'.site = memory.site
        /\ memory'.link = memory.link /\ memory'.job = memory.job
        /\ "business" \in StoredSteps
    BY <1>0, <2>1 DEF StoredSessions, StoredSteps
  <2> HIDE DEF P
  <2>4. /\ HasWritten(row', memory.status, "business", memory.draft, memory.telegram)
        /\ row'.error = FALSE
    BY <1>0, <2>2, <2>3, SavedRow, ZenonT(60)
  <2> QED
    BY <2>1, <2>3, <2>4, WrittenKeeps DEF HasWritten
<1>3. CASE SaveProjects
  <2>1. memory' = memory /\ UNCHANGED other
    BY <1>3 DEF SaveProjects
  <2>2. row' = Saved(memory.status, memory.step, memory.draft, memory.telegram, FALSE)
    BY <1>0, <1>3 DEF SaveProjects, Saved
  <2> HIDE DEF P
  <2>3. /\ HasWritten(row', memory.status, memory.step, memory.draft, memory.telegram)
        /\ row'.error = FALSE
    BY <1>0, <2>2, SavedRow
  <2> QED
    BY <1>0, <2>1, <2>3, WrittenKeeps DEF HasWritten
<1>4. ASSUME NEW c \in Categories, EditProfile(c) PROVE StoresInv'
  <2> DEFINE yes == TRUE
             old == memory.draft
             draft == [[old EXCEPT !.profile = yes] EXCEPT !.category = c]
  <2>1. draft \in StoredDrafts /\ draft.profile
    BY <1>0 DEF StoredDrafts
  <2>2. memory' = [memory EXCEPT !.draft = draft] /\ UNCHANGED other
    <3>1. memory' = [memory EXCEPT !.draft.profile = TRUE, !.draft.category = c]
          /\ UNCHANGED other
      BY <1>4 DEF EditProfile
    <3>2. [memory EXCEPT !.draft.profile = yes, !.draft.category = c] =
              [memory EXCEPT !.draft = draft]
      <4> HIDE DEF yes
      <4> QED
        BY <1>0 DEF StoredSessions, StoredDrafts
    <3> QED
      BY <3>1, <3>2
  <2>3. [P EXCEPT !.draft.profile = TRUE, !.draft.category = c] = [P EXCEPT !.draft = draft]
    <3> DEFINE telegram == memory.telegram
               no == FALSE
    <3>1. P = [draft |-> old, telegram |-> telegram, consent |-> no]
      BY <1>0
    <3>2. old \in StoredDrafts
      BY <1>0
    <3> HIDE DEF P, old, telegram, no, yes
    <3>3. [P EXCEPT !.draft.profile = yes, !.draft.category = c] = [P EXCEPT !.draft = draft]
      BY <3>1, <3>2 DEF StoredDrafts
    <3> QED
      BY <3>3 DEF yes
  <2>4. row' = Saved(memory.status, memory.step, draft, memory.telegram, FALSE)
    <3>1. row' = Rewrite(row, row.status, row.step,
                         [P EXCEPT !.draft.profile = TRUE, !.draft.category = c], FALSE)
      BY <1>4 DEF EditProfile
    <3> HIDE DEF draft
    <3>2. [P EXCEPT !.draft = draft] =
              [draft |-> draft, telegram |-> memory.telegram, consent |-> FALSE]
      BY <2>1, PayloadEdited
    <3> HIDE DEF P
    <3> QED
      BY <1>0, <2>3, <3>1, <3>2 DEF Saved
  <2> HIDE DEF draft, P, old, yes
  <2>5. /\ memory' \in StoredSessions /\ memory'.status = memory.status
        /\ memory'.step = memory.step /\ memory'.draft = draft
        /\ memory'.telegram = memory.telegram /\ memory'.website = memory.website
        /\ memory'.account = memory.account /\ memory'.site = memory.site
        /\ memory'.link = memory.link /\ memory'.job = memory.job
    BY <1>0, <2>1, <2>2 DEF StoredSessions
  <2> DEFINE no == FALSE
             r == Saved(memory.status, memory.step, draft, memory.telegram, no)
  <2>6. no \in BOOLEAN /\ ~no
    OBVIOUS
  <2> HIDE DEF no
  <2>7. HasWritten(r, memory.status, memory.step, draft, memory.telegram) /\ r.error = no
    BY <1>0, <2>1, <2>6, SavedRow
  <2>8. r \in StoredRows /\ r.link = memory.link /\ r.job = memory.job
    BY <2>7 DEF HasWritten
  <2> HIDE DEF r
  <2>9. row' = r
    BY <2>4 DEF r, no
  <2> QED
    BY <2>2, <2>5, <2>6, <2>7, <2>8, <2>9, WrittenKeeps
<1> QED
  BY <1>1, <1>2, <1>3, <1>4

\* The setup link, submission and failure keep the stores together.
LEMMA LinkStep ==
    ASSUME StoresInv, SaveLink \/ ExpireLink \/ UseSetupLink
    PROVE  StoresInv'
<1> DEFINE P == Payload(ReadRow(row))
<1>0. /\ memory.draft \in StoredDrafts /\ memory.telegram \in BOOLEAN
      /\ memory.draft.profile \/ memory.draft.category = "none"
      /\ memory \in StoredSessions /\ row.status = memory.status /\ row.step = memory.step
      /\ memory.status \in StoredStatuses /\ memory.step \in StoredSteps
      /\ P = [draft |-> memory.draft, telegram |-> memory.telegram, consent |-> FALSE]
  BY SessionRead
<1>00. /\ memory.link \in StoredCodes /\ row.link = memory.link /\ row \in StoredRows
       /\ row.job = memory.job
  BY DEF StoresInv, StoresTyped, StoredSessions, SameColumns
<1>1. CASE SaveLink
  <2>1. /\ memory' = [memory EXCEPT !.link = Fresh, !.status = "awaiting_telegram_setup",
                                    !.step = "telegram-setup"]
        /\ UNCHANGED other
    BY <1>1 DEF SaveLink
  <2> DEFINE r == Saved("awaiting_telegram_setup", "telegram-setup", memory.draft,
                        memory.telegram, FALSE)
  <2>2. row' = [r EXCEPT !.link = Fresh]
    BY <1>0, <1>1 DEF SaveLink, Saved
  <2> HIDE DEF P
  <2>3. /\ memory' \in StoredSessions /\ memory'.status = "awaiting_telegram_setup"
        /\ memory'.step = "telegram-setup" /\ memory'.draft = memory.draft
        /\ memory'.telegram = memory.telegram /\ memory'.website = memory.website
        /\ memory'.account = memory.account /\ memory'.site = memory.site
        /\ memory'.link = Fresh /\ memory'.job = memory.job
        /\ "awaiting_telegram_setup" \in StoredStatuses /\ "telegram-setup" \in StoredSteps
    BY <1>0, <2>1, NewCodes DEF StoredSessions, StoredStatuses, StoredSteps
  <2>4. /\ HasWritten(r, "awaiting_telegram_setup", "telegram-setup", memory.draft,
                      memory.telegram)
        /\ r.error = FALSE
    BY <1>0, <2>3, SavedRow
  <2>5. r \in StoredRows /\ r.job = memory.job
    BY <2>4 DEF HasWritten
  <2> HIDE DEF r
  <2>6. /\ row' \in StoredRows
        /\ row'.status = r.status /\ row'.step = r.step /\ row'.website = r.website
        /\ row'.account = r.account /\ row'.site = r.site /\ row'.payload = r.payload
        /\ row'.category = r.category /\ row'.error = r.error
        /\ row'.link = Fresh /\ row'.job = r.job
    BY <2>2, <2>5, NewCodes DEF StoredRows
  <2> QED
    BY <2>1, <2>3, <2>4, <2>5, <2>6, WrittenKeeps
<1>2. CASE ExpireLink
  <2> DEFINE Older(code) == [code EXCEPT !.expires = IF @ = "later" THEN "earlier" ELSE @]
  <2>1. Older(memory.link) \in StoredCodes /\ Older(memory.link) = Older(row.link)
    BY <1>00, CodesJudged
  <2>2. /\ memory' = [memory EXCEPT !.link = Older(memory.link)]
        /\ row' = [row EXCEPT !.link = Older(row.link)] /\ UNCHANGED other
    BY <1>2 DEF ExpireLink
  <2> HIDE DEF Older
  <2> USE DEF StoresInv, StoresTyped, StoredSessions, StoredRows
  <2>3. /\ memory' \in StoredSessions /\ row' \in StoredRows /\ other' \in BOOLEAN
    BY <2>1, <2>2
  <2>4. SameColumns' /\ SamePayload' /\ SameError'
    BY <2>1, <2>2 DEF SameColumns, SamePayload, SameError
  <2> QED
    BY <2>3, <2>4
<1>3. CASE UseSetupLink
  <2>1. MemoryAccepts(memory.link) <=> RowAccepts(row.link)
    BY <1>00, CodesJudged
  <2>2. CASE ~RowAccepts(row.link)
    <3>1. memory' = memory /\ row' = row /\ other' = other
      BY <1>3, <2>1, <2>2 DEF UseSetupLink
    <3> QED
      BY <3>1 DEF StoresInv, StoresTyped, SameColumns, SamePayload, SameError
  <2>3. CASE RowAccepts(row.link)
    <3> DEFINE yes == TRUE
               code == [memory.link EXCEPT !.used = yes]
               used == [row EXCEPT !.link = code]
    <3>1. code \in StoredCodes
      BY <1>00 DEF StoredCodes
    <3>2. [row EXCEPT !.link.used = TRUE] = used
      BY <1>00 DEF StoredRows
    <3>3. memory' = [memory EXCEPT !.link.used = TRUE, !.telegram = TRUE,
                                   !.status = "ready_to_submit", !.step = "submit"]
          /\ UNCHANGED other
      BY <1>3, <2>1, <2>3 DEF UseSetupLink
    <3>4. memory' = [memory EXCEPT !.link = code, !.telegram = TRUE,
                                   !.status = "ready_to_submit", !.step = "submit"]
      BY <1>0, <3>3 DEF StoredSessions
    <3>5. row' = Rewrite(used, "ready_to_submit", "submit",
                         [draft |-> memory.draft, telegram |-> TRUE, consent |-> FALSE], FALSE)
      BY <1>0, <1>3, <2>3, <3>2, PayloadEdited DEF UseSetupLink
    <3> DEFINE r == Saved("ready_to_submit", "submit", memory.draft, yes, FALSE)
    <3>6. row' = [r EXCEPT !.link = code]
      BY <1>00, <3>5 DEF Saved, Rewrite, StoredRows
    <3> HIDE DEF P, used, code
    <3>7. /\ memory' \in StoredSessions /\ memory'.status = "ready_to_submit"
          /\ memory'.step = "submit" /\ memory'.draft = memory.draft
          /\ memory'.telegram = yes /\ memory'.website = memory.website
          /\ memory'.account = memory.account /\ memory'.site = memory.site
          /\ memory'.link = code /\ memory'.job = memory.job
          /\ "ready_to_submit" \in StoredStatuses /\ "submit" \in StoredSteps
      BY <1>0, <3>1, <3>4 DEF StoredSessions, StoredStatuses, StoredSteps
    <3>8. /\ HasWritten(r, "ready_to_submit", "submit", memory.draft, yes)
          /\ r.error = FALSE
      BY <1>0, <3>7, SavedRow, ZenonT(60)
    <3>9. r \in StoredRows /\ r.job = memory.job
      BY <3>8 DEF HasWritten
    <3> HIDE DEF r, yes
    <3>10. /\ row' \in StoredRows
           /\ row'.status = r.status /\ row'.step = r.step /\ row'.website = r.website
           /\ row'.account = r.account /\ row'.site = r.site /\ row'.payload = r.payload
           /\ row'.category = r.category /\ row'.error = r.error
           /\ row'.link = code /\ row'.job = r.job
      BY <3>1, <3>6, <3>9 DEF StoredRows
    <3> QED
      BY <3>3, <3>7, <3>8, <3>9, <3>10, WrittenKeeps
  <2> QED
    BY <2>2, <2>3
<1> QED
  BY <1>1, <1>2, <1>3

\* Submission and failure keep the stores together.
LEMMA SubmitStep ==
    ASSUME StoresInv, MarkSubmitted \/ MarkFailed
    PROVE  StoresInv'
<1> DEFINE P == Payload(ReadRow(row))
<1>0. /\ memory.draft \in StoredDrafts /\ memory.telegram \in BOOLEAN
      /\ memory.draft.profile \/ memory.draft.category = "none"
      /\ memory \in StoredSessions /\ row.status = memory.status /\ row.step = memory.step
      /\ memory.status \in StoredStatuses /\ memory.step \in StoredSteps
      /\ P = [draft |-> memory.draft, telegram |-> memory.telegram, consent |-> FALSE]
  BY SessionRead
<1>1. CASE MarkSubmitted
  <2> DEFINE yes == TRUE
             no == FALSE
             r == Saved("submitted", "complete", memory.draft, memory.telegram, no)
  <2>1. /\ memory' = [memory EXCEPT !.status = "submitted", !.step = "complete", !.job = yes,
                                    !.error = no]
        /\ UNCHANGED other
    BY <1>1 DEF MarkSubmitted
  <2>2. row' = [r EXCEPT !.job = yes]
    BY <1>0, <1>1 DEF MarkSubmitted, Saved
  <2>3. yes \in BOOLEAN /\ no \in BOOLEAN
    OBVIOUS
  <2> HIDE DEF P, yes, no
  <2>4. /\ memory' \in StoredSessions /\ memory'.status = "submitted"
        /\ memory'.step = "complete" /\ memory'.draft = memory.draft
        /\ memory'.telegram = memory.telegram /\ memory'.website = memory.website
        /\ memory'.account = memory.account /\ memory'.site = memory.site
        /\ memory'.link = memory.link /\ memory'.job = yes /\ memory'.error = no
        /\ "submitted" \in StoredStatuses /\ "complete" \in StoredSteps
    BY <1>0, <2>1, <2>3 DEF StoredSessions, StoredStatuses, StoredSteps
  <2>5. HasWritten(r, "submitted", "complete", memory.draft, memory.telegram) /\ r.error = no
    BY <1>0, <2>3, <2>4, SavedRow
  <2>6. r \in StoredRows /\ r.link = memory.link
    BY <2>5 DEF HasWritten
  <2> HIDE DEF r
  <2>7. /\ row' \in StoredRows
        /\ row'.status = r.status /\ row'.step = r.step /\ row'.website = r.website
        /\ row'.account = r.account /\ row'.site = r.site /\ row'.payload = r.payload
        /\ row'.category = r.category /\ row'.error = r.error
        /\ row'.link = r.link /\ row'.job = yes
    BY <2>2, <2>3, <2>6 DEF StoredRows
  <2> QED
    BY <2>1, <2>4, <2>5, <2>6, <2>7, WrittenKeeps
<1>2. CASE MarkFailed
  <2> DEFINE yes == TRUE
  <2>1. memory' = [memory EXCEPT !.status = "failed", !.error = yes] /\ UNCHANGED other
    BY <1>2 DEF MarkFailed
  <2>2. row' = Saved("failed", memory.step, memory.draft, memory.telegram, yes)
    BY <1>0, <1>2 DEF MarkFailed, Saved
  <2>3. yes \in BOOLEAN
    OBVIOUS
  <2> HIDE DEF P, yes
  <2>4. /\ memory' \in StoredSessions /\ memory'.status = "failed"
        /\ memory'.step = memory.step /\ memory'.draft = memory.draft
        /\ memory'.telegram = memory.telegram /\ memory'.website = memory.website
        /\ memory'.account = memory.account /\ memory'.site = memory.site
        /\ memory'.link = memory.link /\ memory'.job = memory.job /\ memory'.error = yes
        /\ "failed" \in StoredStatuses
    BY <1>0, <2>1, <2>3 DEF StoredSessions, StoredStatuses
  <2> DEFINE r == Saved("failed", memory.step, memory.draft, memory.telegram, yes)
  <2>5. HasWritten(r, "failed", memory.step, memory.draft, memory.telegram) /\ r.error = yes
    BY <1>0, <2>3, <2>4, SavedRow
  <2>6. r \in StoredRows /\ r.link = memory.link /\ r.job = memory.job
    BY <2>5 DEF HasWritten
  <2>7. r.error => memory'.error
    BY <2>4, <2>5 DEF yes
  <2> HIDE DEF r
  <2>8. row' = r
    BY <2>2 DEF r
  <2> QED
    BY <2>1, <2>4, <2>5, <2>6, <2>7, <2>8, WrittenKeeps
<1> QED
  BY <1>1, <1>2

\* The memory store, on which the tests run, and the database answer alike after every
\* sequence of calls: StoresAgree holds in every state.
THEOREM StoresStayTogether == StoresSpec => []StoresAgree
<1>1. StoresInit => StoresInv
  <2> SUFFICES ASSUME StoresInit PROVE StoresInv
    OBVIOUS
  <2>1. /\ Pending("account") \in StoredStatuses /\ Entry("account") \in StoredSteps
        /\ NoDraft.category = "none" /\ NoDraft.profile = FALSE
    BY DEF Pending, Entry, StoredStatuses, StoredSteps, NoDraft
  <2>2. StoresTyped
    BY <2>1, NewCodes DEF StoresInit, StoresTyped, StoredSessions, StoredRows, StoredPayloads
  <2>3. SameColumns
    BY DEF StoresInit, SameColumns
  <2>4. SamePayload
    BY <2>1 DEF StoresInit, SamePayload
  <2>5. SameError
    BY DEF StoresInit, SameError
  <2> QED
    BY <2>2, <2>3, <2>4, <2>5 DEF StoresInv
<1>2. StoresInv /\ [StoresNext]_storesVars => StoresInv'
  <2> SUFFICES ASSUME StoresInv, [StoresNext]_storesVars PROVE StoresInv'
    OBVIOUS
  <2>1. ASSUME NEW k \in Codes,
               SaveCode(k) \/ ExpireCode(k) \/ \E right \in BOOLEAN : EnterCode(k, right)
        PROVE  StoresInv'
    BY <2>1, CodeStep
  <2>2. CASE ClearSite \/ \E verified \in BOOLEAN : SaveSite(verified)
    BY <2>2, SiteStep
  <2>3. CASE \/ SaveResult \/ EditStep("business") \/ SaveProjects
             \/ \E c \in Categories : EditProfile(c)
    BY <2>3, DraftStep
  <2>4. CASE SaveLink \/ ExpireLink \/ UseSetupLink
    BY <2>4, LinkStep
  <2>5. CASE MarkSubmitted \/ MarkFailed
    BY <2>5, SubmitStep
  <2>6. CASE OtherChanges
    <3>1. memory' = memory /\ row' = row /\ other' \in BOOLEAN
      BY <2>6 DEF OtherChanges
    <3> QED
      BY <3>1 DEF StoresInv, StoresTyped, SameColumns, SamePayload, SameError
  <2>7. CASE UNCHANGED storesVars
    BY <2>7 DEF storesVars, StoresInv, StoresTyped, SameColumns, SamePayload, SameError
  <2> QED
    BY <2>1, <2>2, <2>3, <2>4, <2>5, <2>6, <2>7 DEF StoresNext
<1> QED
  BY <1>1, <1>2, StoresInvAgrees, PTL DEF StoresSpec
=============================================================================

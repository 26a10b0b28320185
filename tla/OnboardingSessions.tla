------------------------- MODULE OnboardingSessions -------------------------
(***************************************************************************)
(* One onboarding session (app/onboarding_sessions.py) and its row of      *)
(* onboarding_sessions (app/adapters/postgres.py): its account and website *)
(* addresses are verified by codes, its draft is analysed and edited, and  *)
(* it is submitted as a job.                                               *)
(*                                                                         *)
(* A request checks the session it reads, the repository reads the row     *)
(* again, and an UPDATE writes the whole draft back with what the request  *)
(* changes of it.  Only codes and setup links are consumed by a single     *)
(* conditional UPDATE.  Requests of several tabs overlap.                  *)
(*                                                                         *)
(* Cooldowns and expiry pass at any time.  Status and step, which no       *)
(* request decides on, the mails and the WhatsApp alternative to Telegram  *)
(* are left out.                                                           *)
(***************************************************************************)
EXTENDS Naturals, FiniteSets

CONSTANTS
    Requests,     \* HTTP requests at the same time
    Websites,     \* websites the business may enter, each with its address
    OwnDomain,    \* those whose address is in the domain of the verified account
    NoWebsite,    \* the session goes without a website
    MaxAttempts,  \* onboarding_email_verification_max_attempts
    MaxIssued,    \* bound on codes and setup links
    MaxFaults     \* bound on requests that end before they count a failure

ASSUME SessionAssumption ==
    /\ IsFiniteSet(Requests)
    /\ OwnDomain \subseteq Websites
    /\ NoWebsite \notin Websites
    /\ MaxAttempts \in Nat \ {0}
    /\ MaxIssued \in Nat /\ MaxFaults \in Nat

VARIABLES
    account,    \* username_email_*: verified, sent (has a hash), open (not used, not expired), failed
    site,       \* website_email_*: the same
    website,    \* website_url with website_verification_email
    draft,      \* session_payload: analysis (of which website), profile, telegram
    link,       \* telegram_setup_token_*: can it still be used?
    submitted,  \* is submitted_job_id set?
    issued,     \* codes and links issued so far
    uses,       \* uses[k]: times the code or link k has was accepted
    guesses,    \* guesses[k]: wrong codes checked against the code k has, until it is accepted
    proof,      \* the website to whose address the code in site was mailed
    op,         \* op[r]: what request r does
    pc,         \* pc[r]: where it is
    seen,       \* seen[r]: the draft the repository read for it
    target,     \* target[r]: the website it saves, has analysed or mails a code to
    faults      \* requests that ended before they counted a failure

rowVars == <<account, site, website, draft, link, submitted>>
historyVars == <<issued, uses, guesses, proof>>
requestVars == <<op, pc, seen, target>>
vars == <<rowVars, historyVars, requestVars, faults>>

-----------------------------------------------------------------------------
(* Helpers *)

NoCode == [verified |-> FALSE, sent |-> FALSE, open |-> FALSE, failed |-> 0]

NewCode == [verified |-> FALSE, sent |-> TRUE, open |-> TRUE, failed |-> 0]

EmptyDraft == [analysis |-> NoWebsite, profile |-> FALSE, telegram |-> FALSE]

Issue == issued' = issued + 1

\* MaxIssued bounds the codes and links that are, or may be, issued.
MayIssue ==
    issued + Cardinality({r \in Requests :
        op[r] \in {"send_account", "send_site", "save_website", "prepare"}}) < MaxIssued

\* Variant: a used or expired code is not told from a fresh one.
LiveUsed(address) == address.sent /\ address.failed < MaxAttempts

\* Variant: one attempt too many.
LiveOneMore(address) == address.open /\ address.failed <= MaxAttempts

\* The conditions of both statements on a code: one that can still be entered.
Live(address) == address.open /\ address.failed < MaxAttempts

Ready == account.verified /\ (website = NoWebsite \/ site.verified)

At(r, operation, label) == op[r] = operation /\ pc[r] = label

\* The request of r begins with operation, or goes on with another.
Turn(r, operation, label) ==
    /\ op' = [op EXCEPT ![r] = operation]
    /\ pc' = [pc EXCEPT ![r] = label]

End(r) ==
    /\ Turn(r, "none", "idle")
    /\ seen' = [seen EXCEPT ![r] = EmptyDraft]
    /\ target' = [target EXCEPT ![r] = NoWebsite]

-----------------------------------------------------------------------------
(* Every request: the service reads the session, then the repository does *)

\* What the service decides on the session it reads.
Begin(r) ==
    /\ pc[r] = "idle"
    /\ \/ MayIssue /\ Turn(r, "send_account", "reading") /\ UNCHANGED target
       \/ /\ MayIssue /\ website # NoWebsite
          /\ target' = [target EXCEPT ![r] = website]
          /\ Turn(r, "send_site", "reading")
       \/ /\ MayIssue /\ account.verified
          /\ \E w \in Websites \union {NoWebsite} : target' = [target EXCEPT ![r] = w]
          /\ Turn(r, "save_website", "reading")
       \/ /\ account.verified /\ site.verified /\ website # NoWebsite
          /\ target' = [target EXCEPT ![r] = website]
          /\ Turn(r, "analyze", "reading")
       \/ Turn(r, "update", "reading") /\ UNCHANGED target
       \/ MayIssue /\ Ready /\ Turn(r, "prepare", "reading") /\ UNCHANGED target
       \/ Turn(r, "submit", "submitting") /\ UNCHANGED target
    /\ UNCHANGED <<rowVars, historyVars, seen, faults>>

Read(r) ==
    /\ pc[r] = "reading"
    /\ pc' = [pc EXCEPT ![r] = "writing"]
    /\ seen' = [seen EXCEPT ![r] = draft]
    /\ UNCHANGED <<rowVars, historyVars, op, target, faults>>

\* An exception or the end of the process.
Abandon(r) ==
    /\ pc[r] # "idle"
    /\ IF pc[r] = "recording" THEN faults < MaxFaults /\ faults' = faults + 1
       ELSE UNCHANGED faults
    /\ End(r)
    /\ UNCHANGED <<rowVars, historyVars>>

-----------------------------------------------------------------------------
(* Codes *)

\* save_username_email_verification_token; then the code is mailed.
StoreAccountCode(r) ==
    /\ At(r, "send_account", "writing")
    /\ Issue
    /\ account' = NewCode
    /\ draft' = seen[r]
    /\ uses' = [uses EXCEPT !.account = 0]
    /\ guesses' = [guesses EXCEPT !.account = 0]
    /\ End(r)
    /\ UNCHANGED <<site, website, link, submitted, proof, faults>>

\* save_website_email_verification_token, on the website the row has by now; then the code is
\* mailed to the address of the session read first.
StoreSiteCode(r) ==
    /\ At(r, "send_site", "writing")
    /\ Issue
    /\ site' = NewCode
    /\ draft' = seen[r]
    /\ uses' = [uses EXCEPT !.site = 0]
    /\ guesses' = [guesses EXCEPT !.site = 0]
    /\ proof' = target[r]
    /\ End(r)
    /\ UNCHANGED <<account, website, link, submitted, faults>>

\* verify_username_email: accept the code if it is the right one, that is the one whose hash is
\* stored, or go on to count the failure.
VerifyAccount(r, right) ==
    /\ pc[r] = "idle"
    /\ IF right /\ Live(account)
       THEN /\ account' = [account EXCEPT !.verified = TRUE, !.open = FALSE]
            /\ uses' = [uses EXCEPT !.account = @ + 1]
            /\ guesses' = [guesses EXCEPT !.account = 0]
            /\ UNCHANGED requestVars
       ELSE /\ Turn(r, "verify_account", "recording")
            /\ guesses' = [guesses EXCEPT !.account = IF Live(account) THEN @ + 1 ELSE @]
            /\ UNCHANGED <<account, uses, seen, target>>
    /\ UNCHANGED <<site, website, draft, link, submitted, issued, proof, faults>>

VerifySite(r, right) ==
    /\ pc[r] = "idle"
    /\ IF right /\ Live(site)
       THEN /\ site' = [site EXCEPT !.verified = TRUE, !.open = FALSE]
            /\ uses' = [uses EXCEPT !.site = @ + 1]
            /\ guesses' = [guesses EXCEPT !.site = 0]
            /\ UNCHANGED requestVars
       ELSE /\ Turn(r, "verify_site", "recording")
            /\ guesses' = [guesses EXCEPT !.site = IF Live(site) THEN @ + 1 ELSE @]
            /\ UNCHANGED <<site, uses, seen, target>>
    /\ UNCHANGED <<account, website, draft, link, submitted, issued, proof, faults>>

\* record_..._failure counts against the code that is stored by now.
Recorded(address) ==
    IF Live(address) /\ ~address.verified
    THEN [address EXCEPT !.failed = @ + 1] ELSE address

RecordAccount(r) ==
    /\ At(r, "verify_account", "recording")
    /\ account' = Recorded(account)
    /\ End(r)
    /\ UNCHANGED <<site, website, draft, link, submitted, historyVars, faults>>

RecordSite(r) ==
    /\ At(r, "verify_site", "recording")
    /\ site' = Recorded(site)
    /\ End(r)
    /\ UNCHANGED <<account, website, draft, link, submitted, historyVars, faults>>

\* expires_at of a code or a link passes.
Expire ==
    /\ \/ account.open /\ account' = [account EXCEPT !.open = FALSE] /\ UNCHANGED <<site, link>>
       \/ site.open /\ site' = [site EXCEPT !.open = FALSE] /\ UNCHANGED <<account, link>>
       \/ link /\ link' = FALSE /\ UNCHANGED <<account, site>>
    /\ UNCHANGED <<website, draft, submitted, historyVars, requestVars, faults>>

-----------------------------------------------------------------------------
(* The draft *)

\* Variant: the code that was sent for the old website stays.
SaveWebsiteWithCode(r) ==
    /\ At(r, "save_website", "writing")
    /\ website' = target[r]
    /\ site' = [site EXCEPT !.verified = target[r] \in OwnDomain]
    /\ draft' = [EmptyDraft EXCEPT !.telegram = seen[r].telegram]
    /\ guesses' = [guesses EXCEPT !.site = 0]
    /\ IF target[r] \in OwnDomain \union {NoWebsite}
       THEN End(r)
       ELSE /\ Turn(r, "send_site", "resending")
            /\ seen' = [seen EXCEPT ![r] = EmptyDraft]
            /\ target' = [target EXCEPT ![r] = NoWebsite]
    /\ UNCHANGED <<account, link, submitted, issued, uses, proof, faults>>

\* Variant: the draft of the old website stays.
SaveWebsiteWithDraft(r) ==
    /\ At(r, "save_website", "writing")
    /\ website' = target[r]
    /\ site' = [NoCode EXCEPT !.verified = target[r] \in OwnDomain]
    /\ draft' = seen[r]
    /\ guesses' = [guesses EXCEPT !.site = 0]
    /\ IF target[r] \in OwnDomain \union {NoWebsite}
       THEN End(r)
       ELSE /\ Turn(r, "send_site", "resending")
            /\ seen' = [seen EXCEPT ![r] = EmptyDraft]
            /\ target' = [target EXCEPT ![r] = NoWebsite]
    /\ UNCHANGED <<account, link, submitted, issued, uses, proof, faults>>

\* Variant: the whole draft is reset.
SaveWebsiteOnly(r) ==
    /\ At(r, "save_website", "writing")
    /\ website' = target[r]
    /\ site' = [NoCode EXCEPT !.verified = target[r] \in OwnDomain]
    /\ draft' = EmptyDraft
    /\ guesses' = [guesses EXCEPT !.site = 0]
    /\ IF target[r] \in OwnDomain \union {NoWebsite}
       THEN End(r)
       ELSE /\ Turn(r, "send_site", "resending")
            /\ seen' = [seen EXCEPT ![r] = EmptyDraft]
            /\ target' = [target EXCEPT ![r] = NoWebsite]
    /\ UNCHANGED <<account, link, submitted, issued, uses, proof, faults>>

\* save_session_website, clear_session_website: the old verification and draft go.
SaveWebsite(r) ==
    /\ At(r, "save_website", "writing")
    /\ website' = target[r]
    /\ site' = [NoCode EXCEPT !.verified = target[r] \in OwnDomain]
    /\ draft' = [EmptyDraft EXCEPT !.telegram = seen[r].telegram]
    /\ guesses' = [guesses EXCEPT !.site = 0]
    /\ IF target[r] \in OwnDomain \union {NoWebsite}
       THEN End(r)
       ELSE /\ Turn(r, "send_site", "resending")
            /\ seen' = [seen EXCEPT ![r] = EmptyDraft]
            /\ target' = [target EXCEPT ![r] = NoWebsite]
    /\ UNCHANGED <<account, link, submitted, issued, uses, proof, faults>>

\* save_website goes on to send_website_email_verification, which refuses without a website
\* or during the cooldown of a code that another request has sent.
ContinueToSend(r) ==
    /\ At(r, "send_site", "resending")
    /\ \/ /\ website # NoWebsite
          /\ target' = [target EXCEPT ![r] = website]
          /\ Turn(r, "send_site", "reading") /\ UNCHANGED seen
       \/ (website = NoWebsite \/ site.sent) /\ End(r)
    /\ UNCHANGED <<rowVars, historyVars, faults>>

\* save_session_analysis, after the website was fetched and analysed.
SaveAnalysis(r) ==
    /\ At(r, "analyze", "writing")
    /\ draft' = [seen[r] EXCEPT !.analysis = target[r], !.profile = TRUE]
    /\ End(r)
    /\ UNCHANGED <<account, site, website, link, submitted, historyVars, faults>>

\* update_session with a reviewed or emptied profile and summary, or with other fields;
\* save_provider_projects writes what it read.
UpdateSession(r) ==
    /\ At(r, "update", "writing")
    /\ \E profile \in BOOLEAN : draft' = [seen[r] EXCEPT !.profile = profile]
    /\ End(r)
    /\ UNCHANGED <<account, site, website, link, submitted, historyVars, faults>>

\* mark_session_failed: of the draft it changes nothing.
WriteBack(r) ==
    /\ At(r, "write_back", "writing")
    /\ draft' = seen[r]
    /\ End(r)
    /\ UNCHANGED <<account, site, website, link, submitted, historyVars, faults>>

-----------------------------------------------------------------------------
(* Telegram setup and submission *)

\* save_telegram_setup_token; the link is mailed to the SaaS admin.
StoreLink(r) ==
    /\ At(r, "prepare", "writing")
    /\ Issue
    /\ link' = TRUE
    /\ uses' = [uses EXCEPT !.link = 0]
    /\ draft' = seen[r]
    /\ End(r)
    /\ UNCHANGED <<account, site, website, submitted, guesses, proof, faults>>

\* save_telegram_setup begins by consuming the link.
UseLink(r) ==
    /\ pc[r] = "idle"
    /\ link
    /\ link' = FALSE
    /\ uses' = [uses EXCEPT !.link = @ + 1]
    /\ Turn(r, "setup", "reading")
    /\ UNCHANGED <<account, site, website, draft, submitted, issued, guesses, proof, seen,
                   target, faults>>

SaveTelegramSetup(r) ==
    /\ At(r, "setup", "writing")
    /\ draft' = [seen[r] EXCEPT !.telegram = TRUE]
    /\ Turn(r, "setup", "submitting")
    /\ seen' = [seen EXCEPT ![r] = EmptyDraft]
    /\ UNCHANGED <<account, site, website, link, submitted, historyVars, target, faults>>

Complete == Ready /\ draft.profile /\ draft.telegram

\* submit_session on the session it reads: the job is there, is started, or is refused, also
\* for a profile without an activity; the submit endpoint then marks the session as failed.
Submit(r) ==
    /\ pc[r] = "submitting"
    /\ \/ /\ Complete /\ submitted
          /\ End(r)
       \/ /\ Complete /\ ~submitted
          /\ Turn(r, op[r], "starting") /\ UNCHANGED <<seen, target>>
       \/ /\ ~(Complete /\ submitted) /\ op[r] = "submit"
          /\ Turn(r, "write_back", "reading") /\ UNCHANGED <<seen, target>>
       \/ /\ ~(Complete /\ submitted) /\ op[r] = "setup"
          /\ End(r)
    /\ UNCHANGED <<rowVars, historyVars, faults>>

\* start_job finds or creates the job with the session's idempotency key (OnboardingJobs).
StartJob(r) ==
    /\ pc[r] = "starting"
    /\ Turn(r, "mark", "reading")
    /\ UNCHANGED <<rowVars, historyVars, seen, target, faults>>

\* mark_session_submitted
MarkSubmitted(r) ==
    /\ At(r, "mark", "writing")
    /\ submitted' = TRUE
    /\ draft' = seen[r]
    /\ End(r)
    /\ UNCHANGED <<account, site, website, link, historyVars, faults>>

-----------------------------------------------------------------------------
\* The row as create_session inserts it; its first code is sent by a request.
Init ==
    /\ account = NoCode /\ site = NoCode
    /\ website = NoWebsite /\ draft = EmptyDraft
    /\ link = FALSE
    /\ submitted = FALSE
    /\ issued = 0
    /\ uses = [account |-> 0, site |-> 0, link |-> 0]
    /\ guesses = [account |-> 0, site |-> 0]
    /\ proof = NoWebsite
    /\ op = [r \in Requests |-> "none"]
    /\ pc = [r \in Requests |-> "idle"]
    /\ seen = [r \in Requests |-> EmptyDraft]
    /\ target = [r \in Requests |-> NoWebsite]
    /\ faults = 0

Verify(r) ==
    \/ \E right \in BOOLEAN : VerifyAccount(r, right) \/ VerifySite(r, right)
    \/ RecordAccount(r) \/ RecordSite(r)

Step(r) ==
    \/ Begin(r) \/ Read(r) \/ Abandon(r)
    \/ StoreAccountCode(r) \/ StoreSiteCode(r)
    \/ SaveWebsite(r) \/ ContinueToSend(r) \/ SaveAnalysis(r) \/ UpdateSession(r) \/ WriteBack(r)
    \/ StoreLink(r) \/ UseLink(r) \/ SaveTelegramSetup(r)
    \/ Submit(r) \/ StartJob(r) \/ MarkSubmitted(r)

Next == (\E r \in Requests : Step(r) \/ Verify(r)) \/ Expire

Spec == Init /\ [][Next]_vars

-----------------------------------------------------------------------------
(* Properties *)

Addresses ==
    [verified : BOOLEAN, sent : BOOLEAN, open : BOOLEAN, failed : 0..MaxAttempts]

Drafts == [analysis : Websites \union {NoWebsite}, profile : BOOLEAN, telegram : BOOLEAN]

Operations == {"none", "send_account", "send_site", "save_website", "analyze", "update",
               "write_back", "prepare", "submit", "verify_account", "verify_site", "setup",
               "mark"}

Labels == {"idle", "reading", "writing", "recording", "resending", "submitting", "starting"}

\* Columns and local variables keep to their sets; failures are never counted past the limit.
SessionTypeOK ==
    /\ account \in Addresses /\ site \in Addresses
    /\ website \in Websites \union {NoWebsite}
    /\ draft \in Drafts
    /\ link \in BOOLEAN /\ submitted \in BOOLEAN
    /\ issued \in Nat
    /\ uses \in [{"account", "site", "link"} -> Nat]
    /\ guesses \in [{"account", "site"} -> Nat]
    /\ proof \in Websites \union {NoWebsite}
    /\ op \in [Requests -> Operations]
    /\ pc \in [Requests -> Labels]
    /\ seen \in [Requests -> Drafts]
    /\ target \in [Requests -> Websites \union {NoWebsite}]
    /\ faults \in 0..MaxFaults

\* A website other than the account's own is verified only by a code mailed to its address
\* (README.md: a second verification email proves "control of the business website/contact
\* domain"), however saves, resends and late codes overlap.
VerificationFresh ==
    site.verified => website \in OwnDomain \union {NoWebsite} \/ proof = website

\* A code or setup link is accepted once only, whatever is written to the row in between
\* (test_onboarding_verification_code_can_only_be_consumed_once_concurrently in tests/test_api.py).
CodesWorkOnce == \A k \in DOMAIN uses : uses[k] <= 1

\* The limit of attempts is kept up to the requests that check a code at the same time and
\* those that end before they are counted.
GuessesBounded ==
    \A k \in DOMAIN guesses :
        guesses[k] <= MaxAttempts - 1 + Cardinality(Requests) + faults

\* The row has a code, or a verification given by one, that went to another website's address.
Astray ==
    /\ site.open \/ site.verified
    /\ website \notin OwnDomain \union {NoWebsite} /\ proof # website

\* Request r stores a code for the website it has read, and the row has another by now.
StaleSend(r) ==
    At(r, "send_site", "writing") /\ pc'[r] # "writing" /\ target[r] # website

\* A code or verification is astray only by a send that began before the website was changed:
\* saving a website takes back the codes sent for the old one (save_session_website).
AstrayByOverlapOnly ==
    [][~Astray /\ Astray' => \E r \in Requests : StaleSend(r)]_vars

\* A step in which r writes the row after reading, or analysing, what has changed since.
OverlappedWrite(r) ==
    /\ pc[r] = "writing" /\ pc'[r] # "writing"
    /\ seen[r] # draft \/ (op[r] = "analyze" /\ target[r] # website)

SetupLost == draft.telegram /\ ~draft'.telegram

\* The bot that a one-time link has set up is lost to overlapping requests only.
SetupLostToOverlapOnly == [][SetupLost => \E r \in Requests : OverlappedWrite(r)]_vars

Foreign == draft.analysis \notin {NoWebsite, website}

\* The analysis of another website is in the draft only through overlapping requests: saving
\* a website takes the old one's analysis away.
ForeignByOverlapOnly ==
    [][~Foreign /\ Foreign' => \E r \in Requests : OverlappedWrite(r)]_vars
=============================================================================

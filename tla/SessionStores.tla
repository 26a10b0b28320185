---------------------------- MODULE SessionStores ----------------------------
(***************************************************************************)
(* One onboarding session in the two stores that implement                 *)
(* OnboardingRepository: MemoryOnboardingRepository, which the tests run   *)
(* on, and PostgresOnboardingRepository, which production runs on.         *)
(*                                                                         *)
(* Every call of the service is made on both.  The memory store keeps the  *)
(* session as the model object; a row keeps some of it in columns, the     *)
(* draft in session_payload and the category of the profile in a column    *)
(* of its own, and is turned back into the object when it is read.  Calls  *)
(* follow one another: overlapping ones are the subject of                 *)
(* OnboardingSessions.  Request fields given as null are left out.         *)
(***************************************************************************)
EXTENDS Naturals

CONSTANTS
    Categories,     \* natures of business a profile can name
    MaxTries        \* onboarding_email_verification_max_attempts

ASSUME StoresAssumption == MaxTries \in Nat \ {0} /\ "none" \notin Categories

VARIABLES
    memory,         \* the session in the memory store
    row,            \* its row of onboarding_sessions
    other           \* does a younger active session have the same website?

storesVars == <<memory, row, other>>

-----------------------------------------------------------------------------
(* Sessions, codes, and the row of a session. *)

Codes == {"account", "site"}

\* The hash, expiry and use of a code, the wrong codes entered, and what it has verified.
Unsent == [sent |-> FALSE, expires |-> "never", used |-> FALSE, tries |-> 0, verified |-> FALSE]

Fresh == [Unsent EXCEPT !.sent = TRUE, !.expires = "later"]

Pending(k) == IF k = "account" THEN "username_email_verification_pending"
                               ELSE "website_verification_pending"

Entry(k) == IF k = "account" THEN "username-email-verification"
                             ELSE "website-email-verification"

After(k) == IF k = "account" THEN "website" ELSE "analyzing"

NoDraft == [analysis |-> FALSE, profile |-> FALSE, category |-> "none"]

\* row_to_onboarding_session: the category comes from its column, and neither
\* marketing_consent_version nor marketing_consent_at is taken from the payload.
ReadRow(r) ==
    [status |-> r.status, step |-> r.step, website |-> r.website,
     account |-> r.account, site |-> r.site, link |-> r.link,
     draft |-> [r.payload.draft EXCEPT !.category = IF r.payload.draft.profile
                                                    THEN r.category ELSE "none"],
     telegram |-> r.payload.telegram, consent |-> FALSE,
     job |-> r.job, error |-> r.error]

\* session_payload of the object that was read.
Payload(s) == [draft |-> s.draft, telegram |-> s.telegram, consent |-> s.consent]

\* Variant: the category stays what the column has.
RewriteKeepsColumn(r, status, step, payload, error) ==
    [r EXCEPT !.status = status, !.step = step, !.error = error,
              !.payload = [payload EXCEPT !.draft.category = "none"]]

\* _update_session_payload: the category moves from the payload to its column, and the
\* error is that of the call, if it has one.
Rewrite(r, status, step, payload, error) ==
    [r EXCEPT !.status = status, !.step = step, !.error = error,
              !.category = IF payload.draft.profile THEN payload.draft.category ELSE "none",
              !.payload = [payload EXCEPT !.draft.category = "none"]]

-----------------------------------------------------------------------------
(* Codes *)

\* save_..._email_verification_token.
SaveCode(k) ==
    /\ k = "site" => memory.website
    /\ memory' = [memory EXCEPT ![k] = Fresh, !.status = Pending(k), !.step = Entry(k)]
    /\ row' = [row EXCEPT ![k] = Fresh, !.status = Pending(k), !.step = Entry(k),
                          !.payload = Payload(ReadRow(row))]
    /\ UNCHANGED other

\* Expiry passes for both stores.
ExpireCode(k) ==
    /\ memory[k].expires = "later" \/ row[k].expires = "later"
    /\ memory' = [memory EXCEPT ![k].expires = IF @ = "later" THEN "earlier" ELSE @]
    /\ row' = [row EXCEPT ![k].expires = IF @ = "later" THEN "earlier" ELSE @]
    /\ UNCHANGED other

\* The chain of early returns of the memory store.
MemoryAccepts(code) ==
    /\ code.expires # "never" /\ code.expires # "earlier"
    /\ ~code.used
    /\ code.tries < MaxTries
    /\ code.sent

\* The WHERE clause: a comparison with NULL is not true.
RowAccepts(code) ==
    code.sent /\ ~code.used /\ code.expires = "later" /\ code.tries < MaxTries

\* consume_..._email_verification_token of the right code.
Accepted(s, k) ==
    [s EXCEPT ![k].used = TRUE, ![k].verified = TRUE, !.status = "draft", !.step = After(k)]

\* record_..._email_verification_failure; the memory store counts up to the limit.
MemoryRefused(code) ==
    IF code.verified \/ code.expires # "later" \/ code.used THEN code
    ELSE [code EXCEPT !.tries = IF @ + 1 <= MaxTries THEN @ + 1 ELSE MaxTries]

\* The row stays as it is at the limit.
RowRefused(code) ==
    IF ~code.verified /\ ~code.used /\ code.expires = "later" /\ code.tries < MaxTries
    THEN [code EXCEPT !.tries = @ + 1] ELSE code

\* verify_username_email and verify_website_email; the answer tells an accepted code, and a
\* refused one from one too many, which inspect_... reads from the same columns.
EnterCode(k, right) ==
    LET mine == right /\ MemoryAccepts(memory[k])
        rows == right /\ RowAccepts(row[k])
    IN  /\ memory' = IF mine THEN Accepted(memory, k)
                     ELSE [memory EXCEPT ![k] = MemoryRefused(@)]
        /\ row' = IF rows THEN Accepted(row, k) ELSE [row EXCEPT ![k] = RowRefused(@)]
        /\ UNCHANGED other

-----------------------------------------------------------------------------
(* The sessions of one website *)

Holds(s) == s.website /\ s.status # "failed"

\* get_active_session_by_website_domain: the session that was created first, or last.
MemoryFinds == IF Holds(memory) THEN "this" ELSE IF other THEN "other" ELSE "none"

RowFinds == IF other THEN "other" ELSE IF Holds(ReadRow(row)) THEN "this" ELSE "none"

\* A second session gets the website while this one has failed or has not stored it yet,
\* and it fails in turn.
OtherChanges ==
    /\ other' = ~other
    /\ other \/ ~memory.website \/ memory.status = "failed"
    /\ UNCHANGED <<memory, row>>

-----------------------------------------------------------------------------
(* Website, analysis and draft *)

Website(s, present, verified, status, step) ==
    [s EXCEPT !.website = present, !.site = [Unsent EXCEPT !.verified = verified],
              !.status = status, !.step = step]

\* save_session_website: the payload is written without its draft, the column of the
\* category is not.  A website that another session has is refused first.
SaveSite(verified) ==
    LET status == IF verified THEN "draft" ELSE Pending("site")
        step == IF verified THEN "analyzing" ELSE Entry("site")
    IN  /\ memory.account.verified
        /\ RowFinds # "other"
        /\ memory' = [Website(memory, TRUE, verified, status, step) EXCEPT !.draft = NoDraft]
        /\ row' = [Website(row, TRUE, verified, status, step) EXCEPT
                      !.payload = [Payload(ReadRow(row)) EXCEPT !.draft = NoDraft]]
        /\ UNCHANGED other

\* clear_session_website.
ClearSite ==
    /\ memory.account.verified
    /\ memory' = [Website(memory, FALSE, FALSE, "draft", "analysis") EXCEPT !.draft = NoDraft]
    /\ row' = [Website(row, FALSE, FALSE, "draft", "analysis") EXCEPT
                  !.payload = [Payload(ReadRow(row)) EXCEPT !.draft = NoDraft]]
    /\ UNCHANGED other

\* A new profile keeps the category of the one there is; the model finds none.
Analysed(draft) ==
    [analysis |-> TRUE, profile |-> TRUE,
     category |-> IF draft.profile THEN draft.category ELSE "none"]

\* save_session_analysis.
SaveResult ==
    /\ memory.account.verified /\ memory.site.verified /\ memory.website
    /\ memory' = [memory EXCEPT !.status = "ready_for_review", !.step = "analysis",
                                !.draft = Analysed(@)]
    /\ row' = Rewrite(row, "ready_for_review", "analysis",
                      [Payload(ReadRow(row)) EXCEPT !.draft = Analysed(@)], FALSE)
    /\ UNCHANGED other

\* update_session: the owner goes to another step, or enters the profile.
EditStep(step) ==
    /\ memory' = [memory EXCEPT !.step = step]
    /\ row' = Rewrite(row, row.status, step, Payload(ReadRow(row)), FALSE)
    /\ UNCHANGED other

EditProfile(c) ==
    /\ memory' = [memory EXCEPT !.draft.profile = TRUE, !.draft.category = c]
    /\ row' = Rewrite(row, row.status, row.step,
                      [Payload(ReadRow(row)) EXCEPT !.draft.profile = TRUE,
                                                    !.draft.category = c], FALSE)
    /\ UNCHANGED other

\* save_provider_projects, which nothing else here depends on.
SaveProjects ==
    /\ row' = Rewrite(row, row.status, row.step, Payload(ReadRow(row)), FALSE)
    /\ UNCHANGED memory
    /\ UNCHANGED other

-----------------------------------------------------------------------------
(* Telegram and submission *)

Verified == memory.account.verified /\ (~memory.website \/ memory.site.verified)

\* save_telegram_setup_token; COALESCE leaves what is not given, used_at is cleared.
SaveLink ==
    /\ Verified
    /\ memory' = [memory EXCEPT !.link = Fresh, !.status = "awaiting_telegram_setup",
                                !.step = "telegram-setup"]
    /\ row' = [Rewrite(row, "awaiting_telegram_setup", "telegram-setup",
                       Payload(ReadRow(row)), FALSE) EXCEPT !.link = Fresh]
    /\ UNCHANGED other

ExpireLink ==
    /\ memory.link.expires = "later" \/ row.link.expires = "later"
    /\ memory' = [memory EXCEPT !.link.expires = IF @ = "later" THEN "earlier" ELSE @]
    /\ row' = [row EXCEPT !.link.expires = IF @ = "later" THEN "earlier" ELSE @]
    /\ UNCHANGED other

\* consume_telegram_setup_token, then save_telegram_setup if the link was accepted; the
\* columns of the codes are not those of a link, which has no tries.
UseSetupLink ==
    LET mine == MemoryAccepts(memory.link)
        rows == RowAccepts(row.link)
    IN  /\ memory' = IF mine THEN [memory EXCEPT !.link.used = TRUE, !.telegram = TRUE,
                                       !.status = "ready_to_submit", !.step = "submit"]
                     ELSE memory
        /\ row' = IF rows
                  THEN Rewrite([row EXCEPT !.link.used = TRUE], "ready_to_submit", "submit",
                               [Payload(ReadRow(row)) EXCEPT !.telegram = TRUE], FALSE)
                  ELSE row
        /\ UNCHANGED other

\* mark_session_submitted.
MarkSubmitted ==
    /\ Verified /\ memory.draft.category # "none"
    /\ memory' = [memory EXCEPT !.status = "submitted", !.step = "complete", !.job = TRUE,
                                !.error = FALSE]
    /\ row' = [Rewrite(row, "submitted", "complete", Payload(ReadRow(row)), FALSE)
                  EXCEPT !.job = TRUE]
    /\ UNCHANGED other

\* mark_session_failed, after a submission that was not valid.
MarkFailed ==
    /\ memory' = [memory EXCEPT !.status = "failed", !.error = TRUE]
    /\ row' = Rewrite(row, "failed", row.step, Payload(ReadRow(row)), TRUE)
    /\ UNCHANGED other

-----------------------------------------------------------------------------
(* Specification *)

\* create_session and the first code, which create_session of the service stores before it
\* answers; the owner has consented to marketing.
StoresInit ==
    /\ memory = [status |-> Pending("account"), step |-> Entry("account"),
                 website |-> FALSE, account |-> Fresh, site |-> Unsent, link |-> Unsent,
                 draft |-> NoDraft, telegram |-> FALSE, consent |-> TRUE,
                 job |-> FALSE, error |-> FALSE]
    /\ row = [status |-> Pending("account"), step |-> Entry("account"),
              website |-> FALSE, account |-> Fresh, site |-> Unsent, link |-> Unsent,
              category |-> "none", job |-> FALSE, error |-> FALSE,
              payload |-> [draft |-> NoDraft, telegram |-> FALSE, consent |-> FALSE]]
    /\ other = FALSE

StoresNext ==
    \/ \E k \in Codes : \/ SaveCode(k) \/ ExpireCode(k)
                        \/ \E right \in BOOLEAN : EnterCode(k, right)
    \/ \E verified \in BOOLEAN : SaveSite(verified)
    \/ ClearSite \/ SaveResult \/ EditStep("business") \/ SaveProjects
    \/ \E c \in Categories : EditProfile(c)
    \/ SaveLink \/ ExpireLink \/ UseSetupLink \/ MarkSubmitted \/ MarkFailed
    \/ OtherChanges

StoresSpec == StoresInit /\ [][StoresNext]_storesVars

-----------------------------------------------------------------------------
(* Properties *)

\* What the tests see of the memory store holds of the row: the same session is read from
\* both, its codes and links included, and a website is free in both or in neither.  Three
\* differences are known: a row has no marketing consent, it loses its error when it is
\* edited, and of two sessions with one website each store finds another one.
StoresAgree ==
    LET stored == ReadRow(row)
    IN  /\ [stored EXCEPT !.consent = memory.consent, !.error = memory.error] = memory
        /\ stored.error => memory.error
        /\ (MemoryFinds = "none") = (RowFinds = "none")
=============================================================================

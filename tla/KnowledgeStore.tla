--------------------------- MODULE KnowledgeStore ---------------------------
(***************************************************************************)
(* The knowledge of one tenant in PgVectorRetrievalStore.                  *)
(*                                                                         *)
(* The onboarding job stores the approved profile and the pages that were  *)
(* read when the website was analysed; a retry of the job stores them      *)
(* again.  Once the tenant answers customers, a question that its          *)
(* knowledge does not cover leads to a search of the website and to a      *)
(* background task that replaces what is stored of the page found.  All of *)
(* these write chunk by chunk, each statement a transaction of its own, in *)
(* rows that are keyed by the page's address and the chunk's index.        *)
(***************************************************************************)
EXTENDS Naturals, FiniteSets

CONSTANTS
    Pages,              \* addresses of the website's pages
    Home,               \* website_url of the approved profile
    Job,                \* the onboarding job
    Refreshes,          \* background tasks of the conversation graph
    Versions,           \* texts a page can have; 0 when the website was analysed
    MaxRuns,            \* bound on runs of the job
    MaxStoreFaults      \* bound on failures and crashes

ASSUME KnowledgeAssumption ==
    /\ Home \in Pages
    /\ {"profile", "runtime-web-search"} \cap Pages = {}     \* pages have URLs
    /\ Job \notin Refreshes
    /\ 0 \in Versions /\ Versions \subseteq Nat
    /\ {MaxRuns, MaxStoreFaults} \subseteq Nat

VARIABLES
    rows,               \* knowledge_documents of the tenant
    at,                 \* at[w]: the next statement of writer w
    page,               \* page[t]: the page that refresh t replaces
    incoming,           \* incoming[w]: the documents w stores
    unseen,             \* unseen[w]: those whose stored hash it has not read yet
    pending,            \* pending[w]: those it has still to write
    sources,            \* sources[w]: those it has still to clear of old chunks
    runs,               \* runs of the job so far
    storeFaults,        \* failures so far, at most MaxStoreFaults
    alone,              \* history: writers that no other writer has overlapped
    replaced,           \* history: what a refresh stored, if no writer began since
    onboarded,          \* history: the job's last run stored everything
    refreshed           \* history: pages whose refresh has begun

writerVars == <<at, page, incoming, unseen, pending, sources>>
knowledgeHistory == <<alone, replaced, onboarded, refreshed>>
knowledgeVars == <<rows, writerVars, runs, storeFaults, knowledgeHistory>>

Writers == Refreshes \union {Job}

Profile == "profile"

Runtime == "runtime-web-search"

\* chunk_text_with_metadata: a page alternates between two chunks and one.
Chunks(owner, v) == IF owner = Profile THEN {1} ELSE 1 .. 2 - (v % 2)

\* Chunk ids are made of the address; the text of a chunk is told by its version.
Document(owner, source, url, session, v) ==
    {[id |-> <<owner, i>>, source |-> source, url |-> url, session |-> session,
      version |-> v] : i \in Chunks(owner, v)}

\* onboarding_knowledge_documents, from the analysis in the payload of the job; the
\* profile has the address of the website, and each page a source of its own.
OnboardingDocuments ==
    Document(Profile, Profile, Home, TRUE, 0)
        \union UNION {Document(p, p, p, TRUE, 0) : p \in Pages}

\* runtime_web_search_documents: all pages have one source.
RuntimeDocuments(p, v) == Document(p, Runtime, p, FALSE, v)

Active == {w \in Writers : at[w] # "idle"}

StoreFault == storeFaults < MaxStoreFaults /\ storeFaults' = storeFaults + 1

\* Documents are lists: every writer takes them in one order, whichever it is.
First(S) == CHOOSE d \in S : TRUE

Step(w, label) == at' = [at EXCEPT ![w] = label]

-----------------------------------------------------------------------------
(* The writers. *)

Begin(w, documents) ==
    /\ at[w] = "idle"
    /\ Step(w, "deleting")
    /\ incoming' = [incoming EXCEPT ![w] = documents]
    /\ unseen' = [unseen EXCEPT ![w] = documents]
    /\ alone' = IF Active = {} THEN {w} ELSE {}
    /\ replaced' = {}

\* create_initial_knowledge_documents, in a first run of the job or in a retry.
BeginJob ==
    /\ runs < MaxRuns
    /\ runs' = runs + 1
    /\ Begin(Job, OnboardingDocuments)
    /\ onboarded' = FALSE
    /\ UNCHANGED <<rows, page, pending, sources, storeFaults, refreshed>>

\* refresh_runtime_web_search_knowledge for one accepted source, after an answer was
\* generated from it; the owner may have edited the page since it was analysed.
BeginRefresh(t, p) ==
    /\ \E v \in Versions : Begin(t, RuntimeDocuments(p, v))
    /\ page' = [page EXCEPT ![t] = p]
    /\ refreshed' = refreshed \union {p}
    /\ UNCHANGED <<rows, pending, sources, runs, storeFaults, onboarded>>

\* delete_by_metadata on onboarding_session_id.
DeleteSession ==
    /\ at[Job] = "deleting"
    /\ rows' = {r \in rows : ~r.session}
    /\ Step(Job, "comparing")
    /\ UNCHANGED <<page, incoming, unseen, pending, sources, runs, storeFaults,
                   knowledgeHistory>>

\* Variant: the refresh relies on the removal of old chunks by their source.
DeleteNothing(t) ==
    /\ at[t] = "deleting"
    /\ Step(t, "comparing")
    /\ UNCHANGED <<rows, page, incoming, unseen, pending, sources, runs, storeFaults,
                   knowledgeHistory>>

\* delete_by_source_url takes every row with that address, the profile's as well.
DeleteUrl(t) ==
    /\ at[t] = "deleting"
    /\ rows' = {r \in rows : r.url # page[t]}
    /\ Step(t, "comparing")
    /\ UNCHANGED <<page, incoming, unseen, pending, sources, runs, storeFaults,
                   knowledgeHistory>>

\* SELECT content_hash: a row with the same text is left alone, whatever its source.
Compare(w) ==
    /\ at[w] = "comparing" /\ unseen[w] # {}
    /\ LET d == First(unseen[w])
       IN  /\ unseen' = [unseen EXCEPT ![w] = @ \ {d}]
           /\ pending' = IF \E r \in rows : r.id = d.id /\ r.version = d.version
                         THEN pending ELSE [pending EXCEPT ![w] = @ \union {d}]
    /\ UNCHANGED <<rows, at, page, incoming, sources, runs, storeFaults,
                   knowledgeHistory>>

\* embed_documents; with nothing to embed the store goes on to the old chunks.
Embed(w) ==
    /\ at[w] = "comparing" /\ unseen[w] = {}
    /\ Step(w, "writing")
    /\ UNCHANGED <<rows, page, incoming, unseen, pending, sources, runs, storeFaults,
                   knowledgeHistory>>

\* INSERT ... ON CONFLICT (tenant_id, chunk_id) DO UPDATE.
Write(w) ==
    /\ at[w] = "writing" /\ pending[w] # {}
    /\ LET d == First(pending[w])
       IN  /\ rows' = {r \in rows : r.id # d.id} \union {d}
           /\ pending' = [pending EXCEPT ![w] = @ \ {d}]
    /\ UNCHANGED <<at, page, incoming, unseen, sources, runs, storeFaults,
                   knowledgeHistory>>

Written(w) ==
    /\ at[w] = "writing" /\ pending[w] = {}
    /\ sources' = [sources EXCEPT ![w] = {d.source : d \in incoming[w]}]
    /\ Step(w, "pruning")
    /\ UNCHANGED <<rows, page, incoming, unseen, pending, runs, storeFaults,
                   knowledgeHistory>>

Ids(w, source) == {d.id : d \in {e \in incoming[w] : e.source = source}}

\* Variant: DELETE of the other chunks of the tenant, whatever their source.
RemoveFromAll(w, source) == {r \in rows : r.id \in Ids(w, source)}

\* Rows of the source that are not among the incoming ones are removed.
Remove(w, source) == {r \in rows : r.source = source => r.id \in Ids(w, source)}

\* _delete_removed_chunks, one statement for each source.
Prune(w) ==
    /\ at[w] = "pruning" /\ sources[w] # {}
    /\ LET s == First(sources[w])
       IN  /\ rows' = Remove(w, s)
           /\ sources' = [sources EXCEPT ![w] = @ \ {s}]
    /\ UNCHANGED <<at, page, incoming, unseen, pending, runs, storeFaults,
                   knowledgeHistory>>

Leave(w) ==
    /\ Step(w, "idle")
    /\ incoming' = [incoming EXCEPT ![w] = {}]
    /\ unseen' = [unseen EXCEPT ![w] = {}]
    /\ pending' = [pending EXCEPT ![w] = {}]
    /\ sources' = [sources EXCEPT ![w] = {}]
    /\ page' = IF w = Job THEN page ELSE [page EXCEPT ![w] = Home]
    /\ alone' = alone \ {w}

Finish(w) ==
    /\ at[w] = "pruning" /\ sources[w] = {}
    /\ Leave(w)
    /\ replaced' = IF w \in alone /\ w # Job THEN incoming[w] ELSE {}
    /\ onboarded' = (onboarded \/ w = Job)
    /\ UNCHANGED <<rows, runs, storeFaults, refreshed>>

\* The embeddings or a statement fail, or the process ends: the job is left to a retry,
\* a refresh is logged and forgotten.
Abandon(w) ==
    /\ w \in Active
    /\ StoreFault
    /\ Leave(w)
    /\ UNCHANGED <<rows, runs, replaced, onboarded, refreshed>>

-----------------------------------------------------------------------------
(* Specification *)

KnowledgeInit ==
    /\ rows = {}
    /\ at = [w \in Writers |-> "idle"]
    /\ page = [t \in Refreshes |-> Home]
    /\ incoming = [w \in Writers |-> {}]
    /\ unseen = [w \in Writers |-> {}]
    /\ pending = [w \in Writers |-> {}]
    /\ sources = [w \in Writers |-> {}]
    /\ runs = 0
    /\ storeFaults = 0
    /\ alone = {}
    /\ replaced = {}
    /\ onboarded = FALSE
    /\ refreshed = {}

KnowledgeNext ==
    \/ BeginJob \/ DeleteSession
    \/ \E t \in Refreshes : DeleteUrl(t) \/ \E p \in Pages : BeginRefresh(t, p)
    \/ \E w \in Writers : \/ Compare(w) \/ Embed(w) \/ Write(w) \/ Written(w) \/ Prune(w)
                          \/ Finish(w) \/ Abandon(w)

KnowledgeSpec == KnowledgeInit /\ [][KnowledgeNext]_knowledgeVars

-----------------------------------------------------------------------------
(* Properties *)

\* A refresh that no other writer overlaps leaves of its page exactly the text it found:
\* no chunk of an older and longer version, whoever had stored it, is left to be
\* retrieved beside it.
RefreshReplacesPage ==
    \A d \in replaced :
        {r \in rows : r.id[1] = d.id[1]} = {e \in replaced : e.id[1] = d.id[1]}

\* What the onboarding job stored of the profile and of the pages stays retrievable
\* through retries, failures and refreshes, as long as that very address has not been
\* refreshed at run time.
OnboardedKnowledgeStays ==
    onboarded => \A d \in OnboardingDocuments : d.url \notin refreshed => d \in rows
=============================================================================

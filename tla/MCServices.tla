----------------------------- MODULE MCServices -----------------------------
(***************************************************************************)
(* Four components that share no state, checked in one run: a behaviour is *)
(* one of `part`, and the variables of the others keep their initial       *)
(* values.  The fairness of a component is that of its own behaviours.     *)
(***************************************************************************)
EXTENDS TenantConfigs, KnowledgeStore, TelegramTurns, SessionStores, TLC

VARIABLE part

Parts == {"configs", "knowledge", "telegram", "stores"}

vars == <<part, configVars, knowledgeVars, telegramVars, storesVars>>

Init ==
    /\ part \in Parts
    /\ ConfigInit /\ KnowledgeInit /\ TelegramInit /\ StoresInit

Configuring ==
    /\ part = "configs" /\ ConfigNext
    /\ UNCHANGED <<part, knowledgeVars, telegramVars, storesVars>>

Learning ==
    /\ part = "knowledge" /\ KnowledgeNext
    /\ UNCHANGED <<part, configVars, telegramVars, storesVars>>

Answering ==
    /\ part = "telegram" /\ TelegramNext
    /\ UNCHANGED <<part, configVars, knowledgeVars, storesVars>>

Storing ==
    /\ part = "stores" /\ StoresNext
    /\ UNCHANGED <<part, configVars, knowledgeVars, telegramVars>>

Next == Configuring \/ Learning \/ Answering \/ Storing

\* ConfigFairness and TelegramFairness.
Fairness ==
    /\ WF_configVars(part = "configs" /\ Expire)
    /\ \A r \in Readers : WF_configVars(part = "configs" /\ Serve(r))
    /\ \A u \in Updates : WF_configVars(part = "configs" /\ Update(u))
    /\ WF_telegramVars(part = "telegram" /\ ProvisionTelegram)
    /\ \A h \in Handlers : WF_telegramVars(part = "telegram" /\ Handle(h))
    /\ \A m \in Messages :
           SF_telegramVars(part = "telegram" /\ \E h \in Handlers : Post(h, m))

Spec == Init /\ [][Next]_vars /\ Fairness
=============================================================================

-------------------------- MODULE MCOnboardingJobs --------------------------
(* OnboardingJobs on small instances: a WhatsApp and a Telegram job that want one slug. *)
EXTENDS OnboardingJobs, TLC

CONSTANTS w1, t1, s1, r1, r2

MCJobs == {w1, t1}
MCWhatsAppJobs == {w1}
MCTelegramJobs == {t1}
MCNoJobs == {}
MCSlugs == {s1}
MCSlugOf == (w1 :> s1) @@ (t1 :> s1)
MCTelegramSlugOf == (t1 :> s1)
MCTwoRuns == {r1, r2}
MCOneRun == {r1}

Symmetry == Permutations(Runs)
=============================================================================

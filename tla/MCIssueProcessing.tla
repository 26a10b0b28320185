-------------------------- MODULE MCIssueProcessing --------------------------
(* IssueProcessing on small instances. *)
EXTENDS IssueProcessing, TLC

CONSTANTS e1, e2, w1, w2

MCTwoEvents == {e1, e2}
MCOneWorker == {w1}
MCTwoWorkers == {w1, w2}

Symmetry == Permutations(Events) \union Permutations(Workers)
=============================================================================

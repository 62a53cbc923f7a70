--------------------------- MODULE MCReconcile ---------------------------
(* Instances of Reconcile for TLC. *)
EXTENDS ReconcileInv

CR(standalone, codesearch, executor, valid) ==
    [standalone |-> standalone, codesearch |-> codesearch,
     executor |-> executor, valid |-> valid]

FullCR       == CR(FALSE, TRUE, TRUE, TRUE)
LeanCR       == CR(FALSE, FALSE, FALSE, TRUE)
StandaloneCR == CR(TRUE, FALSE, TRUE, TRUE)
InvalidCR    == CR(FALSE, TRUE, TRUE, FALSE)

AllCRs      == {FullCR, LeanCR, StandaloneCR, InvalidCR}
OneCR       == {FullCR}

NoUpgrades  == {}
AllUpgrades == {{"Config"}, Workloads}

SlowBase    == {"MariaDB", "Zookeeper", "Web"}
SlowZuul    == {"Web"}
FewFragile  == {"Web", "tls", "zuul"}
AnyFragile  == Workloads \cup Secrets

RealRuns    == {FALSE}
AnyRuns     == {FALSE, TRUE}
==========================================================================
